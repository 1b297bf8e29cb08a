---------------------------- MODULE NumberAtMeta ----------------------------
(***************************************************************************)
(* What the gateway knows of a number at Meta: the row of a slug in table  *)
(* numero_na_meta (internal/config/number.go), which the check of the      *)
(* server, that of `zapgw state` and the webhook that announces a new      *)
(* limit write without knowing of one another.                             *)
(*                                                                         *)
(* The limit is modelled; quality has the same columns and one source less.*)
(***************************************************************************)
EXTENDS Integers

CONSTANTS
  Deadline,    \* InstanceDeadline: of the calls of one check
  MaxNow,      \* bound: last instant of the clock
  MaxLimit,    \* bound: values the limit takes at Meta
  MaxUpdates   \* bound: checks and webhooks begun

NumberAssumption ==
  /\ Deadline \in Nat
  /\ MaxNow \in Nat /\ MaxUpdates \in Nat /\ MaxLimit \in Nat \ {0}

VARIABLES
  now,
  limit,     \* the number's limit at Meta
  there,     \* does the instance exist?
  writer,    \* what each writer is doing
  row,       \* the row of numero_na_meta
  written,   \* the updates applied since the row was last deleted
  seen,      \* the last instant at which the limit had each value
  updates

vars == <<now, limit, there, writer, row, written, seen, updates>>

Checks == {"server", "command"}
Writers == Checks \cup {"webhook"}
Limits == 1..MaxLimit

(* The empty column sorts before any stamp. *)
NoStamp == -1
NoRow == [value |-> 0, at |-> NoStamp, source |-> "none", checkedAt |-> NoStamp]

Idle == [pc |-> "idle"]

Init ==
  /\ now = 0 /\ updates = 0
  /\ limit = 1 /\ there = TRUE
  /\ writer = [w \in Writers |-> Idle]
  /\ row = NoRow /\ written = {}
  /\ seen = [v \in Limits |-> IF v = 1 THEN 0 ELSE NoStamp]

At(w, pc) == writer[w].pc = pc
Then(w, task) == writer' = [writer EXCEPT ![w] = task]

---------------------------------------------------------------------------
(* The sources.                                                            *)

Begin(w, task) ==
  /\ At(w, "idle") /\ there
  /\ updates < MaxUpdates /\ updates' = updates + 1
  /\ Then(w, task)
  /\ UNCHANGED <<now, limit, there, row, written, seen>>

(* checkOne has found the instance and asks Meta. *)
ObserveNumber(w) == Begin(w, [pc |-> "observe", since |-> now])

(* Meta's answer as it comes: with the limit, or without, which an attempt *)
(* that failed is as well.                                                 *)
MetaAnswers(w) ==
  /\ At(w, "observe")
  /\ \E v \in {0, limit} : Then(w, [pc |-> "answered", since |-> writer[w].since, value |-> v])
  /\ UNCHANGED <<now, limit, there, row, written, seen, updates>>

(* The end of checkOne: every attempt is recorded, and stamped before the  *)
(* observer's mutex and the database are waited for.                       *)
RecordMeasurement(w) ==
  /\ At(w, "answered")
  /\ Then(w, [pc |-> "write", source |-> "medicao", value |-> writer[w].value, when |-> now])
  /\ UNCHANGED <<now, limit, there, row, written, seen, updates>>

(* phone_number_quality_update: a limit Meta has, or had when it first     *)
(* sent the event.                                                         *)
recordNumberLimit(v) ==
  /\ v <= limit
  /\ Begin("webhook", [pc |-> "write", source |-> "webhook", value |-> v, when |-> now])

---------------------------------------------------------------------------
(* The row.                                                                *)

(* Mutant: the last writer wins. *)
Newer_LastWriter(stamp, stored) == TRUE

Newer(stamp, stored) == stamp >= stored

(* UpdateNumberAtMeta: one UPSERT, which decides for each column.          *)
Merged(r, u) ==
  LET valued == u.value # 0 /\ Newer(u.when, r.at)
      checked == u.source = "medicao" /\ Newer(u.when, r.checkedAt)
  IN [value     |-> IF valued THEN u.value ELSE r.value,
      at        |-> IF valued THEN u.when ELSE r.at,
      source    |-> IF valued THEN u.source ELSE r.source,
      checkedAt |-> IF checked THEN u.when ELSE r.checkedAt]

(* NumberObserver.Record: a write that fails is only logged.  It does not  *)
(* ask whether the instance is still there.                                *)
UpdateNumberAtMeta(w) ==
  /\ At(w, "write")
  /\ Then(w, Idle)
  /\ \/ row' = Merged(row, writer[w]) /\ written' = written \cup {writer[w]}
     \/ UNCHANGED <<row, written>>
  /\ UNCHANGED <<now, limit, there, seen, updates>>

(* RemoveInstance takes the row along; the slug may be created again.      *)
RemoveInstance ==
  /\ there /\ there' = FALSE
  /\ row' = NoRow /\ written' = {}
  /\ UNCHANGED <<now, limit, writer, seen, updates>>

CreateInstance ==
  /\ ~there /\ there' = TRUE
  /\ UNCHANGED <<now, limit, writer, row, written, seen, updates>>

---------------------------------------------------------------------------
(* Meta and the clock.                                                     *)

RaiseLimit ==
  /\ limit < MaxLimit /\ limit' = limit + 1
  /\ seen' = [seen EXCEPT ![limit'] = now]
  /\ UNCHANGED <<now, there, writer, row, written, updates>>

(* A check ends by its deadline. *)
Tick ==
  /\ now < MaxNow
  /\ \A w \in Checks : writer[w].pc \in {"observe", "answered"} => now < writer[w].since + Deadline
  /\ now' = now + 1
  /\ seen' = [seen EXCEPT ![limit] = now']
  /\ UNCHANGED <<limit, there, writer, row, written, updates>>

Next ==
  \/ \E w \in Checks : ObserveNumber(w) \/ MetaAnswers(w) \/ RecordMeasurement(w)
  \/ \E v \in Limits : recordNumberLimit(v)
  \/ \E w \in Writers : UpdateNumberAtMeta(w)
  \/ RemoveInstance \/ CreateInstance
  \/ RaiseLimit \/ Tick

Spec == Init /\ [][Next]_vars

---------------------------------------------------------------------------
Valued == {u \in written : u.value # 0}
Measured == {u \in written : u.source = "medicao"}

(***************************************************************************)
(* "The MOST RECENT observation wins, whatever the source" (number.go:25): *)
(* however two processes and a webhook interleave their stamps and their   *)
(* writes, the row is the update with the latest stamp; only measurements  *)
(* move the time of the last check; and a limit that was measured was the  *)
(* one at Meta no longer than one check before its stamp.                  *)
(***************************************************************************)
NewestObservationStays ==
  /\ \A u \in Valued : u.when <= row.at
  /\ IF row.value = 0 THEN Valued = {}
     ELSE \E u \in Valued : u.when = row.at /\ u.value = row.value /\ u.source = row.source
  /\ \A u \in Measured : u.when <= row.checkedAt
  /\ row.checkedAt # NoStamp => \E u \in Measured : u.when = row.checkedAt
  /\ row.source = "medicao" => row.at - seen[row.value] <= Deadline
=============================================================================
