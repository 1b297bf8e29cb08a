------------------------------ MODULE Watchdog ------------------------------
(***************************************************************************)
(* What the gateway says of an instance's credential: Watchdog of          *)
(* internal/outbound/watchdog.go, for one slug.  Its credential is a token *)
(* that the owner rotates and Meta refuses from some moment on.            *)
(*                                                                         *)
(* One goroutine checks; the verdict stays in memory and is read by any    *)
(* request.  (`zapgw state` is a process with a memory of its own: a       *)
(* server that has just started and checks once.)  What a check learns of  *)
(* the number is the module NumberAtMeta.                                  *)
(***************************************************************************)
EXTENDS Integers

CONSTANTS
  Validity,    \* verdictValidity: 3 * watchdogInterval
  Deadline,    \* InstanceDeadline: of the two calls of one check
  MaxNow,      \* bound: last instant of the clock
  MaxTokens    \* bound: credentials the slug has had

WatchdogAssumption ==
  /\ Validity \in Nat /\ Deadline \in Nat
  /\ MaxNow \in Nat /\ MaxTokens \in Nat \ {0}

VARIABLES
  now,
  instance,    \* the row of the slug: is it there, active, and its token
  refused,     \* the tokens Meta refuses
  fields,      \* does Meta know the fields the watchdog asks for?
  m,           \* measurements[slug]
  check,       \* checkOne
  last         \* the last instants at which something was so

vars == <<now, instance, refused, fields, m, check, last>>

Credentials == 1..MaxTokens

(* An instant nothing of which is recent any more. *)
Never == -(Validity + Deadline + 1)

Idle == [pc |-> "idle"]
NoMeasurement == [verdict |-> "unknown", measuredAt |-> Never, failingSince |-> Never]

(* What is so at an instant, beside the last time each other thing was. *)
Noted(l, at, inst, ref, flds) ==
  [held   |-> [t \in Credentials |-> IF inst.there /\ inst.token = t THEN at ELSE l.held[t]],
   good   |-> [t \in Credentials |-> IF t \notin ref THEN at ELSE l.good[t]],
   bad    |-> [t \in Credentials |-> IF t \in ref THEN at ELSE l.bad[t]],
   fields |-> IF flds THEN l.fields ELSE at]

NothingNoted ==
  LET never == [t \in Credentials |-> Never]
  IN [held |-> never, good |-> never, bad |-> never, fields |-> Never]

Init ==
  /\ now = 0
  /\ instance = [there |-> TRUE, active |-> TRUE, token |-> 1]
  /\ refused = {} /\ fields = TRUE
  /\ m = NoMeasurement /\ check = Idle
  /\ last = Noted(NothingNoted, now, instance, refused, fields)

---------------------------------------------------------------------------
(* One check.                                                              *)

Measured(verdict) == [verdict |-> verdict, measuredAt |-> now, failingSince |-> Never]

(* Mutant: an attempt without a verdict renews the age of the last one. *)
Record_FailureRenews(outcome) ==
  m' = IF outcome = "unknown" THEN [m EXCEPT !.measuredAt = now] ELSE Measured(outcome)

(* Watchdog.record: only a definitive outcome is a verdict.  An attempt    *)
(* without one leaves what was known, which ages, and the first of a run   *)
(* of them is remembered.                                                  *)
Record(outcome) ==
  m' = IF outcome # "unknown" THEN Measured(outcome)
       ELSE IF m.failingSince = Never THEN [m EXCEPT !.failingSince = now] ELSE m

(* Check begins with what is active. *)
Check ==
  /\ check = Idle /\ instance.there /\ instance.active
  /\ check' = [pc |-> "find"]
  /\ UNCHANGED <<now, instance, refused, fields, m, last>>

(* FindInstance.  An instance that is gone, or cannot be read, is an       *)
(* attempt without a verdict.                                              *)
FindInstance ==
  /\ check.pc = "find"
  /\ \/ /\ instance.there
        /\ check' = [pc |-> "observe", token |-> instance.token, since |-> now, answer |-> "none"]
        /\ UNCHANGED m
     \/ check' = Idle /\ Record("unknown")
  /\ UNCHANGED <<now, instance, refused, fields, last>>

(* Meta answers a call: ObserveNumber names fields, CheckCredential none. *)
MetaAnswers ==
  /\ check.pc \in {"observe", "confirm"} /\ check.answer = "none"
  /\ check' = [check EXCEPT !.answer =
       IF check.token \notin refused /\ (check.pc = "confirm" \/ fields) THEN "ok" ELSE "refused"]
  /\ UNCHANGED <<now, instance, refused, fields, m, last>>

(* A call may fail whatever Meta did. *)
Outcome == {"unknown"} \cup ({check.answer} \ {"none"})

(* ObserveNumber returns.  A refusal asks again without the fields.        *)
Observed ==
  /\ check.pc = "observe"
  /\ \E outcome \in Outcome :
       IF outcome = "refused"
       THEN check' = [check EXCEPT !.pc = "confirm", !.answer = "none"] /\ UNCHANGED m
       ELSE check' = Idle /\ Record(outcome)
  /\ UNCHANGED <<now, instance, refused, fields, last>>

(* CheckCredential: an acceptance takes the refusal back, anything else    *)
(* leaves it.                                                              *)
Confirmation(clean) == IF clean = "ok" THEN "ok" ELSE "refused"

Confirmed ==
  /\ check.pc = "confirm"
  /\ \E clean \in Outcome : Record(Confirmation(clean))
  /\ check' = Idle
  /\ UNCHANGED <<now, instance, refused, fields, last>>

---------------------------------------------------------------------------
(* The owner, Meta, the clock, the process.                                *)

(* The instance is paused or resumed, removed, or has its token rotated;   *)
(* created again, it is paused and has another token.                      *)
Administered(inst) ==
  \/ instance.there /\ inst = [instance EXCEPT !.active = ~@]
  \/ instance.there /\ ~instance.active /\ inst = [instance EXCEPT !.there = FALSE]
  \/ inst = [there |-> TRUE, active |-> instance.active, token |-> instance.token + 1]

Administer(inst) ==
  /\ Administered(inst)
  /\ instance' = inst
  /\ last' = Noted(last, now, inst, refused, fields)
  /\ UNCHANGED <<now, refused, fields, m, check>>

(* Meta refuses a token, or retires a field. *)
MetaChanges ==
  /\ \/ \E t \in Credentials \ refused : refused' = refused \cup {t} /\ UNCHANGED fields
     \/ fields /\ fields' = FALSE /\ UNCHANGED refused
  /\ last' = Noted(last, now, instance, refused', fields')
  /\ UNCHANGED <<now, instance, m, check>>

(* The calls of one check take no longer than the deadline. *)
Tick ==
  /\ now < MaxNow
  /\ check.pc # "find"
  /\ check.pc \in {"observe", "confirm"} => now < check.since + Deadline
  /\ now' = now + 1
  /\ last' = Noted(last, now', instance, refused, fields)
  /\ UNCHANGED <<instance, refused, fields, m, check>>

(* The server stops and starts. *)
Restart ==
  /\ m' = NoMeasurement /\ check' = Idle
  /\ UNCHANGED <<now, instance, refused, fields, last>>

Next ==
  \/ Check \/ FindInstance \/ MetaAnswers \/ Observed \/ Confirmed
  \/ \E there, active \in BOOLEAN, t \in Credentials :
       Administer([there |-> there, active |-> active, token |-> t])
  \/ MetaChanges \/ Tick \/ Restart

Spec == Init /\ [][Next]_vars

---------------------------------------------------------------------------
(* Properties.                                                             *)

(* Watchdog.Read: a verdict too old is none. *)
Read == IF now - m.measuredAt <= Validity THEN m.verdict ELSE "unknown"

Recent(instant) == now - instant <= Validity + Deadline

(***************************************************************************)
(* "The verdict describes NOW" (Watchdog.Read): what is shown was so of a  *)
(* token the instance had, at instants no older than the validity and one  *)
(* check, whatever failed, was paused, rotated or removed in between, and  *)
(* a run of failures is dated after the last verdict.  A refusal may be    *)
(* that of the fields alone: see RefusedIsRefused.                         *)
(***************************************************************************)
VerdictDescribesNow ==
  /\ Read = "ok" => \E t \in Credentials : Recent(last.held[t]) /\ Recent(last.good[t])
  /\ Read = "refused" => \E t \in Credentials :
       Recent(last.held[t]) /\ (Recent(last.bad[t]) \/ Recent(last.fields))
  /\ m.failingSince # Never => m.measuredAt <= m.failingSince

(***************************************************************************)
(* "THE GUARD THAT PAYS FOR THE DESIGN: `recusado` NEVER comes out of a    *)
(* call that used `fields=`" (watchdog.go:288): a verdict of refused is    *)
(* about a token Meta refused.                                             *)
(***************************************************************************)
RefusedIsRefused ==
  Read = "refused" => \E t \in Credentials : Recent(last.held[t]) /\ Recent(last.bad[t])
=============================================================================
