------------------------------ MODULE Failover ------------------------------
(***************************************************************************)
(* The active-passive pair: the leadership guard in front of the send      *)
(* (Leadership.Require, internal/outbound/leadership.go), and the          *)
(* post-mortem `zapgw lost` (config.CompareFailover) that says which sends *)
(* a failover put at risk.                                                 *)
(*                                                                         *)
(* The gateway knows one file: it may act while the file is young.  Around *)
(* it, and external to it, a supervisor holds a lease with a time to live, *)
(* touches the file while it holds it, ships the leader's database to a    *)
(* replica and, on taking over, restores the replica.  The guard runs as a *)
(* request arrives; the reservation and the send come after the body was   *)
(* read, for which the server sets no time limit.                          *)
(***************************************************************************)
EXTENDS Naturals, FiniteSets

CONSTANTS
  Nodes,      \* the machines of the pair
  Handlers,   \* goroutines a request may be served by
  Keys,       \* (consumer, Idempotency-Key) pairs
  Nobody,     \* the holder of a lease nobody has had yet
  Validity,   \* ZAPGW_LEADERSHIP_VALIDITY: the greatest age of the file
  LeaseTTL,   \* time to live of the supervisor's lease
  MaxNow,       \* bound: last instant of the clock
  MaxTakeovers  \* bound: times the lease changes hands, the first one included

(* leadership.go asks for V + A < T; a file is no proof unless V < T. *)
FailoverAssumption ==
  /\ Validity \in Nat \ {0} /\ LeaseTTL \in Nat /\ Validity < LeaseTTL
  /\ MaxNow \in Nat /\ MaxTakeovers \in Nat
  /\ Nobody \notin Nodes

VARIABLES
  now,
  lease,      \* who holds the lease, and until when
  file,       \* the lease file of each machine: is it there, and its mtime
  db,         \* the table idempotencia of each machine
  replica,    \* the table as the replica holds it
  restored,   \* history: the table as it was restored at each takeover
  term,       \* history: the takeover the database of each machine stems from
  fallen,     \* the holder before this one
  task,       \* what each handler is doing, on which machine
  messages,   \* the messages Meta created, out of which database
  takeovers

vars == <<now, lease, file, db, replica, restored, term, fallen, task, messages, takeovers>>
pair == <<lease, file, replica, restored, term, fallen, takeovers>>

(* A row without an id is a reservation that was never confirmed. *)
Row == [key : Keys, id : Nat]

Idle == [pc |-> "idle"]

Task == {Idle} \cup [pc : {"reserve", "call", "confirm", "release"},
                     node : Nodes, key : Keys, id : Nat]

TypeOK ==
  /\ now \in Nat /\ takeovers \in 0..MaxTakeovers
  /\ lease \in [holder : Nodes \cup {Nobody}, until : Nat]
  /\ file \in [Nodes -> [there : BOOLEAN, mtime : 0..now]]
  /\ db \in [Nodes -> SUBSET Row]
  /\ replica \subseteq Row /\ restored \in [0..MaxTakeovers -> SUBSET Row]
  /\ term \in [Nodes -> 0..takeovers]
  /\ fallen \in Nodes \cup {Nobody}
  /\ task \in [Handlers -> Task]
  /\ messages \subseteq [id : Nat, key : Keys, node : Nodes, term : 1..takeovers]

Init ==
  /\ now = 0 /\ takeovers = 0
  /\ lease = [holder |-> Nobody, until |-> 0] /\ fallen = Nobody
  /\ file = [n \in Nodes |-> [there |-> FALSE, mtime |-> 0]]
  /\ db = [n \in Nodes |-> {}] /\ replica = {}
  /\ restored = [t \in 0..MaxTakeovers |-> {}] /\ term = [n \in Nodes |-> 0]
  /\ task = [h \in Handlers |-> Idle]
  /\ messages = {}

At(h, pc) == task[h].pc = pc
GoTo(h, pc) == task' = [task EXCEPT ![h].pc = pc]
Answer(h) == task' = [task EXCEPT ![h] = Idle]

---------------------------------------------------------------------------
(* The guard and the send.                                                 *)

(* Leadership.Holder: absent, unreadable and too old all refuse. *)
Holder(n) == file[n].there /\ now - file[n].mtime <= Validity

(* Leadership.Require lets a request in; what it refuses gets a 503. *)
Require(h, n, k) ==
  /\ At(h, "idle") /\ Holder(n)
  /\ task' = [task EXCEPT ![h] = [pc |-> "reserve", node |-> n, key |-> k, id |-> 0]]
  /\ UNCHANGED <<now, pair, db, messages>>

Reserved(n, k) == \E r \in db[n] : r.key = k

(* Mutant: a reservation without an id does not count as one. *)
ReserveIdempotency_OpenIsFree(h) ==
  LET n == task[h].node k == task[h].key IN
  /\ At(h, "reserve")
  /\ IF \E r \in db[n] : r.key = k /\ r.id # 0
     THEN Answer(h) /\ UNCHANGED db
     ELSE GoTo(h, "call") /\ db' = [db EXCEPT ![n] = @ \cup {[key |-> k, id |-> 0]}]
  /\ UNCHANGED <<now, pair, messages>>

(* The row is committed before the call; a row that is there ends it. *)
ReserveIdempotency(h) ==
  LET n == task[h].node k == task[h].key IN
  /\ At(h, "reserve")
  /\ IF Reserved(n, k)
     THEN Answer(h) /\ UNCHANGED db
     ELSE GoTo(h, "call") /\ db' = [db EXCEPT ![n] = @ \cup {[key |-> k, id |-> 0]}]
  /\ UNCHANGED <<now, pair, messages>>

(* Mutant: an unknown outcome gives the key back. *)
AfterSilence_Release == "release"

(* The outcome is unknown: the key stays reserved. *)
AfterSilence == "idle"

Created(h, id) ==
  messages' = messages \cup {[id |-> id, key |-> task[h].key, node |-> task[h].node,
                              term |-> term[task[h].node]]}

(* Meta creates the message and says so, creates it or not in silence, or  *)
(* refuses (a 5xx is taken at its word: OutboundSend has the other case).  *)
SendMessage(h) ==
  LET id == Cardinality(messages) + 1 IN
  /\ At(h, "call")
  /\ \/ /\ Created(h, id)
        /\ task' = [task EXCEPT ![h].pc = "confirm", ![h].id = id]
     \/ /\ Created(h, id) \/ UNCHANGED messages
        /\ IF AfterSilence = "idle" THEN Answer(h) ELSE GoTo(h, AfterSilence)
     \/ /\ UNCHANGED messages
        /\ GoTo(h, "release")
  /\ UNCHANGED <<now, pair, db>>

Others(n, k) == {r \in db[n] : r.key # k}

(* ConfirmIdempotency, or its failure: 200 either way. *)
ConfirmIdempotency(h) ==
  LET n == task[h].node k == task[h].key IN
  /\ At(h, "confirm")
  /\ db' \in {db, [db EXCEPT ![n] = IF Reserved(n, k)
                                     THEN Others(n, k) \cup {[key |-> k, id |-> task[h].id]}
                                     ELSE @]}
  /\ Answer(h)
  /\ UNCHANGED <<now, pair, messages>>

ReleaseIdempotency(h) ==
  /\ At(h, "release")
  /\ db' \in {db, [db EXCEPT ![task[h].node] = Others(task[h].node, task[h].key)]}
  /\ Answer(h)
  /\ UNCHANGED <<now, pair, messages>>

---------------------------------------------------------------------------
(* The supervisor, the replication, the machines.                          *)

Stopped(n) ==
  [h \in Handlers |-> IF task[h] # Idle /\ task[h].node = n THEN Idle ELSE task[h]]

Touched(n) == [file EXCEPT ![n] = [there |-> TRUE, mtime |-> now]]

(* The supervisor renews what it holds, and may fail to touch the file. *)
Renew(n) ==
  /\ lease.holder = n
  /\ lease' = [lease EXCEPT !.until = now + LeaseTTL]
  /\ file' \in {file, Touched(n)}
  /\ UNCHANGED <<now, db, replica, restored, term, fallen, task, messages, takeovers>>

(* It takes an expired lease over: the replica is restored in place of the *)
(* database, which is kept aside, and the gateway is brought up.           *)
TakeOver(n) ==
  /\ takeovers < MaxTakeovers
  /\ lease.holder # n /\ now >= lease.until
  /\ lease' = [holder |-> n, until |-> now + LeaseTTL]
  /\ fallen' = lease.holder
  /\ file' = Touched(n)
  /\ db' = [db EXCEPT ![n] = replica]
  /\ takeovers' = takeovers + 1
  /\ restored' = [restored EXCEPT ![takeovers'] = replica]
  /\ term' = [term EXCEPT ![n] = takeovers']
  /\ task' = Stopped(n)
  /\ UNCHANGED <<now, replica, messages>>

(* What the leader wrote so far reaches the replica. *)
Replicate ==
  /\ lease.holder # Nobody
  /\ replica' = db[lease.holder]
  /\ UNCHANGED <<now, lease, file, restored, term, fallen, db, task, messages, takeovers>>

Crash(n) ==
  /\ task' = Stopped(n)
  /\ UNCHANGED <<now, pair, db, messages>>

Tick ==
  /\ now < MaxNow
  /\ now' = now + 1
  /\ UNCHANGED <<pair, db, task, messages>>

Next ==
  \/ \E h \in Handlers, n \in Nodes, k \in Keys : Require(h, n, k)
  \/ \E h \in Handlers : \/ ReserveIdempotency(h) \/ SendMessage(h)
                         \/ ConfirmIdempotency(h) \/ ReleaseIdempotency(h)
  \/ \E n \in Nodes : Renew(n) \/ TakeOver(n) \/ Crash(n)
  \/ Replicate \/ Tick

Spec == Init /\ [][Next]_vars

---------------------------------------------------------------------------
(* CompareFailover: the database of the fallen machine against the one in  *)
(* use, row by row, by key.                                                *)

Missing ==
  {r \in db[fallen] : ~Reserved(lease.holder, r.key)}

Confirmed == {r \in Missing : r.id # 0}

Open == {r \in Missing : r.id = 0}

Compared == fallen # Nobody

Listed == {r.key : r \in Confirmed \cup Open}

---------------------------------------------------------------------------
(***************************************************************************)
(* The pair acts as one machine.  Whoever the file lets act holds the      *)
(* lease: the two never both believe to be the holder, and a standby that  *)
(* just came up is not one.  And what a failover may send twice is bounded *)
(* by the replication: out of one database a key gives one message, and    *)
(* what a machine restored it never sends, whatever the state of the row,  *)
(* whoever crashed when and however often the lease changes hands.         *)
(***************************************************************************)
PairActsAsOne ==
  /\ \A n \in Nodes : Holder(n) => lease.holder = n
  /\ \A m \in messages :
       /\ \A r \in restored[m.term] : r.key # m.key
       /\ \A n \in messages : m # n /\ m.key = n.key => m.term # n.term

(***************************************************************************)
(* The post-mortem knows what it does not know: "confirmed lost" is a      *)
(* message Meta created, under that key and with that id; and a message of *)
(* the fallen machine's database that a retry would send again is listed,  *)
(* in one list or the other.                                               *)
(***************************************************************************)
PostMortemIsRight ==
  Compared =>
    /\ \A r \in Confirmed :
         \E m \in messages : m.node = fallen /\ m.key = r.key /\ m.id = r.id
    /\ \A m \in messages :
         m.node = fallen /\ m.term = term[fallen] /\ ~Reserved(lease.holder, m.key) =>
           m.key \in Listed

(***************************************************************************)
(* cmd/zapgw/lost.go: with both lists empty the command prints "NOTHING AT *)
(* RISK", so no message of the fallen machine was or will be sent twice.   *)
(***************************************************************************)
NothingAtRiskIsTrue ==
  Compared /\ Listed = {} =>
    \A m, n \in messages : m.node = fallen /\ n.node = lease.holder => m.key # n.key
=============================================================================
