--------------------------- MODULE OutboundSend ---------------------------
(***************************************************************************)
(* POST /v1/messages: the send and its idempotency record.                 *)
(*                                                                         *)
(* Handler.send (internal/outbound/handler.go) runs once per HTTP request, *)
(* each request in a goroutine of its own.  The requests share the table   *)
(* `idempotencia` of the store (internal/config/store.go), which every     *)
(* statement reaches through a connection of its own, and the Graph API    *)
(* of Meta, which is reached by a call that may be lost, answered late or  *)
(* answered without an answer.  A row of the table is what stops a retry   *)
(* from becoming a second message on somebody's phone, so the state that   *)
(* matters is: the table, what the handlers are about to do with it, the   *)
(* calls that are on their way, and the messages Meta has created.         *)
(***************************************************************************)
EXTENDS Naturals, FiniteSets

CONSTANTS
  Handlers,     \* goroutines a request may be served by
  Consumers,    \* rows of the table `consumidor`
  Keys,         \* values of the header Idempotency-Key
  Hashes,       \* values of RequestHash: one per distinct request
  NoHash,       \* the empty hash_pedido a row of an older binary has
  Nobody,       \* the owner of a call whose handler is gone
  Legacy,       \* (consumer, key) pairs an older binary left reserved
  TTL,          \* retention of a reservation (72 h by default)
  Deadline,     \* the longest a handler holds a reservation it works on
  ServerErrorMayFollowCreation,
                \* may Meta answer 5xx to a call whose message it created?
  MaxNow,          \* bound: last instant of the clock
  MaxReservations  \* bound: reservations made in one behaviour

Row == [consumer : Consumers, key : Keys]

(***************************************************************************)
(* InstanceDeadline bounds the call to Meta (30 s by default) and the      *)
(* retention is counted in hours.  The code compares the two nowhere: that *)
(* the first is shorter is how the gateway is configured.                  *)
(***************************************************************************)
ASSUME SendAssumption ==
  /\ TTL \in Nat /\ Deadline \in Nat /\ Deadline < TTL
  /\ MaxNow \in Nat /\ MaxReservations \in Nat
  /\ ServerErrorMayFollowCreation \in BOOLEAN
  /\ NoHash \notin Hashes
  /\ Nobody \notin Handlers
  /\ Legacy \subseteq Row

VARIABLES
  now,           \* the wall clock
  idempotencia,  \* the table: one record per row, the id 0 standing for ''
  task,          \* what each handler is doing, and with which reservation
  wire,          \* calls that left for Meta and have not been decided
  messages,      \* the messages Meta created
  acked,         \* the 200 answers given: which id for which request
  counted,       \* the counters enviadas and falhas_de_envio
  reservations   \* reservations made so far

vars == <<now, idempotencia, task, wire, messages, acked, counted, reservations>>

---------------------------------------------------------------------------
(* What the variables hold.                                                *)

Entry == [row : Row, id : Nat, hash : Hashes \cup {NoHash}, born : Nat]

Idle == [pc |-> "idle"]

(* Where a handler is: before the reservation, or holding one. *)
Asking  == {"insert", "lookup"}
Holding == {"call", "waiting", "confirm", "release"}
Closing == {"count_sent", "count_failed"}

Task == {Idle} \cup [pc : Asking \cup Holding \cup Closing,
                     row : Row, hash : Hashes, born : Nat, id : Nat]

Call == [handler : Handlers \cup {Nobody}, row : Row, hash : Hashes, born : Nat]

(* `disowned`: Meta answered the call that created the message with a 5xx. *)
Message == [id : Nat, row : Row, hash : Hashes, born : Nat, disowned : BOOLEAN]

Ack == [row : Row, hash : Hashes, id : Nat]

TypeOK ==
  /\ now \in Nat
  /\ idempotencia \subseteq Entry
  /\ task \in [Handlers -> Task]
  /\ wire \subseteq Call
  /\ messages \subseteq Message
  /\ acked \subseteq Ack
  /\ counted \in [sent : Nat, failed : Nat]
  /\ reservations \in Nat

Init ==
  /\ now = 0
  /\ idempotencia = {[row |-> r, id |-> 0, hash |-> NoHash, born |-> 0] : r \in Legacy}
  /\ task = [h \in Handlers |-> Idle]
  /\ wire = {} /\ messages = {} /\ acked = {}
  /\ counted = [sent |-> 0, failed |-> 0]
  /\ reservations = 0

---------------------------------------------------------------------------
(* Moves of a handler.                                                     *)

GoTo(h, pc)  == task' = [task EXCEPT ![h].pc = pc]
Answer(h)    == task' = [task EXCEPT ![h] = Idle]
At(h, pc)    == task[h].pc = pc

Found(r) == {e \in idempotencia : e.row = r}

(***************************************************************************)
(* A request passes every guard in front of the reservation.  A request    *)
(* one of them refuses (401, 400, 413, 403, 404, 503) is answered without  *)
(* touching anything this module holds.                                    *)
(***************************************************************************)
Receive(h, r, q) ==
  /\ At(h, "idle")
  /\ task' = [task EXCEPT ![h] =
                [pc |-> "insert", row |-> r, hash |-> q, born |-> 0, id |-> 0]]
  /\ UNCHANGED <<now, idempotencia, wire, messages, acked, counted, reservations>>

(* ReserveIdempotency, first statement: INSERT ... ON CONFLICT DO NOTHING. *)
ReserveInsert(h) ==
  /\ At(h, "insert")
  /\ IF Found(task[h].row) = {}
     THEN /\ reservations < MaxReservations
          /\ idempotencia' = idempotencia \cup
               {[row |-> task[h].row, id |-> 0, hash |-> task[h].hash, born |-> now]}
          /\ task' = [task EXCEPT ![h].pc = "call", ![h].born = now]
          /\ reservations' = reservations + 1
     ELSE /\ GoTo(h, "lookup")
          /\ UNCHANGED <<idempotencia, reservations>>
  /\ UNCHANGED <<now, wire, messages, acked, counted>>

(* Mutant: the stored hash is not compared with that of the request. *)
ReserveLookup_AnyRequest(h) ==
  /\ At(h, "lookup")
  /\ Answer(h)
  /\ acked' = acked \cup {[row |-> task[h].row, hash |-> task[h].hash, id |-> e.id] :
                            e \in {f \in Found(task[h].row) : f.id # 0}}
  /\ UNCHANGED <<now, idempotencia, wire, messages, counted, reservations>>

(***************************************************************************)
(* ReserveIdempotency, second statement: the SELECT, by then of a row that *)
(* may be gone, confirmed, or reserved again.  Only the answer 200 leaves  *)
(* a trace: 422 (other request), 409 (no id, or no row) do not.            *)
(***************************************************************************)
ReserveLookup(h) ==
  /\ At(h, "lookup")
  /\ Answer(h)
  /\ acked' = acked \cup {[row |-> task[h].row, hash |-> task[h].hash, id |-> e.id] :
                            e \in {f \in Found(task[h].row) :
                                     f.hash = task[h].hash /\ f.id # 0}}
  /\ UNCHANGED <<now, idempotencia, wire, messages, counted, reservations>>

(* Mutant: the error path gives the key back, whoever holds it. *)
ReserveFails_Releases(h) ==
  /\ task[h].pc \in Asking
  /\ Answer(h)
  /\ idempotencia' = idempotencia \ Found(task[h].row)
  /\ UNCHANGED <<now, wire, messages, acked, counted, reservations>>

(* Either statement fails: 503, and nothing was reserved. *)
ReserveFails(h) ==
  /\ task[h].pc \in Asking
  /\ Answer(h)
  /\ UNCHANGED <<now, idempotencia, wire, messages, acked, counted, reservations>>

(* The call leaves for Meta ... *)
SendMessage(h) ==
  /\ At(h, "call")
  /\ wire' = wire \cup {[handler |-> h, row |-> task[h].row,
                         hash |-> task[h].hash, born |-> task[h].born]}
  /\ GoTo(h, "waiting")
  /\ UNCHANGED <<now, idempotencia, messages, acked, counted, reservations>>

(* ... or does not: ErrInvalidPhoneNumberID is a known-negative outcome. *)
RefuseLocally(h) ==
  /\ At(h, "call")
  /\ GoTo(h, "release")
  /\ UNCHANGED <<now, idempotencia, wire, messages, acked, counted, reservations>>

(***************************************************************************)
(* Transport failure or deadline exceeded, at any point of the call: the   *)
(* outcome is unknown, the key is RETAINED and the call, if Meta has not   *)
(* decided it yet, goes on without anybody to hear the answer.             *)
(***************************************************************************)
Abandoned(calls, hs) ==
  {IF c.handler \in hs THEN [c EXCEPT !.handler = Nobody] ELSE c : c \in calls}

(* Mutant: an unknown outcome gives the key back. *)
TransportFailure_Releases(h) ==
  /\ At(h, "waiting")
  /\ GoTo(h, "release")
  /\ wire' = Abandoned(wire, {h})
  /\ UNCHANGED <<now, idempotencia, messages, acked, counted, reservations>>

(* Mutant: the call has no deadline, it ends when the connection breaks. *)
TransportFailure_NoDeadline(h) ==
  /\ At(h, "waiting")
  /\ \E c \in wire : c.handler = h
  /\ GoTo(h, "count_failed")
  /\ wire' = Abandoned(wire, {h})
  /\ UNCHANGED <<now, idempotencia, messages, acked, counted, reservations>>

TransportFailure(h) ==
  /\ At(h, "waiting")
  /\ GoTo(h, "count_failed")
  /\ wire' = Abandoned(wire, {h})
  /\ UNCHANGED <<now, idempotencia, messages, acked, counted, reservations>>

(* ConfirmIdempotency, or its failure; the consumer gets 200 either way. *)
Confirmed(r, i) ==
  {IF e.row = r THEN [e EXCEPT !.id = i] ELSE e : e \in idempotencia}

ConfirmIdempotency(h) ==
  /\ At(h, "confirm")
  /\ idempotencia' \in {idempotencia, Confirmed(task[h].row, task[h].id)}
  /\ acked' = acked \cup {[row |-> task[h].row, hash |-> task[h].hash, id |-> task[h].id]}
  /\ GoTo(h, "count_sent")
  /\ UNCHANGED <<now, wire, messages, counted, reservations>>

(* ReleaseIdempotency, or its failure, which leaves the key held. *)
ReleaseIdempotency(h) ==
  /\ At(h, "release")
  /\ idempotencia' \in {idempotencia, idempotencia \ Found(task[h].row)}
  /\ GoTo(h, "count_failed")
  /\ UNCHANGED <<now, wire, messages, acked, counted, reservations>>

(* The counter of the outcome, after the answer has been written; that it *)
(* cannot be written is only logged.                                      *)
Count(h) ==
  /\ task[h].pc \in Closing
  /\ counted' \in {counted, IF At(h, "count_sent")
                            THEN [counted EXCEPT !.sent = @ + 1]
                            ELSE [counted EXCEPT !.failed = @ + 1]}
  /\ Answer(h)
  /\ UNCHANGED <<now, idempotencia, wire, messages, acked, reservations>>

---------------------------------------------------------------------------
(* Meta, as SendMessage and ClassifyResponse see it.                       *)

(* Mutant: a 2xx without an id is taken for a failure of Meta's. *)
NextPC_WithoutIdReleases(answer) ==
  CASE answer = "id" -> "confirm"
    [] answer = "lost" -> "waiting"
    [] OTHER -> "release"

(* Where the handler goes on an answer; a lost answer leaves it waiting. *)
NextPC(answer) ==
  CASE answer = "id" -> "confirm"
    [] answer = "without_id" -> "count_failed"
    [] answer \in {"refused", "server_error"} -> "release"
    [] OTHER -> "waiting"

Hear(c, answer, id) ==
  task' = IF c.handler = Nobody THEN task
          ELSE [task EXCEPT ![c.handler].pc = NextPC(answer),
                            ![c.handler].id = IF answer = "id" THEN id ELSE 0]

MetaCreates(c, answer) ==
  /\ answer \in {"id", "without_id", "lost", "server_error"}
  /\ answer = "server_error" => ServerErrorMayFollowCreation
  /\ LET id == Cardinality(messages) + 1 IN
       /\ messages' = messages \cup
            {[id |-> id, row |-> c.row, hash |-> c.hash, born |-> c.born,
              disowned |-> answer = "server_error"]}
       /\ Hear(c, answer, id)
  /\ wire' = wire \ {c}
  /\ UNCHANGED <<now, idempotencia, acked, counted, reservations>>

MetaDoesNotCreate(c, answer) ==
  /\ answer \in {"without_id", "refused", "server_error", "lost"}
  /\ Hear(c, answer, 0)
  /\ wire' = wire \ {c}
  /\ UNCHANGED <<now, idempotencia, messages, acked, counted, reservations>>

---------------------------------------------------------------------------
(* The process and its clock.                                              *)

(* A reservation somebody works on is not older than Deadline. *)
Tick ==
  /\ now < MaxNow
  /\ \A h \in Handlers : task[h].pc \in Holding => now < task[h].born + Deadline
  /\ now' = now + 1
  /\ UNCHANGED <<idempotencia, task, wire, messages, acked, counted, reservations>>

(* Mutant: the purge spares the reservations that were never confirmed. *)
Expired_Confirmed == {e \in idempotencia : e.born + TTL < now /\ e.id # 0}

(* PurgeIdempotency(now - TTL): DELETE ... WHERE criado_em < before. *)
Expired == {e \in idempotencia : e.born + TTL < now}

PurgeIdempotency ==
  /\ Expired # {}
  /\ idempotencia' = idempotencia \ Expired
  /\ UNCHANGED <<now, task, wire, messages, acked, counted, reservations>>

(* Mutant: starting again drops the reservations nobody works on. *)
Crash_CleansUp ==
  /\ task # [h \in Handlers |-> Idle]
  /\ task' = [h \in Handlers |-> Idle]
  /\ wire' = Abandoned(wire, Handlers)
  /\ idempotencia' = {e \in idempotencia : e.id # 0}
  /\ UNCHANGED <<now, messages, acked, counted, reservations>>

(* The process dies and starts again: the table stays, the handlers do not. *)
Crash ==
  /\ task # [h \in Handlers |-> Idle]
  /\ task' = [h \in Handlers |-> Idle]
  /\ wire' = Abandoned(wire, Handlers)
  /\ UNCHANGED <<now, idempotencia, messages, acked, counted, reservations>>

Step(h) ==
  \/ ReserveInsert(h) \/ ReserveLookup(h) \/ ReserveFails(h)
  \/ SendMessage(h) \/ RefuseLocally(h) \/ TransportFailure(h)
  \/ ConfirmIdempotency(h) \/ ReleaseIdempotency(h) \/ Count(h)

Answers == {"id", "without_id", "refused", "server_error", "lost"}

Next ==
  \/ \E h \in Handlers, r \in Row, q \in Hashes : Receive(h, r, q)
  \/ \E h \in Handlers : Step(h)
  \/ \E c \in wire, a \in Answers : MetaCreates(c, a) \/ MetaDoesNotCreate(c, a)
  \/ Tick
  \/ PurgeIdempotency
  \/ Crash

(***************************************************************************)
(* Every statement returns and every call has a deadline, so a handler     *)
(* that has work goes on; the purge runs every hour; the clock advances.   *)
(***************************************************************************)
Fairness ==
  /\ \A h \in Handlers : WF_vars(Step(h))
  /\ WF_vars(PurgeIdempotency)
  /\ WF_vars(Tick)

Spec == Init /\ [][Next]_vars

FairSpec == Spec /\ Fairness

---------------------------------------------------------------------------
(* Safety.                                                                 *)

(* Two messages of one key, reserved more than a retention apart. *)
Apart(m, n) == m.born + TTL < n.born \/ n.born + TTL < m.born

(***************************************************************************)
(* One key, one message: whatever the interleaving of concurrent retries,  *)
(* of the purge, of a crash between two statements and of answers that are *)
(* lost or late, two messages of one (consumer, key) were reserved more    *)
(* than the retention apart.  The only exception is the one the release on *)
(* 5xx accepts: one of the two was disowned by the answer Meta gave.       *)
(***************************************************************************)
OneMessagePerKey ==
  \A m, n \in messages :
    m # n /\ m.row = n.row => Apart(m, n) \/ m.disowned \/ n.disowned

(***************************************************************************)
(* A 200 names a message that exists and that is the one this consumer     *)
(* asked for, under this key, with this very request: never the id of      *)
(* another request that used the key before, never that of another         *)
(* consumer with the same key (ErrKeyWithDifferentRequest, the key (consumidor, chave)).  *)
(***************************************************************************)
AckIsTheRequest ==
  \A a \in acked : \E m \in messages :
    m.id = a.id /\ m.row = a.row /\ m.hash = a.hash

(***************************************************************************)
(* A handler that is about to release or to confirm finds the row it       *)
(* reserved itself: the statements name the key and not the reservation,   *)
(* so nothing else keeps a late release from freeing a later reservation   *)
(* or a late confirmation from landing on it.                              *)
(***************************************************************************)
HolderOwnsItsRow ==
  \A h \in Handlers : task[h].pc \in Holding =>
    \E e \in idempotencia :
      e.row = task[h].row /\ e.born = task[h].born /\ e.hash = task[h].hash /\ e.id = 0

---------------------------------------------------------------------------
(* Action properties and liveness.                                         *)

(***************************************************************************)
(* A row leaves the table in two ways only: the retention has passed, or   *)
(* Meta has answered an error and no call of that reservation is on its    *)
(* way.  In particular a crash, a deadline or a 2xx without id never frees *)
(* the key, and an id once stored is never replaced while it is kept.      *)
(***************************************************************************)
Kept(e) == \E f \in idempotencia' :
             f.row = e.row /\ f.born = e.born /\ (e.id # 0 => f.id = e.id)

KeyIsFreedOnlyWhenNothingWasSent ==
  [][\A e \in idempotencia :
       \/ Kept(e)
       \/ e.born + TTL < now
       \/ /\ \A c \in wire : c.row = e.row => c.born + TTL < e.born
          /\ \A m \in messages : m.row = e.row => m.disowned \/ m.born + TTL < e.born]_vars

(* A request that was let in is answered: nobody waits for anybody. *)
RequestIsAnswered ==
  \A h \in Handlers : ~At(h, "idle") ~> At(h, "idle")

(* A held key is not held for ever, whatever happened to its send. *)
KeyIsFreedInTheEnd ==
  \A r \in Row, t \in 0..MaxNow :
    t + TTL < MaxNow =>
      (\E e \in idempotencia : e.row = r /\ e.born = t)
        ~> ~(\E e \in idempotencia : e.row = r /\ e.born = t)

---------------------------------------------------------------------------
(***************************************************************************)
(* The handlers keep the contract: a row is a taken key, and an attempt is *)
(* a call that is about to leave or on its way.                            *)
(***************************************************************************)
TakenKeys ==
  {[row |-> e.row, hash |-> e.hash, born |-> e.born] : e \in idempotencia}

Attempt(x) == [row |-> x.row, hash |-> x.hash, born |-> x.born]

Attempts ==
  {Attempt(c) : c \in wire} \cup
  {Attempt(task[h]) : h \in {g \in Handlers : task[g].pc = "call"}}

Contract == INSTANCE SendContract WITH keys <- TakenKeys, grants <- Attempts

(* Every behaviour of the handlers is one the contract allows. *)
KeepsTheContract == Contract!Spec
===========================================================================
