------------------------ MODULE OutboundSendProofs ------------------------
(***************************************************************************)
(* OutboundSend, proved for every value of the constants: the inductive    *)
(* invariant behind "one message per key", what follows from it, and that  *)
(* the handlers implement SendContract.                                    *)
(***************************************************************************)
EXTENDS OutboundSend, FiniteSetTheorems, TLAPS

(* Reserved more than the retention before t. *)
Old(x, t) == x.born + TTL < t

(* Two claims on one row, reserved more than the retention apart. *)
Separate(x, y) == Old(x, y.born) \/ Old(y, x.born)

PrimaryKey == \A e, f \in idempotencia : e.row = f.row => e = f

Past ==
  /\ \A e \in idempotencia : e.born <= now
  /\ \A c \in wire : c.born <= now
  /\ \A m \in messages : m.born <= now

(* A reservation somebody works on is young. *)
InTime ==
  \A h \in Handlers : task[h].pc \in Holding =>
    task[h].born <= now /\ now <= task[h].born + Deadline

SoleHolder ==
  \A g, h \in Handlers :
    /\ task[g].pc \in Holding /\ task[h].pc \in Holding
    /\ task[g].row = task[h].row
    => g = h

(* A call that is listened to belongs to the handler that waits for it. *)
WireOwner ==
  \A c \in wire : c.handler # Nobody =>
    /\ At(c.handler, "waiting")
    /\ c.row = task[c.handler].row /\ c.hash = task[c.handler].hash
    /\ c.born = task[c.handler].born

(* Calls and messages of one row are separate claims. *)
ClaimsApart ==
  /\ \A c, d \in wire : c # d /\ c.row = d.row => Separate(c, d)
  /\ \A c \in wire, m \in messages :
       c.row = m.row => Separate(c, m) \/ m.disowned

(* Before the call leaves and once Meta refused it, the reservation is clean. *)
CleanReservation ==
  \A h \in Handlers : task[h].pc \in {"call", "release"} =>
    /\ \A c \in wire : c.row = task[h].row => Old(c, task[h].born)
    /\ \A m \in messages :
         m.row = task[h].row => m.disowned \/ Old(m, task[h].born)

(* What is on its way, or was created, keeps its row for the retention. *)
RowIsKept ==
  /\ \A c \in wire :
       Old(c, now) \/ \E e \in idempotencia : e.row = c.row /\ e.born = c.born
  /\ \A m \in messages :
       \/ m.disowned \/ Old(m, now)
       \/ \E e \in idempotencia : e.row = m.row /\ e.born = m.born

Names(m, i, r, q) == m.id = i /\ m.row = r /\ m.hash = q

IdsAreReal ==
  /\ \A e \in idempotencia : e.id # 0 => \E m \in messages : Names(m, e.id, e.row, e.hash)
  /\ \A h \in Handlers : At(h, "confirm") =>
       \E m \in messages : Names(m, task[h].id, task[h].row, task[h].hash)

IInv ==
  /\ TypeOK /\ IsFiniteSet(messages)
  /\ PrimaryKey /\ Past /\ InTime /\ HolderOwnsItsRow /\ SoleHolder
  /\ WireOwner /\ ClaimsApart /\ CleanReservation /\ RowIsKept
  /\ IdsAreReal /\ OneMessagePerKey /\ AckIsTheRequest

---------------------------------------------------------------------------
(* What a handler in one of the counted states carries. *)
LEMMA TaskFields ==
  ASSUME TypeOK, NEW h \in Handlers, task[h].pc # "idle"
  PROVE  /\ task[h] \in [pc : Asking \cup Holding \cup Closing,
                          row : Row, hash : Hashes, born : Nat, id : Nat]
         /\ task[h].row \in Row /\ task[h].hash \in Hashes
         /\ task[h].born \in Nat /\ task[h].id \in Nat
BY DEF TypeOK, Task, Idle

(* A call whose handler is gone is the same call. *)
LEMMA AbandonedCalls ==
  ASSUME NEW calls, calls \subseteq Call, NEW hs
  PROVE  /\ Abandoned(calls, hs) \subseteq Call
         /\ \A x \in Abandoned(calls, hs) : \E c \in calls :
              /\ x.row = c.row /\ x.hash = c.hash /\ x.born = c.born
              /\ \/ x = c /\ c.handler \notin hs
                 \/ /\ x = [c EXCEPT !.handler = Nobody] /\ x.handler = Nobody
                    /\ c.handler \in hs
BY DEF Abandoned, Call

LEMMA InitInv == Init => IInv
<1>1. IsFiniteSet({})
  BY FS_EmptySet
<1> QED
  BY <1>1, SendAssumption DEF Init, IInv, TypeOK, PrimaryKey, Past, InTime,
     HolderOwnsItsRow, SoleHolder, WireOwner, ClaimsApart, CleanReservation,
     RowIsKept, IdsAreReal, OneMessagePerKey, AckIsTheRequest, Entry, Task,
     Idle, Call, Message, Ack, At, Holding, Row

(* A new request changes neither the table, nor the calls, nor the messages, *)
(* and its handler holds no reservation yet.                                *)
LEMMA ReceiveInv ==
  ASSUME IInv, NEW h \in Handlers, NEW r \in Row, NEW q \in Hashes, Receive(h, r, q)
  PROVE  IInv'
<1> DEFINE t == [pc |-> "insert", row |-> r, hash |-> q, born |-> 0, id |-> 0]
<1>1. t \in Task
  BY DEF Task, Asking
<1>2. task' = [task EXCEPT ![h] = t] /\ At(h, "idle")
  BY DEF Receive
<1>3. \A g \in Handlers : task'[g] = task[g] \/ task'[g].pc = "insert"
  BY <1>2 DEF IInv, TypeOK
<1>4. TypeOK'
  BY <1>1, <1>2 DEF IInv, TypeOK, Receive
<1>5. WireOwner'
  BY <1>2 DEF IInv, TypeOK, WireOwner, At, Receive, Call
<1> QED
  BY <1>3, <1>4, <1>5 DEF IInv, Receive, PrimaryKey, Past, InTime,
     HolderOwnsItsRow, SoleHolder, ClaimsApart, CleanReservation,
     RowIsKept, IdsAreReal, OneMessagePerKey, AckIsTheRequest, At, Holding

(* The insert gives the handler a row nobody else has, born now: whatever  *)
(* is still on its way for this key lost its row, so it is old (RowIsKept). *)
LEMMA ReserveInsertInv ==
  ASSUME IInv, NEW h \in Handlers, ReserveInsert(h)
  PROVE  IInv'
<1>1. At(h, "insert") /\ task[h].pc # "idle" /\ task[h].pc \notin Holding
  BY DEF ReserveInsert, At, Holding
<1>2. TypeOK /\ task[h].row \in Row /\ task[h].hash \in Hashes /\ task[h].id \in Nat
      /\ task[h] \in [pc : Asking \cup Holding \cup Closing,
                      row : Row, hash : Hashes, born : Nat, id : Nat]
  BY <1>1, TaskFields DEF IInv
<1>3. CASE Found(task[h].row) # {}
  <2>1. task' = [task EXCEPT ![h].pc = "lookup"] /\ UNCHANGED <<now, idempotencia, wire, messages, acked, counted, reservations>>
    BY <1>3 DEF ReserveInsert, GoTo
  <2>2. TypeOK'
    BY <2>1, <1>2 DEF TypeOK, Task, Asking
  <2>3. \A g \in Handlers : task'[g] = task[g] \/ task'[g].pc = "lookup"
    BY <2>1, <1>2 DEF TypeOK
  <2>4. WireOwner'
    BY <2>1, <1>1, <1>2 DEF IInv, TypeOK, WireOwner, At, Call
  <2> QED
    BY <2>1, <2>2, <2>3, <2>4 DEF IInv, PrimaryKey, Past, InTime,
       HolderOwnsItsRow, SoleHolder, ClaimsApart, CleanReservation,
       RowIsKept, IdsAreReal, OneMessagePerKey, AckIsTheRequest, At, Holding
<1>4. CASE Found(task[h].row) = {}
  <2> DEFINE e == [row |-> task[h].row, id |-> 0, hash |-> task[h].hash, born |-> now]
             t == [task[h] EXCEPT !.pc = "call", !.born = now]
  <2>1. /\ idempotencia' = idempotencia \cup {e}
        /\ task' = [task EXCEPT ![h] = t]
        /\ reservations' = reservations + 1
        /\ UNCHANGED <<now, wire, messages, acked, counted>>
    BY <1>4, <1>2 DEF ReserveInsert, TypeOK
  <2>2. e \in Entry /\ e.row = task[h].row /\ e.born = now /\ e.hash = task[h].hash /\ e.id = 0
    BY <1>2 DEF TypeOK, Entry
  <2>3. /\ t \in Task /\ t.pc = "call" /\ t.row = task[h].row /\ t.born = now
        /\ t.hash = task[h].hash
    BY <1>2 DEF TypeOK, Task, Holding
  <2>4. task'[h] = t /\ \A g \in Handlers : g # h => task'[g] = task[g]
    BY <2>1, <1>2 DEF TypeOK
  <2>5. \A f \in idempotencia : f.row # task[h].row
    BY <1>4 DEF Found
  <2>6. TypeOK'
    BY <2>1, <2>2, <2>3, <1>2 DEF TypeOK
  <2>7. PrimaryKey'
    BY <2>1, <2>2, <2>5 DEF IInv, PrimaryKey
  <2>8. Past' /\ InTime'
    BY <2>1, <2>2, <2>3, <2>4, SendAssumption DEF IInv, TypeOK, Past, InTime
  <2>9. HolderOwnsItsRow'
    <3>1. \A g \in Handlers : g # h /\ task'[g].pc \in Holding =>
             \E f \in idempotencia' : f.row = task'[g].row /\ f.born = task'[g].born /\ f.hash = task'[g].hash /\ f.id = 0
      BY <2>1, <2>4 DEF IInv, HolderOwnsItsRow
    <3>2. e \in idempotencia' /\ e.row = task'[h].row /\ e.born = task'[h].born /\ e.hash = task'[h].hash /\ e.id = 0
      BY <2>1, <2>2, <2>3, <2>4
    <3> QED BY <3>1, <3>2 DEF HolderOwnsItsRow
  <2>10. SoleHolder'
    <3>1. \A g \in Handlers : task[g].pc \in Holding => task[g].row # task[h].row
      BY <2>5 DEF IInv, HolderOwnsItsRow
    <3>2. \A f, g \in Handlers :
             f # h /\ g # h /\ task'[f].pc \in Holding /\ task'[g].pc \in Holding
             /\ task'[f].row = task'[g].row => f = g
      BY <2>4 DEF IInv, SoleHolder
    <3>3. \A g \in Handlers :
             g # h /\ task'[g].pc \in Holding => task'[g].row # task'[h].row
      BY <3>1, <2>3, <2>4
    <3> QED BY <3>2, <3>3 DEF SoleHolder
  <2>11. WireOwner'
    BY <1>1, <2>1, <2>3, <2>4, <1>2 DEF IInv, TypeOK, WireOwner, At, Call
  <2>12. ClaimsApart' /\ OneMessagePerKey' /\ AckIsTheRequest'
    BY <2>1 DEF IInv, ClaimsApart, OneMessagePerKey, AckIsTheRequest
  <2>13. CleanReservation'
    <3>1. \A c \in wire : c.row = task[h].row => Old(c, now)
      BY <2>5 DEF IInv, RowIsKept
    <3>2. \A m \in messages : m.row = task[h].row => m.disowned \/ Old(m, now)
      BY <2>5 DEF IInv, RowIsKept
    <3> QED BY <3>1, <3>2, <2>1, <2>3, <2>4 DEF IInv, CleanReservation
  <2>14. RowIsKept'
    BY <2>1 DEF IInv, RowIsKept
  <2>15. IdsAreReal'
    BY <2>1, <2>2, <2>3, <2>4 DEF IInv, IdsAreReal, At
  <2> QED
    BY <2>1, <2>6, <2>7, <2>8, <2>9, <2>10, <2>11, <2>12, <2>13, <2>14, <2>15 DEF IInv
<1> QED
  BY <1>3, <1>4

(* A handler that did not listen to a call goes where it holds nothing. *)
LEMMA HoldsNothing ==
  ASSUME IInv, NEW h \in Handlers, NEW t \in Task,
         task' = [task EXCEPT ![h] = t], t.pc \notin Holding, ~At(h, "waiting"),
         UNCHANGED <<now, idempotencia, wire, messages, reservations>>,
         acked' \subseteq Ack, counted' \in [sent : Nat, failed : Nat],
         AckIsTheRequest'
  PROVE  IInv'
<1>1. task'[h] = t /\ \A g \in Handlers : g # h => task'[g] = task[g]
  BY DEF IInv, TypeOK
<1>2. TypeOK'
  BY DEF IInv, TypeOK
<1>3. WireOwner'
  BY <1>1 DEF IInv, TypeOK, WireOwner, At, Call
<1>4. SoleHolder' /\ InTime' /\ HolderOwnsItsRow' /\ CleanReservation' /\ IdsAreReal'
  BY <1>1 DEF IInv, SoleHolder, InTime, HolderOwnsItsRow, CleanReservation, IdsAreReal,
     At, Holding
<1> QED
  BY <1>2, <1>3, <1>4 DEF IInv, PrimaryKey, Past, ClaimsApart, RowIsKept, OneMessagePerKey

LEMMA ReserveLookupInv ==
  ASSUME IInv, NEW h \in Handlers, ReserveLookup(h)
  PROVE  IInv'
<1>1. At(h, "lookup") /\ task[h].pc # "idle" /\ ~At(h, "waiting")
  BY DEF ReserveLookup, At
<1>2. TypeOK /\ task[h].row \in Row /\ task[h].hash \in Hashes
  BY <1>1, TaskFields DEF IInv
<1>3. Idle \in Task /\ Idle.pc \notin Holding
  BY DEF Task, Idle, Holding
<1>4. acked' \subseteq Ack
  BY <1>2 DEF ReserveLookup, TypeOK, Ack, Entry, Found
<1>5. AckIsTheRequest'
  <2>1. \A a \in acked' : a \in acked \/ \E e \in Found(task[h].row) :
           /\ e.hash = task[h].hash /\ e.id # 0
           /\ a = [row |-> task[h].row, hash |-> task[h].hash, id |-> e.id]
    BY DEF ReserveLookup
  <2>2. ASSUME NEW e \in Found(task[h].row), e.hash = task[h].hash, e.id # 0
        PROVE  \E m \in messages : Names(m, e.id, task[h].row, task[h].hash)
    BY <2>2 DEF IInv, IdsAreReal, Found
  <2> QED
    BY <2>1, <2>2 DEF IInv, AckIsTheRequest, Names, ReserveLookup
<1> QED
  BY <1>1, <1>3, <1>4, <1>5, HoldsNothing DEF ReserveLookup, Answer, IInv, TypeOK

LEMMA ReserveFailsInv ==
  ASSUME IInv, NEW h \in Handlers, ReserveFails(h)
  PROVE  IInv'
<1>1. ~At(h, "waiting")
  BY DEF ReserveFails, At, Asking
<1>2. Idle \in Task /\ Idle.pc \notin Holding
  BY DEF Task, Idle, Holding
<1>3. AckIsTheRequest'
  BY DEF IInv, AckIsTheRequest, ReserveFails
<1> QED
  BY <1>1, <1>2, <1>3, HoldsNothing DEF ReserveFails, Answer, IInv, TypeOK

LEMMA CountInv ==
  ASSUME IInv, NEW h \in Handlers, Count(h)
  PROVE  IInv'
<1>1. ~At(h, "waiting")
  BY DEF Count, At, Closing
<1>2. Idle \in Task /\ Idle.pc \notin Holding
  BY DEF Task, Idle, Holding
<1>3. AckIsTheRequest'
  BY DEF IInv, AckIsTheRequest, Count
<1>4. counted' \in [sent : Nat, failed : Nat]
  BY DEF IInv, TypeOK, Count
<1> QED
  BY <1>1, <1>2, <1>3, <1>4, HoldsNothing DEF Count, Answer, IInv, TypeOK

(* The call takes over the reservation's claim, which was clean. *)
LEMMA SendMessageInv ==
  ASSUME IInv, NEW h \in Handlers, SendMessage(h)
  PROVE  IInv'
<1> DEFINE c == [handler |-> h, row |-> task[h].row, hash |-> task[h].hash,
                 born |-> task[h].born]
           t == [task[h] EXCEPT !.pc = "waiting"]
<1>1. At(h, "call") /\ task[h].pc # "idle" /\ task[h].pc \in Holding
  BY DEF SendMessage, At, Holding
<1>2. /\ TypeOK /\ task[h].row \in Row /\ task[h].hash \in Hashes
      /\ task[h].born \in Nat /\ task[h].id \in Nat
      /\ task[h] \in [pc : Asking \cup Holding \cup Closing,
                      row : Row, hash : Hashes, born : Nat, id : Nat]
  BY <1>1, TaskFields DEF IInv
<1>3. /\ wire' = wire \cup {c}
      /\ task' = [task EXCEPT ![h] = t]
      /\ UNCHANGED <<now, idempotencia, messages, acked, counted, reservations>>
  BY <1>2 DEF SendMessage, GoTo, TypeOK
<1>4. /\ t \in Task /\ t.pc = "waiting" /\ t.row = task[h].row /\ t.born = task[h].born
      /\ t.hash = task[h].hash
  BY <1>2 DEF Task, Holding
<1>5. task'[h] = t /\ \A g \in Handlers : g # h => task'[g] = task[g]
  BY <1>3, <1>2 DEF TypeOK
<1>6. c \in Call /\ c.handler = h /\ c.row = task[h].row /\ c.born = task[h].born
      /\ c.hash = task[h].hash
  BY <1>2 DEF Call
<1>7. TypeOK'
  BY <1>2, <1>3, <1>4, <1>6 DEF TypeOK
<1>8. \A d \in wire : d.row = task[h].row => Old(d, task[h].born)
  BY <1>1 DEF IInv, CleanReservation, At
<1>9. \A m \in messages : m.row = task[h].row => m.disowned \/ Old(m, task[h].born)
  BY <1>1 DEF IInv, CleanReservation, At
<1>10. ClaimsApart'
  <2>1. \A d \in wire : d.row = c.row => Separate(c, d) /\ Separate(d, c)
    BY <1>8, <1>6 DEF Separate
  <2>2. \A m \in messages : c.row = m.row => Separate(c, m) \/ m.disowned
    BY <1>9, <1>6 DEF Separate
  <2> QED BY <2>1, <2>2, <1>3 DEF IInv, ClaimsApart
<1>11. Past' /\ InTime'
  BY <1>1, <1>3, <1>4, <1>5, <1>6 DEF IInv, Past, InTime
<1>12. SoleHolder' /\ HolderOwnsItsRow'
  <2>1. \A g \in Handlers : /\ task'[g].pc \in Holding => task[g].pc \in Holding
                            /\ task'[g].pc \in Holding =>
                                 /\ task'[g].row = task[g].row
                                 /\ task'[g].born = task[g].born
                                 /\ task'[g].hash = task[g].hash
    BY <1>1, <1>4, <1>5
  <2> QED BY <2>1, <1>3 DEF IInv, SoleHolder, HolderOwnsItsRow
<1>13. WireOwner'
  BY <1>1, <1>3, <1>4, <1>5, <1>6, <1>2 DEF IInv, TypeOK, WireOwner, At, Call
<1>14. CleanReservation'
  <2>1. ASSUME NEW g \in Handlers, task'[g].pc \in {"call", "release"}
        PROVE  g # h /\ task'[g] = task[g] /\ task[g].row # task[h].row
    <3>1. g # h /\ task'[g] = task[g]
      BY <2>1, <1>4, <1>5
    <3>2. task[g].pc \in Holding
      BY <2>1, <3>1 DEF Holding
    <3> QED
      BY <3>1, <3>2, <1>1 DEF IInv, SoleHolder
  <2>2. ASSUME NEW g \in Handlers, task'[g].pc \in {"call", "release"}
        PROVE  /\ \A d \in wire' : d.row = task'[g].row => Old(d, task'[g].born)
               /\ \A m \in messages' :
                    m.row = task'[g].row => m.disowned \/ Old(m, task'[g].born)
    <3>1. task'[g] = task[g] /\ task[g].row # c.row /\ task[g].pc \in {"call", "release"}
      BY <2>1, <2>2, <1>6
    <3>2. \A d \in wire : d.row = task[g].row => Old(d, task[g].born)
      BY <3>1 DEF IInv, CleanReservation
    <3>3. \A m \in messages : m.row = task[g].row => m.disowned \/ Old(m, task[g].born)
      BY <3>1 DEF IInv, CleanReservation
    <3> QED BY <3>1, <3>2, <3>3, <1>3
  <2> QED BY <2>2 DEF CleanReservation, Old
<1>15. RowIsKept'
  BY <1>1, <1>3, <1>6 DEF IInv, RowIsKept, HolderOwnsItsRow
<1>16. IdsAreReal' /\ OneMessagePerKey' /\ AckIsTheRequest' /\ PrimaryKey'
  BY <1>3, <1>4, <1>5 DEF IInv, IdsAreReal, OneMessagePerKey, AckIsTheRequest, At, PrimaryKey
<1> QED
  BY <1>3, <1>7, <1>10, <1>11, <1>12, <1>13, <1>14, <1>15, <1>16 DEF IInv

(* A reservation that moves between states it is held in, unheard of. *)
LEMMA RefuseLocallyInv ==
  ASSUME IInv, NEW h \in Handlers, RefuseLocally(h)
  PROVE  IInv'
<1> DEFINE t == [task[h] EXCEPT !.pc = "release"]
<1>1. At(h, "call") /\ task[h].pc # "idle" /\ task[h].pc \in Holding
  BY DEF RefuseLocally, At, Holding
<1>2. /\ TypeOK
      /\ task[h] \in [pc : Asking \cup Holding \cup Closing,
                      row : Row, hash : Hashes, born : Nat, id : Nat]
  BY <1>1, TaskFields DEF IInv
<1>3. /\ task' = [task EXCEPT ![h] = t]
      /\ UNCHANGED <<now, idempotencia, wire, messages, acked, counted, reservations>>
  BY <1>2 DEF RefuseLocally, GoTo, TypeOK
<1>4. /\ t \in Task /\ t.pc = "release" /\ t.row = task[h].row /\ t.born = task[h].born
      /\ t.hash = task[h].hash
  BY <1>2 DEF Task, Holding
<1>5. task'[h] = t /\ \A g \in Handlers : g # h => task'[g] = task[g]
  BY <1>3, <1>2 DEF TypeOK
<1>6. TypeOK'
  BY <1>2, <1>3, <1>4 DEF TypeOK
<1>7. \A g \in Handlers : /\ task'[g].pc \in Holding => task[g].pc \in Holding
                          /\ task'[g].pc \in {"call", "release"} => task[g].pc \in {"call", "release"}
                          /\ task'[g].pc \in Holding =>
                               /\ task'[g].row = task[g].row
                               /\ task'[g].born = task[g].born
                               /\ task'[g].hash = task[g].hash
  BY <1>1, <1>4, <1>5 DEF At, Holding
<1>8. InTime' /\ SoleHolder' /\ HolderOwnsItsRow' /\ CleanReservation'
  BY <1>3, <1>7 DEF IInv, InTime, SoleHolder, HolderOwnsItsRow, CleanReservation, Holding
<1>9. WireOwner'
  BY <1>1, <1>3, <1>5, <1>2 DEF IInv, TypeOK, WireOwner, At, Call
<1>10. IdsAreReal'
  BY <1>3, <1>4, <1>5 DEF IInv, IdsAreReal, At
<1> QED
  BY <1>3, <1>6, <1>8, <1>9, <1>10 DEF IInv, PrimaryKey, Past, ClaimsApart, RowIsKept,
     OneMessagePerKey, AckIsTheRequest

(* Letting go of calls leaves the claims what they were. *)
LEMMA AbandonedClaims ==
  ASSUME IInv, NEW hs, wire' = Abandoned(wire, hs),
         UNCHANGED <<now, idempotencia, messages>>
  PROVE  /\ wire' \subseteq Call
         /\ \A x \in wire' : \E c \in wire :
              x.row = c.row /\ x.born = c.born /\ x.hash = c.hash
         /\ ClaimsApart' /\ Past' /\ RowIsKept'
<1>1. wire \subseteq Call
  BY DEF IInv, TypeOK
<1>2. /\ wire' \subseteq Call
      /\ \A x \in wire' : \E c \in wire :
           /\ x.row = c.row /\ x.hash = c.hash /\ x.born = c.born
           /\ \/ x = c /\ c.handler \notin hs
              \/ /\ x = [c EXCEPT !.handler = Nobody] /\ x.handler = Nobody
                 /\ c.handler \in hs
  BY <1>1, AbandonedCalls
<1>3. ClaimsApart'
  <2>1. ASSUME NEW x \in wire', NEW y \in wire', x # y, x.row = y.row
        PROVE  Separate(x, y)
    <3>1. PICK c \in wire : /\ x.row = c.row /\ x.hash = c.hash /\ x.born = c.born
                            /\ \/ x = c /\ c.handler \notin hs
                               \/ /\ x = [c EXCEPT !.handler = Nobody]
                                  /\ c.handler \in hs
      BY <1>2
    <3>2. PICK d \in wire : /\ y.row = d.row /\ y.hash = d.hash /\ y.born = d.born
                            /\ \/ y = d /\ d.handler \notin hs
                               \/ /\ y = [d EXCEPT !.handler = Nobody]
                                  /\ d.handler \in hs
      BY <1>2
    <3>3. c # d
      BY <2>1, <3>1, <3>2
    <3> QED
      BY <2>1, <3>1, <3>2, <3>3 DEF IInv, ClaimsApart, Separate, Old
  <2>2. ASSUME NEW x \in wire', NEW m \in messages, x.row = m.row
        PROVE  Separate(x, m) \/ m.disowned
    <3>1. PICK c \in wire : x.row = c.row /\ x.born = c.born
      BY <1>2
    <3> QED
      BY <2>2, <3>1 DEF IInv, ClaimsApart, Separate, Old
  <2> QED
    BY <2>1, <2>2 DEF ClaimsApart, Separate, Old
<1>4. Past'
  BY <1>2 DEF IInv, Past
<1>5. RowIsKept'
  BY <1>2 DEF IInv, RowIsKept, Old
<1> QED
  BY <1>2, <1>3, <1>4, <1>5

LEMMA TransportFailureInv ==
  ASSUME IInv, NEW h \in Handlers, TransportFailure(h)
  PROVE  IInv'
<1> DEFINE t == [task[h] EXCEPT !.pc = "count_failed"]
<1>1. At(h, "waiting") /\ task[h].pc # "idle" /\ task[h].pc \in Holding
  BY DEF TransportFailure, At, Holding
<1>2. /\ TypeOK
      /\ task[h] \in [pc : Asking \cup Holding \cup Closing,
                      row : Row, hash : Hashes, born : Nat, id : Nat]
  BY <1>1, TaskFields DEF IInv
<1>3. /\ task' = [task EXCEPT ![h] = t]
      /\ wire' = Abandoned(wire, {h})
      /\ UNCHANGED <<now, idempotencia, messages, acked, counted, reservations>>
  BY <1>2 DEF TransportFailure, GoTo, TypeOK
<1>4. t \in Task /\ t.pc = "count_failed" /\ t.pc \notin Holding
  BY <1>2 DEF Task, Closing, Holding
<1>5. task'[h] = t /\ \A g \in Handlers : g # h => task'[g] = task[g]
  BY <1>3, <1>2 DEF TypeOK
<1>6. /\ wire' \subseteq Call
      /\ \A x \in wire' : \E c \in wire :
           x.row = c.row /\ x.born = c.born /\ x.hash = c.hash
      /\ ClaimsApart' /\ Past' /\ RowIsKept'
  BY <1>3, AbandonedClaims
<1>7. TypeOK'
  BY <1>2, <1>3, <1>4, <1>6 DEF TypeOK
<1>8. SoleHolder' /\ InTime' /\ HolderOwnsItsRow' /\ IdsAreReal'
  BY <1>3, <1>4, <1>5 DEF IInv, SoleHolder, InTime, HolderOwnsItsRow, IdsAreReal,
     At, Holding
<1>9. CleanReservation'
  <2>1. ASSUME NEW g \in Handlers, task'[g].pc \in {"call", "release"}
        PROVE  /\ \A x \in wire' : x.row = task'[g].row => Old(x, task'[g].born)
               /\ \A m \in messages' :
                    m.row = task'[g].row => m.disowned \/ Old(m, task'[g].born)
    <3>1. task'[g] = task[g]
      BY <2>1, <1>4, <1>5
    <3>2. \A c \in wire : c.row = task[g].row => Old(c, task[g].born)
      BY <2>1, <3>1 DEF IInv, CleanReservation
    <3>3. \A m \in messages : m.row = task[g].row => m.disowned \/ Old(m, task[g].born)
      BY <2>1, <3>1 DEF IInv, CleanReservation
    <3>4. \A x \in wire' : x.row = task[g].row => Old(x, task[g].born)
      BY <3>2, <1>6 DEF Old
    <3> QED
      BY <3>1, <3>3, <3>4, <1>3
  <2> QED
    BY <2>1 DEF CleanReservation, Old
<1>10. WireOwner'
  <2>1. ASSUME NEW x \in wire', x.handler # Nobody
        PROVE  x \in wire /\ x.handler # h /\ x.handler \in Handlers
    BY <2>1, <1>3, <1>2, <1>6, AbandonedCalls DEF TypeOK, Call
  <2> QED
    BY <2>1, <1>5 DEF IInv, WireOwner, At
<1> QED
  BY <1>3, <1>6, <1>7, <1>8, <1>9, <1>10 DEF IInv, PrimaryKey, OneMessagePerKey,
     AckIsTheRequest

LEMMA CrashInv ==
  ASSUME IInv, Crash
  PROVE  IInv'
<1>1. /\ task' = [h \in Handlers |-> Idle]
      /\ wire' = Abandoned(wire, Handlers)
      /\ UNCHANGED <<now, idempotencia, messages, acked, counted, reservations>>
  BY DEF Crash
<1>2. /\ wire' \subseteq Call /\ ClaimsApart' /\ Past' /\ RowIsKept'
  BY <1>1, AbandonedClaims
<1>3. \A h \in Handlers : task'[h].pc = "idle"
  BY <1>1 DEF Idle
<1>4. TypeOK'
  BY <1>1, <1>2 DEF IInv, TypeOK, Task
<1>5. \A x \in wire' : x.handler = Nobody
  BY <1>1, AbandonedCalls DEF IInv, TypeOK, Call
<1>6. SoleHolder' /\ InTime' /\ HolderOwnsItsRow' /\ CleanReservation' /\ WireOwner'
  BY <1>3, <1>5 DEF SoleHolder, InTime, HolderOwnsItsRow, CleanReservation, WireOwner,
     Holding
<1>7. IdsAreReal'
  BY <1>1, <1>3 DEF IInv, IdsAreReal, At
<1> QED
  BY <1>1, <1>2, <1>4, <1>6, <1>7 DEF IInv, PrimaryKey, OneMessagePerKey, AckIsTheRequest

LEMMA TickInv ==
  ASSUME IInv, Tick
  PROVE  IInv'
<1>1. /\ now \in Nat /\ now' = now + 1
      /\ UNCHANGED <<idempotencia, task, wire, messages, acked, counted, reservations>>
  BY DEF IInv, TypeOK, Tick
<1>2. TypeOK'
  BY <1>1 DEF IInv, TypeOK
<1>3. Past'
  BY <1>1 DEF IInv, TypeOK, Past, Entry, Call, Message
<1>4. InTime'
  <2>1. ASSUME NEW h \in Handlers, task[h].pc \in Holding
        PROVE  task[h].born <= now' /\ now' <= task[h].born + Deadline
    <3>1. task[h].born \in Nat
      BY <2>1, TaskFields DEF IInv, Holding
    <3> QED
      BY <2>1, <3>1, <1>1, SendAssumption DEF IInv, InTime, Tick
  <2> QED
    BY <2>1, <1>1 DEF InTime
<1>5. RowIsKept'
  <2>1. \A c \in wire : Old(c, now) => Old(c, now')
    BY <1>1, SendAssumption DEF IInv, TypeOK, Old, Call
  <2>2. \A m \in messages : Old(m, now) => Old(m, now')
    BY <1>1, SendAssumption DEF IInv, TypeOK, Old, Message
  <2> QED
    BY <1>1, <2>1, <2>2 DEF IInv, RowIsKept, Old
<1> QED
  BY <1>1, <1>2, <1>3, <1>4, <1>5 DEF IInv, PrimaryKey, HolderOwnsItsRow, SoleHolder,
     WireOwner, ClaimsApart, CleanReservation, IdsAreReal, OneMessagePerKey,
     AckIsTheRequest, At

(* The purge takes no row somebody works on: those are young. *)
LEMMA PurgeInv ==
  ASSUME IInv, PurgeIdempotency
  PROVE  IInv'
<1>1. /\ idempotencia' = idempotencia \ Expired
      /\ UNCHANGED <<now, task, wire, messages, acked, counted, reservations>>
  BY DEF PurgeIdempotency
<1>2. HolderOwnsItsRow'
  <2>1. ASSUME NEW h \in Handlers, task[h].pc \in Holding
        PROVE  \E e \in idempotencia' : /\ e.row = task[h].row /\ e.born = task[h].born
                                        /\ e.hash = task[h].hash /\ e.id = 0
    <3>1. PICK e \in idempotencia : /\ e.row = task[h].row /\ e.born = task[h].born
                                    /\ e.hash = task[h].hash /\ e.id = 0
      BY <2>1 DEF IInv, HolderOwnsItsRow
    <3>2. e.born \in Nat /\ now \in Nat /\ now <= e.born + Deadline
      BY <2>1, <3>1 DEF IInv, TypeOK, InTime, Entry
    <3>3. e \notin Expired
      BY <3>2, SendAssumption DEF Expired
    <3> QED
      BY <3>1, <3>3, <1>1
  <2> QED
    BY <2>1, <1>1 DEF HolderOwnsItsRow
<1>3. RowIsKept'
  <2>1. \A e \in Expired : \A c : c.born = e.born => Old(c, now)
    BY DEF Expired, Old
  <2> QED
    BY <2>1, <1>1 DEF IInv, RowIsKept, Old
<1>4. TypeOK' /\ PrimaryKey' /\ Past' /\ IdsAreReal'
  BY <1>1 DEF IInv, TypeOK, PrimaryKey, Past, IdsAreReal, At
<1> QED
  BY <1>1, <1>2, <1>3, <1>4 DEF IInv, InTime, SoleHolder,
     WireOwner, ClaimsApart, CleanReservation, OneMessagePerKey, AckIsTheRequest, At

(* The row a confirmation lands on is the one its handler reserved. *)
LEMMA ConfirmInv ==
  ASSUME IInv, NEW h \in Handlers, ConfirmIdempotency(h)
  PROVE  IInv'
<1> DEFINE t == [task[h] EXCEPT !.pc = "count_sent"]
           a == [row |-> task[h].row, hash |-> task[h].hash, id |-> task[h].id]
<1>1. At(h, "confirm") /\ task[h].pc # "idle" /\ task[h].pc \in Holding
  BY DEF ConfirmIdempotency, At, Holding
<1>2. /\ TypeOK /\ task[h].row \in Row /\ task[h].hash \in Hashes
      /\ task[h].born \in Nat /\ task[h].id \in Nat
      /\ task[h] \in [pc : Asking \cup Holding \cup Closing,
                      row : Row, hash : Hashes, born : Nat, id : Nat]
  BY <1>1, TaskFields DEF IInv
<1>3. /\ task' = [task EXCEPT ![h] = t]
      /\ acked' = acked \cup {a}
      /\ UNCHANGED <<now, wire, messages, counted, reservations>>
      /\ idempotencia' \in {idempotencia, Confirmed(task[h].row, task[h].id)}
  BY <1>2 DEF ConfirmIdempotency, GoTo, TypeOK
<1>4. t \in Task /\ t.pc = "count_sent" /\ t.pc \notin Holding
  BY <1>2 DEF Task, Closing, Holding
<1>5. task'[h] = t /\ \A g \in Handlers : g # h => task'[g] = task[g]
  BY <1>3, <1>2 DEF TypeOK
<1>6. \E m \in messages : Names(m, task[h].id, task[h].row, task[h].hash)
  BY <1>1 DEF IInv, IdsAreReal
<1>7. \A e \in idempotencia : e.row = task[h].row => e.hash = task[h].hash
  BY <1>1 DEF IInv, HolderOwnsItsRow, PrimaryKey
(* Every row of the new table comes from the row of the old one. *)
<1>8. /\ idempotencia' \subseteq Entry
      /\ \A f \in idempotencia' : \E e \in idempotencia :
           /\ f.row = e.row /\ f.born = e.born /\ f.hash = e.hash
           /\ \/ f = e
              \/ /\ e.row = task[h].row /\ f = [e EXCEPT !.id = task[h].id]
                 /\ f.id = task[h].id
                 /\ idempotencia' = Confirmed(task[h].row, task[h].id)
      /\ \A e \in idempotencia : \E f \in idempotencia' :
           /\ f.row = e.row /\ f.born = e.born /\ f.hash = e.hash
           /\ e.row # task[h].row => f = e
  <2>1. CASE idempotencia' = idempotencia
    BY <2>1, <1>2 DEF TypeOK
  <2>2. CASE idempotencia' = Confirmed(task[h].row, task[h].id)
    <3>1. \A f \in idempotencia' : \E e \in idempotencia :
             f = IF e.row = task[h].row THEN [e EXCEPT !.id = task[h].id] ELSE e
      BY <2>2 DEF Confirmed
    <3>2. \A e \in idempotencia :
             (IF e.row = task[h].row THEN [e EXCEPT !.id = task[h].id] ELSE e) \in idempotencia'
      BY <2>2 DEF Confirmed
    <3>3. \A e \in idempotencia :
             /\ [e EXCEPT !.id = task[h].id] \in Entry
             /\ [e EXCEPT !.id = task[h].id].row = e.row
             /\ [e EXCEPT !.id = task[h].id].born = e.born
             /\ [e EXCEPT !.id = task[h].id].hash = e.hash
             /\ [e EXCEPT !.id = task[h].id].id = task[h].id
      BY <1>2 DEF TypeOK, Entry
    <3>4. idempotencia' \subseteq Entry
      BY <3>1, <3>3, <1>2 DEF TypeOK
    <3>5. ASSUME NEW f \in idempotencia'
          PROVE  \E e \in idempotencia :
                   /\ f.row = e.row /\ f.born = e.born /\ f.hash = e.hash
                   /\ \/ f = e
                      \/ /\ e.row = task[h].row /\ f = [e EXCEPT !.id = task[h].id]
                         /\ f.id = task[h].id
                         /\ idempotencia' = Confirmed(task[h].row, task[h].id)
      <4>1. PICK e \in idempotencia :
               f = IF e.row = task[h].row THEN [e EXCEPT !.id = task[h].id] ELSE e
        BY <3>1
      <4>2. CASE e.row = task[h].row
        BY <4>1, <4>2, <3>3, <2>2
      <4>3. CASE e.row # task[h].row
        BY <4>1, <4>3
      <4> QED
        BY <4>2, <4>3
    <3>6. ASSUME NEW e \in idempotencia
          PROVE  \E f \in idempotencia' :
                   /\ f.row = e.row /\ f.born = e.born /\ f.hash = e.hash
                   /\ e.row # task[h].row => f = e
      BY <3>2, <3>3
    <3> QED
      BY <3>4, <3>5, <3>6
  <2> QED BY <2>1, <2>2, <1>3
<1>9. a \in Ack
  BY <1>2 DEF Ack
<1>10. TypeOK'
  BY <1>2, <1>3, <1>4, <1>8, <1>9 DEF TypeOK
<1>11. PrimaryKey'
  <2>1. CASE idempotencia' = idempotencia
    BY <2>1 DEF IInv, PrimaryKey
  <2>2. CASE idempotencia' = Confirmed(task[h].row, task[h].id)
    BY <2>2, <1>2 DEF IInv, PrimaryKey, Confirmed, TypeOK, Entry
  <2> QED BY <2>1, <2>2, <1>3
<1>12. Past' /\ RowIsKept'
  BY <1>3, <1>8 DEF IInv, Past, RowIsKept
<1>13. HolderOwnsItsRow'
  <2>1. ASSUME NEW g \in Handlers, task'[g].pc \in Holding
        PROVE  \E e \in idempotencia' : /\ e.row = task'[g].row /\ e.born = task'[g].born
                                        /\ e.hash = task'[g].hash /\ e.id = 0
    <3>1. g # h /\ task'[g] = task[g]
      BY <2>1, <1>4, <1>5
    <3>2. task[g].row # task[h].row
      BY <2>1, <3>1, <1>1 DEF IInv, SoleHolder
    <3>3. PICK e \in idempotencia : /\ e.row = task[g].row /\ e.born = task[g].born
                                    /\ e.hash = task[g].hash /\ e.id = 0
      BY <2>1, <3>1 DEF IInv, HolderOwnsItsRow
    <3>4. e \in idempotencia'
      BY <3>2, <3>3, <1>8
    <3> QED
      BY <3>1, <3>3, <3>4
  <2> QED
    BY <2>1 DEF HolderOwnsItsRow
<1>14. SoleHolder' /\ InTime'
  BY <1>3, <1>4, <1>5 DEF IInv, SoleHolder, InTime
<1>15. CleanReservation'
  <2>1. \A g \in Handlers : task'[g].pc \in {"call", "release"} => task'[g] = task[g]
    BY <1>4, <1>5
  <2> QED
    BY <2>1, <1>3 DEF IInv, CleanReservation
<1>16. WireOwner'
  BY <1>1, <1>3, <1>5, <1>2 DEF IInv, TypeOK, WireOwner, At, Call
<1>17. IdsAreReal'
  <2>1. ASSUME NEW f \in idempotencia', f.id # 0
        PROVE  \E m \in messages : Names(m, f.id, f.row, f.hash)
    <3>1. PICK e \in idempotencia :
             /\ f.row = e.row /\ f.born = e.born /\ f.hash = e.hash
             /\ f = e \/ (e.row = task[h].row /\ f.id = task[h].id)
      BY <1>8
    <3>2. CASE f = e
      BY <2>1, <3>2 DEF IInv, IdsAreReal
    <3>3. CASE e.row = task[h].row /\ f.id = task[h].id
      BY <3>1, <3>3, <1>6, <1>7
    <3> QED BY <3>1, <3>2, <3>3
  <2>2. \A g \in Handlers : At(g, "confirm")' => task'[g] = task[g] /\ At(g, "confirm")
    BY <1>4, <1>5 DEF At
  <2> QED
    BY <2>1, <2>2, <1>3 DEF IInv, IdsAreReal
<1>18. AckIsTheRequest' /\ ClaimsApart' /\ OneMessagePerKey'
  BY <1>3, <1>6 DEF IInv, AckIsTheRequest, ClaimsApart, OneMessagePerKey, Names
<1> QED
  BY <1>3, <1>10, <1>11, <1>12, <1>13, <1>14, <1>15, <1>16, <1>17, <1>18 DEF IInv

(* The row a release deletes is clean: nothing of it is, or was, sent. *)
LEMMA ReleaseInv ==
  ASSUME IInv, NEW h \in Handlers, ReleaseIdempotency(h)
  PROVE  IInv'
<1> DEFINE t == [task[h] EXCEPT !.pc = "count_failed"]
<1>1. At(h, "release") /\ task[h].pc # "idle" /\ task[h].pc \in Holding
  BY DEF ReleaseIdempotency, At, Holding
<1>2. /\ TypeOK /\ task[h].row \in Row /\ task[h].born \in Nat
      /\ task[h] \in [pc : Asking \cup Holding \cup Closing,
                      row : Row, hash : Hashes, born : Nat, id : Nat]
  BY <1>1, TaskFields DEF IInv
<1>3. /\ task' = [task EXCEPT ![h] = t]
      /\ idempotencia' \subseteq idempotencia
      /\ \A e \in idempotencia : e.row # task[h].row => e \in idempotencia'
      /\ UNCHANGED <<now, wire, messages, acked, counted, reservations>>
  BY <1>2 DEF ReleaseIdempotency, GoTo, TypeOK, Found
<1>4. t \in Task /\ t.pc = "count_failed" /\ t.pc \notin Holding
  BY <1>2 DEF Task, Closing, Holding
<1>5. task'[h] = t /\ \A g \in Handlers : g # h => task'[g] = task[g]
  BY <1>3, <1>2 DEF TypeOK
<1>6. TypeOK'
  BY <1>2, <1>3, <1>4 DEF TypeOK
<1>7. HolderOwnsItsRow'
  <2>1. ASSUME NEW g \in Handlers, task'[g].pc \in Holding
        PROVE  \E e \in idempotencia' : /\ e.row = task'[g].row /\ e.born = task'[g].born
                                        /\ e.hash = task'[g].hash /\ e.id = 0
    <3>1. g # h /\ task'[g] = task[g]
      BY <2>1, <1>4, <1>5
    <3>2. task[g].row # task[h].row
      BY <2>1, <3>1, <1>1 DEF IInv, SoleHolder
    <3> QED
      BY <2>1, <3>1, <3>2, <1>3 DEF IInv, HolderOwnsItsRow
  <2> QED
    BY <2>1 DEF HolderOwnsItsRow
<1>8. RowIsKept'
  <2>1. /\ \A c \in wire : c.row = task[h].row => Old(c, task[h].born)
        /\ \A m \in messages : m.row = task[h].row => m.disowned \/ Old(m, task[h].born)
    BY <1>1 DEF IInv, CleanReservation, At
  <2>2. task[h].born <= now /\ now \in Nat
    BY <1>1, <1>2 DEF IInv, InTime, TypeOK
  <2>3. \A c \in wire : c.row = task[h].row => Old(c, now)
    BY <2>1, <2>2, <1>2, SendAssumption DEF Old, TypeOK, Call
  <2>4. \A m \in messages : m.row = task[h].row => m.disowned \/ Old(m, now)
    BY <2>1, <2>2, <1>2, SendAssumption DEF Old, TypeOK, Message
  <2> QED
    BY <2>3, <2>4, <1>3 DEF IInv, RowIsKept, Old
<1>9. SoleHolder' /\ InTime' /\ IdsAreReal'
  BY <1>3, <1>4, <1>5 DEF IInv, SoleHolder, InTime, IdsAreReal, At, Holding
<1>10. CleanReservation'
  <2>1. \A g \in Handlers : task'[g].pc \in {"call", "release"} => task'[g] = task[g]
    BY <1>4, <1>5
  <2> QED
    BY <2>1, <1>3 DEF IInv, CleanReservation
<1>11. WireOwner'
  BY <1>1, <1>3, <1>5, <1>2 DEF IInv, TypeOK, WireOwner, At, Call
<1>12. PrimaryKey' /\ Past'
  BY <1>3 DEF IInv, PrimaryKey, Past
<1> QED
  BY <1>3, <1>6, <1>7, <1>8, <1>9, <1>10, <1>11, <1>12 DEF IInv, ClaimsApart,
     OneMessagePerKey, AckIsTheRequest

---------------------------------------------------------------------------
(* A call somebody listens to is the newest claim on its row. *)
LEMMA HeardCall ==
  ASSUME IInv, NEW c \in wire, c.handler # Nobody
  PROVE  /\ c.handler \in Handlers /\ task[c.handler].pc = "waiting"
         /\ c.row = task[c.handler].row /\ c.hash = task[c.handler].hash
         /\ c.born = task[c.handler].born
         /\ \A d \in wire : d # c /\ d.row = c.row => Old(d, c.born)
         /\ \A d \in wire : d # c => d.handler # c.handler
         /\ \A m \in messages : m.row = c.row => m.disowned \/ Old(m, c.born)
<1>1. /\ c.handler \in Handlers /\ task[c.handler].pc = "waiting"
      /\ c.row = task[c.handler].row /\ c.hash = task[c.handler].hash
      /\ c.born = task[c.handler].born
  BY DEF IInv, TypeOK, Call, WireOwner, At
<1>2. now \in Nat /\ c.born \in Nat /\ now <= c.born + Deadline
  BY <1>1 DEF IInv, TypeOK, InTime, Call, Holding
<1>3. ASSUME NEW d \in wire, d # c, d.row = c.row
      PROVE  Old(d, c.born)
  BY <1>2, <1>3, SendAssumption DEF IInv, TypeOK, Call, ClaimsApart, Separate, Old, Past
<1>4. ASSUME NEW d \in wire, d # c
      PROVE  d.handler # c.handler
  <2>1. SUFFICES ASSUME d.handler = c.handler PROVE FALSE
    OBVIOUS
  <2>2. d.row = c.row /\ d.born = c.born
    BY <2>1, <1>1 DEF IInv, WireOwner
  <2> QED
    BY <2>2, <1>3, <1>4, <1>2, SendAssumption DEF Old
<1>5. ASSUME NEW m \in messages, m.row = c.row
      PROVE  m.disowned \/ Old(m, c.born)
  BY <1>2, <1>5, SendAssumption DEF IInv, TypeOK, Message, ClaimsApart, Separate, Old, Past
<1> QED
  BY <1>1, <1>3, <1>4, <1>5

(***************************************************************************)
(* An answer, whether it follows the creation of a message or not: what    *)
(* the two actions of Meta have in common.                                 *)
(***************************************************************************)
LEMMA HearInv ==
  ASSUME IInv, NEW c \in wire, NEW answer \in Answers, NEW i \in Nat,
         Hear(c, answer, i), wire' = wire \ {c},
         messages \subseteq messages', messages' \subseteq Message,
         \A m \in messages' : m \in messages \/
            (m.row = c.row /\ m.born = c.born /\ m.hash = c.hash /\
             (answer \in {"refused", "server_error"} => m.disowned)),
         \A m, n \in messages' : m \notin messages /\ n \notin messages => m = n,
         answer = "id" => \E m \in messages' : Names(m, i, c.row, c.hash),
         IsFiniteSet(messages'),
         UNCHANGED <<now, idempotencia, acked, counted, reservations>>
  PROVE  IInv'
<1>1. wire \subseteq Call /\ TypeOK /\ c \in Call
  BY DEF IInv, TypeOK
(* At most the handler of c moves, out of "waiting". *)
<1>2. \A g \in Handlers :
        \/ task'[g] = task[g] /\ g # c.handler
        \/ /\ g = c.handler /\ task[g].pc = "waiting"
           /\ task'[g].pc = NextPC(answer)
           /\ task'[g].row = task[g].row /\ task'[g].born = task[g].born
           /\ task'[g].hash = task[g].hash
           /\ answer = "id" => task'[g].id = i
  <2>1. CASE c.handler = Nobody
    BY <2>1, SendAssumption DEF Hear
  <2>2. CASE c.handler # Nobody
    <3>1. /\ c.handler \in Handlers /\ task[c.handler].pc = "waiting"
      BY <2>2, HeardCall
    <3>2. task[c.handler] \in [pc : Asking \cup Holding \cup Closing,
                      row : Row, hash : Hashes, born : Nat, id : Nat]
      BY <3>1, <1>1, TaskFields
    <3> DEFINE t == [task[c.handler] EXCEPT !.pc = NextPC(answer),
                                            !.id = IF answer = "id" THEN i ELSE 0]
    <3>3. task' = [task EXCEPT ![c.handler] = t]
      BY <2>2, <3>1, <1>1 DEF Hear, TypeOK
    <3>4. task'[c.handler] = t /\ \A g \in Handlers : g # c.handler => task'[g] = task[g]
      BY <3>1, <3>3, <1>1 DEF TypeOK
    <3>5. /\ t.pc = NextPC(answer) /\ t.row = task[c.handler].row
          /\ t.born = task[c.handler].born /\ t.hash = task[c.handler].hash
          /\ answer = "id" => t.id = i
      BY <3>2
    <3> QED
      BY <3>1, <3>4, <3>5
  <2> QED
    BY <2>1, <2>2
<1>3. NextPC(answer) \in Holding \cup Closing
  BY DEF NextPC, Holding, Closing, Answers
<1>4. TypeOK'
  <2>1. task' \in [Handlers -> Task]
    <3>1. CASE c.handler = Nobody
      BY <3>1, <1>1 DEF Hear, TypeOK
    <3>2. CASE c.handler # Nobody
      <4>1. task[c.handler] \in [pc : Asking \cup Holding \cup Closing,
                      row : Row, hash : Hashes, born : Nat, id : Nat]
        BY <3>2, HeardCall, TaskFields, <1>1
      <4> DEFINE t == [task[c.handler] EXCEPT !.pc = NextPC(answer),
                                              !.id = IF answer = "id" THEN i ELSE 0]
      <4>2. t \in Task
        BY <4>1, <1>3 DEF Task
      <4>3. task' = [task EXCEPT ![c.handler] = t]
        BY <3>2, HeardCall, <1>1 DEF Hear, TypeOK
      <4> QED
        BY <4>2, <4>3, <1>1 DEF TypeOK
    <3> QED
      BY <3>1, <3>2
  <2> QED
    BY <2>1, <1>1 DEF TypeOK
<1>5. Past' /\ PrimaryKey'
  BY DEF IInv, Past, PrimaryKey
<1>6. InTime' /\ SoleHolder' /\ HolderOwnsItsRow'
  <2>1. \A g \in Handlers :
          task'[g].pc \in Holding => /\ task[g].pc \in Holding
                                     /\ task'[g].row = task[g].row
                                     /\ task'[g].born = task[g].born
                                     /\ task'[g].hash = task[g].hash
    BY <1>2 DEF Holding
  <2> QED
    BY <2>1 DEF IInv, InTime, SoleHolder, HolderOwnsItsRow
<1>7. WireOwner'
  <2>1. ASSUME NEW d \in wire', d.handler # Nobody
        PROVE  d.handler # c.handler /\ d.handler \in Handlers /\ d \in wire
    BY <2>1, HeardCall
  <2> QED
    BY <2>1, <1>2 DEF IInv, WireOwner, At
<1>8. ClaimsApart'
  BY DEF IInv, ClaimsApart, Separate, Old
<1>9. CleanReservation'
  <2>1. ASSUME NEW g \in Handlers, task'[g].pc \in {"call", "release"}
        PROVE  /\ \A d \in wire' : d.row = task'[g].row => Old(d, task'[g].born)
               /\ \A m \in messages' :
                    m.row = task'[g].row => m.disowned \/ Old(m, task'[g].born)
    <3>1. CASE task'[g] = task[g] /\ g # c.handler
      <4>1. /\ \A d \in wire : d.row = task[g].row => Old(d, task[g].born)
            /\ \A m \in messages : m.row = task[g].row => m.disowned \/ Old(m, task[g].born)
        BY <2>1, <3>1 DEF IInv, CleanReservation
      (* The call itself is an old claim, so a message it left is one too. *)
      <4>2. c.row = task[g].row => Old(c, task[g].born)
        BY <4>1
      <4>3. \A m \in messages' : m.row = task[g].row => m.disowned \/ Old(m, task[g].born)
        BY <4>1, <4>2 DEF Old
      <4> QED
        BY <3>1, <4>1, <4>3
    <3>2. CASE g = c.handler
      <4>1. /\ answer \in {"refused", "server_error"}
            /\ task'[g].row = c.row /\ task'[g].born = c.born
        BY <3>2, <2>1, <1>2, HeardCall, SendAssumption DEF NextPC, Answers
      <4>2. /\ \A d \in wire : d # c /\ d.row = c.row => Old(d, c.born)
            /\ \A m \in messages : m.row = c.row => m.disowned \/ Old(m, c.born)
        BY <3>2, HeardCall, SendAssumption
      <4> QED
        BY <4>1, <4>2
    <3> QED
      BY <3>1, <3>2, <1>2
  <2> QED
    BY <2>1 DEF CleanReservation, Old
<1>10. RowIsKept'
  <2>1. \/ Old(c, now)
        \/ \E e \in idempotencia : e.row = c.row /\ e.born = c.born
    BY DEF IInv, RowIsKept
  <2> QED
    BY <2>1 DEF IInv, RowIsKept, Old
<1>11. IdsAreReal'
  <2>1. ASSUME NEW g \in Handlers, At(g, "confirm")'
        PROVE  \E m \in messages' : Names(m, task'[g].id, task'[g].row, task'[g].hash)
    <3>1. CASE task'[g] = task[g]
      BY <2>1, <3>1 DEF IInv, IdsAreReal, At
    <3>2. CASE g = c.handler /\ task'[g].pc = NextPC(answer)
      <4>1. answer = "id"
        BY <2>1, <3>2 DEF At, NextPC, Answers
      <4>2. task'[g].id = i /\ task'[g].row = c.row /\ task'[g].hash = c.hash
        BY <4>1, <3>2, <1>2, HeardCall, SendAssumption
      <4> QED
        BY <4>1, <4>2
    <3> QED
      BY <3>1, <3>2, <1>2
  <2>2. \A e \in idempotencia' : e.id # 0 => \E m \in messages' : Names(m, e.id, e.row, e.hash)
    BY DEF IInv, IdsAreReal
  <2> QED
    BY <2>1, <2>2 DEF IdsAreReal, Names
<1>12. AckIsTheRequest'
  BY DEF IInv, AckIsTheRequest
<1>13. OneMessagePerKey'
  <2>1. ASSUME NEW m \in messages, NEW n \in messages', n \notin messages, m.row = n.row
        PROVE  (Apart(m, n) /\ Apart(n, m)) \/ m.disowned
    BY <2>1 DEF IInv, ClaimsApart, Separate, Old, Apart
  <2> QED
    BY <2>1 DEF IInv, OneMessagePerKey, Apart
<1> QED
  BY <1>4, <1>5, <1>6, <1>7, <1>8, <1>9, <1>10, <1>11, <1>12, <1>13 DEF IInv

LEMMA MetaCreatesInv ==
  ASSUME IInv, NEW c \in wire, NEW answer \in Answers, MetaCreates(c, answer)
  PROVE  IInv'
<1> DEFINE i == Cardinality(messages) + 1
           m == [id |-> i, row |-> c.row, hash |-> c.hash, born |-> c.born,
                 disowned |-> answer = "server_error"]
<1>1. /\ messages' = messages \cup {m} /\ Hear(c, answer, i) /\ wire' = wire \ {c}
      /\ UNCHANGED <<now, idempotencia, acked, counted, reservations>>
      /\ answer \in {"id", "without_id", "lost", "server_error"}
  BY DEF MetaCreates
<1>2. i \in Nat
  BY FS_CardinalityType DEF IInv
<1>3. m \in Message
  BY <1>2 DEF IInv, TypeOK, Call, Message
<1>4. /\ m.id = i /\ m.row = c.row /\ m.born = c.born /\ m.hash = c.hash
      /\ m.disowned <=> answer = "server_error"
  OBVIOUS
<1>5. messages' = messages \cup {m}
  BY <1>1
<1> HIDE DEF m
<1>6. IsFiniteSet(messages')
  BY <1>5, FS_AddElement DEF IInv
<1>7. messages \subseteq messages' /\ messages' \subseteq Message
  BY <1>5, <1>3 DEF IInv, TypeOK
<1>8. \A n \in messages' : n \in messages \/
        (n.row = c.row /\ n.born = c.born /\ n.hash = c.hash /\
         (answer \in {"refused", "server_error"} => n.disowned))
  BY <1>5, <1>4, <1>1
<1>9. \A n, o \in messages' : n \notin messages /\ o \notin messages => n = o
  BY <1>5
<1>10. answer = "id" => \E n \in messages' : Names(n, i, c.row, c.hash)
  BY <1>4, <1>5 DEF Names
<1> HIDE DEF i
<1> QED
  BY <1>1, <1>2, <1>6, <1>7, <1>8, <1>9, <1>10, HearInv

LEMMA MetaDoesNotCreateInv ==
  ASSUME IInv, NEW c \in wire, NEW answer \in Answers, MetaDoesNotCreate(c, answer)
  PROVE  IInv'
<1>1. /\ messages' = messages /\ Hear(c, answer, 0) /\ wire' = wire \ {c}
      /\ UNCHANGED <<now, idempotencia, acked, counted, reservations>>
      /\ answer # "id"
  BY DEF MetaDoesNotCreate
<1>2. messages \subseteq Message /\ IsFiniteSet(messages')
  BY <1>1 DEF IInv, TypeOK
<1> QED
  BY <1>1, <1>2, HearInv

LEMMA NextInv == IInv /\ [Next]_vars => IInv'
<1> SUFFICES ASSUME IInv, [Next]_vars PROVE IInv'
  OBVIOUS
<1>1. ASSUME NEW h \in Handlers, NEW r \in Row, NEW q \in Hashes, Receive(h, r, q)
      PROVE  IInv'
  BY <1>1, ReceiveInv
<1>2. ASSUME NEW h \in Handlers, Step(h)
      PROVE  IInv'
  BY <1>2, ReserveInsertInv, ReserveLookupInv, ReserveFailsInv, SendMessageInv,
     RefuseLocallyInv, TransportFailureInv, ConfirmInv, ReleaseInv, CountInv DEF Step
<1>3. ASSUME NEW c \in wire, NEW a \in Answers, MetaCreates(c, a) \/ MetaDoesNotCreate(c, a)
      PROVE  IInv'
  BY <1>3, MetaCreatesInv, MetaDoesNotCreateInv
<1>4. CASE Tick \/ PurgeIdempotency \/ Crash
  BY <1>4, TickInv, PurgeInv, CrashInv
<1>5. CASE UNCHANGED vars
  BY <1>5 DEF vars, IInv, TypeOK, PrimaryKey, Past, InTime, HolderOwnsItsRow, SoleHolder,
     WireOwner, ClaimsApart, CleanReservation, RowIsKept, IdsAreReal, OneMessagePerKey,
     AckIsTheRequest, At
<1> QED
  BY <1>1, <1>2, <1>3, <1>4, <1>5 DEF Next

(* The inductive invariant holds in every state of every behaviour. *)
LEMMA Invariance == Spec => []IInv
<1> QED
  BY InitInv, NextInv, PTL DEF Spec

---------------------------------------------------------------------------
(* Every variable keeps its type, whatever the handlers, the store and Meta do. *)
THEOREM TypeCorrect == Spec => []TypeOK
<1>1. IInv => TypeOK
  BY DEF IInv
<1> QED
  BY <1>1, Invariance, PTL

(***************************************************************************)
(* For any number of concurrent requests, consumers, keys and requests,    *)
(* two messages of one key were reserved more than the retention apart,    *)
(* unless Meta disowned one of them with a 5xx.                            *)
(***************************************************************************)
THEOREM OneMessage == Spec => []OneMessagePerKey
<1>1. IInv => OneMessagePerKey
  BY DEF IInv
<1> QED
  BY <1>1, Invariance, PTL

(* A 200 names a message of this consumer, under this key, for this request. *)
THEOREM AckIsHonest == Spec => []AckIsTheRequest
<1>1. IInv => AckIsTheRequest
  BY DEF IInv
<1> QED
  BY <1>1, Invariance, PTL

(* The statements that name only the key touch the row the handler reserved. *)
THEOREM HolderOwns == Spec => []HolderOwnsItsRow
<1>1. IInv => HolderOwnsItsRow
  BY DEF IInv
<1> QED
  BY <1>1, Invariance, PTL

---------------------------------------------------------------------------
(* The row a handler holds, seen from the row. *)
LEMMA HeldRow ==
  ASSUME IInv, NEW h \in Handlers, task[h].pc \in Holding,
         NEW e \in idempotencia, e.row = task[h].row
  PROVE  e.born = task[h].born /\ e.hash = task[h].hash /\ e.id = 0
<1>1. PICK f \in idempotencia : /\ f.row = task[h].row /\ f.born = task[h].born
                                /\ f.hash = task[h].hash /\ f.id = 0
  BY DEF IInv, HolderOwnsItsRow
<1>2. f = e
  BY <1>1 DEF IInv, PrimaryKey
<1> QED
  BY <1>1, <1>2

(***************************************************************************)
(* A key leaves the table only when its retention has passed, or when no   *)
(* call of its reservation is on its way and no message of it is owned; a  *)
(* stored id is never replaced.                                            *)
(***************************************************************************)
THEOREM KeyIsFreedSafely == Spec => KeyIsFreedOnlyWhenNothingWasSent
<1> DEFINE Freed(e) == \/ Kept(e)
                       \/ e.born + TTL < now
                       \/ /\ \A c \in wire : c.row = e.row => c.born + TTL < e.born
                          /\ \A m \in messages :
                               m.row = e.row => m.disowned \/ m.born + TTL < e.born
<1>1. ASSUME IInv, [Next]_vars, NEW e \in idempotencia
      PROVE  Freed(e)
  <2>1. CASE idempotencia \subseteq idempotencia'
    BY <2>1 DEF Kept
  <2>2. ASSUME NEW h \in Handlers, ConfirmIdempotency(h)
        PROVE  Kept(e)
    <3>1. CASE e.row # task[h].row \/ idempotencia' = idempotencia
      <4>1. e \in idempotencia'
        BY <2>2, <3>1 DEF ConfirmIdempotency, Confirmed
      <4> QED
        BY <4>1 DEF Kept
    <3>2. CASE e.row = task[h].row /\ idempotencia' = Confirmed(task[h].row, task[h].id)
      <4>1. e.id = 0
        BY <1>1, <2>2, <3>2, HeldRow DEF ConfirmIdempotency, At, Holding
      <4>2. [e EXCEPT !.id = task[h].id] \in idempotencia'
        BY <3>2 DEF Confirmed
      <4>3. [e EXCEPT !.id = task[h].id].row = e.row /\ [e EXCEPT !.id = task[h].id].born = e.born
        BY <1>1 DEF IInv, TypeOK, Entry
      <4> QED
        BY <4>1, <4>2, <4>3 DEF Kept
    <3> QED
      BY <2>2, <3>1, <3>2 DEF ConfirmIdempotency
  <2>3. ASSUME NEW h \in Handlers, ReleaseIdempotency(h)
        PROVE  Freed(e)
    <3>1. CASE e.row # task[h].row
      BY <2>3, <3>1 DEF ReleaseIdempotency, Found, Kept
    <3>2. CASE e.row = task[h].row
      <4>1. task[h].pc = "release"
        BY <2>3 DEF ReleaseIdempotency, At
      <4>2. e.born = task[h].born
        BY <1>1, <3>2, <4>1, HeldRow DEF Holding
      <4>3. /\ \A c \in wire : c.row = task[h].row => Old(c, task[h].born)
            /\ \A m \in messages : m.row = task[h].row => m.disowned \/ Old(m, task[h].born)
        BY <1>1, <4>1 DEF IInv, CleanReservation
      <4> QED
        BY <3>2, <4>2, <4>3 DEF Old
    <3> QED
      BY <3>1, <3>2
  <2>4. CASE PurgeIdempotency
    BY <2>4 DEF PurgeIdempotency, Expired, Kept
  <2>5. ASSUME NEW h \in Handlers, Step(h)
        PROVE  \/ idempotencia \subseteq idempotencia'
               \/ ConfirmIdempotency(h) \/ ReleaseIdempotency(h)
    BY <2>5 DEF Step, ReserveInsert, ReserveLookup, ReserveFails, SendMessage,
       RefuseLocally, TransportFailure, Count
  <2> QED
    BY <1>1, <2>1, <2>2, <2>3, <2>4, <2>5 DEF Next, vars, Receive, MetaCreates,
       MetaDoesNotCreate, Tick, Crash
<1>2. IInv /\ [Next]_vars => [\A e \in idempotencia : Freed(e)]_vars
  BY <1>1
<1> QED
  BY <1>2, Invariance, PTL DEF Spec, KeyIsFreedOnlyWhenNothingWasSent

---------------------------------------------------------------------------
(* The handlers implement SendContract: every step of OutboundSend is a    *)
(* step of the contract, or changes nothing a consumer could see.          *)

Seen == <<now, TakenKeys, Attempts, messages, acked>>

(* Attempts that end are one step of the contract, however many they are. *)
LEMMA AttemptsEnd ==
  ASSUME Attempts' \subseteq Attempts,
         UNCHANGED <<now, idempotencia, messages, acked>>
  PROVE  Contract!Next
<1>1. TakenKeys' = TakenKeys
  BY DEF TakenKeys
<1>2. Attempts' = Attempts \ (Attempts \ Attempts')
  OBVIOUS
<1>3. Contract!ComeToNothing(Attempts \ Attempts')
  BY <1>1, <1>2 DEF Contract!ComeToNothing
<1> QED
  BY <1>3 DEF Contract!Next

(* A handler that is not about to call, before and after, adds no attempt. *)
LEMMA OtherAttempts ==
  ASSUME NEW h \in Handlers, NEW t, task \in [Handlers -> Task],
         task' = [task EXCEPT ![h] = t], t.pc # "call", wire' = wire
  PROVE  /\ Attempts' \subseteq Attempts
         /\ task[h].pc # "call" => Attempts' = Attempts
BY DEF Attempts, Attempt

LEMMA InitRefines == Init => Contract!Init
<1> SUFFICES ASSUME Init PROVE Contract!Init
  OBVIOUS
<1> DEFINE old(r) == [row |-> r, id |-> 0, hash |-> NoHash, born |-> 0]
           key(r) == Contract!Taking(r, NoHash, 0)
<1>1. idempotencia = {old(r) : r \in Legacy}
  BY DEF Init
<1>2. \A r : [row |-> old(r).row, hash |-> old(r).hash, born |-> old(r).born] = key(r)
  BY DEF Contract!Taking
<1>3. TakenKeys = {key(r) : r \in Legacy}
  <2> HIDE DEF old, key
  <2> QED
    BY <1>1, <1>2 DEF TakenKeys
<1>4. Attempts = {}
  BY DEF Init, Attempts, Idle
<1> QED
  BY <1>3, <1>4 DEF Init, Contract!Init

LEMMA ReserveInsertRefines ==
  ASSUME IInv, NEW h \in Handlers, ReserveInsert(h)
  PROVE  [Contract!Next]_Seen
<1>1. /\ task[h].row \in Row /\ task[h].hash \in Hashes
      /\ task[h].pc = "insert" /\ task \in [Handlers -> Task]
  BY TaskFields DEF IInv, TypeOK, ReserveInsert, At
<1>2. CASE Found(task[h].row) # {}
  <2>1. task' = [task EXCEPT ![h] = [task[h] EXCEPT !.pc = "lookup"]]
    BY <1>1, <1>2 DEF ReserveInsert, GoTo
  <2>2. [task[h] EXCEPT !.pc = "lookup"].pc # "call"
    BY <1>1, TaskFields DEF IInv
  <2>3. Attempts' = Attempts
    BY <1>1, <2>1, <2>2, OtherAttempts DEF ReserveInsert
  <2> QED
    BY <1>2, <2>3 DEF Seen, ReserveInsert, TakenKeys
<1>3. CASE Found(task[h].row) = {}
  <2> DEFINE r == task[h].row
             q == task[h].hash
             k == Contract!Taking(r, q, now)
             t == [task[h] EXCEPT !.pc = "call", !.born = now]
  <2>1. /\ idempotencia' = idempotencia \cup {[row |-> r, id |-> 0, hash |-> q, born |-> now]}
        /\ task' = [task EXCEPT ![h] = t]
        /\ UNCHANGED <<now, wire, messages, acked>>
    BY <1>1, <1>3 DEF ReserveInsert
  <2>2. \A x \in TakenKeys : x.row # r
    BY <1>3 DEF TakenKeys, Found
  <2>3. TakenKeys' = TakenKeys \cup {k}
    <3> DEFINE e == [row |-> r, id |-> 0, hash |-> q, born |-> now]
    <3>1. [row |-> e.row, hash |-> e.hash, born |-> e.born] = k
      BY DEF Contract!Taking
    <3>2. idempotencia' = idempotencia \cup {e}
      BY <2>1
    <3> HIDE DEF e, k
    <3> QED
      BY <3>1, <3>2 DEF TakenKeys
  <2>4. t.pc = "call" /\ Attempt(t) = k
    BY <1>1, TaskFields DEF IInv, Attempt, Contract!Taking
  <2>5. Attempts' = Attempts \cup {k}
    <3>1. \A g \in Handlers : g # h => task'[g] = task[g]
      BY <1>1, <2>1
    <3>2. task'[h] = t
      BY <1>1, <2>1
    <3> HIDE DEF t, k
    <3> QED
      BY <1>1, <2>1, <2>4, <3>1, <3>2 DEF Attempts, Attempt
  <2>6. Contract!Reserve(r, q)
    BY <2>1, <2>2, <2>3, <2>5 DEF Contract!Reserve
  <2> QED
    BY <1>1, <2>6 DEF Contract!Next
<1> QED
  BY <1>2, <1>3

(* An answer 200 acknowledges the message the row, or the handler, names. *)
LEMMA AcknowledgeRefines ==
  ASSUME NEW m \in messages, NEW i, NEW r, NEW q, Names(m, i, r, q),
         acked' = acked \cup {[row |-> r, hash |-> q, id |-> i]},
         UNCHANGED <<now, TakenKeys, Attempts, messages>>
  PROVE  Contract!Next
<1>1. Contract!Acknowledge(m)
  BY DEF Names, Contract!Acknowledge
<1> QED
  BY <1>1 DEF Contract!Next

LEMMA ReserveLookupRefines ==
  ASSUME IInv, NEW h \in Handlers, ReserveLookup(h)
  PROVE  [Contract!Next]_Seen
<1> DEFINE F == {f \in Found(task[h].row) : f.hash = task[h].hash /\ f.id # 0}
<1>1. /\ task[h].pc = "lookup" /\ task \in [Handlers -> Task]
      /\ task' = [task EXCEPT ![h] = Idle] /\ Idle.pc # "call"
      /\ UNCHANGED <<now, idempotencia, wire, messages>>
  BY DEF IInv, TypeOK, ReserveLookup, At, Answer, Idle
<1>2. Attempts' = Attempts
  BY <1>1, OtherAttempts
<1>3. TakenKeys' = TakenKeys
  BY <1>1 DEF TakenKeys
<1>4. acked' = acked \cup {[row |-> task[h].row, hash |-> task[h].hash, id |-> e.id] : e \in F}
  BY DEF ReserveLookup
<1>5. CASE F = {}
  BY <1>1, <1>2, <1>3, <1>4, <1>5 DEF Seen
<1>6. ASSUME NEW e \in F
      PROVE  Contract!Next
  <2>1. \A f \in F : f = e
    BY DEF IInv, PrimaryKey, Found
  <2>2. acked' = acked \cup {[row |-> task[h].row, hash |-> task[h].hash, id |-> e.id]}
    BY <1>4, <2>1
  <2>3. PICK m \in messages : Names(m, e.id, task[h].row, task[h].hash)
    BY DEF IInv, IdsAreReal, Found
  <2> QED
    BY <1>1, <1>2, <1>3, <2>2, <2>3, AcknowledgeRefines
<1> QED
  BY <1>5, <1>6

LEMMA SendMessageRefines ==
  ASSUME IInv, NEW h \in Handlers, SendMessage(h)
  PROVE  [Contract!Next]_Seen
<1> DEFINE c == [handler |-> h, row |-> task[h].row, hash |-> task[h].hash, born |-> task[h].born]
           t == [task[h] EXCEPT !.pc = "waiting"]
<1>1. /\ task[h].pc = "call" /\ task \in [Handlers -> Task]
      /\ task' = [task EXCEPT ![h] = t]
      /\ wire' = wire \cup {c}
      /\ UNCHANGED <<now, idempotencia, messages, acked>>
  BY DEF IInv, TypeOK, SendMessage, At, GoTo
<1>2. t.pc = "waiting"
  BY <1>1, TaskFields DEF IInv
<1>3. Attempt(c) = Attempt(task[h])
  BY DEF Attempt
<1>4. \A g \in Handlers : g # h => task'[g] = task[g]
  BY <1>1
<1>5. task'[h].pc = "waiting"
  BY <1>1, <1>2
<1>6. Attempts' = Attempts
  <2> HIDE DEF c, t
  <2> QED
    BY <1>1, <1>3, <1>4, <1>5 DEF Attempts, Attempt
<1> QED
  BY <1>1, <1>6 DEF Seen, TakenKeys

(* Refused locally, broken or timed out: the attempts only get fewer. *)
LEMMA RefuseLocallyRefines ==
  ASSUME IInv, NEW h \in Handlers, RefuseLocally(h)
  PROVE  Contract!Next
<1> DEFINE t == [task[h] EXCEPT !.pc = "release"]
<1>1. task[h].pc = "call" /\ task \in [Handlers -> Task] /\ task' = [task EXCEPT ![h] = t]
  BY DEF IInv, TypeOK, RefuseLocally, At, GoTo
<1>2. t.pc # "call"
  BY <1>1, TaskFields DEF IInv
<1>3. Attempts' \subseteq Attempts
  BY <1>1, <1>2, OtherAttempts DEF RefuseLocally
<1> QED
  BY <1>3, AttemptsEnd DEF RefuseLocally

LEMMA AbandonedAttempts ==
  ASSUME wire \subseteq Call, NEW hs, wire' = Abandoned(wire, hs),
         \A g \in Handlers : task'[g].pc = "call" => task'[g] = task[g]
  PROVE  Attempts' \subseteq Attempts
<1>1. \A x \in wire' : \E c \in wire : Attempt(x) = Attempt(c)
  <2>1. \A x \in wire' : \E c \in wire :
          x.row = c.row /\ x.hash = c.hash /\ x.born = c.born
    BY AbandonedCalls
  <2> QED
    BY <2>1 DEF Attempt
<1> QED
  BY <1>1 DEF Attempts

LEMMA TransportFailureRefines ==
  ASSUME IInv, NEW h \in Handlers, TransportFailure(h)
  PROVE  Contract!Next
<1> DEFINE t == [task[h] EXCEPT !.pc = "count_failed"]
<1>1. task[h].pc = "waiting" /\ task \in [Handlers -> Task] /\ task' = [task EXCEPT ![h] = t]
  BY DEF IInv, TypeOK, TransportFailure, At, GoTo
<1>2. t.pc # "call"
  BY <1>1, TaskFields DEF IInv
<1>3. \A g \in Handlers : task'[g].pc = "call" => task'[g] = task[g]
  <2>1. \A g \in Handlers : g # h => task'[g] = task[g]
    BY <1>1
  <2>2. task'[h] = t
    BY <1>1
  <2> QED
    BY <1>2, <2>1, <2>2
<1>4. Attempts' \subseteq Attempts
  BY <1>3, AbandonedAttempts DEF IInv, TypeOK, TransportFailure
<1> QED
  BY <1>4, AttemptsEnd DEF TransportFailure

LEMMA CrashRefines ==
  ASSUME IInv, Crash
  PROVE  Contract!Next
<1>1. \A g \in Handlers : task'[g].pc = "call" => task'[g] = task[g]
  BY DEF Crash, Idle
<1>2. Attempts' \subseteq Attempts
  BY <1>1, AbandonedAttempts DEF IInv, TypeOK, Crash
<1> QED
  BY <1>2, AttemptsEnd DEF Crash

LEMMA ConfirmRefines ==
  ASSUME IInv, NEW h \in Handlers, ConfirmIdempotency(h)
  PROVE  Contract!Next
<1> DEFINE t == [task[h] EXCEPT !.pc = "count_sent"]
<1>1. task[h].pc = "confirm" /\ task \in [Handlers -> Task] /\ task' = [task EXCEPT ![h] = t]
  BY DEF IInv, TypeOK, ConfirmIdempotency, At, GoTo
<1>2. t.pc # "call"
  BY <1>1, TaskFields DEF IInv
<1>3. Attempts' = Attempts
  BY <1>1, <1>2, OtherAttempts DEF ConfirmIdempotency
<1>4. TakenKeys' = TakenKeys
  <2> DEFINE conf(e) == IF e.row = task[h].row THEN [e EXCEPT !.id = task[h].id] ELSE e
             key(e) == [row |-> e.row, hash |-> e.hash, born |-> e.born]
  <2>1. \A e \in idempotencia : key(conf(e)) = key(e)
    BY DEF IInv, TypeOK, Entry
  <2>2. CASE idempotencia' = {conf(e) : e \in idempotencia}
    <3>1. {key(x) : x \in idempotencia'} = {key(e) : e \in idempotencia}
      <4> HIDE DEF conf, key
      <4> QED
        BY <2>1, <2>2
    <3> QED
      BY <3>1 DEF TakenKeys
  <2>3. CASE idempotencia' = idempotencia
    BY <2>3 DEF TakenKeys
  <2> QED
    BY <2>2, <2>3 DEF ConfirmIdempotency, Confirmed
<1>5. PICK m \in messages : Names(m, task[h].id, task[h].row, task[h].hash)
  BY <1>1 DEF IInv, IdsAreReal, At
<1> QED
  BY <1>3, <1>4, <1>5, AcknowledgeRefines DEF ConfirmIdempotency

(* The row that is given back is the handler's own, and it is clean. *)
LEMMA ReleaseRefines ==
  ASSUME IInv, NEW h \in Handlers, ReleaseIdempotency(h)
  PROVE  [Contract!Next]_Seen
<1> DEFINE t == [task[h] EXCEPT !.pc = "count_failed"]
           r == task[h].row
<1>1. /\ task[h].pc = "release" /\ task[h].pc \in Holding
      /\ task \in [Handlers -> Task] /\ task' = [task EXCEPT ![h] = t]
      /\ UNCHANGED <<now, wire, messages, acked>>
  BY DEF IInv, TypeOK, ReleaseIdempotency, At, GoTo, Holding
<1>2. t.pc # "call"
  BY <1>1, TaskFields DEF IInv
<1>3. Attempts' = Attempts
  BY <1>1, <1>2, OtherAttempts
<1>4. CASE idempotencia' = idempotencia
  BY <1>1, <1>3, <1>4 DEF Seen, TakenKeys
<1>5. CASE idempotencia' = idempotencia \ Found(r)
  <2>1. PICK e \in idempotencia : e.row = r /\ e.born = task[h].born
    BY <1>1 DEF IInv, HolderOwnsItsRow
  <2> DEFINE k == [row |-> e.row, hash |-> e.hash, born |-> e.born]
  <2>2. k \in TakenKeys /\ k.row = r /\ k.born = task[h].born
    BY <2>1 DEF TakenKeys
  <2>3. \A x \in idempotencia : x \in Found(r) <=> x = e
    BY <2>1 DEF IInv, PrimaryKey, Found
  <2>4. TakenKeys' = TakenKeys \ {k}
    <3>1. \A x \in idempotencia : x # e => x.row # e.row
      BY DEF IInv, PrimaryKey
    <3>2. idempotencia' = idempotencia \ {e}
      BY <1>5, <2>3 DEF Found
    <3> QED
      BY <3>1, <3>2 DEF TakenKeys
  <2>5. \A g \in Attempts : g.row = r => Old(g, task[h].born)
    <3>1. \A c \in wire : c.row = r => Old(c, task[h].born)
      BY <1>1 DEF IInv, CleanReservation
    <3>2. \A g \in Handlers : task[g].pc = "call" => task[g].row # r
      BY <1>1 DEF IInv, SoleHolder, Holding
    <3> QED
      BY <3>1, <3>2 DEF Attempts, Attempt, Old
  <2>6. \A m \in messages : m.row = r => m.disowned \/ Old(m, task[h].born)
    BY <1>1 DEF IInv, CleanReservation
  <2>7. Contract!NothingSent(k)
    <3> HIDE DEF k
    <3> QED
      BY <2>2, <2>5, <2>6 DEF Contract!NothingSent, Old
  <2>8. Contract!GiveBack(k)
    BY <1>1, <1>3, <2>4, <2>7 DEF Contract!GiveBack
  <2> QED
    BY <2>2, <2>8 DEF Contract!Next
<1> QED
  BY <1>4, <1>5 DEF ReleaseIdempotency

(* Whoever hears an answer was waiting, and is not about to call again. *)
LEMMA HearingIsNoAttempt ==
  ASSUME IInv, NEW c \in wire, NEW a, NEW id, Hear(c, a, id)
  PROVE  \A h \in Handlers : \/ task'[h] = task[h]
                             \/ task[h].pc = "waiting" /\ task'[h].pc # "call"
<1>1. CASE c.handler = Nobody
  BY <1>1 DEF Hear
<1>2. CASE c.handler # Nobody
  <2>1. /\ c.handler \in Handlers /\ task[c.handler].pc = "waiting"
        /\ task \in [Handlers -> Task]
    BY <1>2 DEF IInv, TypeOK, Call, WireOwner, At
  <2>2. NextPC(a) # "call"
    BY DEF NextPC
  <2>3. PICK i : task' = [task EXCEPT ![c.handler].pc = NextPC(a), ![c.handler].id = i]
    BY <1>2 DEF Hear
  <2>4. task'[c.handler].pc = NextPC(a)
    BY <2>1, <2>3, TaskFields DEF IInv
  <2>5. \A h \in Handlers : h # c.handler => task'[h] = task[h]
    BY <2>1, <2>3
  <2> QED
    BY <2>1, <2>2, <2>4, <2>5
<1> QED
  BY <1>1, <1>2

(* Only one attempt has this name, so creating its message uses it up. *)
LEMMA MetaCreatesRefines ==
  ASSUME IInv, NEW c \in wire, NEW a, MetaCreates(c, a)
  PROVE  Contract!Next
<1> DEFINE g == Attempt(c)
           d == a = "server_error"
<1>1. g \in Attempts /\ g.row = c.row /\ g.hash = c.hash /\ g.born = c.born
  BY DEF Attempts, Attempt
<1>2. \A h \in Handlers : \/ task'[h] = task[h]
                          \/ task[h].pc = "waiting" /\ task'[h].pc # "call"
  BY HearingIsNoAttempt DEF MetaCreates
<1>3. Attempts' = Attempts \ {g}
  <2>1. \A x \in wire : x # c => Attempt(x) # g
    <3>1. \A x \in wire : x # c /\ x.row = c.row => x.born # c.born
      BY SendAssumption DEF IInv, TypeOK, Call, ClaimsApart, Separate, Old
    <3> QED
      BY <3>1 DEF Attempt
  <2>2. \A h \in Handlers : task[h].pc = "call" => Attempt(task[h]) # g
    <3>1. \A h \in Handlers : task[h].pc = "call" /\ task[h].row = c.row => c.born # task[h].born
      BY SendAssumption DEF IInv, TypeOK, Call, CleanReservation, Old
    <3> QED
      BY <3>1 DEF Attempt
  <2>3. wire' = wire \ {c}
    BY DEF MetaCreates
  <2> HIDE DEF g
  <2> QED
    BY <1>1, <1>2, <2>1, <2>2, <2>3 DEF Attempts
<1>4. TakenKeys' = TakenKeys
  BY DEF MetaCreates, TakenKeys
<1>5. Contract!Create(g, d)
  <2>1. Contract!Cardinality(messages) = Cardinality(messages)
    BY DEF Contract!Cardinality, Cardinality
  <2> QED
    BY <1>1, <1>3, <1>4, <2>1 DEF Contract!Create, MetaCreates
<1> QED
  BY <1>1, <1>5 DEF Contract!Next

LEMMA MetaDoesNotCreateRefines ==
  ASSUME IInv, NEW c \in wire, NEW a, MetaDoesNotCreate(c, a)
  PROVE  Contract!Next
<1>1. \A h \in Handlers : \/ task'[h] = task[h]
                          \/ task[h].pc = "waiting" /\ task'[h].pc # "call"
  BY HearingIsNoAttempt DEF MetaDoesNotCreate
<1>2. Attempts' \subseteq Attempts
  BY <1>1 DEF Attempts, MetaDoesNotCreate
<1> QED
  BY <1>2, AttemptsEnd DEF MetaDoesNotCreate

(* DELETE ... WHERE criado_em < now - TTL keeps the keys of that age. *)
LEMMA PurgeRefines ==
  ASSUME IInv, PurgeIdempotency
  PROVE  Contract!Next
<1>1. \A e \in idempotencia : e.born \in Nat /\ now \in Nat /\ TTL \in Nat
  BY SendAssumption DEF IInv, TypeOK, Entry
<1>2. idempotencia' = {e \in idempotencia : e.born + TTL >= now}
  BY <1>1 DEF PurgeIdempotency, Expired
<1>3. TakenKeys' = {k \in TakenKeys : k.born + TTL >= now}
  BY <1>2 DEF TakenKeys
<1>4. Attempts' = Attempts
  BY DEF PurgeIdempotency, Attempts
<1>5. Contract!Forget
  BY <1>3, <1>4 DEF Contract!Forget, PurgeIdempotency
<1> QED
  BY <1>5 DEF Contract!Next

LEMMA TickRefines ==
  ASSUME Tick
  PROVE  Contract!Next
<1>1. TakenKeys' = TakenKeys /\ Attempts' = Attempts
  BY DEF Tick, TakenKeys, Attempts
<1> QED
  BY <1>1 DEF Tick, Contract!Tick, Contract!Next

(* What happens before the reservation and after the answer is not seen. *)
LEMMA UnseenSteps ==
  ASSUME IInv, NEW h \in Handlers,
         \/ \E r \in Row, q \in Hashes : Receive(h, r, q)
         \/ ReserveFails(h) \/ Count(h)
  PROVE  UNCHANGED Seen
<1>1. task[h].pc # "call" /\ task \in [Handlers -> Task]
  BY DEF IInv, TypeOK, Receive, ReserveFails, Count, At, Asking, Closing
<1>2. PICK t : task' = [task EXCEPT ![h] = t] /\ t.pc # "call"
  <2>1. CASE \E r \in Row, q \in Hashes : Receive(h, r, q)
    <3>1. PICK r \in Row, q \in Hashes : Receive(h, r, q)
      BY <2>1
    <3> DEFINE t == [pc |-> "insert", row |-> r, hash |-> q, born |-> 0, id |-> 0]
    <3>2. task' = [task EXCEPT ![h] = t] /\ t.pc # "call"
      BY <3>1 DEF Receive
    <3> HIDE DEF t
    <3> QED
      BY <3>2
  <2>2. CASE ReserveFails(h) \/ Count(h)
    <3>1. task' = [task EXCEPT ![h] = Idle] /\ Idle.pc # "call"
      BY <2>2 DEF ReserveFails, Count, Answer, Idle
    <3> QED
      BY <3>1
  <2> QED
    BY <2>1, <2>2
<1>3. UNCHANGED <<now, idempotencia, wire, messages, acked>>
  BY DEF Receive, ReserveFails, Count
<1>4. Attempts' = Attempts
  BY <1>1, <1>2, <1>3, OtherAttempts
<1> QED
  BY <1>3, <1>4 DEF Seen, TakenKeys

LEMMA StepRefines ==
  ASSUME IInv, [Next]_vars
  PROVE  [Contract!Next]_Seen
<1>1. CASE UNCHANGED vars
  BY <1>1 DEF vars, Seen, TakenKeys, Attempts
<1>2. ASSUME NEW h \in Handlers, NEW r \in Row, NEW q \in Hashes, Receive(h, r, q)
      PROVE  [Contract!Next]_Seen
  BY <1>2, UnseenSteps
<1>3. ASSUME NEW h \in Handlers, Step(h)
      PROVE  [Contract!Next]_Seen
  BY <1>3, ReserveInsertRefines, ReserveLookupRefines, SendMessageRefines,
     RefuseLocallyRefines, TransportFailureRefines, ConfirmRefines,
     ReleaseRefines, UnseenSteps DEF Step
<1>4. ASSUME NEW c \in wire, NEW a \in Answers, MetaCreates(c, a) \/ MetaDoesNotCreate(c, a)
      PROVE  [Contract!Next]_Seen
  BY <1>4, MetaCreatesRefines, MetaDoesNotCreateRefines
<1>5. CASE Tick \/ PurgeIdempotency \/ Crash
  BY <1>5, TickRefines, PurgeRefines, CrashRefines
<1> QED
  BY <1>1, <1>2, <1>3, <1>4, <1>5 DEF Next

(***************************************************************************)
(* Every behaviour of the handlers is one SendContract allows: for every   *)
(* number of handlers, consumers, keys and requests, every retention       *)
(* longer than the deadline, and every interleaving with purges, crashes   *)
(* and lost or late answers.                                               *)
(***************************************************************************)
THEOREM HandlersKeepTheContract == Spec => KeepsTheContract
<1>1. IInv /\ [Next]_vars => [Contract!Next]_Contract!cvars
  BY StepRefines DEF Seen, Contract!cvars
<1> QED
  BY <1>1, InitRefines, Invariance, PTL DEF Spec, KeepsTheContract, Contract!Spec

=============================================================================
