--------------------------- MODULE FailoverProofs ---------------------------
(***************************************************************************)
(* What Failover promises, for any number of machines, requests, keys and  *)
(* takeovers, any lease and any validity of the file below it.             *)
(***************************************************************************)
EXTENDS Failover, FiniteSetTheorems, TLAPS

---------------------------------------------------------------------------
(* The invariant.                                                          *)

Work == [pc : {"reserve", "call", "confirm", "release"}, node : Nodes, key : Keys, id : Nat]

AtWork(t) == t.pc \in {"call", "confirm", "release"}

(* A file says how long its machine holds the lease at least; the file of  *)
(* any other machine is too old already.                                   *)
FileIsTrue(n) ==
  file[n].there =>
    IF lease.holder = n THEN file[n].mtime + LeaseTTL <= lease.until
    ELSE now > file[n].mtime + Validity

(* The databases of the holder and of the fallen machine stem from the     *)
(* last takeover and from the one before.                                  *)
TermsAreTrue ==
  /\ lease.holder = Nobody <=> takeovers = 0
  /\ lease.holder # Nobody => term[lease.holder] = takeovers
  /\ fallen # Nobody => takeovers > 1 /\ term[fallen] = takeovers - 1
  /\ \A n, p \in Nodes : n # p /\ term[n] = term[p] => term[n] = 0

(* A restored row stays where it is, and so comes through every failover.  *)
RestoredStays ==
  /\ \A n \in Nodes : restored[term[n]] \subseteq db[n]
  /\ restored[takeovers] \subseteq replica
  /\ takeovers > 0 => restored[takeovers - 1] \subseteq restored[takeovers]

MessageOf(n, k, id) == [id |-> id, key |-> k, node |-> n, term |-> term[n]]

Sent(n, k) == \E m \in messages : m.key = k /\ m.term = term[n]

(* A row that was not restored and has an id has the id of its message.    *)
RowsAreTrue(n) ==
  \A r \in db[n] \ restored[term[n]] : r.id # 0 => MessageOf(n, r.key, r.id) \in messages

(* A message came from the machine its database is on, and left its row.   *)
MessagesAreTrue ==
  \A m \in messages, n \in Nodes : m.term = term[n] => m.node = n /\ Reserved(n, m.key)

SentOnce ==
  \A m \in messages :
    /\ \A r \in restored[m.term] : r.key # m.key
    /\ \A n \in messages : m # n /\ m.key = n.key => m.term # n.term

(* A request at work owns a row that was not restored.                     *)
TaskIsTrue(t) ==
  t.pc # "idle" =>
    /\ term[t.node] > 0
    /\ AtWork(t) => /\ Reserved(t.node, t.key)
                    /\ \A r \in restored[term[t.node]] : r.key # t.key
    /\ t.pc \in {"call", "release"} => ~Sent(t.node, t.key)
    /\ t.pc = "confirm" => MessageOf(t.node, t.key, t.id) \in messages

(* ... and owns it alone. *)
Exclusive ==
  \A g, h \in Handlers :
    /\ AtWork(task[g]) /\ AtWork(task[h])
    /\ task[g].node = task[h].node /\ task[g].key = task[h].key
    => g = h

IInv ==
  /\ TypeOK /\ IsFiniteSet(messages)
  /\ \A n \in Nodes : FileIsTrue(n) /\ RowsAreTrue(n)
  /\ TermsAreTrue /\ RestoredStays
  /\ MessagesAreTrue /\ SentOnce
  /\ \A h \in Handlers : TaskIsTrue(task[h])
  /\ Exclusive

---------------------------------------------------------------------------
LEMMA TaskKinds ==
  ASSUME NEW t \in Task
  PROVE  /\ t.pc \in {"idle", "reserve", "call", "confirm", "release"}
         /\ t.pc = "idle" <=> t = Idle
         /\ t.pc # "idle" => t \in Work
  BY DEF Task, Work, Idle

(* A request goes on to its call, or to give its key back. *)
LEMMA Becomes ==
  ASSUME NEW t \in Work
  PROVE  \A pc \in {"call", "release"} :
           LET u == [t EXCEPT !.pc = pc] IN
           u \in Task /\ u.pc = pc /\ u.node = t.node /\ u.key = t.key
  BY DEF Work, Task

LEMMA IdleIsTask ==
  /\ Idle \in Task /\ Idle.pc = "idle"
  /\ ~AtWork(Idle) /\ TaskIsTrue(Idle) /\ TaskIsTrue(Idle)'
  BY DEF Task, Idle, AtWork, TaskIsTrue

(* Only one machine is let in, and it is the one the takeovers ended with. *)
LEMMA HolderHoldsTheLease ==
  ASSUME FailoverAssumption, IInv, NEW n \in Nodes, Holder(n)
  PROVE  lease.holder = n /\ term[n] = takeovers /\ takeovers > 0
<1>1. /\ Validity \in Nat /\ now \in Nat /\ file[n].mtime \in Nat /\ takeovers \in Nat
      /\ n # Nobody
  BY DEF FailoverAssumption, IInv, TypeOK
<1>2. lease.holder = n
  BY <1>1 DEF IInv, FileIsTrue, Holder
<1> QED
  BY <1>1, <1>2 DEF IInv, TermsAreTrue

---------------------------------------------------------------------------
(* Frames.                                                                 *)

(* A request is let in, answered or cut off: nothing else changes.         *)
LEMMA TasksRest ==
  ASSUME IInv, UNCHANGED <<now, pair, db, messages>>, task' \in [Handlers -> Task],
         \A h \in Handlers :
           \/ task'[h] \in {task[h], Idle}
           \/ task'[h].pc = "reserve" /\ term[task'[h].node] > 0
  PROVE  IInv'
<1>1. UNCHANGED <<lease, file, replica, restored, term, fallen, takeovers>>
  BY DEF pair
<1>2. TypeOK' /\ IsFiniteSet(messages')
  BY <1>1 DEF IInv, TypeOK
<1>3. \A n \in Nodes : FileIsTrue(n)' /\ RowsAreTrue(n)'
  BY <1>1 DEF IInv, FileIsTrue, RowsAreTrue, MessageOf
<1>4. TermsAreTrue' /\ RestoredStays' /\ MessagesAreTrue' /\ SentOnce'
  BY <1>1 DEF IInv, TermsAreTrue, RestoredStays, MessagesAreTrue, SentOnce, Reserved
<1>5. ASSUME NEW h \in Handlers
      PROVE  /\ TaskIsTrue(task[h])'
             /\ AtWork(task'[h]) => task'[h] = task[h]
  BY <1>1 DEF IInv, TaskIsTrue, AtWork, Idle, Reserved, Sent, MessageOf
<1>6. Exclusive'
  BY <1>5 DEF IInv, Exclusive
<1> QED
  BY <1>2, <1>3, <1>4, <1>5, <1>6 DEF IInv

(* The request h becomes t, the rows of machine n become `rows` and `more` *)
(* is sent: nothing is disturbed but the key k, which is the request's own.*)
Step(h, n, k, t, rows, more) ==
  /\ task' = [task EXCEPT ![h] = t]
  /\ db' = [db EXCEPT ![n] = rows]
  /\ messages' = messages \cup more
  /\ UNCHANGED <<now, pair>>
  /\ \A g \in Handlers \ {h} :
       AtWork(task[g]) => ~(task[g].node = n /\ task[g].key = k)
  /\ term[n] > 0 /\ \A r \in restored[term[n]] : r.key # k
  /\ \A r \in Row : r.key # k => (r \in rows <=> r \in db[n])

(* What has to be shown of that key as it is left. *)
LeftTrue(n, k, t, rows, more) ==
  /\ AtWork(t) => t.node = n /\ t.key = k
  /\ \A r \in rows : r.key = k /\ r.id # 0 => MessageOf(n, k, r.id) \in messages'
  /\ Sent(n, k)' => \E r \in rows : r.key = k
  /\ more # {} => ~Sent(n, k) /\ \E id \in Nat : more = {MessageOf(n, k, id)}

LEMMA RowMoves ==
  ASSUME FailoverAssumption, IInv, NEW h \in Handlers, NEW n \in Nodes, NEW k \in Keys,
         NEW t \in Task, NEW rows \in SUBSET Row, NEW more,
         Step(h, n, k, t, rows, more), LeftTrue(n, k, t, rows, more), TaskIsTrue(t)'
  PROVE  IInv'
<1> USE DEF Step, LeftTrue
<1>1. /\ UNCHANGED <<lease, file, replica, restored, term, fallen, takeovers>>
      /\ restored[term[n]] \subseteq Row
  BY DEF pair, IInv, TypeOK, FailoverAssumption
<1>2. /\ db' \in [Nodes -> SUBSET Row] /\ db'[n] = rows
      /\ \A p \in Nodes \ {n} : db'[p] = db[p]
      /\ task' \in [Handlers -> Task] /\ task'[h] = t
      /\ \A g \in Handlers \ {h} : task'[g] = task[g]
  BY DEF IInv, TypeOK
<1>3. \A m \in more : /\ m \in [id : Nat, key : Keys, node : Nodes, term : 1..takeovers]
                      /\ m.key = k /\ m.node = n /\ m.term = term[n]
                      /\ ~Sent(n, k)
  <2>1. term[n] \in 1..takeovers
    BY DEF IInv, TypeOK
  <2> QED
    BY <2>1 DEF MessageOf
<1>4. messages \subseteq messages' /\ IsFiniteSet(messages')
  <2>1. CASE more = {}
    BY <2>1 DEF IInv
  <2>2. CASE more # {}
    <3>1. PICK m : more = {m}
      BY <2>2
    <3> QED
      BY <3>1, FS_AddElement DEF IInv
  <2> QED
    BY <2>1, <2>2
<1>5. TypeOK'
  BY <1>1, <1>2, <1>3 DEF IInv, TypeOK
<1>6. \A p \in Nodes, j \in Keys : ~(p = n /\ j = k) /\ Reserved(p, j) => Reserved(p, j)'
  <2>1. ASSUME NEW j \in Keys, j # k, Reserved(n, j)
        PROVE  Reserved(n, j)'
    <3>1. PICK r \in db[n] : r.key = j
      BY <2>1 DEF Reserved
    <3>2. r \in Row
      BY <3>1 DEF IInv, TypeOK
    <3> QED
      BY <1>2, <2>1, <3>1, <3>2 DEF Reserved
  <2> QED
    BY <1>2, <2>1 DEF Reserved
<1>7. ASSUME NEW p \in Nodes
      PROVE  FileIsTrue(p)' /\ RowsAreTrue(p)'
  <2>1. FileIsTrue(p)'
    BY <1>1 DEF IInv, FileIsTrue
  <2>2. CASE p # n
    BY <1>1, <1>2, <1>4, <2>1, <2>2 DEF IInv, RowsAreTrue, MessageOf
  <2>3. CASE p = n
    <3>1. ASSUME NEW r \in rows, r \notin restored[term[n]], r.id # 0
          PROVE  MessageOf(n, r.key, r.id) \in messages'
      <4>1. r \in Row
        OBVIOUS
      <4>2. CASE r.key = k
        BY <3>1, <4>2
      <4>3. CASE r.key # k
        BY <1>4, <3>1, <4>1, <4>3 DEF IInv, RowsAreTrue
      <4> QED
        BY <4>2, <4>3
    <3> QED
      BY <1>1, <1>2, <2>1, <2>3, <3>1 DEF RowsAreTrue, MessageOf
  <2> QED
    BY <2>2, <2>3
<1>8. TermsAreTrue'
  BY <1>1 DEF IInv, TermsAreTrue
<1>9. RestoredStays'
  <2>1. restored[term[n]] \subseteq rows
    BY <1>1 DEF IInv, RestoredStays
  <2> QED
    BY <1>1, <1>2, <2>1 DEF IInv, RestoredStays
<1>10. MessagesAreTrue'
  <2>1. ASSUME NEW m \in messages', NEW p \in Nodes, m.term = term[p]
        PROVE  m.node = p /\ Reserved(p, m.key)'
    <3>1. CASE m \in more
      <4>1. p = n
        BY <1>3, <2>1, <3>1 DEF IInv, TermsAreTrue
      <4>2. Sent(n, k)'
        BY <1>1, <1>3, <3>1 DEF Sent
      <4> QED
        BY <1>2, <1>3, <3>1, <4>1, <4>2 DEF Reserved
    <3>2. CASE m \in messages /\ p = n /\ m.key = k
      <4>1. Sent(n, k)'
        BY <1>1, <1>4, <2>1, <3>2 DEF Sent
      <4> QED
        BY <1>2, <2>1, <3>2, <4>1 DEF IInv, MessagesAreTrue, Reserved
    <3>3. CASE m \in messages /\ ~(p = n /\ m.key = k)
      <4>1. m.node = p /\ Reserved(p, m.key) /\ m.key \in Keys
        BY <2>1, <3>3 DEF IInv, TypeOK, MessagesAreTrue
      <4> QED
        BY <1>6, <3>3, <4>1
    <3> QED
      BY <3>1, <3>2, <3>3
  <2> QED
    BY <1>1, <2>1 DEF MessagesAreTrue
<1>11. SentOnce'
  <2>1. ASSUME NEW m \in messages', NEW r \in restored[m.term]
        PROVE  r.key # m.key
    BY <1>3, <2>1 DEF IInv, SentOnce
  <2>2. ASSUME NEW m \in messages', NEW q \in messages', m # q, m.key = q.key
        PROVE  m.term # q.term
    <3>1. CASE m \in messages /\ q \in messages
      BY <2>2, <3>1 DEF IInv, SentOnce
    <3>2. CASE (m \in more /\ q \in messages) \/ (m \in messages /\ q \in more)
      BY <1>3, <2>2, <3>2 DEF Sent
    <3>3. ~(m \in more /\ q \in more)
      BY <2>2
    <3> QED
      BY <3>1, <3>2, <3>3
  <2> QED
    BY <1>1, <2>1, <2>2 DEF SentOnce
<1>12. ASSUME NEW g \in Handlers \ {h}
       PROVE  TaskIsTrue(task[g])'
  <2> DEFINE u == task[g]
  <2>1. u \in Task /\ task'[g] = u /\ TaskIsTrue(u)
    BY <1>2 DEF IInv, TypeOK
  <2>2. CASE u.pc = "idle"
    BY <2>1, <2>2 DEF TaskIsTrue
  <2>3. CASE u.pc = "reserve"
    BY <1>1, <2>1, <2>3 DEF TaskIsTrue, AtWork
  <2>4. CASE AtWork(u)
    <3>1. u \in Work /\ u.pc # "idle" /\ ~(u.node = n /\ u.key = k)
      BY <2>1, <2>4, TaskKinds DEF AtWork
    <3>2. u.node \in Nodes /\ u.key \in Keys
      BY <3>1 DEF Work
    <3>3. Sent(u.node, u.key)' => Sent(u.node, u.key)
      <4>1. ASSUME NEW m \in more, m.key = u.key, m.term = term[u.node]
            PROVE  FALSE
        BY <1>3, <3>1, <3>2, <4>1 DEF IInv, TermsAreTrue
      <4> QED
        BY <1>1, <4>1 DEF Sent
    <3>4. Reserved(u.node, u.key)'
      BY <1>1, <1>2, <1>6, <2>1, <2>4, <3>1, <3>2 DEF TaskIsTrue
    <3> QED
      BY <1>1, <1>4, <2>1, <2>4, <3>1, <3>3, <3>4
      DEF TaskIsTrue, AtWork, Reserved, Sent, MessageOf
  <2> QED
    BY <2>1, <2>2, <2>3, <2>4, TaskKinds DEF AtWork
<1>13. TaskIsTrue(task[h])'
  BY <1>2 DEF TaskIsTrue, AtWork, Reserved, Sent, MessageOf
<1>14. Exclusive'
  BY <1>2 DEF IInv, Exclusive
<1> QED
  BY <1>4, <1>5, <1>7, <1>8, <1>9, <1>10, <1>11, <1>12, <1>13, <1>14 DEF IInv

---------------------------------------------------------------------------
(* The requests.                                                           *)

LEMMA RequireKeepsIInv ==
  ASSUME FailoverAssumption, IInv, NEW h \in Handlers, NEW n \in Nodes, NEW k \in Keys,
         Require(h, n, k)
  PROVE  IInv'
<1> DEFINE t == [pc |-> "reserve", node |-> n, key |-> k, id |-> 0]
<1>1. /\ t \in Task /\ t.pc = "reserve" /\ t.node = n
      /\ task' = [task EXCEPT ![h] = t]
      /\ UNCHANGED <<now, pair, db, messages>>
  BY DEF Require, Task
<1>2. term[n] > 0
  BY HolderHoldsTheLease DEF Require, IInv, TypeOK
<1> HIDE DEF t
<1>3. /\ task' \in [Handlers -> Task] /\ task'[h] = t
      /\ \A g \in Handlers \ {h} : task'[g] = task[g]
  BY <1>1 DEF IInv, TypeOK
<1>4. UNCHANGED term
  BY <1>1 DEF pair
<1> QED
  BY <1>1, <1>2, <1>3, <1>4, TasksRest

(* A request that ends changes nothing but itself. *)
LEMMA AnswerKeepsIInv ==
  ASSUME IInv, NEW h \in Handlers, Answer(h), UNCHANGED <<now, pair, db, messages>>
  PROVE  IInv'
<1>1. /\ task' \in [Handlers -> Task] /\ task'[h] = Idle
      /\ \A g \in Handlers \ {h} : task'[g] = task[g]
  BY IdleIsTask DEF IInv, TypeOK, Answer
<1> QED
  BY <1>1, TasksRest

(* A request that is doing something. *)
LEMMA Working ==
  ASSUME IInv, NEW h \in Handlers, task[h].pc # "idle"
  PROVE  /\ task[h] \in Work /\ task[h].node \in Nodes /\ task[h].key \in Keys
         /\ task[h].id \in Nat
         /\ term[task[h].node] > 0
<1>1. task[h] \in Work
  BY TaskKinds DEF IInv, TypeOK
<1> QED
  BY <1>1 DEF Work, IInv, TaskIsTrue

(* The key of a request at work is its own, and was not restored. *)
LEMMA OwnsItsKey ==
  ASSUME IInv, NEW h \in Handlers, AtWork(task[h])
  PROVE  /\ \A g \in Handlers \ {h} :
              AtWork(task[g]) => ~(task[g].node = task[h].node /\ task[g].key = task[h].key)
         /\ \A r \in restored[term[task[h].node]] : r.key # task[h].key
         /\ Reserved(task[h].node, task[h].key)
  BY DEF IInv, Exclusive, TaskIsTrue, AtWork

LEMMA ReserveKeepsIInv ==
  ASSUME FailoverAssumption, IInv, NEW h \in Handlers, NEW n \in Nodes, NEW k \in Keys,
         task[h].node = n, task[h].key = k, ReserveIdempotency(h)
  PROVE  IInv'
<1>1. /\ task[h] \in Work /\ task[h].pc = "reserve"
      /\ term[n] > 0
      /\ UNCHANGED <<now, pair, messages>>
  BY Working DEF ReserveIdempotency, At
<1>2. CASE Reserved(n, k)
  BY <1>1, <1>2, AnswerKeepsIInv DEF ReserveIdempotency
<1>3. CASE ~Reserved(n, k)
  <2> DEFINE rows == db[n] \cup {[key |-> k, id |-> 0]}
  <2>1. PICK t \in Task : /\ t = [task[h] EXCEPT !.pc = "call"]
                          /\ t.pc = "call" /\ t.node = n /\ t.key = k
    BY <1>1, Becomes
  <2>2. task' = [task EXCEPT ![h] = t] /\ db' = [db EXCEPT ![n] = rows]
    BY <1>3, <2>1 DEF ReserveIdempotency, GoTo
  <2>3. /\ rows \in SUBSET Row
        /\ \A r \in Row : r.key # k => (r \in rows <=> r \in db[n])
        /\ \A r \in rows : r.key = k => r.id = 0
        /\ \E r \in rows : r.key = k
    <3> DEFINE new == [key |-> k, id |-> 0]
    <3>1. new \in Row /\ new.key = k /\ new.id = 0
      BY DEF Row
    <3> HIDE DEF new
    <3>2. db[n] \subseteq Row /\ \A r \in db[n] : r.key # k
      BY <1>3 DEF IInv, TypeOK, Reserved
    <3>3. rows = db[n] \cup {new}
      BY DEF new
    <3> QED
      BY <3>1, <3>2, <3>3
  <2>4. restored[term[n]] \subseteq db[n]
    BY <1>1 DEF IInv, RestoredStays
  <2>5. \A r \in restored[term[n]] : r.key # k
    BY <1>3, <2>4 DEF Reserved
  <2>6. ~Sent(n, k)
    BY <1>1, <1>3 DEF IInv, MessagesAreTrue, Sent
  <2>7. \A g \in Handlers \ {h} : AtWork(task[g]) => ~(task[g].node = n /\ task[g].key = k)
    BY <1>3 DEF IInv, TaskIsTrue, AtWork
  <2>8. UNCHANGED term /\ messages' = messages \cup {}
    BY <1>1 DEF pair
  <2>9. ~Sent(n, k)'
    BY <2>6, <2>8 DEF Sent
  <2> HIDE DEF rows
  <2>10. db'[n] = rows
    BY <1>1, <2>2 DEF IInv, TypeOK
  <2>11. TaskIsTrue(t)'
    BY <1>1, <2>1, <2>3, <2>5, <2>8, <2>9, <2>10 DEF TaskIsTrue, Reserved, AtWork, pair
  <2>12. Step(h, n, k, t, rows, {})
    BY <1>1, <2>2, <2>3, <2>5, <2>7, <2>8 DEF Step
  <2>13. LeftTrue(n, k, t, rows, {})
    BY <2>1, <2>3, <2>9 DEF LeftTrue
  <2> QED
    BY <2>3, <2>11, <2>12, <2>13, RowMoves
<1> QED
  BY <1>2, <1>3

(* Meta takes a message or not, and the request hears of it or not. *)
LEMMA SendKeepsIInv ==
  ASSUME FailoverAssumption, IInv, NEW h \in Handlers, NEW n \in Nodes, NEW k \in Keys,
         task[h].node = n, task[h].key = k, SendMessage(h)
  PROVE  IInv'
<1> DEFINE id == Cardinality(messages) + 1
<1>1. /\ task[h] \in Work /\ task[h].pc = "call"
      /\ term[n] > 0
      /\ UNCHANGED <<now, pair, db>>
  BY Working DEF SendMessage, At
<1>2. /\ \A g \in Handlers \ {h} : AtWork(task[g]) => ~(task[g].node = n /\ task[g].key = k)
      /\ \A r \in restored[term[n]] : r.key # k
      /\ Reserved(n, k)
  BY <1>1, OwnsItsKey DEF AtWork
<1>3. id \in Nat
  BY FS_CardinalityType DEF IInv
<1>4. ~Sent(n, k)
  BY <1>1 DEF IInv, TaskIsTrue
<1>5. /\ db' = [db EXCEPT ![n] = db[n]] /\ db[n] \in SUBSET Row
      /\ UNCHANGED <<term, restored>>
  BY <1>1 DEF IInv, TypeOK, pair
<1>6. \A r \in db[n] : r.key = k => r.id = 0
  <2>1. ASSUME NEW r \in db[n], r.key = k, r.id # 0
        PROVE  FALSE
    <3>1. MessageOf(n, k, r.id) \in messages
      BY <1>1, <1>2, <2>1 DEF IInv, RowsAreTrue
    <3> QED
      BY <1>4, <3>1 DEF Sent, MessageOf
  <2> QED
    BY <2>1
<1>7. \E r \in db[n] : r.key = k
  BY <1>2 DEF Reserved
<1>8. Created(h, id) => messages' = messages \cup {MessageOf(n, k, id)}
  BY DEF Created, MessageOf
<1>9. CASE /\ Created(h, id)
           /\ task' = [task EXCEPT ![h].pc = "confirm", ![h].id = id]
  <2> HIDE DEF id
  <2>1. PICK t \in Task :
          /\ t = [task[h] EXCEPT !.pc = "confirm", !.id = id]
          /\ t.pc = "confirm" /\ t.node = n /\ t.key = k /\ t.id = id
    <3> DEFINE u == [task[h] EXCEPT !.pc = "confirm", !.id = id]
    <3>1. /\ u \in Task /\ u.pc = "confirm" /\ u.id = id
          /\ u.node = task[h].node /\ u.key = task[h].key
      BY <1>1, <1>3 DEF Work, Task
    <3> QED
      BY <3>1
  <2>2. task' = [task EXCEPT ![h] = t]
    BY <1>9, <2>1
  <2>3. TaskIsTrue(t)'
    BY <1>1, <1>2, <1>5, <1>8, <1>9, <2>1 DEF TaskIsTrue, Reserved, MessageOf
  <2>4. Step(h, n, k, t, db[n], {MessageOf(n, k, id)})
    BY <1>1, <1>2, <1>5, <1>8, <1>9, <2>2 DEF Step
  <2>5. LeftTrue(n, k, t, db[n], {MessageOf(n, k, id)})
    BY <1>3, <1>4, <1>6, <1>7, <2>1 DEF LeftTrue
  <2> QED
    BY <1>5, <2>3, <2>4, <2>5, RowMoves
<1>10. CASE /\ Created(h, id) \/ UNCHANGED messages
            /\ Answer(h)
  <2>1. task' = [task EXCEPT ![h] = Idle]
    BY <1>10 DEF Answer
  <2>2. PICK more : /\ messages' = messages \cup more
                    /\ more = {} \/ more = {MessageOf(n, k, id)}
    BY <1>8, <1>10
  <2> HIDE DEF id
  <2>3. Step(h, n, k, Idle, db[n], more)
    BY <1>1, <1>2, <1>5, <2>1, <2>2 DEF Step
  <2>4. LeftTrue(n, k, Idle, db[n], more)
    BY <1>3, <1>4, <1>6, <1>7, <2>2, IdleIsTask DEF LeftTrue
  <2> QED
    BY <1>5, <2>3, <2>4, IdleIsTask, RowMoves
<1>11. CASE /\ UNCHANGED messages
            /\ GoTo(h, "release")
  <2>1. PICK t \in Task : /\ t = [task[h] EXCEPT !.pc = "release"]
                          /\ t.pc = "release" /\ t.node = n /\ t.key = k
    BY <1>1, Becomes
  <2>2. task' = [task EXCEPT ![h] = t] /\ messages' = messages \cup {}
    BY <1>11, <2>1 DEF GoTo
  <2> HIDE DEF id
  <2>3. ~Sent(n, k)'
    BY <1>4, <1>5, <1>11 DEF Sent
  <2>4. TaskIsTrue(t)'
    BY <1>1, <1>2, <1>5, <2>1, <2>3 DEF TaskIsTrue, Reserved
  <2>5. Step(h, n, k, t, db[n], {})
    BY <1>1, <1>2, <1>5, <2>2 DEF Step
  <2>6. LeftTrue(n, k, t, db[n], {})
    BY <1>6, <1>7, <2>1 DEF LeftTrue
  <2> QED
    BY <1>5, <2>4, <2>5, <2>6, RowMoves
<1> QED
  BY <1>9, <1>10, <1>11 DEF SendMessage, AfterSilence

LEMMA ConfirmKeepsIInv ==
  ASSUME FailoverAssumption, IInv, NEW h \in Handlers, NEW n \in Nodes, NEW k \in Keys,
         task[h].node = n, task[h].key = k, ConfirmIdempotency(h)
  PROVE  IInv'
<1> DEFINE id == task[h].id
           rows == Others(n, k) \cup {[key |-> k, id |-> id]}
<1>1. /\ task[h] \in Work /\ task[h].pc = "confirm"
      /\ id \in Nat /\ term[n] > 0
      /\ UNCHANGED <<now, pair, messages>> /\ Answer(h)
  BY Working DEF ConfirmIdempotency, At
<1>2. /\ \A g \in Handlers \ {h} : AtWork(task[g]) => ~(task[g].node = n /\ task[g].key = k)
      /\ \A r \in restored[term[n]] : r.key # k
      /\ Reserved(n, k)
  BY <1>1, OwnsItsKey DEF AtWork
<1>3. CASE db' = db
  BY <1>1, <1>3, AnswerKeepsIInv
<1>4. CASE db' = [db EXCEPT ![n] = rows]
  <2>1. task' = [task EXCEPT ![h] = Idle] /\ messages' = messages \cup {}
    BY <1>1 DEF Answer
  <2>2. /\ rows \in SUBSET Row
        /\ \A r \in Row : r.key # k => (r \in rows <=> r \in db[n])
        /\ \A r \in rows : r.key = k => r.id = id
        /\ \E r \in rows : r.key = k
    <3> DEFINE new == [key |-> k, id |-> id]
    <3>1. new \in Row /\ new.key = k /\ new.id = id
      BY <1>1 DEF Row
    <3> HIDE DEF new
    <3>2. db[n] \subseteq Row
      BY DEF IInv, TypeOK
    <3>3. rows = Others(n, k) \cup {new}
      BY DEF new
    <3> HIDE DEF rows
    <3> QED
      BY <3>1, <3>2, <3>3 DEF Others
  <2>3. MessageOf(n, k, id) \in messages
    BY <1>1 DEF IInv, TaskIsTrue
  <2> HIDE DEF id, rows
  <2>4. Step(h, n, k, Idle, rows, {})
    BY <1>1, <1>2, <1>4, <2>1, <2>2 DEF Step
  <2>5. LeftTrue(n, k, Idle, rows, {})
    BY <2>1, <2>2, <2>3, IdleIsTask DEF LeftTrue
  <2> QED
    BY <2>2, <2>4, <2>5, IdleIsTask, RowMoves
<1> QED
  BY <1>2, <1>3, <1>4 DEF ConfirmIdempotency

LEMMA ReleaseKeepsIInv ==
  ASSUME FailoverAssumption, IInv, NEW h \in Handlers, NEW n \in Nodes, NEW k \in Keys,
         task[h].node = n, task[h].key = k, ReleaseIdempotency(h)
  PROVE  IInv'
<1> DEFINE rows == Others(n, k)
<1>1. /\ task[h] \in Work /\ task[h].pc = "release"
      /\ term[n] > 0
      /\ UNCHANGED <<now, pair, messages>> /\ Answer(h)
  BY Working DEF ReleaseIdempotency, At
<1>2. /\ \A g \in Handlers \ {h} : AtWork(task[g]) => ~(task[g].node = n /\ task[g].key = k)
      /\ \A r \in restored[term[n]] : r.key # k
  BY <1>1, OwnsItsKey DEF AtWork
<1>3. CASE db' = db
  BY <1>1, <1>3, AnswerKeepsIInv
<1>4. CASE db' = [db EXCEPT ![n] = rows]
  <2>1. task' = [task EXCEPT ![h] = Idle] /\ messages' = messages \cup {} /\ UNCHANGED term
    BY <1>1 DEF Answer, pair
  <2>2. /\ rows \in SUBSET Row
        /\ \A r \in Row : r.key # k => (r \in rows <=> r \in db[n])
        /\ \A r \in rows : r.key # k
    BY <1>1 DEF IInv, TypeOK, Others
  <2>3. ~Sent(n, k)
    BY <1>1 DEF IInv, TaskIsTrue
  <2>4. ~Sent(n, k)'
    BY <2>1, <2>3 DEF Sent
  <2> HIDE DEF rows
  <2>5. Step(h, n, k, Idle, rows, {})
    BY <1>1, <1>2, <1>4, <2>1, <2>2 DEF Step
  <2>6. LeftTrue(n, k, Idle, rows, {})
    BY <2>2, <2>4, IdleIsTask DEF LeftTrue
  <2> QED
    BY <2>2, <2>5, <2>6, IdleIsTask, RowMoves
<1> QED
  BY <1>3, <1>4 DEF ReleaseIdempotency

---------------------------------------------------------------------------
(* The supervisor, the replication, the machines.                          *)

LEMMA StoppedTasks ==
  ASSUME IInv, NEW n \in Nodes, task' = Stopped(n)
  PROVE  /\ task' \in [Handlers -> Task]
         /\ \A h \in Handlers :
              \/ task'[h] = Idle
              \/ task'[h] = task[h] /\ (task[h].pc # "idle" => task[h].node # n)
  BY IdleIsTask, TaskKinds DEF Stopped, IInv, TypeOK

(* The rows and messages are what they were: so is what is said of them.   *)
LEMMA RowsRest ==
  ASSUME IInv, UNCHANGED <<db, restored, term, task, messages, takeovers>>
  PROVE  /\ \A n \in Nodes : RowsAreTrue(n)'
         /\ MessagesAreTrue' /\ SentOnce' /\ Exclusive'
         /\ \A h \in Handlers : TaskIsTrue(task[h])'
  BY DEF IInv, RowsAreTrue, MessagesAreTrue, SentOnce, Exclusive, TaskIsTrue, MessageOf,
         Reserved, Sent

LEMMA RenewKeepsIInv ==
  ASSUME FailoverAssumption, IInv, NEW n \in Nodes, Renew(n)
  PROVE  IInv'
<1>1. /\ lease.holder = n /\ lease' = [lease EXCEPT !.until = now + LeaseTTL]
      /\ file' \in {file, Touched(n)}
      /\ UNCHANGED <<now, db, replica, restored, term, fallen, task, messages, takeovers>>
  BY DEF Renew
<1>2. /\ now \in Nat /\ LeaseTTL \in Nat /\ Validity \in Nat
      /\ lease' \in [holder : Nodes \cup {Nobody}, until : Nat]
      /\ lease'.holder = n /\ lease'.until = now + LeaseTTL
  <2>1. /\ lease \in [holder : Nodes \cup {Nobody}, until : Nat]
        /\ now + LeaseTTL \in Nat
    BY DEF IInv, TypeOK, FailoverAssumption
  <2> QED
    BY <1>1, <2>1 DEF IInv, TypeOK, FailoverAssumption
<1>3. /\ file' \in [Nodes -> [there : BOOLEAN, mtime : 0..now]]
      /\ \A p \in Nodes \ {n} : file'[p] = file[p]
      /\ file'[n] = file[n] \/ file'[n] = [there |-> TRUE, mtime |-> now]
  <2>1. file \in [Nodes -> [there : BOOLEAN, mtime : 0..now]]
    BY DEF IInv, TypeOK
  <2>2. [there |-> TRUE, mtime |-> now] \in [there : BOOLEAN, mtime : 0..now]
    BY <1>2
  <2> QED
    BY <1>1, <2>1, <2>2 DEF Touched
<1>4. TypeOK' /\ IsFiniteSet(messages')
  BY <1>1, <1>2, <1>3 DEF IInv, TypeOK
<1>5. ASSUME NEW p \in Nodes
      PROVE  FileIsTrue(p)'
  <2>1. file[p].mtime \in 0..now
    BY DEF IInv, TypeOK
  <2>2. CASE p = n
    BY <1>2, <1>3, <2>1, <2>2 DEF FileIsTrue
  <2>3. CASE p # n
    BY <1>1, <1>2, <1>3, <2>3 DEF IInv, FileIsTrue
  <2> QED
    BY <2>2, <2>3
<1>6. TermsAreTrue' /\ RestoredStays'
  BY <1>1, <1>2 DEF IInv, TermsAreTrue, RestoredStays
<1> QED
  BY <1>1, <1>4, <1>5, <1>6, RowsRest DEF IInv

(* Whoever takes over starts from rows nobody has sent anything out of,    *)
(* and the file it leaves behind on the other machine is too old: that one *)
(* was touched a lease ago at least, and is proof for less than a lease.   *)
LEMMA TakeOverKeepsIInv ==
  ASSUME FailoverAssumption, IInv, NEW n \in Nodes, TakeOver(n)
  PROVE  IInv'
<1> DEFINE last == takeovers + 1
<1>1. /\ takeovers < MaxTakeovers /\ lease.holder # n /\ now >= lease.until
      /\ lease' = [holder |-> n, until |-> now + LeaseTTL]
      /\ fallen' = lease.holder /\ file' = Touched(n)
      /\ db' = [db EXCEPT ![n] = replica]
      /\ takeovers' = last
      /\ restored' = [restored EXCEPT ![last] = replica]
      /\ term' = [term EXCEPT ![n] = last]
      /\ task' = Stopped(n)
      /\ UNCHANGED <<now, replica, messages>>
  BY DEF TakeOver
<1>2. /\ now \in Nat /\ Validity \in Nat /\ LeaseTTL \in Nat /\ Validity < LeaseTTL
      /\ takeovers \in Nat /\ last \in 1..MaxTakeovers /\ n # Nobody
      /\ lease.until \in Nat
  BY <1>1 DEF IInv, TypeOK, FailoverAssumption
<1> HIDE DEF last
<1>3. /\ db' \in [Nodes -> SUBSET Row] /\ db'[n] = replica
      /\ \A p \in Nodes \ {n} : db'[p] = db[p]
  BY <1>1 DEF IInv, TypeOK
<1>4. /\ restored' \in [0..MaxTakeovers -> SUBSET Row] /\ restored'[last] = replica
      /\ \A t \in 0..takeovers : restored'[t] = restored[t]
  BY <1>1, <1>2 DEF IInv, TypeOK, last
<1>5. /\ term' \in [Nodes -> 0..last] /\ term'[n] = last
      /\ \A p \in Nodes \ {n} : term'[p] = term[p] /\ term[p] \in 0..takeovers
      /\ last \notin 0..takeovers
  BY <1>1, <1>2 DEF IInv, TypeOK, last
<1>6. /\ file' \in [Nodes -> [there : BOOLEAN, mtime : 0..now]]
      /\ file'[n].mtime = now
      /\ \A p \in Nodes \ {n} : file'[p] = file[p]
  BY <1>1, <1>2 DEF IInv, TypeOK, Touched
<1>7. messages \subseteq [id : Nat, key : Keys, node : Nodes, term : 1..last]
  BY <1>2 DEF IInv, TypeOK, last
<1>8. TypeOK' /\ IsFiniteSet(messages')
  <2>1. lease' \in [holder : Nodes \cup {Nobody}, until : Nat]
    BY <1>1, <1>2
  <2>2. task' \in [Handlers -> Task]
    BY <1>1, StoppedTasks
  <2>3. fallen' \in Nodes \cup {Nobody} /\ takeovers' \in 0..MaxTakeovers
    BY <1>1, <1>2 DEF IInv, TypeOK
  <2> QED
    BY <1>1, <1>3, <1>4, <1>5, <1>6, <1>7, <2>1, <2>2, <2>3 DEF IInv, TypeOK
<1>9. ASSUME NEW p \in Nodes
      PROVE  FileIsTrue(p)' /\ RowsAreTrue(p)'
  <2>1. FileIsTrue(p)'
    <3>1. CASE p = n
      BY <1>1, <1>2, <1>6, <3>1 DEF FileIsTrue
    <3>2. CASE p # n
      <4>1. file[p].mtime \in Nat
        BY DEF IInv, TypeOK
      <4> QED
        BY <1>1, <1>2, <1>6, <3>2, <4>1 DEF IInv, FileIsTrue
    <3> QED
      BY <3>1, <3>2
  <2>2. RowsAreTrue(p)'
    BY <1>1, <1>3, <1>4, <1>5 DEF IInv, RowsAreTrue, MessageOf
  <2> QED
    BY <2>1, <2>2
<1>10. TermsAreTrue'
  <2>1. lease'.holder = n /\ takeovers' # 0
    BY <1>1, <1>2 DEF last
  <2>2. fallen' # Nobody => takeovers' > 1 /\ term'[fallen'] = takeovers' - 1
    BY <1>1, <1>2, <1>5 DEF IInv, TypeOK, TermsAreTrue, last
  <2>3. \A m, p \in Nodes : m # p /\ term'[m] = term'[p] => term'[m] = 0
    BY <1>5 DEF IInv, TermsAreTrue
  <2> QED
    BY <1>1, <1>2, <1>5, <2>1, <2>2, <2>3 DEF TermsAreTrue
<1>11. RestoredStays'
  <2>1. takeovers \in 0..takeovers
    BY <1>2
  <2>2. restored'[takeovers] \subseteq restored'[last]
    BY <1>4, <2>1 DEF IInv, RestoredStays
  <2>3. \A p \in Nodes : restored'[term'[p]] \subseteq db'[p]
    BY <1>3, <1>4, <1>5 DEF IInv, RestoredStays
  <2>4. takeovers' - 1 = takeovers
    BY <1>1, <1>2 DEF last
  <2> QED
    BY <1>1, <1>4, <2>2, <2>3, <2>4 DEF RestoredStays
<1>12. \A m \in messages : m.term \in 0..takeovers
  BY DEF IInv, TypeOK
<1>13. MessagesAreTrue'
  BY <1>1, <1>3, <1>5, <1>12 DEF IInv, MessagesAreTrue, Reserved
<1>14. SentOnce'
  BY <1>1, <1>4, <1>12 DEF IInv, SentOnce
<1>15. ASSUME NEW h \in Handlers
       PROVE  TaskIsTrue(task[h])'
  <2>1. CASE task'[h] = Idle
    BY <2>1, IdleIsTask DEF TaskIsTrue
  <2>2. CASE task'[h] = task[h] /\ task[h].pc # "idle" /\ task[h].node # n
    <3>1. task[h].node \in Nodes
      BY <2>2, Working
    <3>2. restored'[term'[task[h].node]] = restored[term[task[h].node]]
      BY <1>4, <1>5, <2>2, <3>1
    <3>3. /\ term'[task[h].node] = term[task[h].node]
          /\ db'[task[h].node] = db[task[h].node]
          /\ TaskIsTrue(task[h])
      BY <1>3, <1>5, <2>2, <3>1 DEF IInv
    <3> QED
      BY <1>1, <2>2, <3>2, <3>3 DEF TaskIsTrue, Reserved, Sent, MessageOf
  <2>3. CASE task'[h] = task[h] /\ task[h].pc = "idle"
    BY <2>3 DEF TaskIsTrue
  <2> QED
    BY <1>1, <2>1, <2>2, <2>3, StoppedTasks
<1>16. Exclusive'
  <2>1. \A h \in Handlers : AtWork(task'[h]) => task'[h] = task[h]
    BY <1>1, StoppedTasks, IdleIsTask
  <2> QED
    BY <2>1 DEF IInv, Exclusive
<1> QED
  BY <1>8, <1>9, <1>10, <1>11, <1>13, <1>14, <1>15, <1>16 DEF IInv

LEMMA ReplicateKeepsIInv ==
  ASSUME IInv, Replicate
  PROVE  IInv'
<1>1. /\ lease.holder # Nobody /\ replica' = db[lease.holder]
      /\ UNCHANGED <<now, lease, file, restored, term, fallen, db, task, messages, takeovers>>
  BY DEF Replicate
<1>2. /\ lease.holder \in Nodes /\ term[lease.holder] = takeovers
      /\ db[lease.holder] \subseteq Row
  BY <1>1 DEF IInv, TypeOK, TermsAreTrue
<1>3. TypeOK' /\ IsFiniteSet(messages')
  BY <1>1, <1>2 DEF IInv, TypeOK
<1>4. TermsAreTrue' /\ \A n \in Nodes : FileIsTrue(n)'
  BY <1>1 DEF IInv, TermsAreTrue, FileIsTrue
<1>5. RestoredStays'
  BY <1>1, <1>2 DEF IInv, RestoredStays
<1> QED
  BY <1>1, <1>3, <1>4, <1>5, RowsRest DEF IInv

LEMMA CrashKeepsIInv ==
  ASSUME IInv, NEW n \in Nodes, Crash(n)
  PROVE  IInv'
<1>1. task' = Stopped(n) /\ UNCHANGED <<now, pair, db, messages>>
  BY DEF Crash
<1> QED
  BY <1>1, StoppedTasks, TasksRest

LEMMA TickKeepsIInv ==
  ASSUME FailoverAssumption, IInv, Tick
  PROVE  IInv'
<1>1. /\ now \in Nat /\ now' = now + 1
      /\ UNCHANGED <<lease, file, replica, restored, term, fallen, takeovers, db, task, messages>>
  BY DEF IInv, TypeOK, Tick, pair
<1>2. /\ file' \in [Nodes -> [there : BOOLEAN, mtime : 0..now']]
      /\ \A n \in Nodes : file[n].mtime \in 0..now
  BY <1>1 DEF IInv, TypeOK
<1>3. TypeOK' /\ IsFiniteSet(messages')
  BY <1>1, <1>2 DEF IInv, TypeOK
<1>4. \A n \in Nodes : FileIsTrue(n)'
  BY <1>1, <1>2 DEF IInv, FileIsTrue, FailoverAssumption
<1>5. TermsAreTrue' /\ RestoredStays'
  BY <1>1 DEF IInv, TermsAreTrue, RestoredStays
<1> QED
  BY <1>1, <1>3, <1>4, <1>5, RowsRest DEF IInv

---------------------------------------------------------------------------
(* The whole.                                                              *)

LEMMA InitIsTrue ==
  ASSUME FailoverAssumption, Init
  PROVE  IInv
<1>1. /\ now = 0 /\ takeovers = 0
      /\ lease = [holder |-> Nobody, until |-> 0] /\ fallen = Nobody
      /\ file = [n \in Nodes |-> [there |-> FALSE, mtime |-> 0]]
      /\ db = [n \in Nodes |-> {}] /\ replica = {}
      /\ restored = [t \in 0..MaxTakeovers |-> {}] /\ term = [n \in Nodes |-> 0]
      /\ task = [h \in Handlers |-> Idle] /\ messages = {}
  BY DEF Init
<1>2. 0 \in 0..MaxTakeovers /\ 0 \in Nat
  BY DEF FailoverAssumption
<1>3. TypeOK /\ IsFiniteSet(messages)
  BY <1>1, <1>2, IdleIsTask, FS_EmptySet DEF TypeOK
<1>4. \A n \in Nodes : FileIsTrue(n) /\ RowsAreTrue(n)
  BY <1>1 DEF FileIsTrue, RowsAreTrue
<1>5. TermsAreTrue /\ RestoredStays
  BY <1>1, <1>2 DEF TermsAreTrue, RestoredStays
<1>6. MessagesAreTrue /\ SentOnce
  BY <1>1 DEF MessagesAreTrue, SentOnce
<1>7. (\A h \in Handlers : TaskIsTrue(task[h])) /\ Exclusive
  BY <1>1, IdleIsTask DEF Exclusive
<1> QED
  BY <1>3, <1>4, <1>5, <1>6, <1>7 DEF IInv

LEMMA NextKeepsIInv ==
  ASSUME FailoverAssumption, IInv, [Next]_vars
  PROVE  IInv'
<1>1. ASSUME NEW h \in Handlers, NEW n \in Nodes, NEW k \in Keys, Require(h, n, k)
      PROVE  IInv'
  BY <1>1, RequireKeepsIInv
<1>2. ASSUME NEW h \in Handlers, ReserveIdempotency(h) \/ SendMessage(h)
                                   \/ ConfirmIdempotency(h) \/ ReleaseIdempotency(h)
      PROVE  IInv'
  <2>1. task[h].pc # "idle"
    BY <1>2 DEF ReserveIdempotency, SendMessage, ConfirmIdempotency, ReleaseIdempotency, At
  <2>2. PICK n \in Nodes, k \in Keys : task[h].node = n /\ task[h].key = k
    BY <2>1, Working
  <2> QED
    BY <1>2, <2>2, ReserveKeepsIInv, SendKeepsIInv, ConfirmKeepsIInv, ReleaseKeepsIInv
<1>3. ASSUME NEW n \in Nodes, Renew(n) \/ TakeOver(n) \/ Crash(n)
      PROVE  IInv'
  BY <1>3, RenewKeepsIInv, TakeOverKeepsIInv, CrashKeepsIInv
<1>4. ASSUME Replicate \/ Tick  PROVE IInv'
  BY <1>4, ReplicateKeepsIInv, TickKeepsIInv
<1>5. ASSUME UNCHANGED vars  PROVE IInv'
  <2>1. UNCHANGED <<now, pair, db, messages, task>>
    BY <1>5 DEF vars, pair
  <2> QED
    BY <2>1, TasksRest DEF IInv, TypeOK
<1> QED
  BY <1>1, <1>2, <1>3, <1>4, <1>5 DEF Next

LEMMA Invariance ==
  ASSUME FailoverAssumption
  PROVE  Spec => []IInv
<1>1. Init => IInv
  BY InitIsTrue
<1>2. IInv /\ [Next]_vars => IInv'
  BY NextKeepsIInv
<1> QED
  BY <1>1, <1>2, PTL DEF Spec

LEMMA PairOfIInv ==
  ASSUME FailoverAssumption, IInv
  PROVE  PairActsAsOne
  BY HolderHoldsTheLease DEF IInv, SentOnce, PairActsAsOne

(* What the fallen machine had restored the holder has too, so a confirmed *)
(* row the holder lacks is of a message the fallen machine sent itself.    *)
LEMMA PostMortemOfIInv ==
  ASSUME FailoverAssumption, IInv
  PROVE  PostMortemIsRight
<1> SUFFICES ASSUME Compared
             PROVE  /\ \A r \in Confirmed :
                         \E m \in messages : m.node = fallen /\ m.key = r.key /\ m.id = r.id
                    /\ \A m \in messages :
                         m.node = fallen /\ m.term = term[fallen]
                         /\ ~Reserved(lease.holder, m.key) => m.key \in Listed
  BY DEF PostMortemIsRight
<1>1. /\ takeovers \in Nat /\ takeovers > 1
      /\ fallen \in Nodes /\ term[fallen] = takeovers - 1
      /\ lease.holder \in Nodes /\ term[lease.holder] = takeovers
  BY DEF Compared, IInv, TypeOK, TermsAreTrue
<1>2. restored[term[fallen]] \subseteq db[lease.holder]
  <2>1. restored[takeovers] \subseteq db[lease.holder]
    BY <1>1 DEF IInv, RestoredStays
  <2> QED
    BY <1>1, <2>1 DEF IInv, RestoredStays
<1>3. ASSUME NEW r \in Confirmed
      PROVE  \E m \in messages : m.node = fallen /\ m.key = r.key /\ m.id = r.id
  <2>1. r \in db[fallen] /\ r.id # 0 /\ ~Reserved(lease.holder, r.key)
    BY DEF Confirmed, Missing
  <2>2. MessageOf(fallen, r.key, r.id) \in messages
    BY <1>1, <1>2, <2>1 DEF IInv, RowsAreTrue, Reserved
  <2> QED
    BY <2>2 DEF MessageOf
<1>4. ASSUME NEW m \in messages, m.node = fallen, m.term = term[fallen],
             ~Reserved(lease.holder, m.key)
      PROVE  m.key \in Listed
  <2>1. PICK r \in db[fallen] : r.key = m.key
    BY <1>1, <1>4 DEF IInv, MessagesAreTrue, Reserved
  <2>2. r \in Missing
    BY <1>4, <2>1 DEF Missing
  <2>3. r \in Confirmed \cup Open
    BY <2>2 DEF Confirmed, Open
  <2> QED
    BY <2>1, <2>3 DEF Listed
<1> QED
  BY <1>3, <1>4

(***************************************************************************)
(* The file never lets two machines act, and a failover sends twice only   *)
(* what was not replicated: for every lease, every validity below it, and  *)
(* however often the lease changes hands.                                  *)
(***************************************************************************)
THEOREM PairIsOne ==
  ASSUME FailoverAssumption
  PROVE  Spec => []PairActsAsOne
<1>1. IInv => PairActsAsOne
  BY PairOfIInv
<1> QED
  BY <1>1, Invariance, PTL

(***************************************************************************)
(* `zapgw lost` lists every message of the fallen machine that is at risk, *)
(* and calls confirmed only what Meta created.                             *)
(***************************************************************************)
THEOREM PostMortemHolds ==
  ASSUME FailoverAssumption
  PROVE  Spec => []PostMortemIsRight
<1>1. IInv => PostMortemIsRight
  BY PostMortemOfIInv
<1> QED
  BY <1>1, Invariance, PTL
=============================================================================
