----------------------- MODULE InboundDeliveryProofs -----------------------
(***************************************************************************)
(* What InboundDelivery promises, for any number of goroutines, any        *)
(* batches and any instance: no batch is lost in silence, nothing that is  *)
(* not the instance's leaves for its callback, and what is counted adds up *)
(* to what was answered.                                                   *)
(***************************************************************************)
EXTENDS InboundDelivery, SequenceTheorems, FiniteSetTheorems, TLAPS

---------------------------------------------------------------------------
(* The steps keep the types.                                               *)

LEMMA TaskForms ==
  ASSUME NEW t \in Task
  PROVE  /\ t.pc = "idle" => t = Idle
         /\ t.pc = "after" => t \in Finishing
         /\ t.pc \notin {"idle", "after"} => t \in Working
  BY DEF Task, Working, Finishing, Idle, Busy

LEMMA CounterKeysAreEffects ==
  ASSUME NEW status, NEW error, NEW v
  PROVE  CounterKeys(status, error, v) \in Seq(Effects)
<1> DEFINE a == IF error # NoError THEN <<>>
                ELSE CASE status \in 200..299 -> <<"delivered">>
                       [] status \in 400..499 \ {404} -> <<"refused">>
                       [] OTHER               -> <<>>
           b == IF v.alarm /\ v.meta = 200 THEN <<"loss">> ELSE <<>>
<1>0. {"delivered", "refused", "loss"} \subseteq Effects
  BY DEF Effects
<1>1. /\ <<>> \in Seq(Effects) /\ <<"delivered">> \in Seq(Effects)
      /\ <<"refused">> \in Seq(Effects) /\ <<"loss">> \in Seq(Effects)
  BY <1>0
<1>2. a \in Seq(Effects)
  BY <1>1, Zenon
<1>3. b \in Seq(Effects)
  BY <1>1
<1> HIDE DEF a, b
<1>4. a \o b \in Seq(Effects)
  BY <1>2, <1>3, ConcatProperties
<1> QED
  BY <1>4 DEF CounterKeys, a, b

LEMMA AfterAnswerIsEffects ==
  ASSUME NEW h
  PROVE  AfterAnswer(h) \in Seq(Effects) /\ AfterAnswer(h) # <<>>
<1> DEFINE k == CounterKeys(task[h].status, task[h].error, Verdict(h))
           c == IF Verdict(h).meta \in 200..299 THEN <<"billing">> ELSE <<>>
<1>1. /\ <<>> \in Seq(Effects) /\ <<"received">> \in Seq(Effects) /\ <<"alerts">> \in Seq(Effects)
      /\ <<"billing">> \in Seq(Effects) /\ <<"records">> \in Seq(Effects)
  BY DEF Effects
<1>2. k \in Seq(Effects)
  BY CounterKeysAreEffects
<1>3. c \in Seq(Effects)
  BY <1>1
<1> HIDE DEF k, c
<1>4. <<"received">> \o k \in Seq(Effects)
  BY <1>1, <1>2, ConcatProperties
<1>5. (<<"received">> \o k) \o <<"alerts">> \in Seq(Effects)
  BY <1>1, <1>4, ConcatProperties
<1>6. ((<<"received">> \o k) \o <<"alerts">>) \o c \in Seq(Effects)
  BY <1>3, <1>5, ConcatProperties
<1> DEFINE s == ((<<"received">> \o k) \o <<"alerts">>) \o c
<1> HIDE DEF s
<1>7. s \o <<"records">> \in Seq(Effects) /\ Len(s \o <<"records">>) = Len(s) + 1
  BY <1>1, <1>6, ConcatProperties DEF s
<1>8. s \o <<"records">> # <<>>
  BY <1>6, <1>7, LenProperties DEF s
<1> QED
  BY <1>7, <1>8 DEF AfterAnswer, k, c, s

(* A handler takes up another task. *)
LEMMA TaskType ==
  ASSUME TypeOK, NEW h \in Handlers, NEW t \in Task, task' = [task EXCEPT ![h] = t]
  PROVE  task' \in [Handlers -> Task]
  BY DEF TypeOK

LEMMA Underway ==
  /\ "find" \in Busy /\ "read" \in Busy /\ "guards" \in Busy
  /\ "deliver" \in Busy /\ "waiting" \in Busy /\ "verdict" \in Busy
  BY DEF Busy

(* A task goes on: what it handles stays the same. *)
LEMMA TaskGoesOn ==
  ASSUME NEW t \in Working, NEW pc \in Busy
  PROVE  /\ [t EXCEPT !.pc = pc] \in Task
         /\ \A i \in Instance : [t EXCEPT !.pc = pc, !.inst = i] \in Task
         /\ \A e \in Errors : [t EXCEPT !.pc = pc, !.error = e] \in Task
<1>1. [t EXCEPT !.pc = pc] \in Working
  BY DEF Working
<1>2. ASSUME NEW i \in Instance
      PROVE  [t EXCEPT !.pc = pc, !.inst = i] \in Working
  BY DEF Working
<1>3. ASSUME NEW e \in Errors
      PROVE  [t EXCEPT !.pc = pc, !.error = e] \in Working
  BY DEF Working
<1>4. Working \subseteq Task
  BY DEF Task
<1> QED
  BY <1>1, <1>2, <1>3, <1>4

LEMMA ToDoType ==
  ASSUME NEW b \in Batches, NEW todo \in Seq(Effects)
  PROVE  /\ ToDo(b, todo) \in Task
         /\ ToDo(b, todo).pc = "after" =>
              ToDo(b, todo).batch = b /\ ToDo(b, todo).todo = todo
         /\ IF todo = <<>> THEN ToDo(b, todo) = Idle ELSE ToDo(b, todo).pc = "after"
  BY DEF ToDo, Task, Finishing, Idle

(* Two fields of a task are set: the task is another. *)
LEMMA FieldsSet ==
  ASSUME NEW f \in [Handlers -> Task], NEW h \in Handlers, NEW x
  PROVE  /\ [f EXCEPT ![h].pc = "verdict", ![h].error = x] =
              [f EXCEPT ![h] = [f[h] EXCEPT !.pc = "verdict", !.error = x]]
         /\ [f EXCEPT ![h].pc = "verdict", ![h].status = x] =
              [f EXCEPT ![h] = [f[h] EXCEPT !.pc = "verdict", !.status = x]]
<1>1. [f EXCEPT ![h].pc = "verdict", ![h].error = x] =
        [f EXCEPT ![h] = [f[h] EXCEPT !.pc = "verdict", !.error = x]]
  OBVIOUS
<1>2. [f EXCEPT ![h].pc = "verdict", ![h].status = x] =
        [f EXCEPT ![h] = [f[h] EXCEPT !.pc = "verdict", !.status = x]]
  OBVIOUS
<1> QED
  BY <1>1, <1>2

LEMMA CallsAbandoned ==
  ASSUME TypeOK, NEW hs
  PROVE  Abandoned(hs) \subseteq [handler : Handlers \cup {Nobody}, batch : Batches]
<1>1. ASSUME NEW c \in calls
      PROVE  [c EXCEPT !.handler = Nobody] \in [handler : Handlers \cup {Nobody}, batch : Batches]
  BY DEF TypeOK
<1> QED
  BY <1>1 DEF Abandoned, TypeOK

LEMMA Counted ==
  ASSUME NEW f \in [Batches -> [Effects -> Nat]], NEW b \in Batches, NEW e \in Effects
  PROVE  [f EXCEPT ![b][e] = @ + 1] \in [Batches -> [Effects -> Nat]]
<1> DEFINE g == [f[b] EXCEPT ![e] = @ + 1]
<1>1. f[b] \in [Effects -> Nat]
  OBVIOUS
<1>2. g \in [Effects -> Nat]
  BY <1>1
<1>3. [f EXCEPT ![b][e] = @ + 1] = [f EXCEPT ![b] = g]
  OBVIOUS
<1> HIDE DEF g
<1> QED
  BY <1>2, <1>3

LEMMA AtWork ==
  ASSUME TypeOK, NEW h \in Handlers, ~At(h, "idle"), ~At(h, "after")
  PROVE  task[h] \in Working
  BY TaskForms DEF TypeOK, At

LEMMA Answered ==
  ASSUME TypeOK, NEW h \in Handlers, At(h, "after")
  PROVE  /\ task[h] \in Finishing /\ task[h].batch \in Batches
         /\ task[h].todo \in Seq(Effects) /\ task[h].todo # <<>>
         /\ Head(task[h].todo) \in Effects /\ Tail(task[h].todo) \in Seq(Effects)
<1>1. task[h] \in Finishing
  BY TaskForms DEF TypeOK, At
<1> QED
  BY <1>1, HeadTailProperties DEF Finishing

LEMMA TurnAwayType ==
  ASSUME TypeOK, NEW h \in Handlers, TurnAway(h)
  PROVE  TypeOK'
<1>1. Idle \in Task
  BY DEF Task
<1> QED
  BY <1>1, TaskType DEF TurnAway, TypeOK, consumer, counters

LEMMA TellType ==
  ASSUME TypeOK, NEW b \in Batches, NEW status, NEW heard, Tell(b, status, heard)
  PROVE  /\ answered' \in [Batches -> Nat]
         /\ meta' \in [Batches -> {"absent", "pending", "accepted"}]
<1>1. answered' = answered \/ answered' = [answered EXCEPT ![b] = @ + 1]
  BY DEF Tell
<1>2. meta' = meta \/ meta' = [meta EXCEPT ![b] = "accepted"]
  BY DEF Tell
<1>3. answered' \in [Batches -> Nat]
  BY <1>1 DEF TypeOK
<1>4. meta' \in [Batches -> {"absent", "pending", "accepted"}]
  BY <1>2 DEF TypeOK
<1> QED
  BY <1>3, <1>4

LEMMA StepType ==
  ASSUME InboundAssumption, TypeOK, NEW h \in Handlers, Step(h)
  PROVE  TypeOK'
<1>0. Idle \in Task
  BY DEF Task
<1>1. CASE InstanceUnavailable(h) \/ Refuse(h) \/ ReadFails(h)
  BY <1>1, TurnAwayType DEF InstanceUnavailable, Refuse, ReadFails
<1>2. CASE FindInstance(h)
  <2>1. task[h] \in Working
    BY <1>2, AtWork DEF FindInstance, At
  <2> DEFINE t == [task[h] EXCEPT !.pc = "read", !.inst = instance]
  <2>2. t \in Task
    BY <2>1, TaskGoesOn, Underway DEF TypeOK
  <2>3. task' = [task EXCEPT ![h] = t]
    BY <1>2 DEF FindInstance
  <2> QED
    BY <1>2, <2>2, <2>3, TaskType DEF FindInstance, TypeOK, consumer, counters
<1>3. CASE ReadBody(h)
  <2>1. task[h] \in Working
    BY <1>3, AtWork DEF ReadBody, At
  <2> DEFINE t == [task[h] EXCEPT !.pc = "guards"]
  <2>2. t \in Task
    BY <2>1, TaskGoesOn, Underway
  <2>3. task' = [task EXCEPT ![h] = t]
    BY <1>3 DEF ReadBody
  <2> QED
    BY <1>3, <2>2, <2>3, TaskType DEF ReadBody, TypeOK, consumer, counters
<1>4. CASE RefuseTooLarge(h)
  <2>1. task[h].batch \in Batches
    BY <1>4, AtWork DEF RefuseTooLarge, At, Working
  <2>2. done' \in [Batches -> [Effects -> Nat]]
    <3>1. "too_large" \in Effects
      BY DEF Effects
    <3> QED
      BY <1>4, <2>1, <3>1 DEF RefuseTooLarge, TypeOK
  <2> QED
    BY <1>0, <1>4, <2>2, TaskType DEF RefuseTooLarge, TypeOK, consumer
<1>5. CASE Admit(h)
  <2>1. task[h] \in Working
    BY <1>5, AtWork DEF Admit, At
  <2> DEFINE t == [task[h] EXCEPT !.pc = "deliver"]
  <2>2. t \in Task
    BY <2>1, TaskGoesOn, Underway
  <2>3. task' = [task EXCEPT ![h] = t]
    BY <1>5 DEF Admit
  <2> QED
    BY <1>5, <2>2, <2>3, TaskType DEF Admit, TypeOK, consumer, counters
<1>6. CASE Deliver(h)
  <2>1. task[h] \in Working
    BY <1>6, AtWork DEF Deliver, At
  <2> DEFINE t == [task[h] EXCEPT !.pc = "waiting"]
  <2>2. t \in Task
    BY <2>1, TaskGoesOn, Underway
  <2>3. task' = [task EXCEPT ![h] = t]
    BY <1>6 DEF Deliver
  <2>4. calls' \subseteq [handler : Handlers \cup {Nobody}, batch : Batches]
    BY <1>6, <2>1 DEF Deliver, Working, TypeOK
  <2> QED
    BY <1>6, <2>2, <2>3, <2>4, TaskType DEF Deliver, TypeOK, consumer, counters
<1>7. CASE Expire(h)
  <2>1. task[h] \in Working
    BY <1>7, AtWork DEF Expire, At
  <2> DEFINE t == [task[h] EXCEPT !.pc = "verdict", !.error = "deadline"]
  <2>2. "deadline" \in Errors
    BY DEF Errors
  <2>3. t \in Task
    BY <2>1, <2>2, TaskGoesOn, Underway
  <2>4. task' = [task EXCEPT ![h] = t]
    BY <1>7 DEF Expire
  <2>5. calls' \subseteq [handler : Handlers \cup {Nobody}, batch : Batches]
    BY <1>7, CallsAbandoned DEF Expire
  <2> QED
    BY <1>7, <2>3, <2>4, <2>5, TaskType DEF Expire, TypeOK, consumer, counters
<1>8. ASSUME NEW written \in BOOLEAN, FollowUp(h, written)
      PROVE  TypeOK'
  <2>1. At(h, "after")
    BY <1>8 DEF FollowUp
  <2> DEFINE b == task[h].batch
             e == Head(task[h].todo)
             t == ToDo(b, Tail(task[h].todo))
  <2>2. b \in Batches /\ e \in Effects /\ t \in Task
    BY <2>1, Answered, ToDoType
  <2>3. /\ task' = [task EXCEPT ![h] = t]
        /\ done' \in {done, [done EXCEPT ![b][e] = @ + 1]}
        /\ unwritten' \in {unwritten, [unwritten EXCEPT ![b][e] = @ + 1]}
    BY <1>8 DEF FollowUp
  <2> HIDE DEF b, e, t
  <2>4. /\ done' \in [Batches -> [Effects -> Nat]]
        /\ unwritten' \in [Batches -> [Effects -> Nat]]
    <3>1. done \in [Batches -> [Effects -> Nat]] /\ unwritten \in [Batches -> [Effects -> Nat]]
      BY DEF TypeOK
    <3>2. /\ [done EXCEPT ![b][e] = @ + 1] \in [Batches -> [Effects -> Nat]]
          /\ [unwritten EXCEPT ![b][e] = @ + 1] \in [Batches -> [Effects -> Nat]]
      BY <2>2, <3>1, Counted, Zenon
    <3> QED
      BY ONLY <2>3, <3>1, <3>2
  <2> QED
    BY <1>8, <2>2, <2>3, <2>4, TaskType DEF FollowUp, TypeOK, consumer
<1>9. ASSUME NEW e \in Errors \ {"deadline"}, DeliverFails(h, e)
      PROVE  TypeOK'
  <2>1. task[h] \in Working
    BY <1>9, AtWork DEF DeliverFails, At
  <2> DEFINE t == [task[h] EXCEPT !.pc = "verdict", !.error = e]
  <2>2. t \in Task
    BY <2>1, TaskGoesOn, Underway
  <2>3. task' = [task EXCEPT ![h] = t]
    BY <1>9 DEF DeliverFails
  <2> HIDE DEF t
  <2> QED
    BY <1>9, <2>2, <2>3, TaskType DEF DeliverFails, TypeOK, consumer, counters
<1>10. ASSUME NEW heard \in BOOLEAN, Discard(h, heard)
       PROVE  TypeOK'
  <2>1. task[h].batch \in Batches
    BY <1>10, AtWork DEF Discard, At, Working
  <2> DEFINE t == ToDo(task[h].batch, <<"discarded">>)
  <2>2. t \in Task
    <3>1. <<"discarded">> \in Seq(Effects)
      BY DEF Effects
    <3> QED
      BY <2>1, <3>1, ToDoType
  <2>3. task' = [task EXCEPT ![h] = t]
    BY <1>10 DEF Discard
  <2> HIDE DEF t
  <2>4. /\ answered' \in [Batches -> Nat]
        /\ meta' \in [Batches -> {"absent", "pending", "accepted"}]
    BY <1>10, <2>1, TellType DEF Discard
  <2>5. alarms' \subseteq Batches
    BY <1>10, <2>1 DEF Discard, TypeOK
  <2> QED
    BY <1>10, <2>2, <2>3, <2>4, <2>5, TaskType DEF Discard, TypeOK, consumer, counters
<1>11. ASSUME NEW heard \in BOOLEAN, Respond(h, heard)
       PROVE  TypeOK'
  <2>1. task[h].batch \in Batches
    BY <1>11, AtWork DEF Respond, At, Working
  <2> DEFINE t == ToDo(task[h].batch, AfterAnswer(h))
  <2>2. t \in Task
    BY <2>1, AfterAnswerIsEffects, ToDoType
  <2>3. task' = [task EXCEPT ![h] = t]
    BY <1>11 DEF Respond
  <2> HIDE DEF t
  <2>4. /\ answered' \in [Batches -> Nat]
        /\ meta' \in [Batches -> {"absent", "pending", "accepted"}]
    BY <1>11, <2>1, TellType DEF Respond
  <2>5. alarms' \subseteq Batches
    BY <1>11, <2>1 DEF Respond, TypeOK
  <2> QED
    BY <1>11, <2>2, <2>3, <2>4, <2>5, TaskType DEF Respond, TypeOK, consumer, counters
<1> QED
  BY <1>1, <1>2, <1>3, <1>4, <1>5, <1>6, <1>7, <1>8, <1>9, <1>10, <1>11
     DEF Step, Reading, Work

LEMMA TaskHears ==
  ASSUME NEW u \in Working, NEW s \in 0..599
  PROVE  [u EXCEPT !.pc = "verdict", !.status = s] \in Task
<1>1. [u EXCEPT !.pc = "verdict", !.status = s] \in Working
  BY Underway DEF Working
<1> QED
  BY <1>1 DEF Task

LEMMA HearType ==
  ASSUME InboundAssumption, TypeOK, NEW c \in calls, NEW s \in Statuses, NEW heard \in BOOLEAN,
         Hear(c, s, heard), c.handler # Nobody => At(c.handler, "waiting")
  PROVE  /\ task' \in [Handlers -> Task]
         /\ calls' \subseteq [handler : Handlers \cup {Nobody}, batch : Batches]
<1>1. calls' \subseteq [handler : Handlers \cup {Nobody}, batch : Batches]
  BY DEF Hear, TypeOK
<1>2. CASE task' = task
  BY <1>1, <1>2 DEF TypeOK
<1>3. CASE task' # task
  <2> DEFINE h == c.handler
             t == [task[h] EXCEPT !.pc = "verdict", !.status = s]
  <2>1. h \in Handlers /\ At(h, "waiting")
    BY <1>3 DEF Hear, TypeOK
  <2>2. task[h] \in Working
    BY <2>1, AtWork DEF At
  <2>3. s \in 0..599
    BY DEF InboundAssumption
  <2>4. t \in Task
    BY <2>2, <2>3, TaskHears
  <2>5. task' = [task EXCEPT ![h] = t]
    <3>1. task' = [task EXCEPT ![h].pc = "verdict", ![h].status = s]
      BY <1>3 DEF Hear
    <3>2. task \in [Handlers -> Task] /\ h \in Handlers
      BY <2>1 DEF TypeOK
    <3> HIDE DEF h
    <3>3. [task EXCEPT ![h].pc = "verdict", ![h].status = s] = [task EXCEPT ![h] = t]
      BY <3>2, FieldsSet
    <3> QED
      BY <3>1, <3>3
  <2> HIDE DEF h, t
  <2> QED
    BY <1>1, <2>1, <2>4, <2>5, TaskType
<1> QED
  BY <1>2, <1>3

---------------------------------------------------------------------------
(* The invariant.                                                          *)

(* What the isolation guard admits. *)
Theirs(t) ==
  /\ Batch[t.batch].numbers \subseteq {NoId, t.inst.number}
  /\ Batch[t.batch].accounts \subseteq {t.inst.account}
  /\ t.inst.state = "active"

(* A handler past the guards works for an active instance whose batch it is; *)
(* a 2xx it heard is one the consumer stored the batch with, or a page's.    *)
TaskIsTrue(t) ==
  /\ t.pc \in {"read", "guards"} => t.inst.state = "active"
  /\ t.pc \in {"deliver", "waiting"} => Theirs(t)
  /\ t.pc = "verdict" /\ t.error = NoError /\ t.status \in 200..299 =>
       t.batch \in stored \cup redirected

(* A call somebody waits for is that of the handler's batch. *)
CallIsTheirs(c) ==
  c.handler # Nobody => At(c.handler, "waiting") /\ task[c.handler].batch = c.batch

IInv ==
  /\ TypeOK
  /\ \A h \in Handlers : TaskIsTrue(task[h])
  /\ \A c \in calls : CallIsTheirs(c)
  /\ NoSilentLoss

LEMMA InitInv ==
  ASSUME InboundAssumption, Init
  PROVE  IInv
<1>1. TypeOK
  <2>1. Idle \in Task
    BY DEF Task
  <2>2. meta \in [Batches -> {"absent", "pending", "accepted"}]
    BY DEF Init
  <2>3. task \in [Handlers -> Task]
    BY <2>1 DEF Init
  <2>4. done \in [Batches -> [Effects -> Nat]] /\ unwritten = done
    BY DEF Init
  <2> QED
    BY <2>2, <2>3, <2>4 DEF Init, TypeOK, InboundAssumption
<1>2. (\A h \in Handlers : TaskIsTrue(task[h])) /\ \A c \in calls : CallIsTheirs(c)
  BY DEF Init, TaskIsTrue, Idle
<1>3. NoSilentLoss
  BY DEF Init, NoSilentLoss
<1> QED
  BY <1>1, <1>2, <1>3 DEF IInv

(* The other steps keep the types, too. *)
LEMMA OthersType ==
  ASSUME InboundAssumption, IInv, Next, ~\E h \in Handlers : Step(h)
  PROVE  TypeOK'
<1> USE DEF IInv
<1>1. ASSUME NEW h \in Handlers, NEW b \in Batches, Post(h, b)
      PROVE  TypeOK'
  <2> DEFINE t == [pc |-> "find", batch |-> b, inst |-> instance, status |-> 0,
                   error |-> NoError]
  <2>1. t \in Task
    BY Underway DEF Task, Working, TypeOK
  <2>2. posts' \in [Batches -> Nat]
    BY <1>1 DEF Post, TypeOK
  <2>3. task' = [task EXCEPT ![h] = t]
    BY <1>1 DEF Post
  <2> HIDE DEF t
  <2> QED
    BY <1>1, <2>1, <2>2, <2>3, TaskType DEF Post, TypeOK, consumer, counters
<1>3. ASSUME NEW c \in calls, NEW s \in Statuses, NEW heard \in BOOLEAN,
             ConsumerStores(c, s, heard) \/ ConsumerDoesNotStore(c, s, heard)
               \/ CallbackRedirects(c, s, heard)
      PROVE  TypeOK'
  <2>1. Hear(c, s, heard)
    BY <1>3 DEF ConsumerStores, ConsumerDoesNotStore, CallbackRedirects
  <2>2. c.batch \in Batches
    BY DEF TypeOK
  <2>3. stored' \subseteq Batches /\ refused' \subseteq Batches /\ redirected' \subseteq refused'
    BY <1>3, <2>2 DEF ConsumerStores, ConsumerDoesNotStore, CallbackRedirects, TypeOK
  <2>4. UNCHANGED <<meta, posts, instance, changes, alarms, answered, done, unwritten, crashed>>
    BY <1>3 DEF ConsumerStores, ConsumerDoesNotStore, CallbackRedirects, counters
  <2>5. c.handler # Nobody => At(c.handler, "waiting")
    BY DEF CallIsTheirs
  <2> QED
    BY <2>1, <2>3, <2>4, <2>5, HearType DEF TypeOK
<1>4. ASSUME NEW i \in Instance, Administer(i)
      PROVE  TypeOK'
  BY <1>4 DEF Administer, TypeOK, consumer, counters
<1>5. CASE Crash
  <2>1. Idle \in Task
    BY DEF Task
  <2> QED
    BY <1>5, <2>1, CallsAbandoned DEF Crash, TypeOK, consumer, counters
<1> QED
  BY <1>1, <1>3, <1>4, <1>5 DEF Next

---------------------------------------------------------------------------
(* The invariant is kept.                                                  *)

(* A handler nobody calls for goes on, and what Meta holds is accounted for. *)
LEMMA HandlerMoves ==
  ASSUME IInv, TypeOK', NEW h \in Handlers, NEW t, task' = [task EXCEPT ![h] = t], TaskIsTrue(t),
         ~At(h, "waiting"), UNCHANGED <<calls, consumer>>, NoSilentLoss'
  PROVE  IInv'
<1>1. \A g \in Handlers : TaskIsTrue(task'[g])
  BY DEF IInv, TypeOK
<1>2. (\A g \in Handlers : TaskIsTrue(task[g]))'
  BY <1>1 DEF TaskIsTrue, Theirs, consumer
<1>3. (\A c \in calls : CallIsTheirs(c))'
  <2>1. ASSUME NEW c \in calls, c.handler # Nobody
        PROVE  task'[c.handler].pc = "waiting" /\ task'[c.handler].batch = c.batch
    <3>1. c.handler \in Handlers /\ At(c.handler, "waiting") /\ task[c.handler].batch = c.batch
      BY <2>1 DEF IInv, TypeOK, CallIsTheirs
    <3>2. c.handler # h
      BY <3>1
    <3> QED
      BY <3>1, <3>2 DEF IInv, TypeOK, At
  <2> QED
    BY <2>1 DEF CallIsTheirs, At
<1> QED
  BY <1>2, <1>3 DEF IInv

LEMMA SilenceKept ==
  ASSUME NoSilentLoss, UNCHANGED meta, stored \subseteq stored', redirected \subseteq redirected',
         alarms \subseteq alarms'
  PROVE  NoSilentLoss'
  BY DEF NoSilentLoss, SeenToBy

(* An answer of 2xx needs a batch that is seen to. *)
LEMMA SilenceTold ==
  ASSUME IInv, NEW b \in Batches, NEW status, NEW heard, Tell(b, status, heard),
         UNCHANGED consumer, alarms \subseteq alarms',
         status \in 200..299 => b \in stored \cup redirected \cup alarms'
  PROVE  NoSilentLoss'
<1>1. ASSUME NEW x \in Batches \ redirected', meta'[x] = "accepted"
      PROVE  x \in stored' \/ x \in alarms'
  <2>1. CASE meta'[x] = meta[x]
    BY <1>1, <2>1 DEF IInv, NoSilentLoss, SeenToBy, consumer
  <2>2. CASE meta'[x] # meta[x]
    <3>1. status \in 200..299 /\ x = b
      BY <2>2 DEF Tell, IInv, TypeOK
    <3> QED
      BY <1>1, <3>1 DEF consumer
  <2> QED
    BY <2>1, <2>2
<1> QED
  BY <1>1 DEF NoSilentLoss, SeenToBy

LEMMA TurnAwayInv ==
  ASSUME InboundAssumption, IInv, NEW h \in Handlers, TurnAway(h), ~At(h, "waiting")
  PROVE  IInv'
<1>1. TypeOK'
  BY TurnAwayType DEF IInv
<1>2. TaskIsTrue(Idle)
  BY DEF TaskIsTrue, Idle
<1>3. NoSilentLoss'
  BY SilenceKept DEF TurnAway, IInv, consumer
<1> QED
  BY <1>1, <1>2, <1>3, HandlerMoves DEF TurnAway

(* The guard of isolation: what it lets pass is the instance's. *)
LEMMA AdmittedIsTheirs ==
  ASSUME InboundAssumption, IInv, NEW h \in Handlers, Admit(h)
  PROVE  Theirs(task[h])
<1>1. Batch[task[h].batch].numbers \subseteq {NoId, task[h].inst.number}
  BY DEF Admit, Foreign, ForeignNumber, Content
<1>2. Batch[task[h].batch].accounts \subseteq {task[h].inst.account}
  BY DEF Admit, Foreign, ForeignAccount, Content
<1>3. task[h].inst.state = "active"
  BY DEF Admit, At, IInv, TaskIsTrue
<1> QED
  BY <1>1, <1>2, <1>3 DEF Theirs

(* The mirror: Meta gets its 2xx for what was stored, or with an ALARME. *)
LEMMA MirrorIsTrue ==
  ASSUME IInv, NEW h \in Handlers, At(h, "verdict"), Verdict(h).meta \in 200..299,
         ~Verdict(h).alarm
  PROVE  task[h].batch \in stored \cup redirected
<1> DEFINE s == task[h].status
           e == task[h].error
<1>1. /\ ConsumerVerdict(s, e).meta \in 200..299
      /\ ~ConsumerVerdict(s, e).alarm
  BY DEF Verdict
<1>2. s \in 0..599
  <2>1. task[h] \in Working
    BY AtWork DEF At, IInv
  <2> QED
    BY <2>1 DEF Working
<1> HIDE DEF s, e
<1>3. e = NoError
  <2> SUFFICES ASSUME e # NoError
               PROVE  FALSE
    OBVIOUS
  <2>1. ConsumerVerdict(s, e).meta = 504
    BY DEF ConsumerVerdict
  <2> QED
    BY <1>1, <2>1
<1>4. s \in 200..299
  BY <1>1, <1>2, <1>3 DEF ConsumerVerdict
<1> QED
  BY <1>3, <1>4 DEF s, e, IInv, TaskIsTrue, At

(* What is left once the answer is written calls for nothing more. *)
LEMMA AnsweredIsTrue ==
  ASSUME NEW b, NEW todo
  PROVE  TaskIsTrue(ToDo(b, todo))
<1>1. TaskIsTrue(Idle)
  BY DEF TaskIsTrue, Idle
<1>2. TaskIsTrue([pc |-> "after", batch |-> b, todo |-> todo])
  BY DEF TaskIsTrue
<1> QED
  BY <1>1, <1>2 DEF ToDo

LEMMA StepInv ==
  ASSUME InboundAssumption, IInv, NEW h \in Handlers, Step(h)
  PROVE  IInv'
<1>0. TypeOK'
  BY StepType DEF IInv
<1>1. CASE InstanceUnavailable(h) \/ Refuse(h) \/ ReadFails(h)
  BY <1>1, TurnAwayInv DEF InstanceUnavailable, Refuse, ReadFails, At
<1>2. CASE FindInstance(h)
  <2>1. task[h] \in Working
    BY <1>2, AtWork DEF FindInstance, At, IInv
  <2>2. TaskIsTrue([task[h] EXCEPT !.pc = "read", !.inst = instance])
    BY <1>2, <2>1 DEF FindInstance, TaskIsTrue, Working
  <2>3. NoSilentLoss'
    BY <1>2, SilenceKept DEF FindInstance, IInv, consumer
  <2>4. task' = [task EXCEPT ![h] = [task[h] EXCEPT !.pc = "read", !.inst = instance]]
    BY <1>2 DEF FindInstance
  <2> QED
    BY <1>0, <1>2, <2>2, <2>3, <2>4, HandlerMoves DEF FindInstance, At
<1>11. CASE ReadBody(h)
  <2>1. task[h] \in Working /\ TaskIsTrue(task[h])
    BY <1>11, AtWork DEF ReadBody, At, IInv
  <2> DEFINE t == [task[h] EXCEPT !.pc = "guards"]
  <2>2. TaskIsTrue(t)
    BY <1>11, <2>1 DEF ReadBody, TaskIsTrue, Working, At
  <2>3. NoSilentLoss'
    BY <1>11, SilenceKept DEF ReadBody, IInv, consumer
  <2>4. task' = [task EXCEPT ![h] = t]
    BY <1>11 DEF ReadBody
  <2> HIDE DEF t
  <2> QED
    BY <1>0, <1>11, <2>2, <2>3, <2>4, HandlerMoves DEF ReadBody, At
<1>3. CASE RefuseTooLarge(h)
  <2>1. TaskIsTrue(Idle)
    BY DEF TaskIsTrue, Idle
  <2>2. NoSilentLoss'
    BY <1>3, SilenceKept DEF RefuseTooLarge, IInv, consumer
  <2> QED
    BY <1>0, <1>3, <2>1, <2>2, HandlerMoves DEF RefuseTooLarge, At
<1>4. CASE Admit(h)
  <2>1. task[h] \in Working
    BY <1>4, AtWork DEF Admit, At, IInv
  <2>2. TaskIsTrue([task[h] EXCEPT !.pc = "deliver"])
    <3>1. Theirs(task[h])
      BY <1>4, AdmittedIsTheirs
    <3>2. ASSUME NEW u \in Working, Theirs(u)
          PROVE  TaskIsTrue([u EXCEPT !.pc = "deliver"])
      BY <3>2 DEF TaskIsTrue, Theirs, Working
    <3> QED
      BY <2>1, <3>1, <3>2
  <2>3. NoSilentLoss'
    BY <1>4, SilenceKept DEF Admit, IInv, consumer
  <2> DEFINE t == [task[h] EXCEPT !.pc = "deliver"]
  <2>4. task' = [task EXCEPT ![h] = t]
    BY <1>4 DEF Admit
  <2>5. TaskIsTrue(t)
    BY <2>2
  <2> HIDE DEF t
  <2> QED
    BY <1>0, <1>4, <2>3, <2>4, <2>5, HandlerMoves DEF Admit, At
<1>5. CASE Deliver(h)
  <2>1. task[h] \in Working /\ Theirs(task[h])
    BY <1>5, AtWork DEF Deliver, At, IInv, TaskIsTrue
  <2> DEFINE t == [task[h] EXCEPT !.pc = "waiting"]
  <2>2. TaskIsTrue(t) /\ t.pc = "waiting" /\ t.batch = task[h].batch
    BY <2>1 DEF TaskIsTrue, Theirs, Working
  <2>3. task' = [task EXCEPT ![h] = t]
    BY <1>5 DEF Deliver
  <2> HIDE DEF t
  <2>4. (\A g \in Handlers : TaskIsTrue(task[g]))'
    <3>1. \A g \in Handlers : TaskIsTrue(task'[g])
      BY <2>2, <2>3 DEF IInv, TypeOK
    <3> QED
      BY <1>5, <3>1 DEF Deliver, TaskIsTrue, Theirs, consumer
  <2>5. (\A c \in calls : CallIsTheirs(c))'
    <3>1. ASSUME NEW c \in calls', c.handler # Nobody
          PROVE  task'[c.handler].pc = "waiting" /\ task'[c.handler].batch = c.batch
      <4>1. CASE c \in calls
        BY <1>5, <2>2, <2>3, <3>1, <4>1 DEF Deliver, IInv, TypeOK, CallIsTheirs, At
      <4>2. CASE c = [handler |-> h, batch |-> task[h].batch]
        BY <2>2, <2>3, <4>2 DEF IInv, TypeOK
      <4> QED
        BY <1>5, <4>1, <4>2 DEF Deliver
    <3> QED
      BY <3>1 DEF CallIsTheirs, At
  <2>6. NoSilentLoss'
    BY <1>5, SilenceKept DEF Deliver, IInv, consumer
  <2> QED
    BY <1>0, <2>4, <2>5, <2>6 DEF IInv
<1>6. CASE Expire(h)
  <2>1. task[h] \in Working
    BY <1>6, AtWork DEF Expire, At, IInv
  <2> DEFINE t == [task[h] EXCEPT !.pc = "verdict", !.error = "deadline"]
  <2>2. TaskIsTrue(t)
    BY <2>1 DEF TaskIsTrue, Working, NoError
  <2>3. task' = [task EXCEPT ![h] = t]
    BY <1>6 DEF Expire
  <2> HIDE DEF t
  <2>4. (\A g \in Handlers : TaskIsTrue(task[g]))'
    <3>1. \A g \in Handlers : task'[g] \in {task[g], t}
      BY <2>3 DEF IInv, TypeOK
    <3>2. \A g \in Handlers : TaskIsTrue(task'[g])
      BY <2>2, <3>1 DEF IInv
    <3>3. UNCHANGED <<stored, redirected>>
      BY <1>6 DEF Expire, consumer
    <3> QED
      BY <3>2, <3>3 DEF TaskIsTrue, Theirs
  <2>5. (\A c \in calls : CallIsTheirs(c))'
    <3>1. ASSUME NEW c \in calls', c.handler # Nobody
          PROVE  task'[c.handler].pc = "waiting" /\ task'[c.handler].batch = c.batch
      <4>1. c \in calls /\ c.handler # h
        <5>1. PICK d \in calls : c = IF d.handler \in {h} THEN [d EXCEPT !.handler = Nobody] ELSE d
          BY <1>6 DEF Expire, Abandoned
        <5>2. d.handler # h
          BY <3>1, <5>1 DEF IInv, TypeOK
        <5> QED
          BY <5>1, <5>2
      <4> QED
        BY <2>3, <3>1, <4>1 DEF IInv, TypeOK, CallIsTheirs, At
    <3> QED
      BY <3>1 DEF CallIsTheirs, At
  <2>6. NoSilentLoss'
    BY <1>6, SilenceKept DEF Expire, IInv, consumer
  <2> QED
    BY <1>0, <2>4, <2>5, <2>6 DEF IInv
<1>7. ASSUME NEW written \in BOOLEAN, FollowUp(h, written)
      PROVE  IInv'
  <2> DEFINE t == ToDo(task[h].batch, Tail(task[h].todo))
  <2>1. TaskIsTrue(t)
    BY AnsweredIsTrue
  <2>2. NoSilentLoss'
    BY <1>7, SilenceKept DEF FollowUp, IInv, consumer
  <2>3. task' = [task EXCEPT ![h] = t]
    BY <1>7 DEF FollowUp
  <2> HIDE DEF t
  <2> QED
    BY <1>0, <1>7, <2>1, <2>2, <2>3, HandlerMoves DEF FollowUp, At
<1>8. ASSUME NEW e \in Errors \ {"deadline"}, DeliverFails(h, e)
      PROVE  IInv'
  <2>1. task[h] \in Working
    BY <1>8, AtWork DEF DeliverFails, At, IInv
  <2>2. TaskIsTrue([task[h] EXCEPT !.pc = "verdict", !.error = e])
    BY <2>1 DEF TaskIsTrue, Working, NoError, Errors, CertificateErrors
  <2>3. NoSilentLoss'
    BY <1>8, SilenceKept DEF DeliverFails, IInv, consumer
  <2>4. task' = [task EXCEPT ![h] = [task[h] EXCEPT !.pc = "verdict", !.error = e]]
    <3>1. task' = [task EXCEPT ![h].pc = "verdict", ![h].error = e]
      BY <1>8 DEF DeliverFails
    <3>2. task \in [Handlers -> Task]
      BY DEF IInv, TypeOK
    <3> QED
      BY <3>1, <3>2, FieldsSet, Zenon
  <2> QED
    BY <1>0, <1>8, <2>2, <2>3, <2>4, HandlerMoves DEF DeliverFails, At
<1>9. ASSUME NEW heard \in BOOLEAN, Discard(h, heard)
      PROVE  IInv'
  <2>1. task[h] \in Working
    BY <1>9, AtWork DEF Discard, At, IInv
  <2> DEFINE t == ToDo(task[h].batch, <<"discarded">>)
  <2>2. TaskIsTrue(t)
    BY AnsweredIsTrue
  <2>3. NoSilentLoss'
    BY <1>9, <2>1, SilenceTold DEF Discard, Working
  <2>4. task' = [task EXCEPT ![h] = t]
    BY <1>9 DEF Discard
  <2> HIDE DEF t
  <2> QED
    BY <1>0, <1>9, <2>2, <2>3, <2>4, HandlerMoves DEF Discard, At
<1>10. ASSUME NEW heard \in BOOLEAN, Respond(h, heard)
       PROVE  IInv'
  <2>1. task[h] \in Working
    BY <1>10, AtWork DEF Respond, At, IInv
  <2> DEFINE t == ToDo(task[h].batch, AfterAnswer(h))
  <2>2. TaskIsTrue(t)
    BY AnsweredIsTrue
  <2>3. NoSilentLoss'
    BY <1>10, <2>1, MirrorIsTrue, SilenceTold DEF Respond, Working
  <2>4. task' = [task EXCEPT ![h] = t]
    BY <1>10 DEF Respond
  <2> HIDE DEF t
  <2> QED
    BY <1>0, <1>10, <2>2, <2>3, <2>4, HandlerMoves DEF Respond, At
<1> QED
  BY <1>1, <1>2, <1>3, <1>4, <1>5, <1>6, <1>7, <1>8, <1>9, <1>10, <1>11
     DEF Step, Reading, Work

(* The callback answers: what the handler hears is what the consumer did. *)
LEMMA CallbackInv ==
  ASSUME InboundAssumption, IInv, TypeOK',
         NEW c \in calls, NEW s \in Statuses, NEW heard \in BOOLEAN,
         ConsumerStores(c, s, heard) \/ ConsumerDoesNotStore(c, s, heard)
           \/ CallbackRedirects(c, s, heard)
  PROVE  IInv'
<1>1. Hear(c, s, heard)
  BY DEF ConsumerStores, ConsumerDoesNotStore, CallbackRedirects
<1>2. stored \subseteq stored' /\ redirected \subseteq redirected' /\ UNCHANGED <<meta, alarms>>
  BY DEF ConsumerStores, ConsumerDoesNotStore, CallbackRedirects
<1>3. s \in 200..299 => c.batch \in stored' \cup redirected'
  BY DEF ConsumerStores, ConsumerDoesNotStore, CallbackRedirects
<1>4. c.handler \in Handlers => At(c.handler, "waiting") /\ task[c.handler].batch = c.batch
  BY DEF IInv, CallIsTheirs, InboundAssumption
<1>5. (\A h \in Handlers : TaskIsTrue(task[h]))'
  <2>1. ASSUME NEW h \in Handlers
        PROVE  /\ task'[h].pc \in {"read", "guards"} => task'[h].inst.state = "active"
               /\ task'[h].pc \in {"deliver", "waiting"} => Theirs(task'[h])
               /\ task'[h].pc = "verdict" /\ task'[h].error = NoError
                    /\ task'[h].status \in 200..299 => task'[h].batch \in stored' \cup redirected'
    <3>1. CASE task'[h] = task[h]
      BY <1>2, <3>1 DEF IInv, TaskIsTrue
    <3>2. CASE task'[h] # task[h]
      <4>1. c.handler = h /\ task' = [task EXCEPT ![h].pc = "verdict", ![h].status = s]
        BY <1>1, <3>2 DEF Hear, IInv, TypeOK
      <4>2. task[h] \in Working
        BY <1>4, <4>1, AtWork DEF At, IInv
      <4>3. task'[h] = [task[h] EXCEPT !.pc = "verdict", !.status = s]
        BY <4>1 DEF IInv, TypeOK
      <4>4. task[h].batch = c.batch
        BY <1>4, <4>1
      <4>5. /\ task'[h].pc = "verdict" /\ task'[h].status = s
            /\ task'[h].batch = task[h].batch
        <5>1. /\ DOMAIN task[h] = {"pc", "batch", "inst", "status", "error"}
          BY <4>2 DEF Working
        <5> QED
          BY <4>3, <5>1
      <4> QED
        BY <1>3, <4>4, <4>5
    <3> QED
      BY <3>1, <3>2
  <2> QED
    BY <2>1 DEF TaskIsTrue, Theirs
<1>6. (\A d \in calls : CallIsTheirs(d))'
  <2>1. ASSUME NEW d \in calls', d.handler # Nobody
        PROVE  task'[d.handler].pc = "waiting" /\ task'[d.handler].batch = d.batch
    <3>1. /\ d \in calls /\ d # c
          /\ d.handler \in Handlers /\ At(d.handler, "waiting")
          /\ task[d.handler].batch = d.batch
      BY <1>1, <2>1 DEF Hear, IInv, TypeOK, CallIsTheirs
    <3>2. d.handler # c.handler
      <4>1. /\ d = [handler |-> d.handler, batch |-> d.batch]
            /\ c = [handler |-> c.handler, batch |-> c.batch]
        BY <3>1 DEF IInv, TypeOK
      <4>2. SUFFICES ASSUME d.handler = c.handler PROVE d.batch = c.batch
        BY <3>1, <4>1
      <4> QED
        BY <1>4, <3>1, <4>2
    <3> QED
      BY <1>1, <3>1, <3>2 DEF Hear, IInv, TypeOK, At
  <2> QED
    BY <2>1 DEF CallIsTheirs, At
<1>7. NoSilentLoss'
  BY <1>2, SilenceKept DEF IInv
<1> QED
  BY <1>5, <1>6, <1>7 DEF IInv

LEMMA OthersInv ==
  ASSUME InboundAssumption, IInv, Next, ~\E h \in Handlers : Step(h)
  PROVE  IInv'
<1>0. TypeOK'
  BY OthersType
<1>1. ASSUME NEW h \in Handlers, NEW b \in Batches, Post(h, b)
      PROVE  IInv'
  <2> DEFINE t == [pc |-> "find", batch |-> b, inst |-> instance, status |-> 0,
                   error |-> NoError]
  <2>1. TaskIsTrue(t)
    BY DEF TaskIsTrue
  <2>2. task' = [task EXCEPT ![h] = t]
    BY <1>1 DEF Post
  <2>3. NoSilentLoss'
    BY <1>1, SilenceKept DEF Post, IInv, consumer
  <2> QED
    BY <1>0, <1>1, <2>1, <2>2, <2>3, HandlerMoves DEF Post, At
<1>3. ASSUME NEW i \in Instance, Administer(i)
      PROVE  IInv'
  <2>1. NoSilentLoss'
    BY <1>3, SilenceKept DEF Administer, IInv, consumer
  <2>2. UNCHANGED <<task, calls, stored, redirected>>
    BY <1>3 DEF Administer, consumer
  <2>3. (\A h \in Handlers : TaskIsTrue(task[h]))'
    BY <2>2 DEF IInv, TaskIsTrue, Theirs
  <2>4. (\A c \in calls : CallIsTheirs(c))'
    BY <2>2 DEF IInv, CallIsTheirs, At
  <2> QED
    BY <1>0, <2>1, <2>3, <2>4 DEF IInv
<1>4. CASE Crash
  <2>1. (\A h \in Handlers : TaskIsTrue(task[h]))'
    BY <1>4 DEF Crash, TaskIsTrue, Idle
  <2>2. (\A c \in calls : CallIsTheirs(c))'
    <3>1. ASSUME NEW c \in calls'
          PROVE  c.handler = Nobody
      BY <1>4 DEF Crash, Abandoned, IInv, TypeOK
    <3> QED
      BY <3>1 DEF CallIsTheirs
  <2>3. NoSilentLoss'
    BY <1>4, SilenceKept DEF Crash, IInv, consumer
  <2> QED
    BY <1>0, <2>1, <2>2, <2>3 DEF IInv
<1> QED
  BY <1>0, <1>1, <1>3, <1>4, CallbackInv DEF Next

LEMMA Invariance == Spec => []IInv
<1>1. Init => IInv
  BY InitInv, InboundAssumption
<1>2. IInv /\ [Next]_vars => IInv'
  <2> SUFFICES ASSUME IInv, [Next]_vars
               PROVE  IInv'
    OBVIOUS
  <2>1. CASE UNCHANGED vars
    BY <2>1 DEF vars, consumer, IInv, TypeOK, TaskIsTrue, Theirs, CallIsTheirs, At,
       NoSilentLoss, SeenToBy
  <2>2. CASE \E h \in Handlers : Step(h)
    BY <2>2, StepInv, InboundAssumption
  <2>3. CASE Next /\ ~\E h \in Handlers : Step(h)
    BY <2>3, OthersInv, InboundAssumption
  <2> QED
    BY <2>1, <2>2, <2>3
<1> QED
  BY <1>1, <1>2, PTL DEF Spec

---------------------------------------------------------------------------
(* The counters.                                                           *)

(* A handler has still to count one of the effects S for its batch. *)
Holds(todo, S) == \E i \in 1..Len(todo) : todo[i] \in S

Due(b, S) ==
  {h \in Handlers : At(h, "after") /\ task[h].batch = b /\ Holds(task[h].todo, S)}

(* Effects of which an answer has at most one, and that one once. *)
Outcomes == {"delivered", "loss", "discarded"}
Settled == {"billing", "discarded"}
Told == {Outcomes, Settled, {"alerts"}, {"received"}}

OnceEach(todo) ==
  \A S \in Told : \A i, j \in 1..Len(todo) : todo[i] \in S /\ todo[j] \in S => i = j

(* What was counted or could not be, and what is due, add up to what was   *)
(* answered; a crash takes away from what is due.                          *)
OutcomesAddUp(b) ==
  /\ Accepted(b) + Cardinality(Due(b, Outcomes)) <= answered[b]
  /\ ~crashed => Accepted(b) + Cardinality(Due(b, Outcomes)) = answered[b]

MoneyAddsUp(b) ==
  LET counted == Tried(b, "billing") + Tried(b, "discarded") + Cardinality(Due(b, Settled))
  IN  /\ counted <= answered[b]
      /\ ~crashed => counted = answered[b]

AlertsAddUp(b) ==
  /\ unwritten[b]["alerts"] = 0
  /\ ~crashed =>
       Tried(b, "alerts") + Cardinality(Due(b, {"alerts"})) =
         Tried(b, "received") + Cardinality(Due(b, {"received"}))

CountInv ==
  /\ \A h \in Handlers : At(h, "after") => OnceEach(task[h].todo)
  /\ \A b \in Batches, S \in Told : IsFiniteSet(Due(b, S))
  /\ \A b \in Batches : OutcomesAddUp(b) /\ MoneyAddsUp(b) /\ AlertsAddUp(b)

LEMMA CountInit ==
  ASSUME Init
  PROVE  CountInv
<1>1. \A h \in Handlers : ~At(h, "after")
  BY DEF Init, At, Idle
<1>2. \A b, S : Due(b, S) = {}
  BY <1>1 DEF Due
<1>3. IsFiniteSet({}) /\ Cardinality({}) = 0
  BY FS_EmptySet
<1>4. \A b \in Batches :
        answered[b] = 0 /\ \A e \in Effects : done[b][e] = 0 /\ unwritten[b][e] = 0
  BY DEF Init
<1>5. {"delivered", "loss", "discarded", "billing", "alerts", "received"} \subseteq Effects
  BY DEF Effects
<1>6. ASSUME NEW b \in Batches
      PROVE  OutcomesAddUp(b) /\ MoneyAddsUp(b) /\ AlertsAddUp(b)
  <2>1. /\ Tried(b, "delivered") = 0 /\ Tried(b, "loss") = 0 /\ Tried(b, "discarded") = 0
        /\ Tried(b, "billing") = 0 /\ Tried(b, "alerts") = 0 /\ Tried(b, "received") = 0
        /\ unwritten[b]["alerts"] = 0 /\ answered[b] = 0
    BY <1>4, <1>5 DEF Tried
  <2>2. \A S : Cardinality(Due(b, S)) = 0
    BY <1>2, <1>3
  <2> QED
    BY <2>1, <2>2 DEF OutcomesAddUp, MoneyAddsUp, AlertsAddUp, Accepted
<1> QED
  BY <1>1, <1>2, <1>3, <1>6 DEF CountInv

(* What the sums are made of. *)
Counts == {"delivered", "loss", "discarded", "billing", "alerts", "received"}

LEMMA Sums ==
  ASSUME TypeOK, CountInv, NEW b \in Batches
  PROVE  /\ \A e \in Counts : Tried(b, e) \in Nat
         /\ \A S \in Told : IsFiniteSet(Due(b, S)) /\ Cardinality(Due(b, S)) \in Nat
         /\ answered[b] \in Nat
<1>1. Counts \subseteq Effects
  BY DEF Counts, Effects
<1>2. \A S \in Told : IsFiniteSet(Due(b, S)) /\ Cardinality(Due(b, S)) \in Nat
  BY FS_CardinalityType DEF CountInv
<1> QED
  BY <1>1, <1>2 DEF TypeOK, Tried

(* Nothing is answered or counted, and nobody who has to count moves. *)
LEMMA NothingCounts ==
  ASSUME CountInv, UNCHANGED <<answered, crashed>>,
         \A h \in Handlers :
           task'[h] = task[h] \/ (task[h].pc # "after" /\ task'[h].pc # "after"),
         \A b \in Batches, e \in Counts :
           done'[b][e] = done[b][e] /\ unwritten'[b][e] = unwritten[b][e]
  PROVE  CountInv'
<1>1. \A h \in Handlers : At(h, "after")' => At(h, "after") /\ task'[h] = task[h]
  BY DEF At
<1>2. \A h \in Handlers : At(h, "after") => At(h, "after")' /\ task'[h] = task[h]
  BY DEF At
<1>3. \A b, S : Due(b, S)' = Due(b, S)
  BY <1>1, <1>2 DEF Due
<1>4. (\A h \in Handlers : At(h, "after") => OnceEach(task[h].todo))'
  BY <1>1 DEF CountInv, OnceEach
<1>5. \A b \in Batches : (OutcomesAddUp(b) /\ MoneyAddsUp(b) /\ AlertsAddUp(b))'
  BY <1>3 DEF CountInv, OutcomesAddUp, MoneyAddsUp, AlertsAddUp, Accepted, Tried, Counts
<1> QED
  BY <1>3, <1>4, <1>5 DEF CountInv

(* Of the handlers that have to count, only the one that moves can change. *)
LEMMA DueMoves ==
  ASSUME TypeOK, NEW h \in Handlers, NEW t, task' = [task EXCEPT ![h] = t], NEW b, NEW S
  PROVE  /\ Due(b, S)' \ {h} = Due(b, S) \ {h}
         /\ h \in Due(b, S)' <=> t.pc = "after" /\ t.batch = b /\ Holds(t.todo, S)
<1>1. task'[h] = t /\ \A g \in Handlers \ {h} : task'[g] = task[g]
  BY DEF TypeOK
<1> QED
  BY <1>1 DEF Due, At

LEMMA OneMore ==
  ASSUME NEW A, NEW B, NEW x, IsFiniteSet(A), x \notin A, B \ {x} = A \ {x}
  PROVE  /\ IsFiniteSet(B) /\ Cardinality(A) \in Nat
         /\ Cardinality(B) = IF x \in B THEN Cardinality(A) + 1 ELSE Cardinality(A)
<1>1. CASE x \in B
  <2>1. B = A \cup {x}
    BY <1>1
  <2> QED
    BY <1>1, <2>1, FS_AddElement, FS_CardinalityType
<1>2. CASE x \notin B
  <2>1. B = A
    BY <1>2
  <2> QED
    BY <1>2, <2>1, FS_CardinalityType
<1> QED
  BY <1>1, <1>2

(* A handler writes its answer: a 2xx has one outcome and is settled once, *)
(* any other has none.                                                     *)
LEMMA AnswerCounts ==
  ASSUME TypeOK, CountInv, NEW h \in Handlers, ~At(h, "after"), NEW ok \in BOOLEAN,
         NEW b \in Batches, NEW t, t.pc = "after", t.batch = b, OnceEach(t.todo),
         Holds(t.todo, Outcomes) <=> ok, Holds(t.todo, Settled) <=> ok,
         Holds(t.todo, {"alerts"}) <=> Holds(t.todo, {"received"}),
         task' = [task EXCEPT ![h] = t],
         answered' = IF ok THEN [answered EXCEPT ![b] = @ + 1] ELSE answered,
         UNCHANGED <<counters, crashed>>
  PROVE  CountInv'
<1>1. task'[h] = t /\ \A g \in Handlers \ {h} : task'[g] = task[g]
  BY DEF TypeOK
<1>2. (\A g \in Handlers : At(g, "after") => OnceEach(task[g].todo))'
  BY <1>1 DEF CountInv, At, OnceEach
<1>3. ASSUME NEW a \in Batches, NEW S \in Told
      PROVE  /\ IsFiniteSet(Due(a, S)') /\ Cardinality(Due(a, S)) \in Nat
             /\ Cardinality(Due(a, S)') =
                  IF a = b /\ Holds(t.todo, S) THEN Cardinality(Due(a, S)) + 1
                  ELSE Cardinality(Due(a, S))
  <2>1. h \notin Due(a, S) /\ IsFiniteSet(Due(a, S))
    BY DEF Due, CountInv
  <2>2. /\ Due(a, S)' \ {h} = Due(a, S) \ {h}
        /\ h \in Due(a, S)' <=> a = b /\ Holds(t.todo, S)
    BY DueMoves
  <2> HIDE DEF Due
  <2> QED
    BY <2>1, <2>2, OneMore
<1>4. ASSUME NEW a \in Batches
      PROVE  (OutcomesAddUp(a) /\ MoneyAddsUp(a) /\ AlertsAddUp(a))'
  <2>1. /\ Outcomes \in Told /\ Settled \in Told /\ {"alerts"} \in Told /\ {"received"} \in Told
    BY DEF Told
  <2>2. answered'[a] = IF a = b /\ ok THEN answered[a] + 1 ELSE answered[a]
    BY DEF TypeOK
  <2>3. OutcomesAddUp(a)'
    <3> DEFINE n == Cardinality(Due(a, Outcomes))
               m == Cardinality(Due(a, Outcomes)')
    <3>1. n \in Nat /\ m = IF a = b /\ ok THEN n + 1 ELSE n
      BY <1>3, <2>1
    <3>2. Accepted(a) \in Nat /\ answered[a] \in Nat
      BY Sums DEF Counts, Accepted
    <3>3. OutcomesAddUp(a)
      BY DEF CountInv
    <3>4. Accepted(a)' = Accepted(a) /\ crashed' = crashed
      BY DEF Accepted, Tried, counters
    <3> QED
      BY <2>2, <3>1, <3>2, <3>3, <3>4 DEF OutcomesAddUp
  <2>4. MoneyAddsUp(a)'
    <3> DEFINE n == Cardinality(Due(a, Settled))
               m == Cardinality(Due(a, Settled)')
    <3>1. n \in Nat /\ m = IF a = b /\ ok THEN n + 1 ELSE n
      BY <1>3, <2>1
    <3>2. /\ Tried(a, "billing") \in Nat /\ Tried(a, "discarded") \in Nat
          /\ answered[a] \in Nat
      BY Sums DEF Counts
    <3>3. MoneyAddsUp(a)
      BY DEF CountInv
    <3>4. \A e : Tried(a, e)' = Tried(a, e)
      BY DEF Tried, counters
    <3> QED
      BY <2>2, <3>1, <3>2, <3>3, <3>4 DEF MoneyAddsUp
  <2>5. AlertsAddUp(a)'
    <3> DEFINE n == Cardinality(Due(a, {"alerts"}))
               m == Cardinality(Due(a, {"alerts"})')
               p == Cardinality(Due(a, {"received"}))
               q == Cardinality(Due(a, {"received"})')
               more == a = b /\ Holds(t.todo, {"received"})
    <3>1. /\ n \in Nat /\ m = IF more THEN n + 1 ELSE n
          /\ p \in Nat /\ q = IF more THEN p + 1 ELSE p
      BY <1>3, <2>1
    <3>2. Tried(a, "alerts") \in Nat /\ Tried(a, "received") \in Nat
      BY Sums DEF Counts
    <3>3. AlertsAddUp(a)
      BY DEF CountInv
    <3>4. (\A e : Tried(a, e)' = Tried(a, e)) /\ unwritten' = unwritten
      BY DEF Tried, counters
    <3> HIDE DEF more
    <3> QED
      BY <3>1, <3>2, <3>3, <3>4 DEF AlertsAddUp
  <2> QED
    BY <2>3, <2>4, <2>5
<1> QED
  BY <1>2, <1>3, <1>4 DEF CountInv

(* One of the effects is counted: what is left holds no more of its kind. *)
LEMMA RestOf ==
  ASSUME NEW todo \in Seq(Effects), todo # <<>>, OnceEach(todo)
  PROVE  /\ OnceEach(Tail(todo))
         /\ \A S \in Told : /\ Head(todo) \in S => Holds(todo, S)
                            /\ Holds(Tail(todo), S) <=> Holds(todo, S) /\ Head(todo) \notin S
<1>1. /\ Len(todo) \in Nat /\ Len(todo) > 0
      /\ Head(todo) = todo[1] /\ Len(Tail(todo)) = Len(todo) - 1
      /\ \A i \in 1..Len(Tail(todo)) : Tail(todo)[i] = todo[i + 1]
  BY HeadTailProperties, LenProperties, EmptySeq
<1> DEFINE rest == Tail(todo)
<1> HIDE DEF rest
<1>2. ASSUME NEW S \in Told
      PROVE  \A i, j \in 1..Len(rest) : rest[i] \in S /\ rest[j] \in S => i = j
  <2> SUFFICES ASSUME NEW i \in 1..Len(rest), NEW j \in 1..Len(rest),
                      rest[i] \in S, rest[j] \in S
               PROVE  i = j
    OBVIOUS
  <2>1. i + 1 \in 1..Len(todo) /\ j + 1 \in 1..Len(todo)
    BY <1>1 DEF rest
  <2>2. todo[i + 1] \in S /\ todo[j + 1] \in S
    BY <1>1 DEF rest
  <2>3. i + 1 = j + 1
    BY <2>1, <2>2 DEF OnceEach
  <2> QED
    BY <1>1, <2>3 DEF rest
<1>3. ASSUME NEW S \in Told
      PROVE  /\ Head(todo) \in S => Holds(todo, S)
             /\ Holds(rest, S) <=> Holds(todo, S) /\ Head(todo) \notin S
  <2>1. Head(todo) \in S => Holds(todo, S)
    BY <1>1 DEF Holds
  <2>2. ASSUME Holds(rest, S)
        PROVE  Holds(todo, S) /\ Head(todo) \notin S
    <3>1. PICK i \in 1..Len(rest) : rest[i] \in S
      BY <2>2 DEF Holds
    <3>2. i + 1 \in 1..Len(todo) /\ todo[i + 1] \in S /\ 1 \in 1..Len(todo) /\ i + 1 # 1
      BY <1>1, <3>1 DEF rest
    <3> QED
      BY <1>1, <3>2 DEF Holds, OnceEach
  <2>3. ASSUME Holds(todo, S), Head(todo) \notin S
        PROVE  Holds(rest, S)
    <3>1. PICK i \in 1..Len(todo) : todo[i] \in S
      BY <2>3 DEF Holds
    <3>2. i # 1
      BY <1>1, <2>3, <3>1
    <3>3. i - 1 \in 1..Len(rest) /\ rest[i - 1] = todo[i]
      BY <1>1, <3>2 DEF rest
    <3> QED
      BY <3>1, <3>3 DEF Holds
  <2> QED
    BY <2>1, <2>2, <2>3
<1> QED
  BY <1>2, <1>3 DEF OnceEach, rest

LEMMA OneLess ==
  ASSUME NEW A, NEW B, NEW x, IsFiniteSet(A), B \ {x} = A \ {x}, x \in B => x \in A
  PROVE  /\ IsFiniteSet(B) /\ Cardinality(B) \in Nat
         /\ Cardinality(A) = IF x \in A /\ x \notin B THEN Cardinality(B) + 1 ELSE Cardinality(B)
<1>1. CASE x \in A /\ x \notin B
  <2>1. A = B \cup {x} /\ B \subseteq A
    BY <1>1
  <2>2. IsFiniteSet(B)
    BY <2>1, FS_Subset
  <2> QED
    BY <1>1, <2>1, <2>2, FS_AddElement, FS_CardinalityType
<1>2. CASE ~(x \in A /\ x \notin B)
  <2>1. B = A
    BY <1>2
  <2> QED
    BY <1>2, <2>1, FS_CardinalityType
<1> QED
  BY <1>1, <1>2

LEMMA FollowUpCounts ==
  ASSUME TypeOK, CountInv, NEW h \in Handlers, NEW written \in BOOLEAN, FollowUp(h, written)
  PROVE  CountInv'
<1> DEFINE b == task[h].batch
           todo == task[h].todo
           e == Head(todo)
           rest == Tail(todo)
           t == ToDo(b, rest)
<1>0. At(h, "after")
  BY DEF FollowUp
<1>1. b \in Batches /\ todo \in Seq(Effects) /\ todo # <<>> /\ OnceEach(todo)
  BY <1>0, Answered DEF CountInv
<1>2. /\ OnceEach(rest)
      /\ \A S \in Told : /\ e \in S => Holds(todo, S)
                         /\ Holds(rest, S) <=> Holds(todo, S) /\ e \notin S
  BY <1>1, RestOf
<1>3. /\ task' = [task EXCEPT ![h] = t]
      /\ done' = IF written THEN [done EXCEPT ![b][e] = @ + 1] ELSE done
      /\ unwritten' = IF written THEN unwritten ELSE [unwritten EXCEPT ![b][e] = @ + 1]
      /\ written \/ e \in Written
      /\ UNCHANGED <<answered, crashed>>
  BY DEF FollowUp, MayFail
<1>4. /\ t.pc = "after" => t.todo = rest /\ t.batch = b
      /\ t.pc # "after" => rest = <<>>
  <2>1. b \in Batches /\ rest \in Seq(Effects)
    BY <1>0, Answered
  <2> QED
    BY <2>1, ToDoType
<1>5. \A S : ~Holds(<<>>, S)
  BY DEF Holds
<1>6. e \in Effects
  BY <1>1, HeadTailProperties
<1> HIDE DEF t, e, rest, todo, b
<1>7. task'[h] = t /\ \A g \in Handlers \ {h} : task'[g] = task[g]
  BY <1>3 DEF TypeOK
<1>8. (\A g \in Handlers : At(g, "after") => OnceEach(task[g].todo))'
  <2>1. \A g \in Handlers : task'[g].pc = "after" => OnceEach(task'[g].todo)
    BY <1>2, <1>4, <1>7 DEF CountInv, At
  <2> QED
    BY <2>1 DEF At, OnceEach
<1>9. ASSUME NEW a \in Batches, NEW S \in Told
      PROVE  /\ IsFiniteSet(Due(a, S)') /\ Cardinality(Due(a, S)') \in Nat
             /\ Cardinality(Due(a, S)) =
                  IF a = b /\ e \in S THEN Cardinality(Due(a, S)') + 1
                  ELSE Cardinality(Due(a, S)')
  <2>1. IsFiniteSet(Due(a, S))
    BY DEF CountInv
  <2>2. h \in Due(a, S) <=> a = b /\ Holds(todo, S)
    BY <1>0 DEF Due, b, todo
  <2>3. Due(a, S)' \ {h} = Due(a, S) \ {h}
    BY <1>3, DueMoves
  <2>4. h \in Due(a, S)' <=> t.pc = "after" /\ t.batch = a /\ Holds(t.todo, S)
    BY <1>3, DueMoves
  <2>5. h \in Due(a, S)' <=> a = b /\ Holds(todo, S) /\ e \notin S
    BY <1>2, <1>4, <1>5, <2>4
  <2>6. /\ h \in Due(a, S)' => h \in Due(a, S)
        /\ (h \in Due(a, S) /\ h \notin Due(a, S)') <=> a = b /\ e \in S
    BY <1>2, <2>2, <2>5
  <2> QED
    BY <2>1, <2>3, <2>6, OneLess
<1>10. ASSUME NEW a \in Batches, NEW x \in Counts
       PROVE  /\ Tried(a, x) \in Nat
              /\ Tried(a, x)' = IF a = b /\ x = e THEN Tried(a, x) + 1 ELSE Tried(a, x)
  <2>1. x \in Effects
    BY DEF Counts, Effects
  <2>2. done[a][x] \in Nat /\ unwritten[a][x] \in Nat
    BY <2>1 DEF TypeOK
  <2>3. done'[a][x] = IF written /\ a = b /\ x = e THEN done[a][x] + 1 ELSE done[a][x]
    BY <1>1, <1>3, <1>6, <2>1 DEF TypeOK
  <2>4. unwritten'[a][x] = IF ~written /\ a = b /\ x = e THEN unwritten[a][x] + 1
                           ELSE unwritten[a][x]
    BY <1>1, <1>3, <1>6, <2>1 DEF TypeOK
  <2> QED
    BY <2>2, <2>3, <2>4 DEF Tried
<1>11. ASSUME NEW a \in Batches
       PROVE  (OutcomesAddUp(a) /\ MoneyAddsUp(a) /\ AlertsAddUp(a))'
  <2>1. /\ Outcomes \in Told /\ Settled \in Told /\ {"alerts"} \in Told /\ {"received"} \in Told
    BY DEF Told
  <2>2. answered[a] \in Nat /\ answered'[a] = answered[a] /\ crashed' = crashed
    BY <1>3 DEF TypeOK
  <2>3. OutcomesAddUp(a)'
    <3> DEFINE n == Cardinality(Due(a, Outcomes))
               m == Cardinality(Due(a, Outcomes)')
    <3>1. m \in Nat /\ n = IF a = b /\ e \in Outcomes THEN m + 1 ELSE m
      BY <1>9, <2>1
    <3>2. /\ Accepted(a) \in Nat
          /\ Accepted(a)' = IF a = b /\ e \in Outcomes THEN Accepted(a) + 1 ELSE Accepted(a)
      BY <1>10 DEF Accepted, Outcomes, Counts
    <3>3. OutcomesAddUp(a)
      BY DEF CountInv
    <3> QED
      BY <2>2, <3>1, <3>2, <3>3 DEF OutcomesAddUp
  <2>4. MoneyAddsUp(a)'
    <3> DEFINE n == Cardinality(Due(a, Settled))
               m == Cardinality(Due(a, Settled)')
               s == Tried(a, "billing") + Tried(a, "discarded")
               u == Tried(a, "billing")' + Tried(a, "discarded")'
    <3>1. m \in Nat /\ n = IF a = b /\ e \in Settled THEN m + 1 ELSE m
      BY <1>9, <2>1
    <3>2. s \in Nat /\ u = IF a = b /\ e \in Settled THEN s + 1 ELSE s
      BY <1>10 DEF Settled, Counts
    <3>3. /\ s + n <= answered[a]
          /\ ~crashed => s + n = answered[a]
      BY DEF CountInv, MoneyAddsUp
    <3>4. /\ u + m <= answered[a]
          /\ ~crashed => u + m = answered[a]
      <4> HIDE DEF s, u, n, m
      <4> QED
        BY <3>1, <3>2, <3>3
    <3> QED
      BY <2>2, <3>4 DEF MoneyAddsUp
  <2>5. AlertsAddUp(a)'
    <3> DEFINE n == Cardinality(Due(a, {"alerts"}))
               m == Cardinality(Due(a, {"alerts"})')
               p == Cardinality(Due(a, {"received"}))
               q == Cardinality(Due(a, {"received"})')
               x == Tried(a, "alerts")
               y == Tried(a, "received")
    <3>1. /\ m \in Nat /\ n = IF a = b /\ e = "alerts" THEN m + 1 ELSE m
          /\ q \in Nat /\ p = IF a = b /\ e = "received" THEN q + 1 ELSE q
      BY <1>9, <2>1
    <3>2. /\ x \in Nat /\ x' = IF a = b /\ e = "alerts" THEN x + 1 ELSE x
          /\ y \in Nat /\ y' = IF a = b /\ e = "received" THEN y + 1 ELSE y
      BY <1>10 DEF Counts
    <3>3. (~crashed => x + n = y + p) /\ unwritten[a]["alerts"] = 0
      BY DEF CountInv, AlertsAddUp
    <3>4. ~crashed => x' + m = y' + q
      <4> HIDE DEF n, m, p, q, x, y
      <4> QED
        BY <3>1, <3>2, <3>3
    <3>5. unwritten'[a]["alerts"] = 0
      <4>1. "alerts" \in Effects
        BY DEF Effects
      <4>2. CASE written
        BY <1>3, <3>3, <4>2
      <4>3. CASE ~written
        <5>1. e # "alerts"
          BY <1>3, <4>3 DEF Written
        <5> QED
          BY <1>1, <1>3, <1>6, <3>3, <4>1, <4>3, <5>1 DEF TypeOK
      <4> QED
        BY <4>2, <4>3
    <3> QED
      BY <2>2, <3>4, <3>5 DEF AlertsAddUp
  <2> QED
    BY <2>3, <2>4, <2>5
<1> QED
  BY <1>8, <1>9, <1>11 DEF CountInv

(* What an answer leaves to count: an outcome and the money of a 2xx, and  *)
(* neither of another status; what was received is observed.               *)
Leaves(todo, ok) ==
  /\ OnceEach(todo)
  /\ Holds(todo, Outcomes) <=> ok
  /\ Holds(todo, Settled) <=> ok
  /\ Holds(todo, {"alerts"}) <=> Holds(todo, {"received"})

LEMMA Alone ==
  /\ <<>> \in Seq(Effects) /\ OnceEach(<<>>) /\ \A S : ~Holds(<<>>, S)
  /\ \A e \in Effects :
       <<e>> \in Seq(Effects) /\ OnceEach(<<e>>) /\ \A S : Holds(<<e>>, S) <=> e \in S
<1>1. <<>> \in Seq(Effects) /\ OnceEach(<<>>) /\ \A S : ~Holds(<<>>, S)
  BY DEF OnceEach, Holds
<1>2. ASSUME NEW e \in Effects
      PROVE  <<e>> \in Seq(Effects) /\ OnceEach(<<e>>) /\ \A S : Holds(<<e>>, S) <=> e \in S
  BY DEF OnceEach, Holds
<1> QED
  BY <1>1, <1>2

(* Two lists one after the other, that do not name effects of one kind. *)
LEMMA Joined ==
  ASSUME NEW s \in Seq(Effects), NEW t \in Seq(Effects)
  PROVE  /\ s \o t \in Seq(Effects)
         /\ \A S : Holds(s \o t, S) <=> Holds(s, S) \/ Holds(t, S)
         /\ OnceEach(s) /\ OnceEach(t) /\ (\A S \in Told : ~(Holds(s, S) /\ Holds(t, S)))
              => OnceEach(s \o t)
<1> DEFINE u == s \o t
           n == Len(s)
           m == Len(t)
<1>1. /\ u \in Seq(Effects) /\ n \in Nat /\ m \in Nat /\ Len(u) = n + m
      /\ \A i \in 1 .. Len(u) : u[i] = IF i <= n THEN s[i] ELSE t[i - n]
  BY ConcatProperties, LenProperties
<1> HIDE DEF u, n, m
<1>2. ASSUME NEW S
      PROVE  Holds(u, S) <=> Holds(s, S) \/ Holds(t, S)
  <2>1. ASSUME Holds(u, S)
        PROVE  Holds(s, S) \/ Holds(t, S)
    <3>1. PICK i \in 1 .. Len(u) : u[i] \in S
      BY <2>1 DEF Holds
    <3>2. IF i <= n THEN i \in 1 .. n /\ s[i] \in S ELSE i - n \in 1 .. m /\ t[i - n] \in S
      BY <1>1, <3>1
    <3> QED
      BY <3>2 DEF Holds, n, m
  <2>2. ASSUME Holds(s, S)
        PROVE  Holds(u, S)
    <3>1. PICK i \in 1 .. n : s[i] \in S
      BY <2>2 DEF Holds, n
    <3>2. i \in 1 .. Len(u) /\ u[i] \in S
      BY <1>1, <3>1
    <3> QED
      BY <3>2 DEF Holds
  <2>3. ASSUME Holds(t, S)
        PROVE  Holds(u, S)
    <3>1. PICK i \in 1 .. m : t[i] \in S
      BY <2>3 DEF Holds, m
    <3>2. n + i \in 1 .. Len(u) /\ u[n + i] \in S
      BY <1>1, <3>1
    <3> QED
      BY <3>2 DEF Holds
  <2> QED
    BY <2>1, <2>2, <2>3
<1>3. ASSUME OnceEach(s), OnceEach(t), \A S \in Told : ~(Holds(s, S) /\ Holds(t, S))
      PROVE  OnceEach(u)
  <2> SUFFICES ASSUME NEW S \in Told, NEW i \in 1 .. Len(u), NEW j \in 1 .. Len(u),
                      u[i] \in S, u[j] \in S
               PROVE  i = j
    BY DEF OnceEach
  <2>1. CASE i <= n /\ j <= n
    <3>1. i \in 1 .. Len(s) /\ j \in 1 .. Len(s) /\ s[i] \in S /\ s[j] \in S
      BY <1>1, <2>1 DEF n
    <3> QED
      BY <1>3, <3>1 DEF OnceEach
  <2>2. CASE i > n /\ j > n
    <3>1. i - n \in 1 .. Len(t) /\ j - n \in 1 .. Len(t) /\ t[i - n] \in S /\ t[j - n] \in S
      BY <1>1, <2>2 DEF m
    <3>2. i - n = j - n
      BY <1>3, <3>1 DEF OnceEach
    <3> QED
      BY <1>1, <3>2
  <2>3. ASSUME NEW k \in 1 .. Len(u), NEW l \in 1 .. Len(u), u[k] \in S, u[l] \in S, k <= n, l > n
        PROVE  FALSE
    <3>1. k \in 1 .. Len(s) /\ s[k] \in S /\ l - n \in 1 .. Len(t) /\ t[l - n] \in S
      BY <1>1, <2>3 DEF n, m
    <3> QED
      BY <1>3, <3>1 DEF Holds
  <2> QED
    BY <1>1, <2>1, <2>2, <2>3
<1> QED
  BY <1>1, <1>2, <1>3 DEF u

(* The counters of an answer: one outcome, if it is a 2xx. *)
Keys(h) == CounterKeys(task[h].status, task[h].error, Verdict(h))

LEMMA KeysOfAnswer ==
  ASSUME TypeOK, NEW h \in Handlers, At(h, "verdict")
  PROVE  /\ Keys(h) \in Seq(Effects) /\ OnceEach(Keys(h))
         /\ Holds(Keys(h), Outcomes) <=> Verdict(h).meta \in 200..299
         /\ \A S \in {Settled, {"alerts"}, {"received"}} : ~Holds(Keys(h), S)
<1>1. task[h].status \in 0 .. 599
  BY AtWork DEF At, Working
<1>2. PICK s, e, v, k : /\ s = task[h].status /\ e = task[h].error
                        /\ v = ConsumerVerdict(s, e) /\ k = CounterKeys(s, e, v)
  OBVIOUS
<1>3. v = Verdict(h) /\ k = Keys(h)
  BY <1>2 DEF Verdict, Keys
<1>4. s \in 0 .. 599
  BY <1>1, <1>2
<1>5. v = ConsumerVerdict(s, e)
  BY <1>2
<1> DEFINE a == IF e # NoError THEN <<>>
                ELSE CASE s \in 200..299 -> <<"delivered">>
                       [] s \in 400..499 \ {404} -> <<"refused">>
                       [] OTHER               -> <<>>
           b == IF v.alarm /\ v.meta = 200 THEN <<"loss">> ELSE <<>>
           of(x) == x \in Seq(Effects) /\ OnceEach(x)
<1>6. /\ "delivered" \in Effects /\ "refused" \in Effects /\ "loss" \in Effects
      /\ "delivered" \in Outcomes /\ "refused" \notin Outcomes /\ "loss" \in Outcomes
  BY DEF Effects, Outcomes
<1>7. \/ a = <<"delivered">> /\ b = <<>> /\ v.meta = 200
      \/ a = <<"refused">> /\ b = <<"loss">> /\ v.meta = 200
      \/ a = <<>> /\ b = <<"loss">> /\ v.meta = 200
      \/ a = <<>> /\ b = <<>> /\ v.meta \in {502, 504}
  <2>1. CASE e # NoError
    <3>1. v.meta = 504 /\ a = <<>>
      BY <1>5, <2>1 DEF ConsumerVerdict
    <3> QED
      BY <3>1
  <2>2. CASE e = NoError /\ s \in 200..299
    <3>1. v = [meta |-> 200, alarm |-> FALSE]
      BY <1>4, <1>5, <2>2 DEF ConsumerVerdict
    <3>2. s \notin 400..499 \ {404}
      BY <2>2
    <3>3. a = <<"delivered">>
      BY <2>2, <3>2, Zenon
    <3>4. b = <<>> /\ v.meta = 200
      BY <3>1
    <3> QED
      BY <3>3, <3>4
  <2>3. CASE e = NoError /\ (s \in 500..599 \/ s = 404)
    <3>1. v = [meta |-> 502, alarm |-> FALSE]
      BY <1>4, <1>5, <2>3 DEF ConsumerVerdict
    <3>2. a = <<>>
      BY <2>3
    <3> QED
      BY <3>1, <3>2
  <2>4. CASE e = NoError /\ s \notin 200..299 /\ s \notin 500..599 /\ s # 404
    <3>1. v = [meta |-> 200, alarm |-> TRUE]
      BY <1>4, <1>5, <2>4 DEF ConsumerVerdict
    <3>2. a = <<"refused">> \/ a = <<>>
      BY <2>4
    <3>3. b = <<"loss">> /\ v.meta = 200
      BY <3>1
    <3> QED
      BY <3>2, <3>3
  <2> QED
    BY <2>1, <2>2, <2>3, <2>4
<1> HIDE DEF a, b
<1> DEFINE others(x) == \A S \in {Settled, {"alerts"}, {"received"}} : ~Holds(x, S)
<1>8. /\ of(<<>>) /\ ~Holds(<<>>, Outcomes) /\ others(<<>>)
      /\ of(<<"delivered">>) /\ Holds(<<"delivered">>, Outcomes) /\ others(<<"delivered">>)
      /\ of(<<"refused">>) /\ ~Holds(<<"refused">>, Outcomes) /\ others(<<"refused">>)
      /\ of(<<"loss">>) /\ Holds(<<"loss">>, Outcomes) /\ others(<<"loss">>)
  BY <1>6, Alone DEF Settled
<1> HIDE DEF of, others
<1>9. /\ of(a) /\ of(b) /\ others(a) /\ others(b)
      /\ ~(Holds(a, Outcomes) /\ Holds(b, Outcomes))
      /\ Holds(a, Outcomes) \/ Holds(b, Outcomes) <=> v.meta = 200
  BY <1>7, <1>8
<1> USE DEF of, others
<1>10. \A S \in Told : ~(Holds(a, S) /\ Holds(b, S))
  <2>1. \A S \in Told : S = Outcomes \/ S \in {Settled, {"alerts"}, {"received"}}
    BY DEF Told
  <2> QED
    BY <1>9, <2>1
<1>11. k = a \o b
  BY <1>2 DEF CounterKeys, a, b
<1>12. /\ of(k)
      /\ \A S : Holds(k, S) <=> Holds(a, S) \/ Holds(b, S)
  BY <1>9, <1>10, <1>11, Joined
<1>13. v.meta = 200 <=> v.meta \in 200..299
  <2>1. v.meta = 200 \/ v.meta = 502 \/ v.meta = 504
    BY <1>7
  <2> DEFINE m == v.meta
  <2> HIDE DEF m
  <2>2. m = 200 \/ m = 502 \/ m = 504
    BY <2>1 DEF m
  <2>3. m = 200 <=> m \in 200..299
    BY <2>2
  <2> QED
    BY <2>3 DEF m
<1> HIDE DEF of
<1>14. /\ Holds(k, Outcomes) <=> v.meta \in 200..299
      /\ \A S \in {Settled, {"alerts"}, {"received"}} : ~Holds(k, S)
  BY <1>9, <1>12, <1>13
<1> QED
  BY <1>3, <1>12, <1>14 DEF of

LEMMA DiscardLeaves == Leaves(<<"discarded">>, TRUE)
  BY Alone DEF Leaves, Effects, Outcomes, Settled

LEMMA AfterAnswerLeaves ==
  ASSUME TypeOK, NEW h \in Handlers, At(h, "verdict")
  PROVE  Leaves(AfterAnswer(h), Verdict(h).meta \in 200..299)
<1> DEFINE k == Keys(h)
           ok == Verdict(h).meta \in 200..299
           c == IF ok THEN <<"billing">> ELSE <<>>
           of(x) == x \in Seq(Effects) /\ OnceEach(x)
           r == <<"received">> \o k
           s == r \o <<"alerts">>
           t == s \o c
           u == t \o <<"records">>
<1> HIDE DEF ok
<1>1. /\ of(k) /\ (Holds(k, Outcomes) <=> ok)
      /\ ~Holds(k, Settled) /\ ~Holds(k, {"alerts"}) /\ ~Holds(k, {"received"})
  BY KeysOfAnswer DEF ok
<1>2. /\ of(<<"received">>) /\ of(<<"alerts">>) /\ of(<<"records">>) /\ of(c)
      /\ \A S : Holds(<<"received">>, S) <=> "received" \in S
      /\ \A S : Holds(<<"alerts">>, S) <=> "alerts" \in S
      /\ \A S : Holds(<<"records">>, S) <=> "records" \in S
      /\ \A S : Holds(c, S) <=> ok /\ "billing" \in S
  BY Alone DEF Effects
<1>3. \A S \in Told : S = Outcomes \/ S = Settled \/ S = {"alerts"} \/ S = {"received"}
  BY DEF Told
<1>4. /\ "received" \notin Outcomes /\ "alerts" \notin Outcomes /\ "records" \notin Outcomes
      /\ "billing" \notin Outcomes
      /\ "received" \notin Settled /\ "alerts" \notin Settled /\ "records" \notin Settled
      /\ "billing" \in Settled
  BY DEF Outcomes, Settled
<1> HIDE DEF c, k
<1>5. of(r) /\ \A S : Holds(r, S) <=> Holds(<<"received">>, S) \/ Holds(k, S)
  <2>1. \A S \in Told : ~(Holds(<<"received">>, S) /\ Holds(k, S))
    BY <1>1, <1>2, <1>3, <1>4
  <2> QED
    BY <1>1, <1>2, <2>1, Joined
<1> HIDE DEF r
<1>6. of(s) /\ \A S : Holds(s, S) <=> Holds(r, S) \/ Holds(<<"alerts">>, S)
  <2>1. \A S \in Told : ~(Holds(r, S) /\ Holds(<<"alerts">>, S))
    BY <1>1, <1>2, <1>3, <1>4, <1>5
  <2> QED
    BY <1>2, <1>5, <2>1, Joined
<1> HIDE DEF s
<1>7. of(t) /\ \A S : Holds(t, S) <=> Holds(s, S) \/ Holds(c, S)
  <2>1. \A S \in Told : ~(Holds(s, S) /\ Holds(c, S))
    BY <1>1, <1>2, <1>3, <1>4, <1>5, <1>6
  <2> QED
    BY <1>2, <1>6, <2>1, Joined
<1> HIDE DEF t
<1>8. of(u) /\ \A S : Holds(u, S) <=> Holds(t, S) \/ Holds(<<"records">>, S)
  <2>1. \A S \in Told : ~(Holds(t, S) /\ Holds(<<"records">>, S))
    BY <1>2, <1>3, <1>4
  <2> QED
    BY <1>2, <1>7, <2>1, Joined
<1> HIDE DEF u
<1>9. Leaves(u, ok)
  BY <1>1, <1>2, <1>4, <1>5, <1>6, <1>7, <1>8 DEF Leaves
<1>10. AfterAnswer(h) = u
  BY DEF AfterAnswer, u, t, s, r, c, k, ok, Keys
<1> QED
  BY <1>9, <1>10 DEF ok

LEMMA StepCounts ==
  ASSUME TypeOK, CountInv, NEW h \in Handlers, Step(h)
  PROVE  CountInv'
<1> DEFINE quiet(t) == task' = [task EXCEPT ![h] = t] /\ t.pc # "after" /\ ~At(h, "after")
<1>1. ASSUME NEW t, quiet(t), UNCHANGED <<answered, crashed>>,
             \A b \in Batches, x \in Counts :
               done'[b][x] = done[b][x] /\ unwritten'[b][x] = unwritten[b][x]
      PROVE  CountInv'
  <2>1. \A g \in Handlers :
          task'[g] = task[g] \/ (task[g].pc # "after" /\ task'[g].pc # "after")
    BY <1>1 DEF TypeOK, At
  <2> QED
    BY <1>1, <2>1, NothingCounts
<1>2. CASE InstanceUnavailable(h) \/ Refuse(h) \/ ReadFails(h)
  <2>1. quiet(Idle) /\ UNCHANGED <<answered, crashed, counters>>
    BY <1>2 DEF InstanceUnavailable, Refuse, ReadFails, TurnAway, At, Idle
  <2> QED
    BY <1>1, <2>1 DEF counters
<1>3. CASE RefuseTooLarge(h)
  <2>1. quiet(Idle) /\ UNCHANGED <<answered, crashed>>
    BY <1>3 DEF RefuseTooLarge, At, Idle
  <2>2. ASSUME NEW b \in Batches, NEW x \in Counts
        PROVE  done'[b][x] = done[b][x] /\ unwritten'[b][x] = unwritten[b][x]
    <3>1. x # "too_large" /\ x \in Effects
      BY DEF Counts, Effects
    <3>2. done \in [Batches -> [Effects -> Nat]]
      BY DEF TypeOK
    <3>3. PICK c : done' = [done EXCEPT ![c]["too_large"] = @ + 1] /\ unwritten' = unwritten
      BY <1>3 DEF RefuseTooLarge
    <3> QED
      BY <3>1, <3>2, <3>3
  <2> QED
    BY <1>1, <2>1, <2>2
<1>4. ASSUME NEW t, task' = [task EXCEPT ![h] = t], t.pc # "after", ~At(h, "after"),
             UNCHANGED <<answered, crashed, counters>>
      PROVE  CountInv'
  BY <1>1, <1>4 DEF counters
<1>5. CASE FindInstance(h) \/ ReadBody(h) \/ Admit(h) \/ Deliver(h)
  <2>1. task[h] \in Working /\ ~At(h, "after")
    BY <1>5, AtWork DEF FindInstance, ReadBody, Admit, Deliver, At
  <2>2. ASSUME NEW pc \in {"read", "guards", "deliver", "waiting"}
        PROVE  /\ [task[h] EXCEPT !.pc = pc].pc # "after"
               /\ [task[h] EXCEPT !.pc = pc, !.inst = instance].pc # "after"
    BY <2>1 DEF Working
  <2>3. UNCHANGED <<answered, crashed, counters>>
    BY <1>5 DEF FindInstance, ReadBody, Admit, Deliver
  <2>4. CASE FindInstance(h)
    <3>1. task' = [task EXCEPT ![h] = [task[h] EXCEPT !.pc = "read", !.inst = instance]]
      BY <2>4 DEF FindInstance
    <3> QED
      BY <1>4, <2>1, <2>2, <2>3, <3>1
  <2>5. CASE ReadBody(h) \/ Admit(h) \/ Deliver(h)
    <3>1. PICK pc \in {"guards", "deliver", "waiting"} :
            task' = [task EXCEPT ![h] = [task[h] EXCEPT !.pc = pc]]
      BY <2>5 DEF ReadBody, Admit, Deliver
    <3>2. pc \in {"read", "guards", "deliver", "waiting"}
      BY <3>1
    <3> QED
      BY <1>4, <2>1, <2>2, <2>3, <3>1, <3>2
  <2> QED
    BY <1>5, <2>4, <2>5
<1>6. CASE Expire(h) \/ \E e \in Errors \ {"deadline"} : DeliverFails(h, e)
  <2>1. task[h] \in Working /\ ~At(h, "after")
    BY <1>6, AtWork DEF Expire, DeliverFails, At
  <2>2. PICK e : task' = [task EXCEPT ![h] = [task[h] EXCEPT !.pc = "verdict", !.error = e]]
    BY <1>6 DEF Expire, DeliverFails
  <2>3. [task[h] EXCEPT !.pc = "verdict", !.error = e].pc # "after"
    BY <2>1 DEF Working
  <2>4. UNCHANGED <<answered, crashed, counters>>
    BY <1>6 DEF Expire, DeliverFails
  <2> QED
    BY <1>4, <2>1, <2>2, <2>3, <2>4
<1>7. ASSUME NEW written \in BOOLEAN, FollowUp(h, written)
      PROVE  CountInv'
  BY <1>7, FollowUpCounts
<1>8. ASSUME NEW heard \in BOOLEAN, Discard(h, heard)
      PROVE  CountInv'
  <2>1. task[h] \in Working /\ ~At(h, "after")
    BY <1>8, AtWork DEF Discard, At
  <2> DEFINE b == task[h].batch
             t == ToDo(b, <<"discarded">>)
  <2>2. t.pc = "after" /\ t.batch = b /\ t.todo = <<"discarded">> /\ b \in Batches
    BY <2>1 DEF Working, ToDo
  <2>3. /\ task' = [task EXCEPT ![h] = t] /\ UNCHANGED <<counters, crashed>>
    BY <1>8 DEF Discard
  <2>4. answered' = IF TRUE THEN [answered EXCEPT ![b] = @ + 1] ELSE answered
    <3>1. Tell(b, 200, heard) /\ 200 \in 200..299
      BY <1>8 DEF Discard
    <3> QED
      BY <3>1 DEF Tell
  <2> HIDE DEF t, b
  <2> QED
    BY <2>1, <2>2, <2>3, <2>4, DiscardLeaves, AnswerCounts DEF Leaves
<1>9. ASSUME NEW heard \in BOOLEAN, Respond(h, heard)
      PROVE  CountInv'
  <2>1. task[h] \in Working /\ ~At(h, "after") /\ At(h, "verdict")
    BY <1>9, AtWork DEF Respond, At
  <2> DEFINE b == task[h].batch
             t == ToDo(b, AfterAnswer(h))
             ok == Verdict(h).meta \in 200..299
  <2>2. t.pc = "after" /\ t.batch = b /\ t.todo = AfterAnswer(h) /\ b \in Batches
    BY <2>1, AfterAnswerIsEffects DEF Working, ToDo
  <2>3. /\ task' = [task EXCEPT ![h] = t]
        /\ answered' = IF ok THEN [answered EXCEPT ![b] = @ + 1] ELSE answered
        /\ UNCHANGED <<counters, crashed>>
    BY <1>9 DEF Respond, Tell
  <2>4. Leaves(t.todo, ok) /\ ok \in BOOLEAN
    BY <2>1, <2>2, AfterAnswerLeaves
  <2> HIDE DEF t, b, ok
  <2> QED
    BY <2>1, <2>2, <2>3, <2>4, AnswerCounts DEF Leaves
<1> QED
  BY <1>2, <1>3, <1>5, <1>6, <1>7, <1>8, <1>9 DEF Step, Reading, Work

(* Who has to count is not waited for, and a crash leaves nobody. *)
LEMMA OthersCount ==
  ASSUME IInv, CountInv, Next, ~\E h \in Handlers : Step(h)
  PROVE  CountInv'
<1>1. ASSUME NEW h \in Handlers, NEW b \in Batches, Post(h, b)
      PROVE  CountInv'
  <2>1. \A g \in Handlers :
          task'[g] = task[g] \/ (task[g].pc # "after" /\ task'[g].pc # "after")
    BY <1>1 DEF Post, At, IInv, TypeOK
  <2> QED
    BY <1>1, <2>1, NothingCounts DEF Post, counters
<1>2. CASE \E i \in Instance : Administer(i)
  BY <1>2, NothingCounts DEF Administer, counters
<1>3. ASSUME NEW c \in calls, NEW s \in Statuses, NEW heard \in BOOLEAN,
             ConsumerStores(c, s, heard) \/ ConsumerDoesNotStore(c, s, heard)
               \/ CallbackRedirects(c, s, heard)
      PROVE  CountInv'
  <2>1. Hear(c, s, heard) /\ UNCHANGED <<answered, counters, crashed>>
    BY <1>3 DEF ConsumerStores, ConsumerDoesNotStore, CallbackRedirects
  <2>2. c.handler # Nobody => c.handler \in Handlers /\ At(c.handler, "waiting")
    BY DEF IInv, TypeOK, CallIsTheirs
  <2>3. ASSUME NEW g \in Handlers, task'[g] # task[g]
        PROVE  task[g].pc # "after" /\ task'[g].pc # "after"
    <3>1. g = c.handler /\ At(g, "waiting")
      BY <2>1, <2>2, <2>3 DEF Hear, IInv, TypeOK
    <3>2. task[g] \in Working
      BY <3>1, AtWork DEF At, IInv
    <3>3. task'[g] = [task[g] EXCEPT !.pc = "verdict", !.status = s]
      BY <2>1, <2>3, <3>1 DEF Hear, IInv, TypeOK
    <3> QED
      BY <3>1, <3>2, <3>3 DEF At, Working
  <2> QED
    BY <2>1, <2>3, NothingCounts DEF counters
<1>4. CASE Crash
  <2>1. crashed' /\ UNCHANGED <<answered, counters>> /\ \A h \in Handlers : ~At(h, "after")'
    BY <1>4 DEF Crash, At, Idle
  <2>2. \A b, S : Due(b, S)' = {}
    BY <2>1 DEF Due
  <2>3. IsFiniteSet({}) /\ Cardinality({}) = 0
    BY FS_EmptySet
  <2>4. ASSUME NEW b \in Batches
        PROVE  (OutcomesAddUp(b) /\ MoneyAddsUp(b) /\ AlertsAddUp(b))'
    <3>1. \A S \in Told : Cardinality(Due(b, S)') = 0 /\ Cardinality(Due(b, S)) \in Nat
      BY <2>2, <2>3, Sums DEF IInv
    <3>2. Outcomes \in Told /\ Settled \in Told
      BY DEF Told
    <3>3. /\ Accepted(b) \in Nat /\ Tried(b, "billing") \in Nat /\ Tried(b, "discarded") \in Nat
          /\ answered[b] \in Nat
      BY Sums DEF Counts, Accepted, IInv
    <3>4. OutcomesAddUp(b) /\ MoneyAddsUp(b) /\ AlertsAddUp(b)
      BY DEF CountInv
    <3>7. \A e : Tried(b, e)' = Tried(b, e)
      BY <2>1 DEF Tried, counters
    <3>5. OutcomesAddUp(b)'
      <4>1. Accepted(b)' = Accepted(b)
        BY <3>7 DEF Accepted
      <4> QED
        BY <2>1, <3>1, <3>2, <3>3, <3>4, <4>1 DEF OutcomesAddUp
    <3>6. MoneyAddsUp(b)'
      BY <2>1, <3>1, <3>2, <3>3, <3>4, <3>7 DEF MoneyAddsUp
    <3> QED
      BY <2>1, <3>4, <3>5, <3>6 DEF AlertsAddUp, counters
  <2> QED
    BY <2>1, <2>2, <2>3, <2>4 DEF CountInv
<1> QED
  BY <1>1, <1>2, <1>3, <1>4 DEF Next

LEMMA CountInvariance == Spec => []CountInv
<1>1. Init => CountInv
  BY CountInit
<1>2. IInv /\ CountInv /\ [Next]_vars => CountInv'
  <2> SUFFICES ASSUME IInv, CountInv, [Next]_vars
               PROVE  CountInv'
    OBVIOUS
  <2>1. CASE UNCHANGED vars
    BY <2>1, NothingCounts DEF vars
  <2>2. CASE \E h \in Handlers : Step(h)
    BY <2>2, StepCounts DEF IInv
  <2>3. CASE Next /\ ~\E h \in Handlers : Step(h)
    BY <2>3, OthersCount
  <2> QED
    BY <2>1, <2>2, <2>3
<1> QED
  BY <1>1, <1>2, Invariance, PTL DEF Spec

---------------------------------------------------------------------------
(***************************************************************************)
(* A batch Meta will not send again is the consumer's or has its ALARME,   *)
(* whatever was sent twice, late, lost or cut by a crash (mirror.go); the  *)
(* exception is a redirect the client followed.                            *)
(***************************************************************************)
THEOREM LossIsNeverSilent == Spec => []NoSilentLoss
<1>1. IInv => NoSilentLoss
  BY DEF IInv
<1> QED
  BY <1>1, Invariance, PTL

(***************************************************************************)
(* What leaves for the callback is the instance's (handler.go, 5a and 5b), *)
(* whatever is changed while the handler works.                            *)
(***************************************************************************)
THEOREM IsolationHolds == Spec => []OnlyTheirsLeaves
<1>1. IInv => OnlyTheirsLeaves
  <2> SUFFICES ASSUME IInv, NEW c \in calls, c.handler # Nobody
               PROVE  Theirs(task[c.handler]) /\ task[c.handler].batch = c.batch
    BY DEF OnlyTheirsLeaves, Theirs
  <2>1. c.handler \in Handlers
    BY DEF IInv, TypeOK
  <2> QED
    BY <2>1 DEF IInv, CallIsTheirs, TaskIsTrue, At
<1> QED
  BY <1>1, Invariance, PTL

(***************************************************************************)
(* The counters never run ahead of the 2xx answers, an attempt Meta will   *)
(* repeat is not billed, and without a crash all that was answered is      *)
(* counted, or logged as a write that failed, when no handler has anything *)
(* left to do (what receive does once it has answered, Counter.Record).    *)
(***************************************************************************)
THEOREM CountersFollow == Spec => []CountersFollowAnswers
<1>1. IInv /\ CountInv => CountersFollowAnswers
  <2> SUFFICES ASSUME IInv, CountInv, NEW b \in Batches
               PROVE  /\ Accepted(b) <= answered[b]
                      /\ Tried(b, "billing") <= answered[b] - Tried(b, "discarded")
                      /\ (~crashed /\ \A h \in Handlers : ~At(h, "after")) =>
                           /\ Accepted(b) = answered[b]
                           /\ Tried(b, "billing") = Tried(b, "delivered") + Tried(b, "loss")
                           /\ done[b]["alerts"] = Tried(b, "received")
    BY DEF CountersFollowAnswers
  <2>1. Outcomes \in Told /\ Settled \in Told /\ {"alerts"} \in Told /\ {"received"} \in Told
    BY DEF Told
  <2>2. \A S \in Told : Cardinality(Due(b, S)) \in Nat
    BY Sums DEF IInv
  <2>3. /\ Tried(b, "delivered") \in Nat /\ Tried(b, "loss") \in Nat
        /\ Tried(b, "discarded") \in Nat /\ Tried(b, "billing") \in Nat
        /\ Tried(b, "received") \in Nat /\ answered[b] \in Nat
    BY Sums DEF IInv, Counts
  <2>4. OutcomesAddUp(b) /\ MoneyAddsUp(b) /\ AlertsAddUp(b)
    BY DEF CountInv
  <2>5. /\ Accepted(b) <= answered[b]
        /\ Tried(b, "billing") <= answered[b] - Tried(b, "discarded")
    BY <2>1, <2>2, <2>3, <2>4 DEF OutcomesAddUp, MoneyAddsUp, Accepted
  <2>6. ASSUME ~crashed, \A h \in Handlers : ~At(h, "after")
        PROVE  /\ Accepted(b) = answered[b]
               /\ Tried(b, "billing") = Tried(b, "delivered") + Tried(b, "loss")
               /\ done[b]["alerts"] = Tried(b, "received")
    <3>1. \A S : Cardinality(Due(b, S)) = 0
      BY <2>6, FS_EmptySet DEF Due
    <3>2. Tried(b, "alerts") = done[b]["alerts"] /\ done[b]["alerts"] \in Nat
      <4>1. "alerts" \in Effects
        BY DEF Effects
      <4>2. done[b]["alerts"] \in Nat
        BY <4>1 DEF IInv, TypeOK
      <4> QED
        BY <2>4, <4>2 DEF AlertsAddUp, Tried
    <3> QED
      BY <2>3, <2>4, <2>6, <3>1, <3>2 DEF OutcomesAddUp, MoneyAddsUp, AlertsAddUp, Accepted
  <2> QED
    BY <2>5, <2>6
<1> QED
  BY <1>1, Invariance, CountInvariance, PTL

(* The state of InboundDelivery keeps its type. *)
THEOREM TypeCorrect == Spec => []TypeOK
<1>1. IInv => TypeOK
  BY DEF IInv
<1> QED
  BY <1>1, Invariance, PTL
=============================================================================
