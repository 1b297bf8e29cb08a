------------------------- MODULE ControlPlaneProofs -------------------------
(***************************************************************************)
(* What MCControlPlane promises for every value of its constants.          *)
(*                                                                         *)
(* A behaviour keeps its side, so the invariant IInv is the conjunction of *)
(* one invariant per side.  Those of the lifecycle and the pair are        *)
(* proved in modules of their own and instantiated; the others are proved  *)
(* here, a section each: number, certificate, probe, watchdog, log,        *)
(* alerts, rejections, counters, renewal.  A section names the variables   *)
(* of its side, states its invariant, and shows that the initial states    *)
(* have it and every action keeps it.                                      *)
(***************************************************************************)
EXTENDS MCControlPlane, Sequences, FiniteSetTheorems, WellFoundedInduction, TLAPS

---------------------------------------------------------------------------
(* The number at Meta.                                                     *)

limit == s1
there == s2
writer == s3
row == s4
written == s5
seen == s6
updates == s7

USE DEF limit, there, writer, row, written, seen, updates

Values == {0} \cup Number!Limits
Sources == {"medicao", "webhook"}

Observing == [pc : {"observe"}, since : Nat]
Answered == [pc : {"answered"}, since : Nat, value : Values]
Update == [pc : {"write"}, source : Sources, value : Values, when : Nat]
Tasks == {Number!Idle} \cup Observing \cup Answered \cup Update

NumberTypes ==
  /\ now \in Nat /\ updates \in Nat
  /\ limit \in Number!Limits /\ there \in BOOLEAN
  /\ seen \in [Number!Limits -> Int]
  /\ writer \in [Number!Writers -> Tasks] /\ writer["webhook"] \in {Number!Idle} \cup Update
  /\ row \in [value : Values, at : Int, source : {"none"} \cup Sources, checkedAt : Int]
  /\ written \subseteq Update

(* A limit was seen at Meta at most a check before the stamp it was measured *)
(* with.                                                                     *)
RecentlySeen(u) == u.source = "medicao" /\ u.value # 0 => u.when - seen[u.value] <= Deadline

(* The check a task belongs to is within its deadline, and what it was told *)
(* was so since it began.                                                   *)
TaskInTime(t) ==
  /\ t \in Observing \cup Answered => t.since <= now /\ now <= t.since + Deadline
  /\ t \in Answered /\ t.value # 0 => t.since <= seen[t.value]
  /\ t \in Update => RecentlySeen(t)

InTime ==
  /\ seen[limit] = now
  /\ \A v \in Number!Limits : seen[v] <= now
  /\ \A w \in Number!Writers : TaskInTime(writer[w])
  /\ \A u \in written : RecentlySeen(u)

(* The columns of the limit are those of the newest update with a limit. *)
NewestValue ==
  /\ \A u \in Number!Valued : u.when <= row.at
  /\ IF row.value = 0 THEN Number!Valued = {} /\ row.at = Number!NoStamp /\ row.source = "none"
     ELSE \E u \in Number!Valued : u.when = row.at /\ u.value = row.value /\ u.source = row.source

(* The time of the last check is that of the newest measurement. *)
NewestCheck ==
  /\ \A u \in Number!Measured : u.when <= row.checkedAt
  /\ row.checkedAt # Number!NoStamp => \E u \in Number!Measured : u.when = row.checkedAt
  /\ row.checkedAt >= Number!NoStamp

NumberInv == NumberTypes /\ InTime /\ NewestValue /\ NewestCheck

---------------------------------------------------------------------------
LEMMA NumberInit ==
  ASSUME Number!NumberAssumption, Number!Init
  PROVE  NumberInv
<1>1. 1 \in Number!Limits
  BY DEF Number!NumberAssumption, Number!Limits
<1>2. NumberTypes
  BY <1>1 DEF Number!Init, NumberTypes, Tasks, Number!Writers, Number!Limits, Values,
     Sources, Number!NoRow, Number!NoStamp
<1>3. InTime
  BY <1>1 DEF Number!Init, InTime, TaskInTime, Number!Idle, Observing, Answered,
     Update, Number!NoStamp
<1>4. NewestValue /\ NewestCheck
  BY DEF Number!Init, NewestValue, NewestCheck, Number!Valued, Number!Measured,
     Number!NoRow, Number!NoStamp
<1> QED
  BY <1>2, <1>3, <1>4 DEF NumberInv

(* As time passes and the limit is raised, what was seen is seen no earlier, *)
(* and a task that is within its deadline stays what it was.                 *)
LEMMA SeenLater ==
  ASSUME Number!NumberAssumption, NumberTypes, seen' \in [Number!Limits -> Int],
         \A v \in Number!Limits : seen[v] <= seen'[v],
         NEW u \in Update, RecentlySeen(u)
  PROVE  RecentlySeen(u)'
  BY DEF NumberTypes, RecentlySeen, Update, Values, Number!NumberAssumption

LEMMA TaskKept ==
  ASSUME Number!NumberAssumption, NumberTypes, seen' \in [Number!Limits -> Int],
         \A v \in Number!Limits : seen[v] <= seen'[v],
         NEW t \in Tasks, TaskInTime(t),
         now' \in Nat, now <= now',
         t \in Observing \cup Answered => now' <= t.since + Deadline
  PROVE  TaskInTime(t)'
<1>1. CASE t \in Update
  BY <1>1, SeenLater DEF TaskInTime, Update, Observing, Answered
<1>2. CASE t = Number!Idle
  BY <1>2 DEF TaskInTime, Number!Idle, Update, Observing, Answered
<1>3. CASE t \in Observing
  BY <1>3 DEF TaskInTime, NumberTypes, Observing, Answered, Update
<1>4. CASE t \in Answered
  BY <1>4 DEF TaskInTime, NumberTypes, Observing, Answered, Update, Values
<1> QED
  BY <1>1, <1>2, <1>3, <1>4 DEF Tasks

---------------------------------------------------------------------------
(* One lemma per action.                                                   *)

(* A source takes its next step: only its task changes. *)
LEMMA TaskStep ==
  ASSUME Number!NumberAssumption, NumberInv, NEW w \in Number!Writers, NEW t \in Tasks, Number!Then(w, t), TaskInTime(t),
         w = "webhook" => t \in {Number!Idle} \cup Update,
         UNCHANGED <<now, limit, there, row, written, seen>>, updates' \in Nat
  PROVE  NumberInv'
<1>1. NumberTypes'
  BY DEF NumberInv, NumberTypes, Number!Then
<1>2. \A u \in Number!Writers : TaskInTime(writer'[u])
  BY DEF NumberInv, NumberTypes, InTime, Number!Then
<1>3. InTime'
  BY <1>2 DEF NumberInv, InTime, TaskInTime, RecentlySeen
<1>4. NewestValue' /\ NewestCheck'
  BY DEF NumberInv, NewestValue, NewestCheck, Number!Valued, Number!Measured
<1> QED
  BY <1>1, <1>3, <1>4 DEF NumberInv

LEMMA ObserveInv ==
  ASSUME Number!NumberAssumption, NumberInv, NEW w \in Number!Checks, Number!ObserveNumber(w)
  PROVE  NumberInv'
<1> DEFINE t == [pc |-> "observe", since |-> now]
<1>1. t \in Tasks /\ TaskInTime(t)
  BY DEF Tasks, TaskInTime, Observing, Answered, Update, NumberInv, NumberTypes,
     Number!NumberAssumption
<1>2. updates' \in Nat
  BY DEF Number!ObserveNumber, Number!Begin, NumberInv, NumberTypes
<1> QED
  BY <1>1, <1>2, TaskStep DEF Number!ObserveNumber, Number!Begin, Number!Writers,
     Number!Checks

LEMMA AnswerInv ==
  ASSUME Number!NumberAssumption, NumberInv, NEW w \in Number!Checks, Number!MetaAnswers(w)
  PROVE  NumberInv'
<1>1. writer[w] \in Observing /\ TaskInTime(writer[w])
  BY DEF Number!MetaAnswers, Number!At, NumberInv, NumberTypes, InTime, Tasks,
     Number!Idle, Observing, Answered, Update, Number!Writers
<1>2. PICK v \in {0, limit} : Number!Then(w, [pc |-> "answered", since |-> writer[w].since, value |-> v])
  BY DEF Number!MetaAnswers
<1> DEFINE t == [pc |-> "answered", since |-> writer[w].since, value |-> v]
<1>3. t \in Answered
  BY <1>1 DEF Observing, Answered, Values, NumberInv, NumberTypes
<1>4. TaskInTime(t)
  BY <1>1, <1>3 DEF TaskInTime, Observing, Answered, Update, NumberInv, InTime
<1> QED
  BY <1>2, <1>3, <1>4, TaskStep DEF Number!MetaAnswers, Number!Writers, Number!Checks,
     Tasks, NumberInv, NumberTypes

LEMMA RecordInv ==
  ASSUME Number!NumberAssumption, NumberInv, NEW w \in Number!Checks, Number!RecordMeasurement(w)
  PROVE  NumberInv'
<1>1. writer[w] \in Answered /\ TaskInTime(writer[w])
  BY DEF Number!RecordMeasurement, Number!At, NumberInv, NumberTypes, InTime, Tasks,
     Number!Idle, Observing, Answered, Update, Number!Writers
<1> DEFINE t == [pc |-> "write", source |-> "medicao", value |-> writer[w].value, when |-> now]
<1>2. t \in Update
  BY <1>1 DEF Answered, Update, Sources, NumberInv, NumberTypes
<1>3. RecentlySeen(t)
  BY <1>1 DEF RecentlySeen, TaskInTime, Answered, Values, NumberInv, NumberTypes,
     Number!NumberAssumption
<1>4. TaskInTime(t)
  BY <1>3 DEF TaskInTime, Observing, Answered
<1> QED
  BY <1>2, <1>4, TaskStep DEF Number!RecordMeasurement, Number!Writers, Tasks,
     NumberInv, NumberTypes

LEMMA WebhookInv ==
  ASSUME Number!NumberAssumption, NumberInv, NEW v \in Number!Limits, Number!recordNumberLimit(v)
  PROVE  NumberInv'
<1> DEFINE t == [pc |-> "write", source |-> "webhook", value |-> v, when |-> now]
<1>1. t \in Update
  BY DEF Update, Sources, Values, NumberInv, NumberTypes
<1>2. TaskInTime(t)
  BY DEF TaskInTime, RecentlySeen, Observing, Answered
<1>3. updates' \in Nat
  BY DEF Number!recordNumberLimit, Number!Begin, NumberInv, NumberTypes
<1> QED
  BY <1>1, <1>2, <1>3, TaskStep DEF Number!recordNumberLimit, Number!Begin,
     Number!Writers, Tasks

(* The UPSERT compares each of the two stamps on its own. *)
LEMMA WriteInv ==
  ASSUME Number!NumberAssumption, NumberInv, NEW w \in Number!Writers, Number!UpdateNumberAtMeta(w)
  PROVE  NumberInv'
<1> DEFINE u == writer[w]
<1>1. u \in Update /\ RecentlySeen(u)
  BY DEF Number!UpdateNumberAtMeta, Number!At, NumberInv, NumberTypes, InTime,
     TaskInTime, Tasks, Number!Idle, Observing, Answered, Update
<1>2. Number!Idle \in Tasks /\ TaskInTime(Number!Idle)
  BY DEF Tasks, TaskInTime, Number!Idle, Observing, Answered, Update
<1>3. CASE UNCHANGED <<row, written>>
  BY <1>2, <1>3, TaskStep DEF Number!UpdateNumberAtMeta, NumberInv, NumberTypes
<1>4. CASE row' = Number!Merged(row, u) /\ written' = written \cup {u}
  <2>1. NumberTypes'
    BY <1>1, <1>2, <1>4 DEF Number!UpdateNumberAtMeta, Number!Then, NumberInv,
       NumberTypes, Number!Merged, Update, Sources
  <2>2. \A x \in Number!Writers : TaskInTime(writer'[x])
    BY <1>2 DEF Number!UpdateNumberAtMeta, Number!Then, NumberInv, NumberTypes, InTime
  <2>3. InTime'
    BY <1>1, <1>4, <2>2 DEF Number!UpdateNumberAtMeta, NumberInv, InTime, TaskInTime,
       RecentlySeen
  <2>4. NewestValue'
    <3>1. /\ u.when \in Nat /\ row.at \in Int
          /\ row.at = Number!NoStamp \/ row.value # 0
          /\ \A x \in Number!Valued : x.when \in Nat
      BY <1>1 DEF NumberInv, NumberTypes, Update, Number!Valued, NewestValue
    <3>2. CASE u.value # 0 /\ u.when >= row.at
      <4>1. row'.at = u.when /\ row'.value = u.value /\ row'.source = u.source
        BY <1>4, <3>2 DEF Number!Merged, Number!Newer
      <4>2. Number!Valued' = Number!Valued \cup {u}
        BY <1>4, <3>2 DEF Number!Valued
      <4> QED
        BY <3>1, <3>2, <4>1, <4>2 DEF NumberInv, NewestValue
    <3>3. CASE u.value = 0
      <4>1. row'.at = row.at /\ row'.value = row.value /\ row'.source = row.source
        BY <1>4, <3>3 DEF Number!Merged
      <4>2. Number!Valued' = Number!Valued
        BY <1>4, <3>3 DEF Number!Valued
      <4> QED
        BY <4>1, <4>2 DEF NumberInv, NewestValue
    <3>4. CASE u.value # 0 /\ ~(u.when >= row.at)
      <4>1. row'.at = row.at /\ row'.value = row.value /\ row'.source = row.source
        BY <1>4, <3>4 DEF Number!Merged, Number!Newer
      <4>2. Number!Valued' = Number!Valued \cup {u}
        BY <1>4, <3>4 DEF Number!Valued
      <4>3. row.value # 0 /\ u.when <= row.at
        BY <3>1, <3>4 DEF Number!NoStamp
      <4> QED
        BY <4>1, <4>2, <4>3 DEF NumberInv, NewestValue
    <3> QED
      BY <3>2, <3>3, <3>4
  <2>5. NewestCheck'
    <3>1. u.when \in Nat /\ row.checkedAt \in Int /\ \A x \in Number!Measured : x.when \in Nat
      BY <1>1 DEF NumberInv, NumberTypes, Update, Number!Measured
    <3>2. CASE u.source = "medicao"
      <4>1. row'.checkedAt = IF u.when >= row.checkedAt THEN u.when ELSE row.checkedAt
        BY <1>4, <3>2 DEF Number!Merged, Number!Newer
      <4>2. Number!Measured' = Number!Measured \cup {u}
        BY <1>4, <3>2 DEF Number!Measured
      <4> QED
        BY <3>1, <4>1, <4>2 DEF NumberInv, NewestCheck, Number!NoStamp
    <3>3. CASE u.source # "medicao"
      <4>1. row'.checkedAt = row.checkedAt
        BY <1>4, <3>3 DEF Number!Merged
      <4>2. Number!Measured' = Number!Measured
        BY <1>4, <3>3 DEF Number!Measured
      <4> QED
        BY <4>1, <4>2 DEF NumberInv, NewestCheck
    <3> QED
      BY <3>2, <3>3
  <2> QED
    BY <2>1, <2>3, <2>4, <2>5 DEF NumberInv
<1> QED
  BY <1>3, <1>4 DEF Number!UpdateNumberAtMeta

(* The row goes with the instance, and an empty one says nothing.  A writer *)
(* may still be on its way, and write into the next life of the slug.       *)
LEMMA LifeInv ==
  ASSUME Number!NumberAssumption, NumberInv, Number!RemoveInstance \/ Number!CreateInstance
  PROVE  NumberInv'
<1>1. CASE Number!RemoveInstance
  <2>0. Number!NoRow \in [value : Values, at : Int, source : {"none"} \cup Sources, checkedAt : Int]
    BY DEF Number!NoRow, Number!NoStamp, Values
  <2>1. NumberTypes'
    BY <1>1, <2>0 DEF Number!RemoveInstance, NumberInv, NumberTypes
  <2>2. InTime'
    BY <1>1 DEF Number!RemoveInstance, NumberInv, InTime, TaskInTime, RecentlySeen
  <2>3. NewestValue' /\ NewestCheck'
    BY <1>1 DEF Number!RemoveInstance, NewestValue, NewestCheck, Number!Valued,
       Number!Measured, Number!NoRow, Number!NoStamp
  <2> QED
    BY <2>1, <2>2, <2>3 DEF NumberInv
<1>2. CASE Number!CreateInstance
  BY <1>2 DEF Number!CreateInstance, NumberInv, NumberTypes, InTime, TaskInTime,
     RecentlySeen, NewestValue, NewestCheck, Number!Valued, Number!Measured
<1> QED
  BY <1>1, <1>2

(* Time passes, or the limit is raised. *)
LEMMA LaterInv ==
  ASSUME Number!NumberAssumption, NumberInv, Number!RaiseLimit \/ Number!Tick
  PROVE  NumberInv'
<1>1. /\ now' \in Nat /\ now <= now'
      /\ limit' \in Number!Limits
      /\ seen' \in [Number!Limits -> Int] /\ seen'[limit'] = now'
      /\ \A v \in Number!Limits : seen[v] <= seen'[v] /\ seen'[v] <= now'
  <2>1. CASE Number!RaiseLimit
    <3>1. limit' \in Number!Limits
      BY <2>1 DEF Number!RaiseLimit, NumberInv, NumberTypes, Number!Limits,
         Number!NumberAssumption
    <3> QED
      BY <2>1, <3>1 DEF Number!RaiseLimit, NumberInv, NumberTypes, InTime
  <2>2. CASE Number!Tick
    BY <2>2 DEF Number!Tick, NumberInv, NumberTypes, InTime
  <2> QED
    BY <2>1, <2>2
<1>2. UNCHANGED <<writer, row, written, updates, there>>
  BY DEF Number!RaiseLimit, Number!Tick
<1>3. NumberTypes'
  BY <1>1, <1>2 DEF NumberInv, NumberTypes
<1>4. ASSUME NEW w \in Number!Writers, NEW t, t = writer[w]
      PROVE  TaskInTime(t)'
  <2>1. t \in Tasks /\ TaskInTime(t)
    BY <1>4 DEF NumberInv, NumberTypes, InTime
  <2>2. ASSUME t \in Observing \cup Answered
        PROVE  now' <= t.since + Deadline
    <3>1. CASE Number!RaiseLimit
      BY <2>1, <2>2, <3>1 DEF Number!RaiseLimit, TaskInTime
    <3>2. CASE Number!Tick
      <4>1. w \in Number!Checks
        BY <1>4, <2>2 DEF NumberInv, NumberTypes, Number!Writers, Number!Idle, Update,
           Observing, Answered
      <4>2. now < t.since + Deadline
        BY <1>4, <2>2, <3>2, <4>1 DEF Number!Tick, Observing, Answered
      <4> QED
        BY <2>2, <3>2, <4>2 DEF Number!Tick, NumberInv, NumberTypes,
           Number!NumberAssumption, Observing, Answered
    <3> QED
      BY <3>1, <3>2
  <2> QED
    BY <1>1, <2>1, <2>2, TaskKept DEF NumberInv
<1>5. \A u \in written' : RecentlySeen(u)'
  <2>1. ASSUME NEW u \in written
        PROVE  RecentlySeen(u)'
    BY <1>1, SeenLater DEF NumberInv, NumberTypes, InTime
  <2> QED
    BY <1>2, <2>1
<1>6. InTime'
  <2>1. \A w \in Number!Writers : TaskInTime(writer[w])'
    BY <1>2, <1>4 DEF TaskInTime, RecentlySeen
  <2> QED
    BY <1>1, <1>5, <2>1 DEF InTime
<1>7. NewestValue' /\ NewestCheck'
  BY <1>2 DEF NumberInv, NewestValue, NewestCheck, Number!Valued, Number!Measured
<1> QED
  BY <1>3, <1>6, <1>7 DEF NumberInv

---------------------------------------------------------------------------
LEMMA NumberNext ==
  ASSUME Number!NumberAssumption, NumberInv, [Number!Next]_(Number!vars)
  PROVE  NumberInv'
<1>1. CASE UNCHANGED Number!vars
  BY <1>1 DEF Number!vars, NumberInv, NumberTypes, InTime, TaskInTime, RecentlySeen,
     NewestValue, NewestCheck, Number!Valued, Number!Measured
<1>2. CASE Number!Next
  BY <1>2, ObserveInv, AnswerInv, RecordInv, WebhookInv, WriteInv, LifeInv, LaterInv
  DEF Number!Next
<1> QED
  BY <1>1, <1>2

LEMMA NewestOfNumberInv ==
  ASSUME NumberInv
  PROVE  Number!NewestObservationStays
<1>1. ASSUME row.source = "medicao"
      PROVE  row.at - seen[row.value] <= Deadline
  <2>1. row.value # 0
    BY <1>1 DEF NumberInv, NewestValue
  <2>2. PICK u \in Number!Valued : u.when = row.at /\ u.value = row.value /\ u.source = row.source
    BY <2>1 DEF NumberInv, NewestValue
  <2> QED
    BY <1>1, <2>1, <2>2 DEF NumberInv, InTime, RecentlySeen, Number!Valued
<1> QED
  BY <1>1 DEF NumberInv, NewestValue, NewestCheck, Number!NewestObservationStays

HIDE DEF limit, there, writer, row, written, seen, updates

---------------------------------------------------------------------------
(* Sets of numbers.                                                        *)

(* The least number of a set: the well-foundedness of Nat without an        *)
(* operator for a parameter.                                               *)
LEMMA LeastNumber ==
  ASSUME NEW S, S \subseteq Nat, S # {}
  PROVE  \E m \in S : \A k \in S : m <= k
<1> DEFINE R == StrictSubsetOrdering(Nat)
           upTo == {0 .. k : k \in S}
<1>1. upTo \subseteq FiniteSubsetsOf(Nat) /\ upTo # {}
  <2>1. \A k \in S : 0 .. k \in FiniteSubsetsOf(Nat)
    <3> SUFFICES ASSUME NEW k \in S
                 PROVE  0 .. k \in SUBSET Nat /\ IsFiniteSet(0 .. k)
      BY DEF FiniteSubsetsOf
    <3>1. IsFiniteSet(0 .. k)
      BY FS_Interval
    <3> QED
      BY <3>1
  <2> QED
    BY <2>1
<1>2. PICK u \in upTo : \A v \in upTo : <<v, u>> \notin R
  BY <1>1, FS_StrictSubsetOrderingWellFounded, WFMin
<1>3. PICK m \in S : u = 0 .. m
  OBVIOUS
<1>4. ASSUME NEW k \in S, k < m
      PROVE  FALSE
  <2>1. 0 .. k \in SUBSET Nat /\ 0 .. m \in SUBSET Nat /\ 0 .. k \subseteq 0 .. m
    BY <1>4
  <2>2. m \in 0 .. m /\ m \notin 0 .. k
    BY <1>4
  <2>3. <<0 .. k, 0 .. m>> \in R
    BY <2>1, <2>2 DEF StrictSubsetOrdering
  <2> QED
    BY <1>2, <1>3, <2>3
<1> QED
  BY <1>4

(* A set of numbers with a bound has a greatest one. *)
LEMMA GreatestNumber ==
  ASSUME NEW S, S \subseteq Nat, S # {}, NEW b \in Nat, \A k \in S : k <= b
  PROVE  \E m \in S : \A k \in S : k <= m
<1> DEFINE below == {b - k : k \in S}
<1>1. below \subseteq Nat /\ below # {}
  <2>1. \A k \in S : b - k \in Nat
    OBVIOUS
  <2> QED
    BY <2>1
<1>2. PICK d \in below : \A e \in below : d <= e
  BY <1>1, LeastNumber
<1>3. PICK m \in S : d = b - m
  OBVIOUS
<1>4. \A k \in S : b - k \in below
  OBVIOUS
<1>5. ASSUME NEW k \in S
      PROVE  k <= m
  <2>1. b - m <= b - k /\ k \in Nat /\ m \in Nat
    BY <1>2, <1>3, <1>4
  <2> QED
    BY <2>1
<1> QED
  BY <1>5

---------------------------------------------------------------------------
(* The certificate of a callback.                                          *)

certificate == s1
connections == s2
delivery == s3
stored == s4
newest == s5
served == s6

USE DEF certificate, connections, delivery, stored, newest, served

Call == [pc : {"call"}, start : Nat, sees : Certificate!Certificates \cup {0}]

CertificateTypes ==
  /\ now \in Nat
  /\ certificate \in Certificate!Certificates
  /\ connections \subseteq [certificate : Certificate!Certificates, at : Nat]
  /\ delivery \in [Deliverers -> {Certificate!Idle} \cup Call]
  /\ stored \in [certificate : Certificate!Certificates, at : Nat] \cup {Certificate!None}
  /\ newest \in Nat
  /\ served \in [Certificate!Certificates -> Nat]

(* A connection is not kept for longer than KeepAlive, and shows what was  *)
(* served at its handshake.                                                *)
KeptRecently(c) == c.at <= now /\ now - c.at <= KeepAlive /\ c.at <= served[c.certificate]

(* A delivery is within its timeout, and what it saw was served no longer  *)
(* before it began than a connection is kept.                              *)
SeenRecently(d) ==
  d \in Call =>
    /\ d.start <= now /\ now <= d.start + CallbackTimeout
    /\ d.sees # 0 => d.start - served[d.sees] <= KeepAlive

CertificateInv ==
  /\ CertificateTypes
  /\ served[certificate] = now /\ newest <= now
  /\ \A c \in Certificate!Certificates : served[c] <= now
  /\ \A c \in connections : KeptRecently(c)
  /\ \A d \in Deliverers : SeenRecently(delivery[d])
  /\ Certificate!CertificateIsRecent

LEMMA CertificateInit ==
  ASSUME Certificate!CertificateAssumption, Certificate!Init
  PROVE  CertificateInv
<1>1. 1 \in Certificate!Certificates
  BY DEF Certificate!CertificateAssumption, Certificate!Certificates
<1>2. CertificateTypes
  BY <1>1 DEF Certificate!Init, CertificateTypes
<1>3. \A d \in Deliverers : SeenRecently(delivery[d])
  BY DEF Certificate!Init, SeenRecently, Certificate!Idle, Call
<1> QED
  BY <1>1, <1>2, <1>3 DEF Certificate!Init, CertificateInv, Certificate!CertificateIsRecent

(* A step of one delivery that leaves the row, the callback and the time. *)
LEMMA DeliveryStep ==
  ASSUME Certificate!CertificateAssumption, CertificateInv,
         NEW d \in Deliverers, NEW t \in {Certificate!Idle} \cup Call,
         delivery' = [delivery EXCEPT ![d] = t], SeenRecently(t),
         connections' \subseteq [certificate : Certificate!Certificates, at : Nat],
         \A c \in connections' : KeptRecently(c),
         UNCHANGED <<now, certificate, stored, newest, served>>
  PROVE  CertificateInv'
<1>1. CertificateTypes'
  BY DEF CertificateInv, CertificateTypes
<1>2. \A e \in Deliverers : SeenRecently(delivery'[e])
  BY DEF CertificateInv, CertificateTypes
<1> QED
  BY <1>1, <1>2 DEF CertificateInv, KeptRecently, SeenRecently,
     Certificate!CertificateIsRecent

LEMMA StartInv ==
  ASSUME Certificate!CertificateAssumption, CertificateInv,
         NEW d \in Deliverers, Certificate!Start(d)
  PROVE  CertificateInv'
<1> DEFINE t == [pc |-> "call", start |-> now, sees |-> 0]
<1>1. t \in Call /\ SeenRecently(t)
  BY DEF Call, SeenRecently, CertificateInv, CertificateTypes,
     Certificate!CertificateAssumption
<1> QED
  BY <1>1, DeliveryStep DEF Certificate!Start, CertificateInv, CertificateTypes

LEMMA ConnectInv ==
  ASSUME Certificate!CertificateAssumption, CertificateInv,
         NEW d \in Deliverers, Certificate!Connect(d)
  PROVE  CertificateInv'
<1>1. delivery[d] \in Call /\ SeenRecently(delivery[d]) /\ now \in Nat
  BY DEF Certificate!Connect, CertificateInv, CertificateTypes, Certificate!Idle
<1>2. PICK c \in connections \cup {[certificate |-> certificate, at |-> now]} :
        /\ connections' = connections \cup {c}
        /\ delivery' = [delivery EXCEPT ![d].sees = c.certificate]
  BY DEF Certificate!Connect
<1>3. c \in [certificate : Certificate!Certificates, at : Nat] /\ KeptRecently(c)
  BY DEF CertificateInv, CertificateTypes, KeptRecently, Certificate!CertificateAssumption
<1> DEFINE t == [delivery[d] EXCEPT !.sees = c.certificate]
<1>4. t \in Call /\ delivery' = [delivery EXCEPT ![d] = t]
      /\ t.start = delivery[d].start /\ t.sees = c.certificate
  BY <1>1, <1>2, <1>3 DEF Call
<1>5. SeenRecently(t)
  <2>1. served[c.certificate] \in Nat /\ c.at \in Nat /\ delivery[d].start \in Nat
    BY <1>1, <1>3 DEF CertificateInv, CertificateTypes, Call
  <2> HIDE DEF t
  <2> QED
    BY <1>1, <1>3, <1>4, <2>1 DEF SeenRecently, KeptRecently,
       Certificate!CertificateAssumption
<1> HIDE DEF t
<1>6. /\ connections' \subseteq [certificate : Certificate!Certificates, at : Nat]
      /\ \A e \in connections' : KeptRecently(e)
  BY <1>2, <1>3 DEF CertificateInv, CertificateTypes
<1>7. UNCHANGED <<now, certificate, stored, newest, served>>
  BY DEF Certificate!Connect
<1> QED
  BY <1>4, <1>5, <1>6, <1>7, DeliveryStep

(* What is written is dated no more than a timeout before any other start. *)
LEMMA ObserveCertificateInv ==
  ASSUME Certificate!CertificateAssumption, CertificateInv,
         NEW d \in Deliverers, Certificate!ObserveCertificate(d)
  PROVE  CertificateInv'
<1>1. Certificate!Idle \in {Certificate!Idle} \cup Call /\ SeenRecently(Certificate!Idle)
  BY DEF SeenRecently, Certificate!Idle, Call
<1>2. CASE UNCHANGED <<stored, newest>>
  BY <1>1, <1>2, DeliveryStep DEF Certificate!ObserveCertificate, CertificateInv,
     CertificateTypes
<1>3. CASE /\ stored' = Certificate!Recorded(delivery[d].sees, delivery[d].start)
           /\ newest' = IF delivery[d].start > newest THEN delivery[d].start ELSE newest
  <2>1. delivery[d] \in Call /\ SeenRecently(delivery[d]) /\ delivery[d].sees # 0
    BY DEF Certificate!ObserveCertificate, CertificateInv, CertificateTypes,
       Certificate!Idle
  <2>2. /\ stored'.certificate = delivery[d].sees /\ stored'.at = delivery[d].start
        /\ stored' \in [certificate : Certificate!Certificates, at : Nat]
        /\ newest' \in Nat /\ newest' <= now /\ newest' - stored'.at <= CallbackTimeout
    BY <1>3, <2>1 DEF Certificate!Recorded, SeenRecently, Call, CertificateInv,
       CertificateTypes, Certificate!CertificateAssumption
  <2>3. /\ delivery' = [delivery EXCEPT ![d] = Certificate!Idle]
        /\ UNCHANGED <<now, certificate, connections, served>>
    BY DEF Certificate!ObserveCertificate
  <2>4. CertificateTypes'
    BY <2>2, <2>3 DEF CertificateInv, CertificateTypes
  <2>5. \A e \in Deliverers : SeenRecently(delivery'[e])
    BY <1>1, <2>3 DEF CertificateInv, CertificateTypes
  <2>6. Certificate!CertificateIsRecent'
    BY <2>1, <2>2, <2>3 DEF SeenRecently, Certificate!CertificateIsRecent
  <2> QED
    BY <2>2, <2>3, <2>4, <2>5, <2>6 DEF CertificateInv, KeptRecently, SeenRecently
<1> QED
  BY <1>2, <1>3 DEF Certificate!ObserveCertificate

LEMMA CallbackRests ==
  ASSUME Certificate!CertificateAssumption, CertificateInv,
         \/ \E d \in Deliverers : Certificate!Fail(d)
         \/ Certificate!RemoveInstance
  PROVE  CertificateInv'
<1>1. ASSUME NEW d \in Deliverers, Certificate!Fail(d)
      PROVE  CertificateInv'
  <2>1. Certificate!Idle \in {Certificate!Idle} \cup Call /\ SeenRecently(Certificate!Idle)
    BY DEF SeenRecently, Certificate!Idle, Call
  <2> QED
    BY <1>1, <2>1, DeliveryStep DEF Certificate!Fail, CertificateInv, CertificateTypes
<1>2. CASE Certificate!RemoveInstance
  BY <1>2 DEF Certificate!RemoveInstance, CertificateInv, CertificateTypes, KeptRecently,
     SeenRecently, Certificate!CertificateIsRecent
<1> QED
  BY <1>1, <1>2

(* Time passes, or the callback has another certificate. *)
LEMMA CallbackMoves ==
  ASSUME Certificate!CertificateAssumption, CertificateInv,
         Certificate!Swap \/ Certificate!Tick
  PROVE  CertificateInv'
<1>1. /\ now' \in Nat /\ now <= now'
      /\ certificate' \in Certificate!Certificates
      /\ served' \in [Certificate!Certificates -> Nat] /\ served'[certificate'] = now'
      /\ \A c \in Certificate!Certificates : served[c] <= served'[c] /\ served'[c] <= now'
  <2>1. CASE Certificate!Swap
    <3>1. certificate' \in Certificate!Certificates
      <4>1. certificate \in 1..MaxSwaps /\ MaxSwaps \in Nat
        BY DEF CertificateInv, CertificateTypes, Certificate!Certificates,
           Certificate!CertificateAssumption
      <4> QED
        BY <2>1, <4>1 DEF Certificate!Swap, Certificate!Certificates
    <3>2. served[certificate'] <= now
      BY <3>1 DEF CertificateInv
    <3> QED
      BY <2>1, <3>1 DEF Certificate!Swap, CertificateInv, CertificateTypes
  <2>2. CASE Certificate!Tick
    BY <2>2 DEF Certificate!Tick, CertificateInv, CertificateTypes
  <2> QED
    BY <2>1, <2>2
<1>2. /\ UNCHANGED <<delivery, stored, newest>> /\ connections' \subseteq connections
      /\ \A c \in connections' : now' = now \/ now' - c.at <= KeepAlive
  BY DEF Certificate!Swap, Certificate!Tick
<1>3. CertificateTypes'
  BY <1>1, <1>2 DEF CertificateInv, CertificateTypes
<1>4. ASSUME NEW c \in connections'
      PROVE  KeptRecently(c)'
  <2>1. c \in [certificate : Certificate!Certificates, at : Nat] /\ KeptRecently(c)
    BY <1>2 DEF CertificateInv, CertificateTypes
  <2> QED
    BY <1>1, <1>2, <2>1 DEF KeptRecently, CertificateInv, CertificateTypes
<1>5. ASSUME NEW d \in Deliverers
      PROVE  SeenRecently(delivery[d])'
  <2>1. SUFFICES ASSUME delivery[d] \in Call
                 PROVE  SeenRecently(delivery[d])'
    BY <1>2 DEF SeenRecently
  <2>2. SeenRecently(delivery[d]) /\ delivery[d].start \in Nat
        /\ delivery[d].sees \in Certificate!Certificates \cup {0}
    BY <2>1 DEF CertificateInv, Call
  <2>3. now' <= delivery[d].start + CallbackTimeout
    BY <1>1, <2>1, <2>2 DEF Certificate!Swap, Certificate!Tick, SeenRecently, Call,
       CertificateInv, CertificateTypes, Certificate!CertificateAssumption
  <2>4. delivery[d].sees # 0 => delivery[d].start - served'[delivery[d].sees] <= KeepAlive
    BY <1>1, <2>1, <2>2 DEF SeenRecently, CertificateInv, CertificateTypes,
       Certificate!CertificateAssumption
  <2> QED
    BY <1>1, <1>2, <2>2, <2>3, <2>4 DEF SeenRecently, CertificateInv, CertificateTypes
<1>6. Certificate!CertificateIsRecent'
  <2>1. SUFFICES ASSUME stored # Certificate!None
                 PROVE  stored.at - served'[stored.certificate] <= KeepAlive
    BY <1>2 DEF CertificateInv, Certificate!CertificateIsRecent
  <2>2. stored.at - served[stored.certificate] <= KeepAlive
        /\ stored \in [certificate : Certificate!Certificates, at : Nat]
    BY <2>1 DEF CertificateInv, CertificateTypes, Certificate!CertificateIsRecent
  <2> QED
    BY <1>1, <2>2 DEF CertificateInv, CertificateTypes, Certificate!CertificateAssumption
<1> QED
  BY <1>1, <1>2, <1>3, <1>4, <1>5, <1>6 DEF CertificateInv, CertificateTypes

LEMMA CertificateNext ==
  ASSUME Certificate!CertificateAssumption, CertificateInv,
         [Certificate!Next]_(Certificate!vars)
  PROVE  CertificateInv'
<1>1. CASE UNCHANGED Certificate!vars
  BY <1>1 DEF Certificate!vars, CertificateInv, CertificateTypes, KeptRecently,
     SeenRecently, Certificate!CertificateIsRecent
<1>2. CASE Certificate!Next
  BY <1>2, StartInv, ConnectInv, ObserveCertificateInv, CallbackRests, CallbackMoves
  DEF Certificate!Next
<1> QED
  BY <1>1, <1>2

HIDE DEF certificate, connections, delivery, stored, newest, served

---------------------------------------------------------------------------
(* The probes of the ingress.                                              *)

value == s1
answered == s2
asking == s3
was == s4
failed == s5

USE DEF value, answered, asking, was, failed

Asks == [pc : {"ask"}, since : Nat, got : ProbeValues \cup {"none"}]

ProbeTypes ==
  /\ now \in Nat
  /\ value \in ProbeValues
  /\ answered \in [value : ProbeValues \cup {"none"}, measuredAt : Int, failingSince : Int]
  /\ asking \in {Ingress!Idle} \cup Asks
  /\ was \in [ProbeValues -> Int]

(* What was answered was so since it was asked, and what is kept was so a  *)
(* question before it was written.                                         *)
ProbeInv ==
  /\ ProbeTypes
  /\ was[value] = now /\ \A v \in ProbeValues : was[v] <= now
  /\ asking \in Asks =>
       /\ asking.since <= now /\ now <= asking.since + ProbeDeadline
       /\ asking.got # "none" => asking.since <= was[asking.got]
  /\ answered.value # "none" => answered.measuredAt - was[answered.value] <= ProbeDeadline
  /\ failed => answered.failingSince # Ingress!Never

LEMMA ProbeInit ==
  ASSUME Ingress!ProbeAssumption, Ingress!Init
  PROVE  ProbeInv
<1>1. Ingress!Never \in Int
  BY DEF Ingress!Never, Ingress!ProbeAssumption
<1>2. was \in [ProbeValues -> Int] /\ was[value] = 0 /\ \A v \in ProbeValues : was[v] <= 0
  BY <1>1 DEF Ingress!Init, Ingress!Never, Ingress!ProbeAssumption
<1>3. ProbeTypes
  BY <1>1, <1>2 DEF Ingress!Init, ProbeTypes, Ingress!NoMeasurement
<1> QED
  BY <1>2, <1>3 DEF Ingress!Init, ProbeInv, Ingress!NoMeasurement, Ingress!Idle, Asks

LEMMA ProbeNext ==
  ASSUME Ingress!ProbeAssumption, ProbeInv, [Ingress!Next]_(Ingress!vars)
  PROVE  ProbeInv'
<1>0. /\ Ingress!Never \in Int /\ Ingress!Never < 0 /\ ProbeDeadline \in Nat
      /\ now \in Nat /\ Ingress!Idle \notin Asks
  BY DEF Ingress!Never, Ingress!ProbeAssumption, ProbeInv, ProbeTypes, Ingress!Idle, Asks
<1>1. CASE UNCHANGED Ingress!vars
  BY <1>1 DEF Ingress!vars, ProbeInv, ProbeTypes
<1>2. CASE Ingress!Measure
  <2>1. asking' \in Asks /\ asking'.since = now /\ asking'.got = "none"
    BY <1>0, <1>2 DEF Ingress!Measure, Asks
  <2> QED
    BY <1>0, <1>2, <2>1 DEF Ingress!Measure, ProbeInv, ProbeTypes
<1>3. CASE Ingress!Answers
  <2>1. asking \in Asks
    BY <1>3 DEF Ingress!Answers, ProbeInv, ProbeTypes, Ingress!Idle
  <2>2. asking' \in Asks /\ asking'.since = asking.since /\ asking'.got = value
    BY <1>3, <2>1 DEF Ingress!Answers, Asks, ProbeInv, ProbeTypes
  <2> QED
    BY <1>0, <1>3, <2>1, <2>2 DEF Ingress!Answers, ProbeInv, ProbeTypes
<1>4. CASE Ingress!RecordFailure
  <2>1. answered' \in [value : ProbeValues \cup {"none"}, measuredAt : Int, failingSince : Int]
        /\ answered'.value = answered.value /\ answered'.measuredAt = answered.measuredAt
        /\ answered'.failingSince # Ingress!Never
    BY <1>0, <1>4 DEF Ingress!RecordFailure, ProbeInv, ProbeTypes
  <2> QED
    BY <1>0, <1>4, <2>1 DEF Ingress!RecordFailure, ProbeInv, ProbeTypes
<1>5. CASE Ingress!RecordValue
  <2>1. asking \in Asks /\ asking.got \in ProbeValues /\ asking.since \in Nat
    BY <1>5 DEF Ingress!RecordValue, ProbeInv, ProbeTypes, Ingress!Idle, Asks
  <2>2. now - was[asking.got] <= ProbeDeadline
    BY <1>0, <1>5, <2>1 DEF Ingress!RecordValue, ProbeInv, ProbeTypes
  <2>3. answered' = [value |-> asking.got, measuredAt |-> now, failingSince |-> Ingress!Never]
    BY <1>5 DEF Ingress!RecordValue
  <2> QED
    BY <1>0, <1>5, <2>1, <2>2, <2>3 DEF Ingress!RecordValue, ProbeInv, ProbeTypes
<1>6. CASE Ingress!Changes \/ Ingress!Tick
  <2>1. /\ now' \in Nat /\ now <= now' /\ value' \in ProbeValues
        /\ was' \in [ProbeValues -> Int] /\ was'[value'] = now'
        /\ \A v \in ProbeValues : was[v] <= was'[v] /\ was'[v] <= now'
    BY <1>0, <1>6 DEF Ingress!Changes, Ingress!Tick, ProbeInv, ProbeTypes
  <2>2. UNCHANGED <<answered, asking, failed>>
    BY <1>6 DEF Ingress!Changes, Ingress!Tick
  <2>3. asking \in Asks => now' <= asking.since + ProbeDeadline
    BY <1>0, <1>6 DEF Ingress!Changes, Ingress!Tick, ProbeInv, Asks
  <2>4. asking \in Asks /\ asking.got # "none" => asking.since <= was'[asking.got]
    BY <2>1 DEF ProbeInv, ProbeTypes, Asks
  <2>5. answered.value # "none" => answered.measuredAt - was'[answered.value] <= ProbeDeadline
    BY <1>0, <2>1 DEF ProbeInv, ProbeTypes
  <2>6. asking \in Asks => asking.since <= now'
    BY <1>0, <2>1 DEF ProbeInv, Asks
  <2> QED
    BY <2>1, <2>2, <2>3, <2>4, <2>5, <2>6 DEF ProbeInv, ProbeTypes
<1>7. CASE Ingress!Restart
  BY <1>0, <1>7 DEF Ingress!Restart, Ingress!NoMeasurement, ProbeInv, ProbeTypes
<1> QED
  BY <1>1, <1>2, <1>3, <1>4, <1>5, <1>6, <1>7 DEF Ingress!Next

(* What is shown is no older than the validity. *)
LEMMA ShownOfProbeInv ==
  ASSUME Ingress!ProbeAssumption, ProbeInv
  PROVE  Ingress!ShownDescribesNow
<1> SUFFICES ASSUME Ingress!Read \in ProbeValues
             PROVE  /\ ~failed
                    /\ now - was[Ingress!Read] <= ProbeValidity + ProbeDeadline
  BY DEF Ingress!ShownDescribesNow
<1>1. /\ answered.failingSince = Ingress!Never /\ now - answered.measuredAt <= ProbeValidity
      /\ Ingress!Read = answered.value /\ answered.value # "none"
  BY DEF Ingress!Read, Ingress!ProbeAssumption
<1> QED
  BY <1>1 DEF ProbeInv, ProbeTypes, Ingress!ProbeAssumption

HIDE DEF value, answered, asking, was, failed

---------------------------------------------------------------------------
(* The watchdog.                                                           *)

instance == s1
refused == s2
fields == s3
verdict == s4
check == s5
last == s6

USE DEF instance, refused, fields, verdict, check, last

Verdicts == [verdict : {"unknown", "ok", "refused"}, measuredAt : Int, failingSince : Int]
Asking ==
  [pc : {"observe", "confirm"}, token : Dog!Credentials, since : Nat,
   answer : {"none", "ok", "refused"}]
Notes ==
  [held : [Dog!Credentials -> Int], good : [Dog!Credentials -> Int],
   bad : [Dog!Credentials -> Int], fields : Int]

WatchdogTypes ==
  /\ now \in Nat
  /\ instance \in [there : BOOLEAN, active : BOOLEAN, token : Dog!Credentials]
  /\ refused \subseteq Dog!Credentials /\ fields \in BOOLEAN
  /\ verdict \in Verdicts
  /\ check \in {Dog!Idle, [pc |-> "find"]} \cup Asking
  /\ last \in Notes

(* What is so now is noted as of now. *)
NotedNow(l, at, inst, ref, flds) ==
  /\ inst.there => l.held[inst.token] = at
  /\ \A t \in Dog!Credentials : IF t \in ref THEN l.bad[t] = at ELSE l.good[t] = at
  /\ ~flds => l.fields = at

(* One note is no earlier than another. *)
NotedLater(l, k) ==
  /\ \A t \in Dog!Credentials : l.held[t] <= k.held[t] /\ l.good[t] <= k.good[t]
                                /\ l.bad[t] <= k.bad[t]
  /\ l.fields <= k.fields

NotedBy(l, at) ==
  /\ \A t \in Dog!Credentials : l.held[t] <= at /\ l.good[t] <= at /\ l.bad[t] <= at
  /\ l.fields <= at

(* What a check was told was so since it began. *)
Refused(l, t, since) == since <= l.bad[t] \/ since <= l.fields

ToldSince(l, c) ==
  /\ c.since <= l.held[c.token]
  /\ c.answer = "ok" => c.since <= l.good[c.token]
  /\ c.pc = "confirm" \/ c.answer = "refused" => Refused(l, c.token, c.since)

(* What a verdict says was so at most a check before it was written. *)
VerdictWasSo(l, v) ==
  /\ v.verdict = "ok" => \E t \in Dog!Credentials :
       v.measuredAt - Deadline <= l.held[t] /\ v.measuredAt - Deadline <= l.good[t]
  /\ v.verdict = "refused" => \E t \in Dog!Credentials :
       v.measuredAt - Deadline <= l.held[t] /\ Refused(l, t, v.measuredAt - Deadline)

CheckIsTrue(l, c) ==
  c \in Asking => c.since <= now /\ now <= c.since + Deadline /\ ToldSince(l, c)

VerdictIsTrue(l, v) ==
  /\ v.measuredAt <= now
  /\ v.failingSince # Dog!Never => v.measuredAt <= v.failingSince
  /\ VerdictWasSo(l, v)

WatchdogInv ==
  /\ WatchdogTypes
  /\ NotedNow(last, now, instance, refused, fields)
  /\ NotedBy(last, now)
  /\ CheckIsTrue(last, check)
  /\ VerdictIsTrue(last, verdict)

LEMMA NeverIsEarly ==
  ASSUME Dog!WatchdogAssumption
  PROVE  Dog!Never \in Int /\ Dog!Never < 0 /\ Deadline \in Nat /\ VerdictValidity \in Nat
  BY DEF Dog!WatchdogAssumption, Dog!Never

(* A note taken at an instant, of what is so then. *)
LEMMA NotesGrow ==
  ASSUME NEW l \in Notes, NEW at \in Nat, NEW inst, NEW ref, NEW flds \in BOOLEAN,
         NotedBy(l, at), NEW k, k = Dog!Noted(l, at, inst, ref, flds)
  PROVE  /\ k \in Notes
         /\ NotedNow(k, at, inst, ref, flds) \/ (inst.there /\ inst.token \notin Dog!Credentials)
         /\ NotedBy(k, at) /\ NotedLater(l, k)
<1>1. /\ k.held = [t \in Dog!Credentials |->
                     IF inst.there /\ inst.token = t THEN at ELSE l.held[t]]
      /\ k.good = [t \in Dog!Credentials |-> IF t \notin ref THEN at ELSE l.good[t]]
      /\ k.bad = [t \in Dog!Credentials |-> IF t \in ref THEN at ELSE l.bad[t]]
      /\ k.fields = IF flds THEN l.fields ELSE at
  BY DEF Dog!Noted
<1>2. /\ k.held \in [Dog!Credentials -> Int] /\ k.good \in [Dog!Credentials -> Int]
      /\ k.bad \in [Dog!Credentials -> Int] /\ k.fields \in Int
  BY <1>1 DEF Notes
<1>3. k \in Notes
  BY <1>2 DEF Dog!Noted, Notes
<1>4. NotedBy(k, at) /\ NotedLater(l, k)
  BY <1>1, <1>2 DEF NotedBy, NotedLater, Notes
<1>5. NotedNow(k, at, inst, ref, flds) \/ (inst.there /\ inst.token \notin Dog!Credentials)
  BY <1>1 DEF NotedNow
<1> QED
  BY <1>3, <1>4, <1>5

(* What was so stays so when notes are taken. *)
LEMMA TrueLater ==
  ASSUME Dog!WatchdogAssumption, WatchdogTypes,
         NEW k \in Notes, NotedLater(last, k),
         CheckIsTrue(last, check), VerdictIsTrue(last, verdict)
  PROVE  /\ check \in Asking => ToldSince(k, check)
         /\ VerdictWasSo(k, verdict)
<1>1. \A t \in Dog!Credentials :
        /\ last.held[t] \in Int /\ last.good[t] \in Int /\ last.bad[t] \in Int
        /\ k.held[t] \in Int /\ k.good[t] \in Int /\ k.bad[t] \in Int
  BY DEF WatchdogTypes, Notes
<1>2. last.fields \in Int /\ k.fields \in Int /\ Deadline \in Nat
      /\ verdict.measuredAt \in Int
  BY NeverIsEarly DEF WatchdogTypes, Notes, Verdicts
<1>3. ASSUME NEW t \in Dog!Credentials, NEW since \in Int, Refused(last, t, since)
      PROVE  Refused(k, t, since)
  BY <1>1, <1>2, <1>3 DEF Refused, NotedLater
<1>4. ASSUME check \in Asking
      PROVE  ToldSince(k, check)
  <2>1. check.token \in Dog!Credentials /\ check.since \in Int
    BY <1>4 DEF Asking
  <2> QED
    BY <1>1, <1>3, <1>4, <2>1 DEF CheckIsTrue, ToldSince, NotedLater
<1>5. VerdictWasSo(k, verdict)
  <2>1. verdict.measuredAt - Deadline \in Int
    BY <1>2
  <2> QED
    BY <1>1, <1>3, <2>1 DEF VerdictIsTrue, VerdictWasSo, NotedLater
<1> QED
  BY <1>4, <1>5

LEMMA WatchdogInit ==
  ASSUME Dog!WatchdogAssumption, Dog!Init
  PROVE  WatchdogInv
<1>1. 1 \in Dog!Credentials
  BY DEF Dog!WatchdogAssumption, Dog!Credentials
<1>2. Dog!NothingNoted \in Notes /\ NotedBy(Dog!NothingNoted, now) /\ now \in Nat
  BY NeverIsEarly DEF Dog!Init, Dog!NothingNoted, Notes, NotedBy
<1>3. last \in Notes /\ NotedBy(last, now) /\ NotedNow(last, now, instance, refused, fields)
  <2>1. /\ last = Dog!Noted(Dog!NothingNoted, now, instance, refused, fields)
        /\ instance.token \in Dog!Credentials /\ fields \in BOOLEAN
    BY <1>1 DEF Dog!Init
  <2> QED
    BY <1>2, <2>1, NotesGrow
<1>4. WatchdogTypes
  BY <1>1, <1>2, <1>3, NeverIsEarly DEF Dog!Init, WatchdogTypes, Dog!NoMeasurement, Verdicts
<1>5. CheckIsTrue(last, check)
  BY DEF Dog!Init, CheckIsTrue, Dog!Idle, Asking
<1>6. VerdictIsTrue(last, verdict)
  BY <1>2, NeverIsEarly DEF Dog!Init, VerdictIsTrue, VerdictWasSo, Dog!NoMeasurement
<1> QED
  BY <1>3, <1>4, <1>5, <1>6 DEF WatchdogInv

(* Something else than the watchdog moves. *)
LEMMA WorldMoves ==
  ASSUME Dog!WatchdogAssumption, WatchdogInv,
         (\E present, active \in BOOLEAN, t \in Dog!Credentials :
            Dog!Administer([there |-> present, active |-> active, token |-> t]))
         \/ Dog!MetaChanges \/ Dog!Tick
  PROVE  WatchdogInv'
<1> DEFINE Moved ==
      /\ UNCHANGED <<verdict, check>> /\ fields' \in BOOLEAN
      /\ instance' \in [there : BOOLEAN, active : BOOLEAN, token : Dog!Credentials]
      /\ refused' \subseteq Dog!Credentials
      /\ now' \in Nat /\ now <= now'
      /\ last' = Dog!Noted(last, now', instance', refused', fields')
<1>1. Moved
  <2>0. /\ instance \in [there : BOOLEAN, active : BOOLEAN, token : Dog!Credentials]
        /\ refused \subseteq Dog!Credentials /\ fields \in BOOLEAN /\ now \in Nat
    BY DEF WatchdogInv, WatchdogTypes
  <2>1. ASSUME NEW present \in BOOLEAN, NEW active \in BOOLEAN, NEW t \in Dog!Credentials,
               Dog!Administer([there |-> present, active |-> active, token |-> t])
        PROVE  Moved
    <3>1. instance' = [there |-> present, active |-> active, token |-> t]
      BY <2>1 DEF Dog!Administer
    <3>2. /\ last' = Dog!Noted(last, now, instance', refused, fields)
          /\ UNCHANGED <<now, refused, fields, verdict, check>>
      BY <2>1, <3>1 DEF Dog!Administer
    <3>3. instance' \in [there : BOOLEAN, active : BOOLEAN, token : Dog!Credentials]
      BY <3>1
    <3>4. last' = Dog!Noted(last, now', instance', refused', fields')
      BY <3>2
    <3>5. now' \in Nat /\ now <= now' /\ refused' \subseteq Dog!Credentials
      BY <2>0, <3>2
    <3>6. fields' \in BOOLEAN /\ UNCHANGED <<verdict, check>>
      BY <2>0, <3>2
    <3> QED
      BY <3>3, <3>4, <3>5, <3>6
  <2>2. CASE Dog!MetaChanges
    <3>1. /\ UNCHANGED now /\ UNCHANGED instance /\ UNCHANGED verdict /\ UNCHANGED check
          /\ last' = Dog!Noted(last, now, instance, refused', fields')
      BY <2>2 DEF Dog!MetaChanges
    <3>2. refused' \subseteq Dog!Credentials
      BY <2>0, <2>2 DEF Dog!MetaChanges
    <3>3. fields' \in BOOLEAN
      <4>1. fields' = FALSE \/ UNCHANGED fields
        BY <2>2 DEF Dog!MetaChanges
      <4> QED
        BY <2>0, <4>1
    <3>4. last' = Dog!Noted(last, now', instance', refused', fields')
      BY <3>1
    <3>5. instance' \in [there : BOOLEAN, active : BOOLEAN, token : Dog!Credentials]
      BY <2>0, <3>1
    <3>6. now' \in Nat /\ now <= now'
      BY <2>0, <3>1
    <3> QED
      BY <3>1, <3>2, <3>3, <3>4, <3>5, <3>6
  <2>3. CASE Dog!Tick
    BY <2>0, <2>3 DEF Dog!Tick
  <2> QED
    BY <2>1, <2>2, <2>3
<1>2. last \in Notes /\ NotedBy(last, now')
  BY <1>1 DEF WatchdogInv, WatchdogTypes, NotedBy, Notes
<1>3. last' \in Notes /\ NotedBy(last, now)' /\ NotedLater(last, last')
      /\ NotedNow(last, now, instance, refused, fields)'
  BY <1>1, <1>2, NotesGrow
<1>4. ToldSince(last', check) \/ check \notin Asking
  BY <1>3, TrueLater DEF WatchdogInv
<1>5. VerdictWasSo(last', verdict)
  BY <1>3, TrueLater DEF WatchdogInv
<1>6. check \in Asking => now' <= check.since + Deadline /\ check.since <= now'
  <2> SUFFICES ASSUME check \in Asking
               PROVE  now' <= check.since + Deadline /\ check.since <= now'
    OBVIOUS
  <2>1. /\ check.since \in Nat /\ now \in Nat /\ Deadline \in Nat
        /\ check.since <= now /\ now <= check.since + Deadline
        /\ check.pc \in {"observe", "confirm"}
    BY NeverIsEarly DEF WatchdogInv, WatchdogTypes, CheckIsTrue, Asking
  <2>2. now' = now \/ (now' = now + 1 /\ now < check.since + Deadline)
    BY <2>1 DEF Dog!Administer, Dog!MetaChanges, Dog!Tick
  <2> QED
    BY <2>1, <2>2
<1>7. CheckIsTrue(last, check)' /\ VerdictIsTrue(last, verdict)'
  BY <1>1, <1>4, <1>5, <1>6 DEF CheckIsTrue, VerdictIsTrue, WatchdogInv, WatchdogTypes,
     Verdicts
<1> QED
  BY <1>1, <1>3, <1>7 DEF WatchdogInv, WatchdogTypes

(* An attempt is recorded, and the check ends. *)
LEMMA AttemptInv ==
  ASSUME Dog!WatchdogAssumption, WatchdogInv,
         NEW outcome \in {"unknown", "ok", "refused"}, Dog!Record(outcome),
         check' = Dog!Idle, UNCHANGED <<now, instance, refused, fields, last>>,
         outcome # "unknown" => VerdictWasSo(last, Dog!Measured(outcome))
  PROVE  WatchdogInv'
<1>0. now \in Nat /\ Dog!Idle \notin Asking /\ Dog!Never \in Int /\ verdict \in Verdicts
  BY NeverIsEarly DEF WatchdogInv, WatchdogTypes, Dog!Idle, Asking
<1>1. CASE outcome # "unknown"
  <2>1. verdict' = Dog!Measured(outcome) /\ verdict' \in Verdicts /\ verdict'.measuredAt = now
        /\ verdict'.failingSince = Dog!Never
    BY <1>0, <1>1 DEF Dog!Record, Dog!Measured, Verdicts
  <2>2. VerdictIsTrue(last, verdict)'
    BY <1>0, <1>1, <2>1 DEF VerdictIsTrue, VerdictWasSo, Refused
  <2> QED
    BY <1>0, <2>1, <2>2 DEF WatchdogInv, WatchdogTypes, CheckIsTrue
<1>2. CASE outcome = "unknown"
  <2>1. /\ verdict' \in Verdicts
        /\ verdict'.verdict = verdict.verdict /\ verdict'.measuredAt = verdict.measuredAt
        /\ verdict'.failingSince = verdict.failingSince \/ verdict'.failingSince = now
    BY <1>0, <1>2 DEF Dog!Record, Verdicts
  <2>2. VerdictIsTrue(last, verdict)'
    BY <1>0, <2>1 DEF WatchdogInv, VerdictIsTrue, VerdictWasSo, Refused, Verdicts
  <2> QED
    BY <1>0, <2>1, <2>2 DEF WatchdogInv, WatchdogTypes, CheckIsTrue
<1> QED
  BY <1>1, <1>2

(* The check goes on. *)
LEMMA CheckGoesOn ==
  ASSUME Dog!WatchdogAssumption, WatchdogInv,
         NEW c \in {Dog!Idle, [pc |-> "find"]} \cup Asking, check' = c, CheckIsTrue(last, c),
         UNCHANGED <<now, instance, refused, fields, verdict, last>>
  PROVE  WatchdogInv'
  BY DEF WatchdogInv, WatchdogTypes, CheckIsTrue, VerdictIsTrue

(* What a check learnt was so at an instant within its deadline. *)
LEMMA ToldIsRecent ==
  ASSUME Dog!WatchdogAssumption, WatchdogInv, check \in Asking
  PROVE  /\ check.answer = "ok" => VerdictWasSo(last, Dog!Measured("ok"))
         /\ check.pc = "confirm" \/ check.answer = "refused" =>
              VerdictWasSo(last, Dog!Measured("refused"))
<1>1. /\ check.since \in Nat /\ check.token \in Dog!Credentials /\ now \in Nat
      /\ now <= check.since + Deadline /\ Deadline \in Nat /\ ToldSince(last, check)
  BY NeverIsEarly DEF WatchdogInv, WatchdogTypes, Asking, CheckIsTrue
<1>2. now - Deadline <= check.since /\ now - Deadline \in Int
  BY <1>1
<1>3. /\ last.held[check.token] \in Int /\ last.good[check.token] \in Int
      /\ last.bad[check.token] \in Int /\ last.fields \in Int
  BY <1>1 DEF WatchdogInv, WatchdogTypes, Notes
<1>4. now - Deadline <= last.held[check.token]
  BY <1>1, <1>2, <1>3 DEF ToldSince
<1>5. check.answer = "ok" => now - Deadline <= last.good[check.token]
  BY <1>1, <1>2, <1>3 DEF ToldSince
<1>6. check.pc = "confirm" \/ check.answer = "refused" =>
        Refused(last, check.token, now - Deadline)
  BY <1>1, <1>2, <1>3 DEF ToldSince, Refused
<1> QED
  BY <1>1, <1>4, <1>5, <1>6 DEF VerdictWasSo, Dog!Measured

LEMMA FindInv ==
  ASSUME Dog!WatchdogAssumption, WatchdogInv, Dog!FindInstance
  PROVE  WatchdogInv'
<1>1. CASE instance.there /\ UNCHANGED verdict /\ check' = [pc |-> "observe",
             token |-> instance.token, since |-> now, answer |-> "none"]
  <2>1. PICK c : c = [pc |-> "observe", token |-> instance.token, since |-> now,
                      answer |-> "none"]
    OBVIOUS
  <2>2. c \in Asking /\ last.held[instance.token] = now /\ now \in Nat
    BY <1>1, <2>1 DEF Asking, WatchdogInv, WatchdogTypes, NotedNow
  <2>3. CheckIsTrue(last, c)
    BY <2>1, <2>2, NeverIsEarly DEF CheckIsTrue, ToldSince
  <2> QED
    BY <1>1, <2>1, <2>2, <2>3, CheckGoesOn DEF Dog!FindInstance
<1>2. CASE check' = Dog!Idle /\ Dog!Record("unknown")
  BY <1>2, AttemptInv DEF Dog!FindInstance
<1> QED
  BY <1>1, <1>2 DEF Dog!FindInstance

LEMMA MetaAnswersInv ==
  ASSUME Dog!WatchdogAssumption, WatchdogInv, Dog!MetaAnswers
  PROVE  WatchdogInv'
<1>1. check \in Asking /\ check.answer = "none" /\ CheckIsTrue(last, check)
  BY DEF Dog!MetaAnswers, WatchdogInv, WatchdogTypes, Dog!Idle
<1>2. PICK c : c = [check EXCEPT !.answer =
         IF check.token \notin refused /\ (check.pc = "confirm" \/ fields)
         THEN "ok" ELSE "refused"]
  OBVIOUS
<1>3. /\ c \in Asking /\ c.pc = check.pc /\ c.since = check.since /\ c.token = check.token
      /\ IF check.token \notin refused /\ (check.pc = "confirm" \/ fields)
         THEN c.answer = "ok" ELSE c.answer = "refused"
  BY <1>1, <1>2 DEF Asking
<1>4. /\ check.since <= now /\ check.token \in Dog!Credentials
      /\ check.token \in refused => last.bad[check.token] = now
      /\ check.token \notin refused => last.good[check.token] = now
      /\ ~fields => last.fields = now
  BY <1>1 DEF CheckIsTrue, WatchdogInv, NotedNow, Asking
<1>5. ToldSince(last, c)
  BY <1>1, <1>3, <1>4 DEF CheckIsTrue, ToldSince, Refused
<1>6. CheckIsTrue(last, c)
  BY <1>1, <1>3, <1>5 DEF CheckIsTrue
<1> QED
  BY <1>2, <1>3, <1>6, CheckGoesOn DEF Dog!MetaAnswers

LEMMA ObservedInv ==
  ASSUME Dog!WatchdogAssumption, WatchdogInv, Dog!Observed
  PROVE  WatchdogInv'
<1>1. check \in Asking /\ check.pc = "observe" /\ CheckIsTrue(last, check)
  BY DEF Dog!Observed, WatchdogInv, WatchdogTypes, Dog!Idle
<1>2. PICK outcome \in Dog!Outcome :
        IF outcome = "refused"
        THEN check' = [check EXCEPT !.pc = "confirm", !.answer = "none"] /\ UNCHANGED verdict
        ELSE check' = Dog!Idle /\ Dog!Record(outcome)
  BY DEF Dog!Observed
<1>3. /\ outcome \in {"unknown", "ok", "refused"}
      /\ outcome # "unknown" => outcome = check.answer
  BY <1>1 DEF Dog!Outcome, Asking
<1>4. UNCHANGED <<now, instance, refused, fields, last>>
  BY DEF Dog!Observed
<1>5. CASE outcome = "refused"
  <2>1. PICK c : c = [check EXCEPT !.pc = "confirm", !.answer = "none"]
    OBVIOUS
  <2>2. c \in Asking /\ c.since = check.since /\ c.token = check.token /\ c.answer = "none"
    BY <1>1, <2>1 DEF Asking
  <2>3. CheckIsTrue(last, c)
    BY <1>1, <1>3, <1>5, <2>2 DEF CheckIsTrue, ToldSince
  <2> QED
    BY <1>2, <1>4, <1>5, <2>1, <2>2, <2>3, CheckGoesOn
<1>6. CASE outcome # "refused"
  <2>1. outcome # "unknown" => VerdictWasSo(last, Dog!Measured(outcome))
    BY <1>1, <1>3, <1>6, ToldIsRecent
  <2> QED
    BY <1>2, <1>3, <1>4, <1>6, <2>1, AttemptInv
<1> QED
  BY <1>5, <1>6

LEMMA ConfirmedInv ==
  ASSUME Dog!WatchdogAssumption, WatchdogInv, Dog!Confirmed
  PROVE  WatchdogInv'
<1>1. check \in Asking /\ check.pc = "confirm"
  BY DEF Dog!Confirmed, WatchdogInv, WatchdogTypes, Dog!Idle
<1>2. PICK clean \in Dog!Outcome : Dog!Record(Dog!Confirmation(clean))
  BY DEF Dog!Confirmed
<1>3. /\ Dog!Confirmation(clean) \in {"ok", "refused"}
      /\ Dog!Confirmation(clean) = "ok" => check.answer = "ok"
  BY <1>1, <1>2 DEF Dog!Confirmation, Dog!Outcome, Asking
<1>4. VerdictWasSo(last, Dog!Measured(Dog!Confirmation(clean)))
  BY <1>1, <1>3, ToldIsRecent
<1> QED
  BY <1>2, <1>3, <1>4, AttemptInv DEF Dog!Confirmed

LEMMA WatchdogNext ==
  ASSUME Dog!WatchdogAssumption, WatchdogInv, [Dog!Next]_(Dog!vars)
  PROVE  WatchdogInv'
<1>1. CASE UNCHANGED Dog!vars
  <2>1. UNCHANGED <<now, instance, refused, fields, verdict, check, last>>
    BY <1>1 DEF Dog!vars
  <2> QED
    BY <2>1 DEF WatchdogInv, WatchdogTypes, CheckIsTrue, VerdictIsTrue
<1>2. CASE Dog!Check
  <2>1. CheckIsTrue(last, [pc |-> "find"])
    BY DEF CheckIsTrue, Asking
  <2> QED
    BY <1>2, <2>1, CheckGoesOn DEF Dog!Check
<1>3. CASE Dog!FindInstance \/ Dog!MetaAnswers \/ Dog!Observed \/ Dog!Confirmed
  BY <1>3, FindInv, MetaAnswersInv, ObservedInv, ConfirmedInv
<1>4. CASE (\E present, active \in BOOLEAN, t \in Dog!Credentials :
              Dog!Administer([there |-> present, active |-> active, token |-> t]))
           \/ Dog!MetaChanges \/ Dog!Tick
  BY <1>4, WorldMoves
<1>5. CASE Dog!Restart
  <2>1. CheckIsTrue(last, Dog!Idle) /\ Dog!NoMeasurement \in Verdicts
        /\ VerdictIsTrue(last, Dog!NoMeasurement)
    BY NeverIsEarly DEF CheckIsTrue, Dog!Idle, Asking, Dog!NoMeasurement, Verdicts,
       VerdictIsTrue, VerdictWasSo, WatchdogInv, WatchdogTypes
  <2> QED
    BY <1>5, <2>1 DEF Dog!Restart, WatchdogInv, WatchdogTypes, CheckIsTrue, VerdictIsTrue
<1> QED
  BY <1>1, <1>2, <1>3, <1>4, <1>5 DEF Dog!Next

(* A verdict is shown for no longer than its validity. *)
LEMMA NowOfWatchdogInv ==
  ASSUME Dog!WatchdogAssumption, WatchdogInv
  PROVE  Dog!VerdictDescribesNow
<1>1. /\ now \in Nat /\ Deadline \in Nat /\ VerdictValidity \in Nat
      /\ verdict.measuredAt \in Int /\ VerdictIsTrue(last, verdict)
  BY NeverIsEarly DEF WatchdogInv, WatchdogTypes, Verdicts
<1>2. \A t \in Dog!Credentials :
        /\ last.held[t] \in Int /\ last.good[t] \in Int /\ last.bad[t] \in Int
        /\ last.fields \in Int
  BY DEF WatchdogInv, WatchdogTypes, Notes
<1>3. ASSUME Dog!Read # "unknown"
      PROVE  Dog!Read = verdict.verdict /\ now - verdict.measuredAt <= VerdictValidity
  BY <1>3 DEF Dog!Read
<1>4. ASSUME NEW i \in Int, verdict.measuredAt - Deadline <= i, Dog!Read # "unknown"
      PROVE  Dog!Recent(i)
  BY <1>1, <1>3, <1>4 DEF Dog!Recent
<1>5. Dog!Read = "ok" =>
        \E t \in Dog!Credentials : Dog!Recent(last.held[t]) /\ Dog!Recent(last.good[t])
  BY <1>1, <1>2, <1>3, <1>4 DEF VerdictIsTrue, VerdictWasSo
<1>6. Dog!Read = "refused" => \E t \in Dog!Credentials :
        Dog!Recent(last.held[t]) /\ (Dog!Recent(last.bad[t]) \/ Dog!Recent(last.fields))
  BY <1>1, <1>2, <1>3, <1>4 DEF VerdictIsTrue, VerdictWasSo, Refused
<1> QED
  BY <1>1, <1>5, <1>6 DEF VerdictIsTrue, Dog!VerdictDescribesNow

HIDE DEF instance, refused, fields, verdict, check, last

---------------------------------------------------------------------------
(* The transit log and its follow.                                         *)

transito == now
lines == s1
follow == s2
lastRowid == s3
shown == s4
deletions == s5
started == s6
begun == s7
calm == s8

USE DEF transito, lines, follow, lastRowid, shown, deletions, started, begun, calm

Row(upTo) == [rowid : Nat \ {0}, line : 1 .. upTo, slug : LogSlugs, number : Counterparties]

LogTypes ==
  /\ lines \in 0 .. MaxLines /\ deletions \in Nat
  /\ transito \subseteq Row(lines)
  /\ follow \in [pc : {"start", "wait", "read"}, slug : LogSlugs \cup {Everyone}]
  /\ lastRowid \in Int /\ shown \in [1 .. MaxLines -> Nat]
  /\ started \in 0 .. lines /\ begun \in 0 .. lines /\ calm \in BOOLEAN

(* Rowids follow the order of the lines, though a deleted one comes back. *)
InOrder ==
  /\ \A r \in transito : r.rowid <= r.line
  /\ \A r, q \in transito : r.line <= q.line => r.rowid <= q.rowid
  /\ \A r, q \in transito : r.line = q.line => r = q
  /\ \A l \in 1 .. MaxLines : l > lines => shown[l] = 0

(* The cursor is not beyond the last of the lines followed. *)
Reached == lastRowid <= 0 \/ \E r \in Log!Followed : lastRowid <= r.rowid

(* A cursor that is beyond them is set back once, and a deletion put it    *)
(* there.                                                                  *)
RepeatedRarely ==
  /\ \A l \in 1 .. MaxLines : shown[l] <= 1 + deletions
  /\ \A r \in Log!Followed : r.rowid > lastRowid => shown[r.line] <= deletions
  /\ Reached \/ \A r \in Log!Followed : shown[r.line] <= deletions

(* A turn without a deletion has the lines written in it before it. *)
Sighted ==
  calm =>
    /\ Reached
    /\ \A r \in Log!Followed : r.line > begun =>
         r.rowid > lastRowid \/ (follow.pc = "wait" /\ shown[r.line] > 0)

ShownOnce ==
  deletions = 0 =>
    /\ Reached
    /\ \A r \in Log!Followed :
         r.line > started => shown[r.line] = IF r.rowid <= lastRowid THEN 1 ELSE 0

LogInv ==
  /\ LogTypes /\ InOrder
  /\ follow.pc = "start" => shown = [l \in 1 .. MaxLines |-> 0]
  /\ follow.pc # "start" => RepeatedRarely /\ Sighted /\ ShownOnce

LEMMA LogInit ==
  ASSUME Log!LogAssumption, Log!Init
  PROVE  LogInv
<1>1. LogTypes
  BY DEF Log!Init, Log!LogAssumption, LogTypes
<1>2. InOrder
  BY DEF Log!Init, Log!LogAssumption, InOrder
<1> QED
  BY <1>1, <1>2 DEF Log!Init, LogInv

LEMMA RowIs ==
  ASSUME Log!LogAssumption, LogTypes, NEW r \in transito
  PROVE  r.line \in 1 .. MaxLines /\ r.line \in 1 .. lines /\ r.rowid \in Nat /\ r.rowid > 0
<1>1. MaxLines \in Nat /\ lines \in 0 .. MaxLines /\ r \in Row(lines)
  BY DEF Log!LogAssumption, LogTypes
<1>2. r.line \in 1 .. lines /\ r.rowid \in Nat \ {0}
  BY <1>1 DEF Row
<1> QED
  BY <1>1, <1>2

(* What Max finds among the rowids of some rows. *)
LEMMA HighestIs ==
  ASSUME Log!LogAssumption, LogTypes, InOrder, NEW rows, rows \subseteq transito
  PROVE  /\ Log!Highest(rows) \in 0 .. lines
         /\ \A r \in rows : r.rowid <= Log!Highest(rows)
         /\ Log!Highest(rows) = 0 \/ \E r \in rows : r.rowid = Log!Highest(rows)
<1> DEFINE ids == {0} \cup Log!Rowids(rows)
<1>1. \A r \in rows : r.rowid \in Nat /\ r.rowid <= lines
  BY DEF LogTypes, InOrder, Row
<1>2. ids \subseteq Nat /\ ids # {} /\ lines \in Nat /\ \A i \in ids : i <= lines
  BY <1>1 DEF Log!Rowids, LogTypes
<1>3. \E m \in ids : \A i \in ids : i <= m
  BY <1>2, GreatestNumber
<1>4. \E m \in ids : \A i \in ids : m >= i
  BY <1>2, <1>3
<1>5. Log!Highest(rows) \in ids /\ \A i \in ids : Log!Highest(rows) >= i
  BY <1>4 DEF Log!Highest, Log!Max
<1> QED
  BY <1>1, <1>2, <1>5 DEF Log!Rowids

LEMMA WriteTransitInv ==
  ASSUME Log!LogAssumption, LogInv,
         NEW slug \in LogSlugs, NEW number \in Counterparties, Log!WriteTransit(slug, number)
  PROVE  LogInv'
<1> DEFINE h == Log!Highest(transito)
           new == [rowid |-> h + 1, line |-> lines + 1, slug |-> slug, number |-> number]
<1>1. /\ lines' = lines + 1 /\ lines < MaxLines
      /\ transito' = transito \cup {new}
      /\ UNCHANGED <<follow, lastRowid, shown, deletions, started, begun, calm>>
  BY DEF Log!WriteTransit
<1>2. h \in 0 .. lines /\ \A r \in transito : r.rowid <= h
  BY HighestIs DEF LogInv
<1>3. LogTypes /\ InOrder /\ lines \in Nat /\ MaxLines \in Nat
  BY DEF LogInv, LogTypes, Log!LogAssumption
<1>4. transito' \subseteq Row(lines')
  <2>1. new \in Row(lines')
    BY <1>1, <1>2, <1>3 DEF Row
  <2>2. transito \subseteq Row(lines')
    BY <1>1, <1>3 DEF LogTypes, Row
  <2> QED
    BY <1>1, <2>1, <2>2
<1>5. LogTypes'
  BY <1>1, <1>3, <1>4 DEF LogTypes
<1>6. InOrder'
  <2>1. \A r \in transito : r.line \in Nat /\ r.line <= lines /\ r.rowid \in Nat
    BY <1>3 DEF LogTypes, Row
  <2>2. new.line = lines + 1 /\ new.rowid = h + 1
    OBVIOUS
  <2> HIDE DEF new
  <2>3. \A r \in transito' : r.rowid <= r.line
    BY <1>1, <1>2, <1>3, <2>1, <2>2 DEF InOrder
  <2>4. \A r, q \in transito' : r.line <= q.line => r.rowid <= q.rowid
    BY <1>1, <1>2, <1>3, <2>1, <2>2 DEF InOrder
  <2>5. \A r, q \in transito' : r.line = q.line => r = q
    BY <1>1, <1>2, <1>3, <2>1, <2>2 DEF InOrder
  <2>6. \A l \in 1 .. MaxLines : l > lines' => shown'[l] = 0
    BY <1>1, <1>3 DEF InOrder
  <2> QED
    BY <1>1, <2>3, <2>4, <2>5, <2>6 DEF InOrder
<1>7. ASSUME follow.pc # "start"
      PROVE  RepeatedRarely' /\ Sighted' /\ ShownOnce'
  <2>1. Log!Followed' = Log!Followed \/ Log!Followed' = Log!Followed \cup {new}
    BY <1>1 DEF Log!Followed, Log!Of
  <2>2. shown[new.line] = 0 /\ lastRowid \in Int /\ deletions \in Nat
    BY <1>1, <1>3 DEF InOrder, LogTypes
  <2>3. Log!Followed \subseteq transito
    BY DEF Log!Followed, Log!Of
  <2>4. Reached => Reached'
    BY <1>1, <2>1 DEF Reached
  <2>5. Reached => lastRowid < new.rowid
    BY <1>2, <1>3, <2>2, <2>3 DEF Reached, LogTypes, Row
  <2> HIDE DEF new
  <2>6. RepeatedRarely'
    BY <1>1, <1>7, <2>1, <2>2, <2>4 DEF LogInv, RepeatedRarely
  <2>7. Sighted'
    BY <1>1, <1>7, <2>1, <2>2, <2>4, <2>5 DEF LogInv, Sighted
  <2>8. ShownOnce'
    <3>1. ASSUME deletions = 0, NEW r \in Log!Followed', r.line > started
          PROVE  shown[r.line] = IF r.rowid <= lastRowid THEN 1 ELSE 0
      <4>1. Reached
        BY <1>7, <3>1 DEF LogInv, ShownOnce
      <4>2. CASE r = new
        <5>1. new.rowid \in Nat
          BY <1>2, <1>3 DEF new
        <5> QED
          BY <2>2, <2>5, <4>1, <4>2, <5>1
      <4>3. CASE r \in Log!Followed
        BY <1>7, <3>1, <4>3 DEF LogInv, ShownOnce
      <4> QED
        BY <2>1, <4>2, <4>3
    <3> QED
      BY <1>1, <1>7, <2>4, <3>1 DEF LogInv, ShownOnce
  <2> QED
    BY <2>6, <2>7, <2>8
<1> QED
  BY <1>1, <1>5, <1>6, <1>7 DEF LogInv

LEMMA DeleteInv ==
  ASSUME Log!LogAssumption, LogInv, NEW rows, Log!Delete(rows)
  PROVE  LogInv'
<1>1. /\ transito' \subseteq transito /\ deletions' = deletions + 1 /\ calm' = FALSE
      /\ UNCHANGED <<lines, follow, lastRowid, shown, started, begun>>
  BY DEF Log!Delete
<1>2. LogTypes'
  <2>1. deletions' \in Nat /\ transito' \subseteq Row(lines')
    BY <1>1 DEF LogInv, LogTypes
  <2>2. calm' \in BOOLEAN
    BY <1>1
  <2> QED
    BY <1>1, <2>1, <2>2 DEF LogInv, LogTypes
<1>3. InOrder'
  BY <1>1 DEF LogInv, InOrder
<1>4. ASSUME follow.pc # "start"
      PROVE  RepeatedRarely' /\ Sighted' /\ ShownOnce'
  <2>1. deletions \in Nat /\ \A l \in 1 .. MaxLines : shown[l] \in Nat /\ shown[l] <= deletions'
    BY <1>1, <1>4 DEF LogInv, LogTypes, RepeatedRarely
  <2>2. \A r \in Log!Followed' : r.line \in 1 .. MaxLines
    BY <1>1, RowIs DEF LogInv, Log!Followed, Log!Of
  <2> QED
    BY <1>1, <2>1, <2>2 DEF RepeatedRarely, Sighted, ShownOnce
<1> QED
  BY <1>1, <1>2, <1>3, <1>4 DEF LogInv

(* A line is shown at most once more. *)
LEMMA ShowIs ==
  ASSUME LogTypes, NEW rows, Log!Show(rows)
  PROVE  /\ shown' \in [1 .. MaxLines -> Nat]
         /\ \A l \in 1 .. MaxLines :
              shown'[l] = IF \E r \in rows : r.line = l THEN shown[l] + 1 ELSE shown[l]
  BY DEF Log!Show, LogTypes

LEMMA StartFollowInv ==
  ASSUME Log!LogAssumption, LogInv, Log!Start
  PROVE  LogInv'
<1> DEFINE rows == Log!LastLogLines(FirstLines)
<1>1. /\ follow.pc = "start" /\ follow' = [follow EXCEPT !.pc = "wait"]
      /\ lastRowid' = Log!Highest(rows) /\ Log!Show(rows)
      /\ started' = lines /\ begun' = lines /\ calm' = TRUE
      /\ UNCHANGED <<transito, lines, deletions>>
  BY DEF Log!Start, Log!log
<1>2. rows \subseteq Log!Followed /\ rows \subseteq transito /\ Log!Followed' = Log!Followed
  BY <1>1 DEF Log!LastLogLines, Log!Followed, Log!Of, LogInv, LogTypes
<1> HIDE DEF rows
<1>3. /\ lastRowid' \in Nat /\ \A r \in rows : r.rowid <= lastRowid'
      /\ lastRowid' = 0 \/ \E r \in rows : r.rowid = lastRowid'
  BY <1>1, <1>2, HighestIs DEF LogInv, LogTypes
<1>4. LogTypes /\ InOrder /\ shown = [l \in 1 .. MaxLines |-> 0] /\ deletions \in Nat
  BY <1>1 DEF LogInv, LogTypes
<1>5. /\ shown' \in [1 .. MaxLines -> Nat]
      /\ \A l \in 1 .. MaxLines : shown'[l] = IF \E r \in rows : r.line = l THEN 1 ELSE 0
  BY <1>1, <1>4, ShowIs
<1>6. LogTypes'
  BY <1>1, <1>3, <1>4, <1>5 DEF LogTypes
<1>7. \A r \in transito : r.line \in 1 .. MaxLines /\ r.line <= lines /\ r.rowid \in Nat
  BY <1>4, RowIs
<1>8. InOrder'
  BY <1>1, <1>2, <1>4, <1>5, <1>7 DEF InOrder, LogTypes
<1>9. Reached'
  BY <1>1, <1>2, <1>3, <1>7 DEF Reached
<1>10. RepeatedRarely'
  <2>1. \A r \in Log!Followed : r.rowid > lastRowid' => r \notin rows
    BY <1>3, <1>2, <1>7
  <2>2. \A r \in Log!Followed : r \notin rows => shown'[r.line] = 0
    BY <1>2, <1>4, <1>5, <1>7 DEF InOrder, Log!Followed, Log!Of
  <2> QED
    BY <1>1, <1>2, <1>4, <1>5, <1>7, <1>9, <2>1, <2>2 DEF RepeatedRarely
<1>11. Sighted' /\ ShownOnce'
  <2>1. \A r \in Log!Followed : r.line <= lines /\ r.line \in Nat
    BY <1>7 DEF Log!Followed, Log!Of
  <2> QED
    BY <1>1, <1>2, <1>4, <1>9, <2>1 DEF Sighted, ShownOnce, LogTypes
<1>12. follow'.pc = "wait"
  BY <1>1, <1>4 DEF LogTypes
<1> QED
  BY <1>6, <1>8, <1>10, <1>11, <1>12 DEF LogInv

LEMMA HighestLogRowidInv ==
  ASSUME Log!LogAssumption, LogInv, Log!HighestLogRowid
  PROVE  LogInv'
<1> DEFINE h == Log!Highest(Log!Followed)
<1>1. /\ follow.pc = "wait" /\ follow' = [follow EXCEPT !.pc = "read"]
      /\ lastRowid' = (IF h < lastRowid THEN h - 1 ELSE lastRowid)
      /\ begun' = lines /\ calm' = TRUE
      /\ UNCHANGED <<transito, lines, deletions, shown, started>>
  BY DEF Log!HighestLogRowid, Log!log, Log!Cursor, Log!Followed
<1>2. /\ Log!Followed \subseteq transito /\ Log!Followed' = Log!Followed
      /\ follow'.pc = "read"
  BY <1>1 DEF Log!Followed, Log!Of, LogInv, LogTypes
<1>3. LogTypes /\ InOrder /\ deletions \in Nat /\ lastRowid \in Int
  BY DEF LogInv, LogTypes
<1>4. /\ h \in Nat /\ \A r \in Log!Followed : r.rowid <= h
      /\ h = 0 \/ \E r \in Log!Followed : r.rowid = h
  BY <1>2, <1>3, HighestIs DEF LogTypes
<1> HIDE DEF h
<1>5. \A r \in Log!Followed : r.line \in 1 .. lines /\ r.rowid \in Nat
  BY <1>2, <1>3 DEF LogTypes, Row
<1>6. LogTypes' /\ InOrder'
  <2>1. lastRowid' \in Int
    BY <1>1, <1>3, <1>4
  <2>2. follow' \in [pc : {"start", "wait", "read"}, slug : LogSlugs \cup {Everyone}]
    BY <1>1, <1>3 DEF LogTypes
  <2> QED
    BY <1>1, <1>3, <2>1, <2>2 DEF LogTypes, InOrder
<1>7. RepeatedRarely /\ ShownOnce
  BY <1>1 DEF LogInv
<1>8. Reached'
  BY <1>1, <1>2, <1>3, <1>4, <1>5 DEF Reached
<1>9. h < lastRowid => ~Reached
  BY <1>3, <1>4, <1>5 DEF Reached
<1>10. RepeatedRarely'
  BY <1>1, <1>2, <1>7, <1>8, <1>9 DEF RepeatedRarely
<1>11. Sighted'
  BY <1>1, <1>2, <1>3, <1>5, <1>8 DEF Sighted, LogTypes
<1>12. ShownOnce'
  BY <1>1, <1>2, <1>7, <1>8, <1>9 DEF ShownOnce
<1> QED
  BY <1>2, <1>6, <1>10, <1>11, <1>12 DEF LogInv

LEMMA LogLinesSinceInv ==
  ASSUME Log!LogAssumption, LogInv, Log!LogLinesSince
  PROVE  LogInv'
<1> DEFINE new == {r \in Log!Followed : r.rowid > lastRowid}
<1>1. /\ follow.pc = "read" /\ follow' = [follow EXCEPT !.pc = "wait"]
      /\ Log!Show(new) /\ lastRowid' = (IF new = {} THEN lastRowid ELSE Log!Highest(new))
      /\ UNCHANGED <<transito, lines, deletions, started, begun, calm>>
  BY DEF Log!LogLinesSince, Log!log, Log!Followed
<1>2. /\ Log!Followed \subseteq transito /\ Log!Followed' = Log!Followed
      /\ follow'.pc = "wait"
  BY <1>1 DEF Log!Followed, Log!Of, LogInv, LogTypes
<1>3. LogTypes /\ InOrder /\ deletions \in Nat /\ lastRowid \in Int
  BY DEF LogInv, LogTypes
<1>4. \A r \in Log!Followed : r.line \in 1 .. MaxLines /\ r.line \in 1 .. lines /\ r.rowid \in Nat
  BY <1>2, <1>3, RowIs
<1>5. RepeatedRarely /\ Sighted /\ ShownOnce
  BY <1>1 DEF LogInv
<1>6. /\ shown' \in [1 .. MaxLines -> Nat]
      /\ \A l \in 1 .. MaxLines :
           shown'[l] = IF \E r \in new : r.line = l THEN shown[l] + 1 ELSE shown[l]
  BY <1>1, <1>3, ShowIs
<1>7. \A r \in Log!Followed :
        shown'[r.line] = IF r.rowid > lastRowid THEN shown[r.line] + 1 ELSE shown[r.line]
  <2> SUFFICES ASSUME NEW r \in Log!Followed
               PROVE  shown'[r.line] = IF r.rowid > lastRowid THEN shown[r.line] + 1
                                       ELSE shown[r.line]
    OBVIOUS
  <2>1. (\E q \in new : q.line = r.line) <=> r.rowid > lastRowid
    BY <1>2, <1>3 DEF InOrder
  <2> QED
    BY <1>4, <1>6, <2>1
<1>8. CASE new = {}
  <2>1. lastRowid' = lastRowid /\ shown' = shown
    <3>1. \A l \in 1 .. MaxLines : shown'[l] = shown[l]
      BY <1>6, <1>8
    <3>2. shown \in [1 .. MaxLines -> Nat]
      BY <1>3 DEF LogTypes
    <3>3. shown' \in [1 .. MaxLines -> Nat]
      BY <1>6
    <3>4. /\ shown = [l \in 1 .. MaxLines |-> shown[l]]
          /\ shown' = [l \in 1 .. MaxLines |-> shown'[l]]
      BY <3>2, <3>3
    <3>5. shown' = shown
      BY <3>1, <3>4, Zenon
    <3> QED
      BY <1>1, <1>8, <3>5
  <2>2. follow' \in [pc : {"start", "wait", "read"}, slug : LogSlugs \cup {Everyone}]
    BY <1>1, <1>3 DEF LogTypes
  <2>3. LogTypes' /\ InOrder'
    BY <1>1, <1>3, <2>1, <2>2 DEF LogTypes, InOrder
  <2>4. Reached' <=> Reached
    BY <1>2, <2>1 DEF Reached
  <2>5. RepeatedRarely' /\ ShownOnce'
    BY <1>1, <1>2, <1>5, <2>1, <2>4 DEF RepeatedRarely, ShownOnce
  <2>6. Sighted'
    BY <1>1, <1>2, <1>5, <2>1, <2>4 DEF Sighted
  <2> QED
    BY <1>2, <2>3, <2>5, <2>6 DEF LogInv
<1>9. CASE new # {}
  <2>1. /\ lastRowid' \in Nat /\ \A r \in new : r.rowid <= lastRowid'
        /\ \E r \in new : r.rowid = lastRowid'
    <3>1. new \subseteq transito /\ lastRowid' = Log!Highest(new)
      BY <1>1, <1>2, <1>9
    <3>2. PICK r \in new : TRUE
      BY <1>9
    <3>3. r.rowid \in Nat /\ r.rowid # 0
      BY <1>3, <3>1, <3>2 DEF LogTypes, Row
    <3> QED
      BY <1>3, <3>1, <3>2, <3>3, HighestIs DEF LogTypes
  <2>2. lastRowid < lastRowid' /\ Reached' /\ \A r \in Log!Followed : r.rowid <= lastRowid'
    BY <1>2, <1>3, <1>4, <2>1 DEF Reached
  <2>3. LogTypes'
    <3>1. follow' \in [pc : {"start", "wait", "read"}, slug : LogSlugs \cup {Everyone}]
      BY <1>1, <1>3 DEF LogTypes
    <3> QED
      BY <1>1, <1>3, <1>6, <2>1, <3>1 DEF LogTypes
  <2>4. InOrder'
    <3>1. \A l \in 1 .. MaxLines : l > lines => ~\E r \in new : r.line = l
      BY <1>3, <1>4 DEF LogTypes
    <3> QED
      BY <1>1, <1>3, <1>6, <3>1 DEF InOrder
  <2>5. RepeatedRarely'
    <3>1. \A l \in 1 .. MaxLines : shown'[l] <= 1 + deletions
      <4> SUFFICES ASSUME NEW l \in 1 .. MaxLines
                   PROVE  shown'[l] <= 1 + deletions
        OBVIOUS
      <4>1. CASE \E r \in new : r.line = l
        BY <1>3, <1>5, <1>6, <4>1 DEF RepeatedRarely, LogTypes
      <4>2. CASE ~\E r \in new : r.line = l
        BY <1>3, <1>5, <1>6, <4>2 DEF RepeatedRarely
      <4> QED
        BY <4>1, <4>2
    <3>2. \A r \in Log!Followed : ~(r.rowid > lastRowid')
      BY <1>4, <2>1, <2>2
    <3> QED
      BY <1>1, <1>2, <2>2, <3>1, <3>2 DEF RepeatedRarely
  <2>6. Sighted'
    <3>1. ASSUME calm, NEW r \in Log!Followed, r.line > begun
          PROVE  shown'[r.line] > 0
      <4>1. r.rowid > lastRowid
        BY <1>1, <1>5, <3>1 DEF Sighted
      <4> QED
        BY <1>3, <1>4, <1>7, <4>1 DEF LogTypes
    <3> QED
      BY <1>1, <1>2, <2>2, <3>1 DEF Sighted
  <2>7. ShownOnce'
    <3>1. ASSUME deletions = 0, NEW r \in Log!Followed, r.line > started
          PROVE  shown'[r.line] = 1 /\ r.rowid <= lastRowid'
      BY <1>3, <1>4, <1>5, <1>7, <2>2, <3>1 DEF ShownOnce
    <3> QED
      BY <1>1, <1>2, <2>2, <3>1 DEF ShownOnce
  <2> QED
    BY <1>2, <2>3, <2>4, <2>5, <2>6, <2>7 DEF LogInv
<1> QED
  BY <1>8, <1>9

LEMMA LogNext ==
  ASSUME Log!LogAssumption, LogInv, [Log!Next]_(Log!vars)
  PROVE  LogInv'
<1>1. CASE UNCHANGED Log!vars
  BY <1>1 DEF Log!vars, LogInv, LogTypes, InOrder, RepeatedRarely, Sighted, ShownOnce,
     Reached, Log!Followed, Log!Of
<1>2. CASE Log!Next
  BY <1>2, WriteTransitInv, DeleteInv, StartFollowInv, HighestLogRowidInv, LogLinesSinceInv
  DEF Log!Next, Log!ClearInstanceTransit, Log!ClearTransitByPhone, Log!PurgeTransit
<1> QED
  BY <1>1, <1>2

LEMMA FollowOfLogInv ==
  ASSUME LogInv
  PROVE  Log!FollowIsNotBlind
<1> SUFFICES ASSUME follow.pc = "wait"
             PROVE  /\ calm => \A r \in Log!Followed :
                         r.line > begun => shown[r.line] > 0 \/ r.rowid > lastRowid
                    /\ \A l \in DOMAIN shown : shown[l] <= 1 + deletions
                    /\ deletions = 0 => \A r \in Log!Followed : r.line > started =>
                         shown[r.line] = IF r.rowid <= lastRowid THEN 1 ELSE 0
  BY DEF Log!FollowIsNotBlind
<1>1. DOMAIN shown = 1 .. MaxLines
  BY DEF LogInv, LogTypes
<1> QED
  BY <1>1 DEF LogInv, RepeatedRarely, Sighted, ShownOnce

HIDE DEF transito, lines, follow, lastRowid, shown, deletions, started, begun, calm

---------------------------------------------------------------------------
(* The alerts.                                                             *)

loss == s1
series == s2
observed == s3
reported == s4
sent == s5
restarted == s6

USE DEF loss, series, observed, reported, sent, restarted

Observation == [n : Nat, at : Nat, outcome : {"loss", "failed", "accepted"}]
LossWindows == [open : BOOLEAN, start : Nat, buffered : SUBSET Nat]
SeriesOf == [open : BOOLEAN, first : Nat, count : Nat, alerted : BOOLEAN, last : Nat]

(* Deliveries are numbered as they are observed, and a message bears the   *)
(* number of one of them.                                                  *)
ObservedInOrder ==
  /\ now \in Nat
  /\ observed \subseteq Observation /\ IsFiniteSet(observed)
  /\ \A o \in observed : o.n <= Cardinality(observed) /\ o.at <= now
  /\ sent \subseteq Alerts!Message
  /\ \A m \in sent : m.which <= Cardinality(observed) /\ m.at <= now

(* What failed since the last accepted delivery. *)
Failures ==
  {o \in observed :
     /\ o.outcome = "failed"
     /\ \A p \in observed : p.outcome = "accepted" => p.n < o.n}

LongOrOld ==
  \/ Cardinality(Failures) >= SeriesCount
  \/ \E o, p \in Failures : o.at - p.at >= SeriesWindow

(* The series holds the number and the first of the failures. *)
SeriesInv ==
  restarted = 0 =>
    /\ series.count = Cardinality(Failures)
    /\ series.open <=> Failures # {}
    /\ series.open =>
         (\E o \in Failures : o.at = series.first) /\ \A o \in Failures : series.first <= o.at
    /\ series.alerted <=> LongOrOld

(* A series that was alerted has its message, and remembers the last one. *)
Alerted ==
  /\ \E k \in sent : k.kind = "failing"
                     /\ Alerts!AcceptedBefore(k.which) = Alerts!AcceptedBefore(Alerts!Number)
  /\ \A k \in sent : k.kind \in {"failing", "still_failing"} => k.at <= series.last

MessagesAreEarned ==
  \A m \in sent :
    /\ m.kind = "back" => \E k \in sent : Alerts!About(k, m) /\ k.kind = "failing"
    /\ m.kind = "still_failing" =>
         \A k \in sent : Alerts!About(k, m) /\ k.kind \in {"failing", "still_failing"}
                           => m.at - k.at >= Reminder

AlertInv ==
  /\ restarted \in Nat
  /\ series \in SeriesOf /\ (~series.open => ~series.alerted)
  /\ loss \in LossWindows /\ (~loss.open => loss.buffered = {})
  /\ ObservedInOrder
  /\ Alerts!NoLossIsForgotten
  /\ SeriesInv
  /\ series.alerted => Alerted
  /\ MessagesAreEarned

LEMMA AlertInit ==
  ASSUME Alerts!AlertAssumption, Alerts!Init
  PROVE  AlertInv
<1>1. /\ observed = {} /\ sent = {} /\ now = 0 /\ restarted = 0
      /\ loss = Alerts!NoLoss /\ series = Alerts!NoSeries
  BY DEF Alerts!Init
<1>2. /\ loss \in LossWindows /\ series \in SeriesOf /\ series.alerted = FALSE
      /\ loss.buffered = {}
  BY <1>1 DEF Alerts!NoLoss, Alerts!NoSeries, LossWindows, SeriesOf
<1>3. ObservedInOrder
  BY <1>1, FS_EmptySet DEF ObservedInOrder
<1>4. Failures = {} /\ Cardinality(Failures) = 0
  BY <1>1, FS_EmptySet DEF Failures
<1>5. SeriesInv
  BY <1>1, <1>4 DEF SeriesInv, LongOrOld, Alerts!NoSeries, Alerts!AlertAssumption
<1> QED
  BY <1>1, <1>2, <1>3, <1>5 DEF AlertInv, Alerts!NoLossIsForgotten, Alerts!Lost,
     MessagesAreEarned

(* The modules of the sides share one Cardinality. *)
LEMMA SameCardinality == \A S : Alerts!Cardinality(S) = Cardinality(S)
  BY DEF Alerts!Cardinality, Cardinality

LEMMA NumberIs ==
  /\ Alerts!Number = Cardinality(observed) + 1
  /\ Alerts!Number' = Cardinality(observed') + 1
  BY SameCardinality DEF Alerts!Number

LEMMA NumbersBefore ==
  ASSUME ObservedInOrder
  PROVE  /\ Cardinality(observed) \in Nat /\ Alerts!Number \in Nat
         /\ \A o \in observed : o.n \in Nat /\ o.n < Alerts!Number /\ o.at \in Nat /\ o.at <= now
         /\ \A m \in sent : m.which \in Nat /\ m.which < Alerts!Number
                          /\ m.at \in Nat /\ m.at <= now
<1>1. IsFiniteSet(observed) /\ Cardinality(observed) \in Nat
  BY FS_CardinalityType DEF ObservedInOrder
<1>2. \A o \in observed : o.n \in Nat /\ o.at \in Nat
  BY DEF ObservedInOrder, Observation
<1>3. \A m \in sent : m.which \in Nat /\ m.at \in Nat
  BY DEF ObservedInOrder, Alerts!Message
<1> QED
  BY <1>1, <1>2, <1>3, NumberIs DEF ObservedInOrder

(* Those are the failures the property speaks of. *)
LEMMA FailuresAre ==
  ASSUME ObservedInOrder
  PROVE  Alerts!FailedSince = Failures /\ IsFiniteSet(Failures) /\ Cardinality(Failures) \in Nat
<1>1. /\ Cardinality(observed) \in Nat
      /\ \A o \in observed : o.n \in Nat /\ o.n < Alerts!Number
  BY NumbersBefore
<1>2. ASSUME NEW o \in observed
      PROVE  Alerts!AcceptedBefore(o.n) = Alerts!AcceptedBefore(Alerts!Number)
               <=> \A p \in observed : p.outcome = "accepted" => p.n < o.n
  BY <1>1 DEF Alerts!AcceptedBefore
<1>3. Alerts!FailedSince = Failures
  BY <1>2 DEF Alerts!FailedSince, Failures
<1>4. IsFiniteSet(Failures) /\ Cardinality(Failures) \in Nat
  BY FS_Subset, FS_CardinalityType DEF Failures, ObservedInOrder
<1> QED
  BY <1>3, <1>4

(* A delivery is observed: its number is new. *)
LEMMA ObservedOne ==
  ASSUME ObservedInOrder, NEW outcome \in {"loss", "failed", "accepted"}, NEW o,
         o = [n |-> Alerts!Number, at |-> now, outcome |-> outcome],
         observed' = observed \cup {o}, now' = now
  PROVE  /\ Alerts!Number \in Nat /\ Alerts!Number' = Alerts!Number + 1
         /\ observed' \subseteq Observation /\ IsFiniteSet(observed')
         /\ \A p \in observed' : p.n <= Alerts!Number /\ p.at <= now
         /\ \A p \in observed : p.n < Alerts!Number
         /\ \A x \in Nat : x <= Alerts!Number =>
              Alerts!AcceptedBefore(x)' = Alerts!AcceptedBefore(x)
         /\ outcome # "accepted" =>
              Alerts!AcceptedBefore(Alerts!Number)' = Alerts!AcceptedBefore(Alerts!Number)
<1>1. /\ Cardinality(observed) \in Nat
      /\ \A p \in observed : p.n \in Nat /\ p.n < Alerts!Number /\ p.at <= now
  BY NumbersBefore
<1>2. o \notin observed /\ o.n = Alerts!Number /\ o.at = now /\ o.outcome = outcome
  BY <1>1
<1>3. Alerts!Number \in Nat /\ now \in Nat /\ o \in Observation
  BY NumbersBefore DEF Observation, ObservedInOrder
<1>4. IsFiniteSet(observed') /\ Cardinality(observed') = Cardinality(observed) + 1
  BY <1>2, FS_AddElement DEF ObservedInOrder
<1>5. Alerts!Number' = Alerts!Number + 1
  BY <1>1, <1>4, NumberIs
<1>6. ASSUME NEW x \in Nat, x <= Alerts!Number
      PROVE  Alerts!AcceptedBefore(x)' = Alerts!AcceptedBefore(x)
  BY <1>1, <1>2, <1>3, <1>6 DEF Alerts!AcceptedBefore
<1>7. ASSUME outcome # "accepted"
      PROVE  Alerts!AcceptedBefore(Alerts!Number)' = Alerts!AcceptedBefore(Alerts!Number)
  BY <1>1, <1>2, <1>3, <1>5, <1>7 DEF Alerts!AcceptedBefore
<1>8. observed' \subseteq Observation /\ \A p \in observed' : p.n <= Alerts!Number /\ p.at <= now
  BY <1>1, <1>2, <1>3 DEF ObservedInOrder
<1> QED
  BY <1>1, <1>3, <1>4, <1>5, <1>6, <1>7, <1>8

(* Messages that an observation sends. *)
LEMMA MessagesStep ==
  ASSUME Alerts!AlertAssumption, ObservedInOrder, MessagesAreEarned, series \in SeriesOf,
         series.alerted => Alerted,
         NEW outcome \in {"loss", "failed", "accepted"},
         observed' = observed \cup {[n |-> Alerts!Number, at |-> now, outcome |-> outcome]},
         now' = now, NEW msgs \in SUBSET Alerts!Message, sent' = sent \cup msgs,
         \A m \in msgs : m.which = Alerts!Number /\ m.at = now,
         \A m \in msgs : m.kind = "back" => series.alerted,
         \A m \in msgs : m.kind = "still_failing" =>
           series.alerted /\ now - series.last >= Reminder,
         series'.alerted =>
           /\ outcome # "accepted"
           /\ series.alerted \/ \E m \in msgs : m.kind = "failing"
           /\ \/ series'.last = now
              \/ /\ series.alerted /\ series'.last = series.last
                 /\ \A m \in msgs : m.kind \notin {"failing", "still_failing"}
  PROVE  ObservedInOrder' /\ MessagesAreEarned' /\ (series'.alerted => Alerted')
<1> DEFINE N == Alerts!Number
<1>1. /\ N \in Nat /\ Alerts!Number' = N + 1
      /\ observed' \subseteq Observation /\ IsFiniteSet(observed')
      /\ \A p \in observed' : p.n <= N /\ p.at <= now
      /\ \A x \in Nat : x <= N => Alerts!AcceptedBefore(x)' = Alerts!AcceptedBefore(x)
      /\ outcome # "accepted" => Alerts!AcceptedBefore(Alerts!Number)' = Alerts!AcceptedBefore(N)
  BY ObservedOne
<1>2. /\ now \in Nat /\ Reminder \in Nat /\ series.last \in Nat
      /\ \A m \in sent : m.which \in Nat /\ m.which < N /\ m.at \in Nat /\ m.at <= now
  BY NumbersBefore DEF ObservedInOrder, Alerts!AlertAssumption, SeriesOf
<1>3. Cardinality(observed') = N
  <2>1. Cardinality(observed') \in Nat
    BY <1>1, FS_CardinalityType
  <2> QED
    BY <1>1, <2>1, NumberIs
<1>4. ObservedInOrder'
  <2>1. sent' \subseteq Alerts!Message /\ \A m \in sent' : m.which <= N /\ m.at <= now
    BY <1>1, <1>2 DEF ObservedInOrder
  <2> QED
    BY <1>1, <1>2, <1>3, <2>1 DEF ObservedInOrder
<1> HIDE DEF N
<1>5. ASSUME NEW k \in sent, NEW m \in sent
      PROVE  Alerts!About(k, m)' <=> Alerts!About(k, m)
  <2>1. k.which <= N /\ m.which <= N /\ k.which \in Nat /\ m.which \in Nat
    BY <1>1, <1>2
  <2> QED
    BY <1>1, <2>1 DEF Alerts!About
<1>6. ASSUME NEW k \in sent, NEW m \in msgs
      PROVE  Alerts!About(k, m)' <=> Alerts!AcceptedBefore(k.which) = Alerts!AcceptedBefore(N)
  <2>1. k.which < N /\ k.which <= N /\ k.which \in Nat /\ N <= N /\ m.which = N
    BY <1>1, <1>2 DEF N
  <2> QED
    BY <1>1, <2>1 DEF Alerts!About
<1>7. ASSUME NEW k \in msgs, NEW m \in sent'
      PROVE  ~Alerts!About(k, m)'
  <2>1. k.which = N /\ m.which \in Nat /\ m.which <= N
    BY <1>1, <1>2 DEF N
  <2> QED
    BY <1>1, <2>1 DEF Alerts!About
<1>8. MessagesAreEarned'
  <2> SUFFICES ASSUME NEW m \in sent'
               PROVE  /\ m.kind = "back" =>
                           \E k \in sent' : Alerts!About(k, m)' /\ k.kind = "failing"
                      /\ m.kind = "still_failing" =>
                           \A k \in sent' :
                             Alerts!About(k, m)' /\ k.kind \in {"failing", "still_failing"}
                               => m.at - k.at >= Reminder
    BY DEF MessagesAreEarned
  <2>1. CASE m \in sent
    BY <1>5, <1>7, <2>1 DEF MessagesAreEarned
  <2>2. CASE m \in msgs
    <3>1. m.kind = "back" => \E k \in sent : Alerts!About(k, m)' /\ k.kind = "failing"
      BY <1>6, <2>2 DEF Alerted, N
    <3>2. ASSUME m.kind = "still_failing", NEW k \in sent, k.kind \in {"failing", "still_failing"}
          PROVE  m.at - k.at >= Reminder
      <4>1. now - series.last >= Reminder /\ k.at <= series.last /\ m.at = now /\ k.at \in Nat
        BY <1>2, <2>2, <3>2 DEF Alerted
      <4> QED
        BY <1>2, <4>1
    <3> QED
      BY <1>7, <2>2, <3>1, <3>2
  <2> QED
    BY <2>1, <2>2
<1>9. ASSUME series'.alerted
      PROVE  Alerted'
  <2>1. \E k \in sent' : /\ k.kind = "failing"
                         /\ Alerts!AcceptedBefore(k.which)'
                              = Alerts!AcceptedBefore(Alerts!Number)'
    <3>1. CASE series.alerted
      <4>1. PICK k \in sent : /\ k.kind = "failing"
                              /\ Alerts!AcceptedBefore(k.which) = Alerts!AcceptedBefore(N)
        BY <3>1 DEF Alerted, N
      <4>2. k.which \in Nat /\ k.which <= N
        BY <1>1, <1>2
      <4> QED
        BY <1>1, <1>9, <4>1, <4>2
    <3>2. CASE \E m \in msgs : m.kind = "failing"
      <4>1. PICK m \in msgs : m.kind = "failing"
        BY <3>2
      <4>2. m.which = N /\ N <= N
        BY <1>1 DEF N
      <4> QED
        BY <1>1, <1>9, <4>1, <4>2
    <3> QED
      BY <1>9, <3>1, <3>2
  <2>2. \A k \in sent' : k.kind \in {"failing", "still_failing"} => k.at <= series'.last
    <3>1. CASE series'.last = now
      BY <1>2, <3>1
    <3>2. CASE series.alerted /\ series'.last = series.last
               /\ \A m \in msgs : m.kind \notin {"failing", "still_failing"}
      BY <3>2 DEF Alerted
    <3> QED
      BY <1>9, <3>1, <3>2
  <2> QED
    BY <2>1, <2>2 DEF Alerted
<1> QED
  BY <1>4, <1>8, <1>9

(* An expired window tells its buffer. *)
LEMMA FlushedIs ==
  ASSUME ObservedInOrder, loss \in LossWindows
  PROVE  /\ Alerts!Flushed \in SUBSET Alerts!Message
         /\ \A m \in Alerts!Flushed :
              m.which = Alerts!Number /\ m.at = now /\ m.kind = "more_lost"
         /\ Alerts!Open \in LossWindows
         /\ \A n \in loss.buffered :
              n \in UNION {m.about : m \in Alerts!Flushed} \/ n \in Alerts!Open.buffered
<1>1. Alerts!Number \in Nat /\ now \in Nat /\ loss.buffered \in SUBSET Nat
  BY NumbersBefore DEF ObservedInOrder, LossWindows
<1>2. Alerts!NoLoss \in LossWindows
  BY DEF Alerts!NoLoss, LossWindows
<1>3. Alerts!Msg("more_lost", loss.buffered) \in Alerts!Message
  BY <1>1 DEF Alerts!Msg, Alerts!Message, Alerts!Kinds
<1>4. /\ Alerts!Flushed \in SUBSET Alerts!Message
      /\ \A m \in Alerts!Flushed :
           m.which = Alerts!Number /\ m.at = now /\ m.kind = "more_lost"
  BY <1>3 DEF Alerts!Flushed, Alerts!Msg
<1>5. ASSUME NEW n \in loss.buffered, Alerts!Expired
      PROVE  n \in UNION {m.about : m \in Alerts!Flushed}
  <2>1. Alerts!Flushed = {Alerts!Msg("more_lost", loss.buffered)}
    BY <1>5 DEF Alerts!Flushed
  <2>2. Alerts!Msg("more_lost", loss.buffered).about = loss.buffered
    BY DEF Alerts!Msg
  <2> QED
    BY <2>1, <2>2
<1> QED
  BY <1>2, <1>4, <1>5 DEF Alerts!Open

(* The messages sent beside what was flushed. *)
LEMMA MsgIs ==
  ASSUME ObservedInOrder, NEW kind \in Alerts!Kinds, NEW about \in SUBSET Nat,
         NEW msg, msg = Alerts!Msg(kind, about)
  PROVE  msg \in Alerts!Message /\ msg.which = Alerts!Number /\ msg.at = now /\ msg.kind = kind
<1>1. now \in Nat /\ Alerts!Number \in Nat
  BY NumbersBefore DEF ObservedInOrder
<1> QED
  BY <1>1 DEF Alerts!Msg, Alerts!Message

LEMMA FlushedAnd ==
  ASSUME ObservedInOrder, loss \in LossWindows, NEW msgs \in SUBSET Alerts!Message,
         \A m \in msgs : m.which = Alerts!Number /\ m.at = now
  PROVE  /\ Alerts!Flushed \cup msgs \in SUBSET Alerts!Message
         /\ \A m \in Alerts!Flushed \cup msgs : m.which = Alerts!Number /\ m.at = now
         /\ \A m \in Alerts!Flushed \cup msgs : m.kind = "more_lost" \/ m \in msgs
  BY FlushedIs

LEMMA LossInv ==
  ASSUME Alerts!AlertAssumption, AlertInv, Alerts!Observe("loss")
  PROVE  AlertInv'
<1> DEFINE N == Alerts!Number
           o == [n |-> N, at |-> now, outcome |-> "loss"]
           msgs == IF Alerts!Open.open THEN {} ELSE {Alerts!Msg("lost", {N})}
           told == UNION {m.about : m \in Alerts!Flushed}
<1>1. /\ observed' = observed \cup {o} /\ UNCHANGED <<now, restarted, series>>
      /\ sent' = sent \cup (Alerts!Flushed \cup msgs)
      /\ reported' = reported \cup told \cup (IF Alerts!Open.open THEN {} ELSE {N})
      /\ loss' = IF Alerts!Open.open
                 THEN [Alerts!Open EXCEPT !.buffered = @ \cup {N}]
                 ELSE [open |-> TRUE, start |-> now, buffered |-> {}]
  <2>1. Alerts!ObserveLoss(N)
    BY DEF Alerts!Observe
  <2>2. observed' = observed \cup {o} /\ UNCHANGED <<now, restarted>>
    BY DEF Alerts!Observe
  <2> QED
    BY <2>1, <2>2 DEF Alerts!ObserveLoss
<1>2. /\ ObservedInOrder /\ loss \in LossWindows /\ series \in SeriesOf /\ restarted \in Nat
      /\ N \in Nat /\ now \in Nat
  BY NumbersBefore DEF AlertInv, ObservedInOrder
<1>3. /\ Alerts!Flushed \cup msgs \in SUBSET Alerts!Message
      /\ \A m \in Alerts!Flushed \cup msgs : m.which = N /\ m.at = now
      /\ \A m \in Alerts!Flushed \cup msgs : m.kind \in {"more_lost", "lost"}
  <2>1. "lost" \in Alerts!Kinds /\ {N} \in SUBSET Nat
    BY <1>2 DEF Alerts!Kinds
  <2> DEFINE msg == Alerts!Msg("lost", {N})
  <2>2. msgs \in SUBSET {msg}
    OBVIOUS
  <2>3. msg \in Alerts!Message /\ msg.which = N /\ msg.at = now /\ msg.kind = "lost"
    BY <1>2, <2>1, MsgIs
  <2> HIDE DEF msgs, msg
  <2>4. /\ Alerts!Flushed \cup msgs \in SUBSET Alerts!Message
        /\ \A m \in Alerts!Flushed \cup msgs : m.which = N /\ m.at = now
        /\ \A m \in Alerts!Flushed \cup msgs : m.kind = "more_lost" \/ m \in msgs
    BY <1>2, <2>2, <2>3, FlushedAnd
  <2> QED
    BY <2>2, <2>3, <2>4
<1>4. /\ Alerts!Open \in LossWindows
      /\ \A n \in loss.buffered : n \in told \/ n \in Alerts!Open.buffered
  BY <1>2, FlushedIs
<1> HIDE DEF msgs, told, N
<1>5. ObservedInOrder' /\ MessagesAreEarned' /\ (series'.alerted => Alerted')
  <2>1. \A m \in Alerts!Flushed \cup msgs : m.kind \notin {"back", "failing", "still_failing"}
    BY <1>3
  <2> QED
    BY <1>1, <1>2, <1>3, <2>1, MessagesStep DEF AlertInv, N
<1>6. loss' \in LossWindows /\ (~loss'.open => loss'.buffered = {})
  BY <1>1, <1>2, <1>4 DEF LossWindows
<1>7. Alerts!NoLossIsForgotten'
  <2> SUFFICES ASSUME restarted = 0, NEW n \in Alerts!Lost'
               PROVE  n \in reported' \/ n \in loss'.buffered
    BY <1>1 DEF Alerts!NoLossIsForgotten
  <2>1. n \in Alerts!Lost \/ n = N
    BY <1>1 DEF Alerts!Lost
  <2>2. n \in reported \/ n \in told \/ n \in Alerts!Open.buffered \/ n = N
    BY <1>4, <2>1 DEF AlertInv, Alerts!NoLossIsForgotten
  <2>3. CASE Alerts!Open.open
    <3>1. loss'.buffered = Alerts!Open.buffered \cup {N}
      BY <1>1, <1>4, <2>3 DEF LossWindows
    <3> QED
      BY <1>1, <2>2, <3>1
  <2>4. CASE ~Alerts!Open.open
    <3>1. n \in Alerts!Open.buffered => FALSE
      BY <1>2, <2>4 DEF AlertInv, Alerts!Open, Alerts!NoLoss
    <3> QED
      BY <1>1, <2>2, <2>4, <3>1
  <2> QED
    BY <2>3, <2>4
<1>8. Failures' = Failures
  <2>1. o.outcome = "loss"
    OBVIOUS
  <2> QED
    BY <1>1, <2>1 DEF Failures
<1>9. SeriesInv'
  BY <1>1, <1>8 DEF AlertInv, SeriesInv, LongOrOld
<1> QED
  BY <1>1, <1>2, <1>5, <1>6, <1>7, <1>9 DEF AlertInv

(* What a failure or an acceptance leaves of the losses. *)
LEMMA LossesWait ==
  ASSUME AlertInv, NEW o, o.outcome # "loss", observed' = observed \cup {o},
         restarted' = restarted, loss' = Alerts!Open,
         reported' = reported \cup UNION {m.about : m \in Alerts!Flushed}
  PROVE  /\ loss' \in LossWindows /\ (~loss'.open => loss'.buffered = {})
         /\ Alerts!NoLossIsForgotten'
<1>1. /\ Alerts!Open \in LossWindows
      /\ \A n \in loss.buffered :
           n \in UNION {m.about : m \in Alerts!Flushed} \/ n \in Alerts!Open.buffered
  BY FlushedIs DEF AlertInv
<1>2. ~Alerts!Open.open => Alerts!Open.buffered = {}
  BY DEF AlertInv, Alerts!Open, Alerts!NoLoss
<1>3. Alerts!Lost' = Alerts!Lost
  BY DEF Alerts!Lost
<1>4. Alerts!NoLossIsForgotten'
  BY <1>1, <1>3 DEF AlertInv, Alerts!NoLossIsForgotten
<1> QED
  BY <1>1, <1>2, <1>4

(* A failure adds itself to the series. *)
LEMMA SeriesGrows ==
  ASSUME Alerts!AlertAssumption, AlertInv, restarted = 0, restarted' = 0,
         NEW o, o = [n |-> Alerts!Number, at |-> now, outcome |-> "failed"],
         observed' = observed \cup {o}, now' = now
  PROVE  /\ Cardinality(Failures') = Alerts!Failing.count /\ Failures' # {}
         /\ \E p \in Failures' : p.at = Alerts!Failing.first
         /\ \A p \in Failures' : Alerts!Failing.first <= p.at
         /\ LongOrOld' <=> series.alerted \/ Alerts!Due
<1>1. /\ \A p \in observed : p.n < Alerts!Number /\ p.at \in Nat /\ p.at <= now
      /\ o \notin observed /\ o.outcome = "failed" /\ o.at = now /\ o.n = Alerts!Number
      /\ now \in Nat /\ Alerts!Number \in Nat
  BY NumbersBefore DEF AlertInv, ObservedInOrder
<1>2. Failures' = Failures \cup {o} /\ o \notin Failures
  BY <1>1 DEF Failures
<1>3. IsFiniteSet(Failures) /\ Cardinality(Failures) \in Nat
  BY FailuresAre DEF AlertInv
<1>4. Cardinality(Failures') = Cardinality(Failures) + 1
  BY <1>2, <1>3, FS_AddElement
<1>5. /\ series \in SeriesOf /\ series.count = Cardinality(Failures)
      /\ series.open <=> Failures # {}
      /\ series.open =>
           (\E p \in Failures : p.at = series.first) /\ \A p \in Failures : series.first <= p.at
      /\ series.alerted <=> LongOrOld
  BY DEF AlertInv, SeriesInv
<1>6. /\ Alerts!Failing.count = Cardinality(Failures) + 1
      /\ series.open => Alerts!Failing.first = series.first
      /\ ~series.open => Alerts!Failing.first = now
  <2>1. CASE series.open
    BY <1>5, <2>1 DEF Alerts!Failing, SeriesOf
  <2>2. CASE ~series.open
    <3>1. Cardinality(Failures) = 0
      BY <1>5, <2>2, FS_EmptySet
    <3> QED
      BY <1>5, <2>2, <3>1 DEF Alerts!Failing
  <2> QED
    BY <2>1, <2>2
<1>7. \A p \in Failures : p \in observed
  BY DEF Failures
<1>8. /\ \E p \in Failures' : p.at = Alerts!Failing.first
      /\ \A p \in Failures' : Alerts!Failing.first <= p.at
  <2>1. CASE series.open
    BY <1>1, <1>2, <1>5, <1>6, <1>7, <2>1
  <2>2. CASE ~series.open
    BY <1>1, <1>2, <1>5, <1>6, <2>2
  <2> QED
    BY <2>1, <2>2
<1>9. /\ SeriesWindow \in Nat \ {0} /\ SeriesCount \in Nat \ {0}
  BY DEF Alerts!AlertAssumption
<1>10. Alerts!Failing.first \in Nat
  BY <1>1, <1>2, <1>7, <1>8
<1>11. ASSUME LongOrOld'
       PROVE  series.alerted \/ Alerts!Due
  <2>1. CASE Cardinality(Failures') >= SeriesCount
    BY <1>4, <1>6, <2>1 DEF Alerts!Due
  <2>2. CASE \E p, q \in Failures' : p.at - q.at >= SeriesWindow
    <3>1. PICK p \in Failures', q \in Failures' : p.at - q.at >= SeriesWindow
      BY <2>2
    <3>2. /\ p.at \in Nat /\ q.at \in Nat /\ p.at <= now
          /\ Alerts!Failing.first <= q.at
      BY <1>1, <1>2, <1>7, <1>8
    <3>3. now - Alerts!Failing.first >= SeriesWindow
      BY <1>1, <1>9, <1>10, <3>1, <3>2
    <3> QED
      BY <3>3 DEF Alerts!Due
  <2> QED
    BY <1>11, <2>1, <2>2 DEF LongOrOld
<1>12. ASSUME series.alerted \/ Alerts!Due
       PROVE  LongOrOld'
  <2>1. CASE series.alerted
    <3>1. CASE Cardinality(Failures) >= SeriesCount
      BY <1>3, <1>4, <1>9, <3>1 DEF LongOrOld
    <3>2. CASE \E p, q \in Failures : p.at - q.at >= SeriesWindow
      BY <1>2, <3>2 DEF LongOrOld
    <3> QED
      BY <1>5, <2>1, <3>1, <3>2 DEF LongOrOld
  <2>2. CASE Alerts!Failing.count >= SeriesCount
    BY <1>4, <1>6, <2>2 DEF LongOrOld
  <2>3. CASE now - Alerts!Failing.first >= SeriesWindow
    <3>1. PICK q \in Failures' : q.at = Alerts!Failing.first
      BY <1>8
    <3>2. o \in Failures' /\ o.at - q.at >= SeriesWindow
      BY <1>1, <1>2, <2>3, <3>1
    <3> QED
      BY <3>2 DEF LongOrOld
  <2> QED
    BY <1>12, <2>1, <2>2, <2>3 DEF Alerts!Due
<1> QED
  BY <1>2, <1>4, <1>6, <1>8, <1>11, <1>12

LEMMA FailureInv ==
  ASSUME Alerts!AlertAssumption, AlertInv, Alerts!Observe("failed")
  PROVE  AlertInv'
<1> DEFINE N == Alerts!Number
           o == [n |-> N, at |-> now, outcome |-> "failed"]
           s == Alerts!Failing
<1>1. /\ observed' = observed \cup {o} /\ UNCHANGED <<now, restarted>>
      /\ Alerts!ObserveFailure(N)
  BY DEF Alerts!Observe
<1>2. /\ ObservedInOrder /\ loss \in LossWindows /\ series \in SeriesOf /\ restarted \in Nat
      /\ now \in Nat /\ {} \in SUBSET Nat
      /\ "failing" \in Alerts!Kinds /\ "still_failing" \in Alerts!Kinds
  BY DEF AlertInv, ObservedInOrder, Alerts!Kinds
<1>3. s \in SeriesOf /\ s.open /\ s.alerted = series.alerted
      /\ (series.alerted => s.last = series.last)
  <2>1. CASE series.open
    BY <1>2, <2>1 DEF Alerts!Failing, SeriesOf
  <2>2. CASE ~series.open
    <3>1. ~series.alerted
      BY <2>2 DEF AlertInv
    <3> QED
      BY <1>2, <2>2, <3>1 DEF Alerts!Failing, SeriesOf
  <2> QED
    BY <2>1, <2>2
<1> HIDE DEF s, N
<1>4. PICK msgs :
        /\ sent' = sent \cup (Alerts!Flushed \cup msgs)
        /\ loss' = Alerts!Open
        /\ reported' = reported \cup UNION {m.about : m \in Alerts!Flushed}
        /\ \/ /\ ~s.alerted /\ ~Alerts!Due /\ series' = s /\ msgs = {}
           \/ /\ ~s.alerted /\ Alerts!Due
              /\ series' = [s EXCEPT !.alerted = TRUE, !.last = now]
              /\ msgs = {Alerts!Msg("failing", {})}
           \/ /\ s.alerted /\ now - s.last < Reminder /\ series' = s /\ msgs = {}
           \/ /\ s.alerted /\ now - s.last >= Reminder
              /\ series' = [s EXCEPT !.last = now]
              /\ msgs = {Alerts!Msg("still_failing", {})}
  <2>1. \E m : Alerts!Sends(m) /\
        (\/ /\ ~s.alerted /\ ~Alerts!Due /\ series' = s /\ m = {}
         \/ /\ ~s.alerted /\ Alerts!Due
            /\ series' = [s EXCEPT !.alerted = TRUE, !.last = now]
            /\ m = {Alerts!Msg("failing", {})}
         \/ /\ s.alerted /\ now - s.last < Reminder /\ series' = s /\ m = {}
         \/ /\ s.alerted /\ now - s.last >= Reminder
            /\ series' = [s EXCEPT !.last = now]
            /\ m = {Alerts!Msg("still_failing", {})})
    BY <1>1 DEF Alerts!ObserveFailure, Alerts!Reminded, s
  <2> QED
    BY <2>1 DEF Alerts!Sends
<1>5. /\ Alerts!Flushed \cup msgs \in SUBSET Alerts!Message
      /\ \A m \in Alerts!Flushed \cup msgs : m.which = N /\ m.at = now
      /\ \A m \in Alerts!Flushed \cup msgs : m.kind # "back"
      /\ \A m \in Alerts!Flushed \cup msgs : m.kind = "still_failing" =>
           s.alerted /\ now - s.last >= Reminder
      /\ series' \in SeriesOf /\ series'.open /\ series'.count = s.count /\ series'.first = s.first
      /\ series'.alerted <=> (s.alerted \/ Alerts!Due)
      /\ \/ s.alerted \/ ~series'.alerted \/ \E m \in msgs : m.kind = "failing"
      /\ \/ ~series'.alerted
         \/ series'.last = now
         \/ /\ s.alerted /\ series'.last = s.last
            /\ \A m \in Alerts!Flushed \cup msgs : m.kind = "more_lost"
  <2>1. CASE series' = s /\ msgs = {} /\ (~s.alerted => ~Alerts!Due)
    <3>1. Alerts!Flushed \cup msgs = Alerts!Flushed
      BY <2>1
    <3>2. /\ Alerts!Flushed \in SUBSET Alerts!Message
          /\ \A m \in Alerts!Flushed : m.which = N /\ m.at = now /\ m.kind = "more_lost"
      BY <1>2, FlushedIs DEF N
    <3>3. /\ series' \in SeriesOf /\ series'.open /\ series'.count = s.count
          /\ series'.first = s.first /\ series'.last = s.last
      BY <1>3, <2>1
    <3>4. series'.alerted <=> (s.alerted \/ Alerts!Due)
      <4>1. s.alerted \in BOOLEAN /\ series'.alerted = s.alerted
        BY <1>3, <2>1 DEF SeriesOf
      <4> QED
        BY <2>1, <4>1
    <3> QED
      BY <2>1, <3>1, <3>2, <3>3, <3>4
  <2>2. CASE /\ ~s.alerted /\ Alerts!Due
             /\ series' = [s EXCEPT !.alerted = TRUE, !.last = now]
             /\ msgs = {Alerts!Msg("failing", {})}
    <3> DEFINE msg == Alerts!Msg("failing", {})
    <3>1. msg \in Alerts!Message /\ msg.which = N /\ msg.at = now /\ msg.kind = "failing"
      BY <1>2, MsgIs DEF N
    <3>2. /\ series' \in SeriesOf /\ series'.open /\ series'.count = s.count
          /\ series'.first = s.first /\ series'.alerted = TRUE /\ series'.last = now
      BY <1>2, <1>3, <2>2 DEF SeriesOf
    <3>3. msgs = {msg}
      BY <2>2
    <3> HIDE DEF msg
    <3>4. /\ Alerts!Flushed \cup msgs \in SUBSET Alerts!Message
          /\ \A m \in Alerts!Flushed \cup msgs : m.which = N /\ m.at = now
          /\ \A m \in Alerts!Flushed \cup msgs : m.kind = "more_lost" \/ m \in msgs
      <4>1. msgs \in SUBSET Alerts!Message /\ \A m \in msgs : m.which = N /\ m.at = now
        BY <3>1, <3>3
      <4> QED
        BY <1>2, <4>1, FlushedAnd DEF N
    <3> QED
      BY <2>2, <3>1, <3>2, <3>3, <3>4
  <2>3. CASE /\ s.alerted /\ now - s.last >= Reminder
             /\ series' = [s EXCEPT !.last = now]
             /\ msgs = {Alerts!Msg("still_failing", {})}
    <3> DEFINE msg == Alerts!Msg("still_failing", {})
    <3>1. msg \in Alerts!Message /\ msg.which = N /\ msg.at = now /\ msg.kind = "still_failing"
      BY <1>2, MsgIs DEF N
    <3>2. /\ series' \in SeriesOf /\ series'.open /\ series'.count = s.count
          /\ series'.first = s.first /\ series'.alerted = TRUE /\ series'.last = now
      BY <1>2, <1>3, <2>3 DEF SeriesOf
    <3>3. msgs = {msg}
      BY <2>3
    <3> HIDE DEF msg
    <3>4. /\ Alerts!Flushed \cup msgs \in SUBSET Alerts!Message
          /\ \A m \in Alerts!Flushed \cup msgs : m.which = N /\ m.at = now
          /\ \A m \in Alerts!Flushed \cup msgs : m.kind = "more_lost" \/ m \in msgs
      <4>1. msgs \in SUBSET Alerts!Message /\ \A m \in msgs : m.which = N /\ m.at = now
        BY <3>1, <3>3
      <4> QED
        BY <1>2, <4>1, FlushedAnd DEF N
    <3> QED
      BY <2>3, <3>1, <3>2, <3>3, <3>4
  <2> QED
    BY <1>4, <2>1, <2>2, <2>3
<1>6. ObservedInOrder' /\ MessagesAreEarned' /\ (series'.alerted => Alerted')
  <2>1. series'.alerted =>
          /\ series.alerted \/ \E m \in Alerts!Flushed \cup msgs : m.kind = "failing"
          /\ \/ series'.last = now
             \/ /\ series.alerted /\ series'.last = series.last
                /\ \A m \in Alerts!Flushed \cup msgs : m.kind \notin {"failing", "still_failing"}
    BY <1>3, <1>5
  <2>2. \A m \in Alerts!Flushed \cup msgs : m.kind = "still_failing" =>
          series.alerted /\ now - series.last >= Reminder
    BY <1>3, <1>5
  <2>3. observed' = observed \cup {[n |-> Alerts!Number, at |-> now, outcome |-> "failed"]}
    BY <1>1 DEF N
  <2> QED
    BY <1>1, <1>2, <1>4, <1>5, <2>1, <2>2, <2>3, MessagesStep DEF AlertInv, N
<1>7. /\ loss' \in LossWindows /\ (~loss'.open => loss'.buffered = {})
      /\ Alerts!NoLossIsForgotten'
  <2>1. o.outcome # "loss"
    OBVIOUS
  <2> QED
    BY <1>1, <1>4, <2>1, LossesWait
<1>8. SeriesInv'
  <2> SUFFICES ASSUME restarted = 0
               PROVE  /\ series'.count = Cardinality(Failures')
                      /\ series'.open <=> Failures' # {}
                      /\ series'.open => /\ \E p \in Failures' : p.at = series'.first
                                         /\ \A p \in Failures' : series'.first <= p.at
                      /\ series'.alerted <=> LongOrOld'
    BY <1>1 DEF SeriesInv
  <2>1. /\ Cardinality(Failures') = s.count /\ Failures' # {}
        /\ \E p \in Failures' : p.at = s.first
        /\ \A p \in Failures' : s.first <= p.at
        /\ LongOrOld' <=> series.alerted \/ Alerts!Due
    BY <1>1, SeriesGrows DEF s, N
  <2> QED
    BY <1>3, <1>5, <2>1
<1> QED
  BY <1>1, <1>2, <1>5, <1>6, <1>7, <1>8 DEF AlertInv

LEMMA AcceptanceInv ==
  ASSUME Alerts!AlertAssumption, AlertInv, Alerts!Observe("accepted")
  PROVE  AlertInv'
<1> DEFINE N == Alerts!Number
           o == [n |-> N, at |-> now, outcome |-> "accepted"]
           msg == Alerts!Msg("back", {})
           msgs == IF series.alerted THEN {msg} ELSE {}
<1>1. /\ observed' = observed \cup {o} /\ UNCHANGED <<now, restarted>>
      /\ series' = Alerts!NoSeries /\ loss' = Alerts!Open
      /\ sent' = sent \cup (Alerts!Flushed \cup msgs)
      /\ reported' = reported \cup UNION {m.about : m \in Alerts!Flushed}
  <2>1. Alerts!ObserveAccepted(N)
    BY DEF Alerts!Observe
  <2>2. observed' = observed \cup {o} /\ UNCHANGED <<now, restarted>>
    BY DEF Alerts!Observe
  <2> QED
    BY <2>1, <2>2 DEF Alerts!ObserveAccepted, Alerts!Sends
<1>2. /\ ObservedInOrder /\ loss \in LossWindows /\ series \in SeriesOf /\ restarted \in Nat
      /\ now \in Nat /\ {} \in SUBSET Nat /\ "back" \in Alerts!Kinds
  BY DEF AlertInv, ObservedInOrder, Alerts!Kinds
<1>3. /\ series' \in SeriesOf /\ ~series'.alerted /\ ~series'.open /\ series'.count = 0
  BY <1>1 DEF Alerts!NoSeries, SeriesOf
<1>4. msg \in Alerts!Message /\ msg.which = N /\ msg.at = now /\ msg.kind = "back"
  BY <1>2, MsgIs
<1>5. msgs \in SUBSET Alerts!Message /\ msgs \in SUBSET {msg} /\ (msgs # {} => series.alerted)
  BY <1>4
<1> HIDE DEF msg, msgs
<1>6. /\ Alerts!Flushed \cup msgs \in SUBSET Alerts!Message
      /\ \A m \in Alerts!Flushed \cup msgs : m.which = N /\ m.at = now
      /\ \A m \in Alerts!Flushed \cup msgs : m.kind = "more_lost" \/ m \in msgs
  BY <1>2, <1>4, <1>5, FlushedAnd
<1>7. ObservedInOrder' /\ MessagesAreEarned' /\ (series'.alerted => Alerted')
  <2>1. \A m \in Alerts!Flushed \cup msgs :
          m.kind # "still_failing" /\ (m.kind = "back" => series.alerted)
    BY <1>4, <1>5, <1>6
  <2> QED
    BY <1>1, <1>2, <1>3, <1>6, <2>1, MessagesStep DEF AlertInv
<1>8. /\ loss' \in LossWindows /\ (~loss'.open => loss'.buffered = {})
      /\ Alerts!NoLossIsForgotten'
  <2>1. o.outcome # "loss"
    OBVIOUS
  <2> QED
    BY <1>1, <2>1, LossesWait
<1>9. Failures' = {}
  <2>1. \A p \in observed : p.n < N /\ p.n \in Nat
    BY <1>2, NumbersBefore
  <2>2. o \in observed' /\ o.outcome = "accepted" /\ o.n = N /\ N \in Nat
    BY <1>1, <1>2, NumbersBefore
  <2>3. \A p \in observed' : ~(o.n < p.n)
    BY <1>1, <2>1, <2>2
  <2> QED
    BY <2>2, <2>3 DEF Failures
<1>10. SeriesInv'
  <2>1. Cardinality(Failures') = 0
    BY <1>9, FS_EmptySet
  <2>2. ~LongOrOld'
    BY <1>9, <2>1 DEF LongOrOld, Alerts!AlertAssumption
  <2> QED
    BY <1>3, <1>9, <2>1, <2>2 DEF SeriesInv
<1> QED
  BY <1>1, <1>2, <1>3, <1>7, <1>8, <1>10 DEF AlertInv

LEMMA AlertNext ==
  ASSUME Alerts!AlertAssumption, AlertInv, [Alerts!Next]_(Alerts!vars)
  PROVE  AlertInv'
<1>1. CASE UNCHANGED Alerts!vars \/ Alerts!Tick
  <2>1. /\ UNCHANGED <<loss, series, observed, reported, sent, restarted>>
        /\ now' \in Nat /\ now <= now'
    BY <1>1 DEF Alerts!vars, Alerts!Tick, AlertInv, ObservedInOrder
  <2>2. ObservedInOrder'
    <3>1. \A m \in sent : m.at \in Nat
      BY NumbersBefore DEF AlertInv
    <3>2. \A p \in observed : p.at \in Nat
      BY NumbersBefore DEF AlertInv
    <3> QED
      BY <2>1, <3>1, <3>2 DEF AlertInv, ObservedInOrder
  <2>3. Failures' = Failures
    BY <2>1 DEF Failures
  <2>4. Alerts!NoLossIsForgotten' /\ SeriesInv' /\ (series'.alerted => Alerted')
        /\ MessagesAreEarned'
    BY <2>1, <2>3, NumberIs DEF AlertInv, Alerts!NoLossIsForgotten, Alerts!Lost, SeriesInv,
       LongOrOld, Alerted, MessagesAreEarned, Alerts!About, Alerts!AcceptedBefore
  <2> QED
    BY <2>1, <2>2, <2>4 DEF AlertInv
<1>2. CASE Alerts!Restart
  <2>1. /\ loss' = Alerts!NoLoss /\ series' = Alerts!NoSeries /\ restarted' = restarted + 1
        /\ UNCHANGED <<now, observed, reported, sent>>
    BY <1>2 DEF Alerts!Restart
  <2>2. /\ restarted' \in Nat /\ restarted' # 0
        /\ loss' \in LossWindows /\ loss'.buffered = {}
        /\ series' \in SeriesOf /\ ~series'.alerted
    BY <2>1 DEF AlertInv, Alerts!NoLoss, Alerts!NoSeries, LossWindows, SeriesOf
  <2>3. ObservedInOrder' /\ MessagesAreEarned'
    BY <2>1 DEF AlertInv, ObservedInOrder, MessagesAreEarned, Alerts!About,
       Alerts!AcceptedBefore
  <2> QED
    BY <2>2, <2>3 DEF AlertInv, Alerts!NoLossIsForgotten, SeriesInv
<1>3. CASE \E o \in {"loss", "failed", "accepted"} : Alerts!Observe(o)
  BY <1>3, LossInv, FailureInv, AcceptanceInv
<1> QED
  BY <1>1, <1>2, <1>3 DEF Alerts!Next

(* The series is what failed: LongOrOld and Failures say what the property *)
(* does.                                                                   *)
LEMMA SeriesOfAlertInv ==
  ASSUME AlertInv
  PROVE  Alerts!SeriesIsWhatFailed
<1>1. Alerts!FailedSince = Failures
  BY FailuresAre DEF AlertInv
<1>2. Alerts!Cardinality(Alerts!FailedSince) = Cardinality(Failures)
  BY <1>1, SameCardinality
<1>3. restarted = 0 =>
        /\ series.count = Alerts!Cardinality(Alerts!FailedSince)
        /\ series.alerted <=>
             \/ Alerts!Cardinality(Alerts!FailedSince) >= SeriesCount
             \/ \E o, p \in Alerts!FailedSince : o.at - p.at >= SeriesWindow
  BY <1>1, <1>2 DEF AlertInv, SeriesInv, LongOrOld
<1> QED
  BY <1>3 DEF AlertInv, MessagesAreEarned, Alerts!SeriesIsWhatFailed

HIDE DEF loss, series, observed, reported, sent, restarted

---------------------------------------------------------------------------
(* The bodies above the cap.                                               *)

counting == s1
bodies == s2
lives == s3

USE DEF counting, bodies, lives

Body == [at : Nat, n : Nat, alarm : BOOLEAN]

RejectionTypes ==
  /\ now \in Nat /\ lives \in Nat
  /\ counting \in [start : Nat, n : Nat]
  /\ bodies \in Seq(Body)

(* The refusal that anchored the window of the j-th. *)
First(j) == j - bodies[j].n + 1

(* A refusal is numbered from the anchor of its window, which is less than *)
(* a window old.                                                           *)
Anchored(j) ==
  /\ bodies[j].n \in 1 .. j
  /\ bodies[j].alarm <=> bodies[j].n = Threshold
  /\ \A i \in First(j) .. j : bodies[i].n = i - First(j) + 1
  /\ bodies[j].at - bodies[First(j)].at < RefusalWindow

(* In one life of the process a window opens when the one before is over. *)
OpenedAfter(j) ==
  First(j) > 1 => bodies[First(j)].at - bodies[First(First(j) - 1)].at >= RefusalWindow

RejectionInv ==
  /\ RejectionTypes
  /\ \A i, j \in 1 .. Len(bodies) : i <= j => bodies[i].at <= bodies[j].at
  /\ \A j \in 1 .. Len(bodies) : bodies[j].at <= now
  /\ \A j \in 1 .. Len(bodies) : Anchored(j) /\ (lives = 0 => OpenedAfter(j))
  /\ counting.n # 0 =>
       /\ Len(bodies) > 0 /\ counting.n = bodies[Len(bodies)].n
       /\ counting.start = bodies[First(Len(bodies))].at
  /\ lives = 0 /\ counting.n = 0 => Len(bodies) = 0

LEMMA RejectionInit ==
  ASSUME Rejections!RejectionAssumption, Rejections!Init
  PROVE  RejectionInv
<1>1. bodies = << >> /\ Len(bodies) = 0 /\ counting = [start |-> 0, n |-> 0]
      /\ now = 0 /\ lives = 0
  BY DEF Rejections!Init, Rejections!NoWindow
<1>2. RejectionTypes
  BY <1>1 DEF RejectionTypes
<1> QED
  BY <1>1, <1>2 DEF RejectionInv

LEMMA RefuseInv ==
  ASSUME Rejections!RejectionAssumption, RejectionInv, Rejections!Refuse
  PROVE  RejectionInv'
<1>0. PICK L \in Nat : L = Len(bodies)
  BY DEF RejectionInv, RejectionTypes
<1> DEFINE w == Rejections!Counting
           body == [at |-> now, n |-> w.n + 1, alarm |-> w.n + 1 = Threshold]
<1>1. /\ counting' = [w EXCEPT !.n = w.n + 1]
      /\ bodies' = Append(bodies, body)
      /\ UNCHANGED <<now, lives>>
  BY DEF Rejections!Refuse
<1>2. /\ RejectionTypes /\ L \in Nat /\ L = Len(bodies)
      /\ Threshold \in Nat \ {0} /\ RefusalWindow \in Nat \ {0}
      /\ \A j \in 1 .. L : bodies[j].at \in Nat /\ bodies[j].n \in Nat
  <2>1. bodies \in Seq(Body) /\ RejectionTypes
    BY DEF RejectionInv, RejectionTypes
  <2>2. \A j \in 1 .. Len(bodies) : bodies[j] \in Body
    BY <2>1
  <2> QED
    BY <1>0, <2>1, <2>2 DEF Rejections!RejectionAssumption, Body
<1>3. /\ w \in [start : Nat, n : Nat]
      /\ w.n = 0 => w.start = now /\ (lives = 0 /\ L > 0 =>
           bodies[L].n = counting.n /\ counting.n # 0 /\ now - counting.start >= RefusalWindow)
      /\ w.n # 0 => w = counting /\ now - counting.start < RefusalWindow
  <2>1. CASE counting.n = 0 \/ now - counting.start >= RefusalWindow
    <3>1. w = [start |-> now, n |-> 0]
      BY <2>1 DEF Rejections!Counting
    <3> QED
      BY <1>2, <2>1, <3>1 DEF RejectionInv, RejectionTypes
  <2>2. CASE ~(counting.n = 0 \/ now - counting.start >= RefusalWindow)
    <3>1. w = counting
      BY <2>2 DEF Rejections!Counting
    <3> QED
      BY <1>2, <2>2, <3>1 DEF RejectionInv, RejectionTypes
  <2> QED
    BY <2>1, <2>2
<1> HIDE DEF w
<1>4. body \in Body
  BY <1>2, <1>3 DEF RejectionTypes, Body
<1>5. /\ bodies' \in Seq(Body) /\ Len(bodies') = L + 1
      /\ bodies'[L + 1] = body /\ \A j \in 1 .. L : bodies'[j] = bodies[j]
  BY <1>1, <1>2, <1>4 DEF RejectionTypes
<1>6. body.at = now /\ body.n = w.n + 1 /\ (body.alarm <=> body.n = Threshold)
  OBVIOUS
<1> HIDE DEF body
<1>7. \A j \in 1 .. L : First(j)' = First(j) /\ First(j) \in 1 .. j
  <2> SUFFICES ASSUME NEW j \in 1 .. L
               PROVE  First(j)' = First(j) /\ First(j) \in 1 .. j
    OBVIOUS
  <2>1. bodies'[j] = bodies[j]
    BY <1>5
  <2>2. bodies[j].n \in 1 .. j
    BY <1>2 DEF RejectionInv, Anchored
  <2> QED
    BY <1>2, <2>1, <2>2 DEF First
<1>8. First(L + 1)' = L + 1 - w.n /\ w.n \in 0 .. L
  <2>1. First(L + 1)' = (L + 1) - (w.n + 1) + 1
    <3>1. bodies'[L + 1].n = w.n + 1
      BY <1>5, <1>6
    <3> QED
      BY <3>1 DEF First
  <2>2. w.n \in 0 .. L
    BY <1>2, <1>3 DEF RejectionInv, Anchored
  <2>3. (L + 1) - (w.n + 1) + 1 = L + 1 - w.n
    BY <2>2
  <2> QED
    BY <2>1, <2>2, <2>3
<1>9. RejectionTypes'
  <2>1. counting' \in [start : Nat, n : Nat]
    BY <1>1, <1>3
  <2> QED
    BY <1>1, <1>2, <1>5, <2>1 DEF RejectionTypes
<1>10. /\ \A i, j \in 1 .. L + 1 : i <= j => bodies'[i].at <= bodies'[j].at
       /\ \A j \in 1 .. L + 1 : bodies'[j].at <= now
  <2>1. /\ \A i, j \in 1 .. L : i <= j => bodies[i].at <= bodies[j].at
        /\ \A j \in 1 .. L : bodies[j].at <= now
        /\ now \in Nat
    BY <1>2 DEF RejectionInv, RejectionTypes
  <2>2. \A j \in 1 .. L + 1 : j \in 1 .. L \/ j = L + 1
    BY <1>2
  <2>3. ASSUME NEW i \in 1 .. L + 1, NEW j \in 1 .. L + 1, i <= j
        PROVE  bodies'[i].at <= bodies'[j].at
    <3>1. CASE j = L + 1
      BY <1>2, <1>5, <1>6, <2>1, <2>2, <3>1
    <3>2. CASE i \in 1 .. L /\ j \in 1 .. L
      BY <1>5, <2>1, <2>3, <3>2
    <3> QED
      BY <1>2, <2>2, <2>3, <3>1, <3>2
  <2> QED
    BY <1>2, <1>5, <1>6, <2>1, <2>2, <2>3
<1>11. ASSUME NEW j \in 1 .. L
       PROVE  Anchored(j)' /\ (lives = 0 => OpenedAfter(j)')
  <2>1. Anchored(j) /\ (lives = 0 => OpenedAfter(j))
    BY <1>2 DEF RejectionInv
  <2>2. First(j) > 1 => First(j) - 1 \in 1 .. L /\ First(First(j) - 1) \in 1 .. L
    BY <1>2, <1>7
  <2>3. First(j) \in 1 .. L /\ j \in Nat /\ \A i \in First(j) .. j : i \in 1 .. L
    BY <1>2, <1>7
  <2>4. bodies'[j] = bodies[j] /\ First(j)' = First(j)
        /\ \A i \in First(j) .. j : bodies'[i] = bodies[i]
    BY <1>5, <1>7, <2>3
  <2>5. Anchored(j)'
    BY <1>5, <2>1, <2>3, <2>4 DEF Anchored
  <2>6. OpenedAfter(j) => OpenedAfter(j)'
    <3>1. First(j) > 1 => First(First(j) - 1)' = First(First(j) - 1)
      BY <1>7, <2>2
    <3> QED
      BY <1>5, <2>2, <2>3, <2>4, <3>1 DEF OpenedAfter
  <2> QED
    BY <2>1, <2>5, <2>6
<1>12. ASSUME Anchored(L + 1)', lives = 0 => OpenedAfter(L + 1)', counting'.n # 0,
              counting'.n = bodies'[L + 1].n, counting'.start = bodies'[First(L + 1)'].at
       PROVE  RejectionInv'
  <2>1. \A j \in 1 .. L + 1 : j \in 1 .. L \/ j = L + 1
    BY <1>2
  <2>2. \A j \in 1 .. L + 1 : Anchored(j)' /\ (lives = 0 => OpenedAfter(j)')
    BY <1>11, <1>12, <2>1
  <2>3. First(Len(bodies))' = First(L + 1)'
    BY <1>5 DEF First
  <2>4. /\ Len(bodies') > 0 /\ counting'.n = bodies'[Len(bodies')].n
        /\ counting'.start = bodies'[First(Len(bodies))'].at
    BY <1>2, <1>5, <1>12, <2>3
  <2> QED
    BY <1>1, <1>2, <1>5, <1>9, <1>10, <1>12, <2>2, <2>4 DEF RejectionInv
<1>13. CASE w.n = 0
  <2>1. First(L + 1)' = L + 1
    BY <1>2, <1>8, <1>13
  <2>2. Anchored(L + 1)'
    BY <1>2, <1>5, <1>6, <1>13, <2>1 DEF Anchored, RejectionTypes
  <2>3. lives = 0 => OpenedAfter(L + 1)'
    <3> SUFFICES ASSUME lives = 0, L > 0
                 PROVE  bodies'[L + 1].at - bodies'[First(L)'].at >= RefusalWindow
      BY <1>2, <2>1 DEF OpenedAfter
    <3>1. /\ counting.n # 0 /\ now - counting.start >= RefusalWindow
          /\ counting.start = bodies[First(L)].at
      BY <1>2, <1>3, <1>13 DEF RejectionInv
    <3>2. L \in 1 .. L /\ First(L)' = First(L) /\ First(L) \in 1 .. L
      BY <1>2, <1>7
    <3> QED
      BY <1>5, <1>6, <3>1, <3>2
  <2>4. counting'.n = 1 /\ counting'.start = now
    BY <1>1, <1>3, <1>13
  <2>5. counting'.n = bodies'[L + 1].n /\ counting'.start = bodies'[First(L + 1)'].at
    BY <1>5, <1>6, <1>13, <2>1, <2>4
  <2> QED
    BY <2>2, <2>3, <2>4, <2>5, <1>12
<1>14. CASE w.n # 0
  <2>1. /\ w = counting /\ counting.n # 0 /\ L > 0 /\ counting.n = bodies[L].n
        /\ counting.start = bodies[First(L)].at /\ now - counting.start < RefusalWindow
    BY <1>2, <1>3, <1>14 DEF RejectionInv
  <2>2. L \in 1 .. L /\ bodies[L].n \in Nat /\ Anchored(L) /\ (lives = 0 => OpenedAfter(L))
    BY <1>2, <2>1 DEF RejectionInv
  <2>3. First(L + 1)' = First(L) /\ First(L) \in 1 .. L
    BY <1>2, <1>7, <1>8, <2>1, <2>2 DEF First
  <2>4. Anchored(L + 1)'
    <3>1. bodies'[L + 1].n = bodies[L].n + 1 /\ bodies[L].n = L - First(L) + 1
      BY <1>2, <1>5, <1>6, <2>1, <2>2 DEF First
    <3>2. \A i \in First(L) .. L + 1 : bodies'[i].n = i - First(L) + 1
      <4>1. ASSUME NEW i \in First(L) .. L
            PROVE  bodies'[i].n = i - First(L) + 1
        BY <1>2, <1>5, <2>2, <2>3 DEF Anchored
      <4>2. bodies'[L + 1].n = (L + 1) - First(L) + 1
        BY <1>2, <2>3, <3>1
      <4>3. \A i \in First(L) .. L + 1 : i \in First(L) .. L \/ i = L + 1
        BY <1>2, <2>3
      <4> QED
        BY <4>1, <4>2, <4>3
    <3>3. bodies'[L + 1].at - bodies'[First(L)].at < RefusalWindow
      BY <1>5, <1>6, <2>1, <2>3
    <3>4. bodies'[L + 1].n \in 1 .. L + 1
      BY <1>2, <2>3, <3>1
    <3> QED
      BY <1>5, <1>6, <2>3, <3>2, <3>3, <3>4 DEF Anchored
  <2>5. lives = 0 => OpenedAfter(L + 1)'
    <3>1. OpenedAfter(L)' => OpenedAfter(L + 1)'
      <4>1. First(L)' = First(L)
        BY <1>7, <2>2
      <4> QED
        BY <2>3, <4>1 DEF OpenedAfter
    <3> QED
      BY <1>11, <2>2, <3>1
  <2>6. counting'.n = bodies'[L + 1].n /\ counting'.start = bodies'[First(L + 1)'].at
        /\ counting'.n # 0
    BY <1>1, <1>2, <1>3, <1>5, <1>6, <2>1, <2>2, <2>3
  <2> QED
    BY <2>4, <2>5, <2>6, <1>12
<1> QED
  BY <1>13, <1>14

LEMMA RejectionNext ==
  ASSUME Rejections!RejectionAssumption, RejectionInv, [Rejections!Next]_(Rejections!vars)
  PROVE  RejectionInv'
<1>1. CASE UNCHANGED Rejections!vars
  BY <1>1 DEF Rejections!vars, RejectionInv, RejectionTypes, Anchored, OpenedAfter, First
<1>2. CASE Rejections!Refuse
  BY <1>2, RefuseInv
<1>3. CASE Rejections!Tick
  <2>1. now' = now + 1 /\ UNCHANGED <<counting, bodies, lives>> /\ now \in Nat
    BY <1>3 DEF Rejections!Tick, RejectionInv, RejectionTypes
  <2>2. \A j \in 1 .. Len(bodies) : bodies[j].at \in Nat /\ bodies[j].at <= now'
    <3>1. bodies \in Seq(Body)
      BY DEF RejectionInv, RejectionTypes
    <3>2. \A j \in 1 .. Len(bodies) : bodies[j] \in Body
      BY <3>1
    <3>3. \A j \in 1 .. Len(bodies) : bodies[j].at \in Nat
      BY <3>2 DEF Body
    <3> QED
      BY <2>1, <3>3 DEF RejectionInv
  <2> QED
    BY <2>1, <2>2 DEF RejectionInv, RejectionTypes, Anchored, OpenedAfter, First
<1>4. CASE Rejections!Restart
  <2>1. /\ counting' = [start |-> 0, n |-> 0] /\ lives' = lives + 1
        /\ UNCHANGED <<now, bodies>> /\ lives \in Nat
    BY <1>4 DEF Rejections!Restart, Rejections!NoWindow, RejectionInv, RejectionTypes
  <2>2. RejectionTypes' /\ lives' # 0 /\ counting'.n = 0
    BY <2>1 DEF RejectionInv, RejectionTypes
  <2>3. \A j \in 1 .. Len(bodies) : Anchored(j)'
    BY <2>1 DEF RejectionInv, Anchored, First
  <2> QED
    BY <2>1, <2>2, <2>3 DEF RejectionInv
<1> QED
  BY <1>1, <1>2, <1>3, <1>4 DEF Rejections!Next

(* What the argument of BurstsAreTold knows of the refusals. *)
LEMMA Bodies ==
  ASSUME Rejections!RejectionAssumption, RejectionInv
  PROVE  /\ Len(bodies) \in Nat /\ Threshold \in Nat \ {0} /\ RefusalWindow \in Nat \ {0}
         /\ \A j \in 1 .. Len(bodies) :
              /\ bodies[j].at \in Nat /\ bodies[j].n \in Nat
              /\ First(j) \in 1 .. j /\ First(j) \in 1 .. Len(bodies)
              /\ bodies[j].n = j - First(j) + 1
              /\ Anchored(j) /\ (lives = 0 => OpenedAfter(j))
         /\ \A i, j \in 1 .. Len(bodies) : i <= j => bodies[i].at <= bodies[j].at
<1>1. /\ bodies \in Seq(Body) /\ Len(bodies) \in Nat
      /\ Threshold \in Nat \ {0} /\ RefusalWindow \in Nat \ {0}
  BY DEF RejectionInv, RejectionTypes, Rejections!RejectionAssumption
<1>2. \A j \in 1 .. Len(bodies) : bodies[j] \in Body
  BY <1>1
<1>3. ASSUME NEW j \in 1 .. Len(bodies)
      PROVE  /\ bodies[j].at \in Nat /\ bodies[j].n \in Nat
             /\ First(j) \in 1 .. j /\ First(j) \in 1 .. Len(bodies)
             /\ bodies[j].n = j - First(j) + 1
             /\ Anchored(j) /\ (lives = 0 => OpenedAfter(j))
  <2>1. bodies[j].at \in Nat /\ bodies[j].n \in Nat
    BY <1>2 DEF Body
  <2>2. Anchored(j) /\ (lives = 0 => OpenedAfter(j))
    BY DEF RejectionInv
  <2>3. bodies[j].n \in 1 .. j
    BY <2>2 DEF Anchored
  <2> QED
    BY <1>1, <2>1, <2>2, <2>3 DEF First
<1> QED
  BY <1>1, <1>3 DEF RejectionInv

LEMMA Later ==
  ASSUME Rejections!RejectionAssumption, RejectionInv,
         NEW i \in 1 .. Len(bodies), NEW j \in 1 .. Len(bodies), i <= j
  PROVE  bodies[i].at <= bodies[j].at /\ bodies[i].at \in Nat /\ bodies[j].at \in Nat
  BY Bodies

(* Every refusal of a window is numbered within it. *)
LEMMA SameWindow ==
  ASSUME Rejections!RejectionAssumption, RejectionInv,
         NEW j \in 1 .. Len(bodies), NEW i \in First(j) .. j
  PROVE  i \in 1 .. Len(bodies) /\ First(i) = First(j)
<1>1. i \in 1 .. Len(bodies)
  BY Bodies
<1>2. bodies[i].n = i - First(j) + 1 /\ bodies[i].n = i - First(i) + 1
  BY <1>1, Bodies DEF Anchored
<1> QED
  BY <1>1, <1>2, Bodies

(* The refusal that reaches the threshold alarms. *)
LEMMA ThresholdAlarms ==
  ASSUME Rejections!RejectionAssumption, RejectionInv,
         NEW j \in 1 .. Len(bodies), j - First(j) + 1 >= Threshold
  PROVE  \E k \in First(j) .. j : bodies[k].alarm /\ k = First(j) + Threshold - 1
<1> DEFINE k == First(j) + Threshold - 1
<1>1. k \in First(j) .. j
  BY Bodies
<1>2. k \in 1 .. Len(bodies) /\ First(k) = First(j)
  BY <1>1, SameWindow
<1>3. bodies[k].n = Threshold
  <2>1. bodies[k].n = k - First(k) + 1
    BY <1>2, Bodies
  <2> QED
    BY <1>2, <2>1, Bodies
<1>4. bodies[k].alarm
  BY <1>2, <1>3, Bodies DEF Anchored
<1> QED
  BY <1>1, <1>4

(* An alarm in the window of a refusal is less than a window before it. *)
LEMMA WithinItsWindow ==
  ASSUME Rejections!RejectionAssumption, RejectionInv,
         NEW i \in 1 .. Len(bodies), NEW k \in 1 .. Len(bodies), First(i) <= k
  PROVE  bodies[i].at - bodies[k].at < RefusalWindow
<1>1. bodies[i].at - bodies[First(i)].at < RefusalWindow
  BY Bodies DEF Anchored
<1>2. bodies[First(i)].at <= bodies[k].at
  BY Bodies
<1>3. First(i) \in 1 .. Len(bodies)
  BY Bodies
<1>4. bodies[i].at \in Nat /\ bodies[k].at \in Nat /\ bodies[First(i)].at \in Nat
      /\ RefusalWindow \in Nat
  BY <1>3, Bodies
<1> QED
  BY <1>1, <1>2, <1>4

LEMMA BurstsOfRejectionInv ==
  ASSUME Rejections!RejectionAssumption, RejectionInv
  PROVE  Rejections!BurstsAreTold
<1> DEFINE L == Len(bodies)
<1>1. ASSUME NEW j \in 1 .. L, bodies[j].alarm
      PROVE  /\ bodies[j].n = Threshold
             /\ j >= Threshold
             /\ bodies[j].at - bodies[j - Threshold + 1].at < RefusalWindow
  <2>1. bodies[j].n = Threshold
    BY <1>1, Bodies DEF Anchored
  <2>2. First(j) = j - Threshold + 1
    BY <2>1 DEF First
  <2> QED
    BY <2>1, <2>2, Bodies DEF Anchored
<1>2. ASSUME lives = 0, NEW i \in 1 .. L, NEW j \in 1 .. L,
             j - i >= 2 * Threshold - 2, bodies[j].at - bodies[i].at < RefusalWindow
      PROVE  \E k \in 1 .. j : bodies[k].alarm /\ bodies[i].at - bodies[k].at < RefusalWindow
  <2>0. /\ L \in Nat /\ Threshold \in Nat \ {0} /\ i <= j
        /\ First(j) \in 1 .. j /\ First(i) \in 1 .. i
        /\ First(j) \in 1 .. L /\ First(i) \in 1 .. L
    <3>1. L \in Nat /\ Threshold \in Nat \ {0} /\ First(j) \in 1 .. j /\ First(i) \in 1 .. i
      BY <1>2, Bodies
    <3> QED
      BY ONLY <3>1, <1>2
  <2>1. CASE First(j) <= i
    <3>1. First(i) = First(j)
      BY <2>0, <2>1, SameWindow
    <3>2. PICK k \in First(j) .. j : bodies[k].alarm
      BY <1>2, <2>0, <2>1, ThresholdAlarms
    <3>3. k \in 1 .. L /\ k \in 1 .. j /\ First(i) <= k
      BY <2>0, <3>1, <3>2
    <3> QED
      BY <3>2, <3>3, WithinItsWindow
  <2>2. CASE i < First(j)
    <3> DEFINE p == First(j) - 1
    <3>1. p \in 1 .. L /\ i <= p /\ p < j /\ First(p) \in 1 .. p /\ First(p) \in 1 .. L
      <4>1. p \in 1 .. L /\ i <= p /\ p < j
        BY <2>0, <2>2
      <4> QED
        BY <4>1, Bodies
    <3>2. bodies[First(j)].at - bodies[First(p)].at >= RefusalWindow
      BY <1>2, <2>0, <2>2, Bodies DEF OpenedAfter
    <3>3. ~(i <= First(p))
      <4>1. bodies[First(j)].at <= bodies[j].at
        BY <2>0, Later
      <4>2. i <= First(p) => bodies[i].at <= bodies[First(p)].at
        BY <3>1, Later
      <4>3. /\ bodies[First(j)].at \in Nat /\ bodies[j].at \in Nat
            /\ bodies[i].at \in Nat /\ bodies[First(p)].at \in Nat /\ RefusalWindow \in Nat
        <5> HIDE DEF p
        <5> QED
          BY <2>0, <3>1, Bodies
      <4>4. bodies[j].at - bodies[i].at < RefusalWindow
        BY <1>2
      <4>5. \A a, b, c, d, r \in Nat :
               c - b >= r /\ c <= d /\ d - a < r => ~(a <= b)
        OBVIOUS
      <4> HIDE DEF p
      <4> QED
        BY <3>2, <4>1, <4>2, <4>3, <4>4, <4>5
    <3>4. i \in First(p) .. p /\ First(i) = First(p)
      <4>1. i \in First(p) .. p
        BY <2>0, <3>1, <3>3
      <4> QED
        BY <3>1, <4>1, SameWindow
    <3> HIDE DEF p
    <3>5. CASE p - First(p) + 1 >= Threshold
      <4>1. PICK k \in First(p) .. p : bodies[k].alarm
        BY <3>1, <3>5, ThresholdAlarms
      <4>2. k \in 1 .. L /\ k \in 1 .. j /\ First(i) <= k
        BY <2>0, <3>1, <3>4, <4>1
      <4> QED
        BY <4>1, <4>2, WithinItsWindow
    <3>6. CASE j - First(j) + 1 >= Threshold
      <4>1. PICK k \in First(j) .. j : bodies[k].alarm
        BY <2>0, <3>6, ThresholdAlarms
      <4>2. k \in 1 .. L /\ k \in 1 .. j /\ First(i) <= k
        BY <2>0, <2>2, <4>1
      <4> QED
        BY <4>1, <4>2, WithinItsWindow
    <3>7. p - First(p) + 1 >= Threshold \/ j - First(j) + 1 >= Threshold
      BY <1>2, <2>0, <3>1, <3>4 DEF p
    <3> QED
      BY <3>5, <3>6, <3>7
  <2> QED
    BY <2>0, <2>1, <2>2
<1>3. ASSUME lives = 0, NEW i \in 1 .. L, NEW j \in 1 .. L, NEW k \in 1 .. L, i < j, j < k,
             bodies[i].alarm, bodies[j].alarm, bodies[k].alarm
      PROVE  bodies[k].at - bodies[i].at >= RefusalWindow
  <2>0. L \in Nat /\ Threshold \in Nat \ {0} /\ RefusalWindow \in Nat
    BY Bodies
  <2>1. /\ First(i) = i - Threshold + 1 /\ First(j) = j - Threshold + 1
        /\ First(k) = k - Threshold + 1
    BY <1>1, <1>3 DEF First
  <2>2. /\ First(i) \in 1 .. i /\ First(j) \in 1 .. j /\ First(k) \in 1 .. k /\ First(k) \in 1 .. L
    BY Bodies
  <2>3. ~(First(j) <= i)
    <3>1. ASSUME First(j) <= i
          PROVE  First(i) = First(j)
      BY <1>3, <2>2, <3>1, SameWindow
    <3> QED
      BY <1>3, <2>0, <2>1, <3>1
  <2>4. ~(First(k) <= j)
    <3>1. ASSUME First(k) <= j
          PROVE  First(j) = First(k)
      BY <1>3, <2>2, <3>1, SameWindow
    <3> QED
      BY <1>3, <2>0, <2>1, <3>1
  <2> DEFINE p == First(k) - 1
  <2>5. p \in 1 .. L /\ j <= p /\ First(p) \in 1 .. p /\ First(p) \in 1 .. L
    <3>1. p \in 1 .. L /\ j <= p
      BY <2>0, <2>2, <2>4
    <3> QED
      BY <3>1, Bodies
  <2>6. bodies[First(k)].at - bodies[First(p)].at >= RefusalWindow
    BY <1>3, <2>2, <2>4, Bodies DEF OpenedAfter
  <2> HIDE DEF p
  <2>7. i < First(p)
    <3>1. ASSUME First(p) <= j
          PROVE  First(j) = First(p)
      BY <2>5, <3>1, SameWindow
    <3> QED
      BY <1>3, <2>0, <2>2, <2>3, <2>5, <3>1
  <2>8. bodies[i].at <= bodies[First(p)].at /\ bodies[First(k)].at <= bodies[k].at
    <3>1. i <= First(p) /\ First(k) <= k
      BY <2>2, <2>5, <2>7
    <3> QED
      BY <2>2, <2>5, <3>1, Later
  <2>9. /\ bodies[i].at \in Nat /\ bodies[k].at \in Nat
        /\ bodies[First(p)].at \in Nat /\ bodies[First(k)].at \in Nat
    BY <2>2, <2>5, Later
  <2>10. \A a, b, c, d, r \in Nat : c - b >= r /\ a <= b /\ c <= d => d - a >= r
    OBVIOUS
  <2> QED
    BY <2>0, <2>6, <2>8, <2>9, <2>10
<1>4. Rejections!Indices = 1 .. L
  BY DEF Rejections!Indices
<1>5. \A i, k \in 1 .. L : bodies[k].at - bodies[i].at >= RefusalWindow => ~Rejections!Within(i, k)
  <2> SUFFICES ASSUME NEW i \in 1 .. L, NEW k \in 1 .. L,
                      bodies[k].at - bodies[i].at >= RefusalWindow
               PROVE  ~Rejections!Within(i, k)
    OBVIOUS
  <2>1. bodies[i].at \in Nat /\ bodies[k].at \in Nat /\ RefusalWindow \in Nat
    BY Later, Bodies
  <2>2. Rejections!Within(i, k) => bodies[k].at - bodies[i].at < RefusalWindow
    BY DEF Rejections!Within
  <2>3. \A a, b, c \in Nat : a - b >= c => ~(a - b < c)
    OBVIOUS
  <2> QED
    BY <2>1, <2>2, <2>3
<1>6. \A j \in 1 .. L : bodies[j].alarm =>
        bodies[j].n = Threshold /\ j >= Threshold /\ Rejections!Within(j - Threshold + 1, j)
  BY <1>1, Bodies DEF Rejections!Within
<1>7. lives = 0 => \A i, j \in 1 .. L :
        j - i >= 2 * Threshold - 2 /\ Rejections!Within(i, j) =>
          \E k \in 1 .. j : bodies[k].alarm /\ Rejections!Within(k, i)
  BY <1>2 DEF Rejections!Within
<1>8. lives = 0 => \A i, j, k \in 1 .. L :
        i < j /\ j < k /\ (\A m \in {i, j, k} : bodies[m].alarm) => ~Rejections!Within(i, k)
  BY <1>3, <1>5
<1> QED
  BY <1>4, <1>6, <1>7, <1>8 DEF Rejections!BurstsAreTold

HIDE DEF counting, bodies, lives

---------------------------------------------------------------------------
(* The counters.                                                           *)

table == s1
holder == s2
report == s3
past == s4

USE DEF table, holder, report, past

CounterRow == [dia : Nat, n : Nat \ {0}, ultimo : Nat]
Event == [n : Nat, at : Nat, dia : Nat]
Report ==
  [step : {"none", "today", "short", "series", "last", "told", "refused"},
   now : Nat, days : Nat, today : Nat, short : Nat,
   perDay : SUBSET CounterRow, last : Nat \cup {-1}, before : SUBSET Event]

InDays(a, b) == {r \in table : r.dia \in a .. b}
EventsOf(a, b) == {e \in past : e.dia \in a .. b}
Begun(a, b) == {e \in report.before : e.dia \in a .. b}

CounterTypes ==
  /\ now \in Nat
  /\ table \subseteq CounterRow /\ IsFiniteSet(Counters!Units(table))
  /\ past \subseteq Event /\ IsFiniteSet(past)
  /\ holder \in [Workers -> Nat \cup {-1}]
  /\ report \in Report

(* One goroutine at a time counts, later than all that is counted. *)
OneHolds ==
  /\ \A e \in past : e.n <= Cardinality(past) /\ e.at <= now
  /\ \A w \in Workers : holder[w] # -1 =>
       /\ holder[w] <= now
       /\ \A e \in past : e.at <= holder[w]
       /\ \A v \in Workers : holder[v] # -1 => v = w

(* A day has one row, of the last event of it. *)
RowsAreDays ==
  /\ \A e \in past : e.dia = Counters!dayOf(e.at)
  /\ \A r, q \in table : r.dia = q.dia => r = q
  /\ \A r \in table :
       /\ \E e \in past : e.dia = r.dia /\ e.at = r.ultimo
       /\ \A e \in past : e.dia = r.dia => e.at <= r.ultimo

(* The days the purge has spared are counted in full. *)
DaysAreKept ==
  \A a, b \in Int : a >= Counters!dayOf(now) - RetentionDays =>
    Counters!Total(InDays(a, b)) = Cardinality(EventsOf(a, b))

(* What the request found, and how long ago. *)
AskedLately ==
  /\ report.step \notin {"none", "refused"} =>
       report.days \in 1 .. RetentionDays /\ report.before \subseteq past
  /\ report.step \in {"today", "short", "series", "last"} =>
       report.now <= now /\ now - report.now <= Patience

(* What its statements have read is bracketed. *)
TodayIsRead ==
  report.step \in {"short", "series", "last", "told"} =>
    /\ Cardinality(Begun(Counters!Today, Counters!Today)) <= report.today
    /\ report.today <= Cardinality(EventsOf(Counters!Today, Counters!Today))

WeekStart == Counters!Today - (ShortDays - 1)

ShortIsRead ==
  report.step \in {"series", "last", "told"} /\ RetentionDays >= ShortDays =>
    /\ Cardinality(Begun(WeekStart, Counters!Today)) <= report.short
    /\ report.short <= Cardinality(EventsOf(WeekStart, Counters!Today))

SeriesIsRead ==
  report.step \in {"last", "told"} =>
    /\ \A d \in Counters!Known :
         /\ Cardinality(Begun(d, d)) <= Counters!Shown(d)
         /\ Counters!Shown(d) <= Cardinality(EventsOf(d, d))
    /\ report.today <= Counters!Shown(Counters!Today)
    /\ RetentionDays >= ShortDays =>
         report.short <=
           Counters!Total({r \in report.perDay : r.dia > Counters!Today - ShortDays})

LastIsRead ==
  report.step = "told" =>
    /\ report.last = -1 \/ \E e \in past : e.at = report.last
    /\ \A e \in report.before : e.dia \in Counters!Known => report.last >= e.at
    /\ (\E d \in Counters!Known : Counters!Shown(d) > 0) => report.last # -1

ReportInv == AskedLately /\ TodayIsRead /\ ShortIsRead /\ SeriesIsRead /\ LastIsRead

CounterInv == CounterTypes /\ OneHolds /\ RowsAreDays /\ DaysAreKept /\ ReportInv

(* Days: division by the length of a day. *)
LEMMA Products ==
  ASSUME NEW D \in Nat \ {0}, NEW a \in Int, NEW b \in Int, a > b
  PROVE  a * D >= b * D + D
  OBVIOUS

LEMMA Dividing ==
  ASSUME NEW D \in Nat \ {0}, NEW t \in Int
  PROVE  /\ t \div D \in Int
         /\ (t \div D) * D <= t
         /\ t < (t \div D) * D + D
  OBVIOUS

LEMMA DaysBack ==
  ASSUME NEW D \in Nat \ {0}, NEW t \in Nat, NEW R \in Nat
  PROVE  (t - R * D) \div D = (t \div D) - R
<1>1. PICK q \in Int : q = t \div D
  BY Dividing
<1>2. q * D <= t /\ t < q * D + D
  BY <1>1, Dividing
<1>3. (q - R) * D = q * D - R * D
  BY <1>1
<1>4. R * D \in Int /\ q * D \in Int /\ q - R \in Int
  OBVIOUS
<1>5. (q-R) * D <= t - R*D /\ t - R*D < (q-R)*D + D
  BY <1>2, <1>3, <1>4
<1>6. PICK p \in Int : p = (t - R * D) \div D
  BY Dividing, <1>4
<1>7. p * D <= t - R*D /\ t - R*D < p*D + D
  BY Dividing, <1>4, <1>6
<1>8. p * D \in Int /\ (q-R) * D \in Int
  BY <1>4
<1>9. ~ (p > q - R)
  BY <1>5, <1>7, <1>8, <1>4, Products
<1>10. ~ (q - R > p)
  BY <1>5, <1>7, <1>8, <1>4, Products
<1> QED
  BY <1>9, <1>10, <1>4, <1>6, <1>1

LEMMA DaysGrow ==
  ASSUME NEW D \in Nat \ {0}, NEW s \in Nat, NEW t \in Nat, s <= t
  PROVE  /\ s \div D \in Nat
         /\ s \div D <= t \div D
         /\ t - s <= D => t \div D <= (s \div D) + 1
<1>1. PICK q \in Int : q = s \div D
  BY Dividing
<1>2. q * D <= s /\ s < q * D + D
  BY <1>1, Dividing
<1>3. PICK p \in Int : p = t \div D
  BY Dividing
<1>4. p * D <= t /\ t < p * D + D
  BY <1>3, Dividing
<1>5. p * D \in Int /\ q * D \in Int /\ (q+1)*D = q * D + D /\ 0 * D = 0
  OBVIOUS
<1>6. ~ (q > p)
  BY <1>2, <1>4, <1>5, Products
<1>7. ~ (0 > q)
  BY <1>2, <1>5, Products
<1>8. t - s <= D => ~ (p > q + 1)
  BY <1>2, <1>4, <1>5, Products
<1> QED
  BY <1>1, <1>3, <1>6, <1>7, <1>8

LEMMA CounterCardinality == \A S : Counters!Cardinality(S) = Cardinality(S)
  BY DEF Counters!Cardinality, Cardinality

LEMMA UnitsAre ==
  /\ \A S, u : u \in Counters!Units(S) <=> \E r \in S : u \in {r.dia} \X (1 .. r.n)
  /\ \A S : Counters!Total(S) = Cardinality(Counters!Units(S))
<1>1. \A S, u : u \in Counters!Units(S) <=> \E r \in S : u \in {r.dia} \X (1 .. r.n)
  BY DEF Counters!Units
<1> QED
  BY <1>1, CounterCardinality DEF Counters!Total

LEMMA TotalOfNone == Counters!Total({}) = 0 /\ IsFiniteSet(Counters!Units({}))
<1>1. Counters!Units({}) = {}
  BY UnitsAre
<1> QED
  BY <1>1, UnitsAre, FS_EmptySet

LEMMA TotalOfOne ==
  ASSUME NEW r \in CounterRow
  PROVE  Counters!Total({r}) = r.n
<1>1. r.n \in Nat /\ r.n > 0
  BY DEF CounterRow
<1>2. Counters!Units({r}) = {r.dia} \X (1 .. r.n)
  BY UnitsAre
<1>3. IsFiniteSet({r.dia}) /\ Cardinality({r.dia}) = 1
  BY FS_Singleton
<1>4. IsFiniteSet(1 .. r.n) /\ Cardinality(1 .. r.n) = r.n
  BY <1>1, FS_Interval
<1>5. Cardinality({r.dia} \X (1 .. r.n)) = Cardinality({r.dia}) * Cardinality(1 .. r.n)
  BY <1>3, <1>4, FS_Product, Zenon
<1>6. 1 * r.n = r.n
  BY <1>1
<1>7. Counters!Total({r}) = Cardinality({r.dia} \X (1 .. r.n))
  BY <1>2, UnitsAre
<1> QED
  BY <1>3, <1>4, <1>5, <1>6, <1>7, Zenon

(* The rows of a table: fewer units, and finitely many. *)
LEMMA TotalOfSome ==
  ASSUME CounterTypes, NEW S, S \subseteq table
  PROVE  /\ Counters!Units(S) \subseteq Counters!Units(table)
         /\ IsFiniteSet(Counters!Units(S)) /\ Counters!Total(S) \in Nat
<1>1. Counters!Units(S) \subseteq Counters!Units(table)
  BY UnitsAre
<1>2. IsFiniteSet(Counters!Units(S))
  BY <1>1, FS_Subset DEF CounterTypes
<1> QED
  BY <1>1, <1>2, UnitsAre, FS_CardinalityType

LEMMA EventsAreFinite ==
  ASSUME CounterTypes, NEW S, S \subseteq past
  PROVE  /\ IsFiniteSet(S) /\ Cardinality(S) \in Nat
         /\ \A T \in SUBSET S : Cardinality(T) \in Nat /\ Cardinality(T) <= Cardinality(S)
         /\ S # {} => Cardinality(S) > 0
<1>1. IsFiniteSet(S)
  BY FS_Subset DEF CounterTypes
<1>2. \A T \in SUBSET S : IsFiniteSet(T) /\ Cardinality(T) <= Cardinality(S)
  BY <1>1, FS_Subset
<1>3. Cardinality(S) \in Nat /\ \A T \in SUBSET S : Cardinality(T) \in Nat
  BY <1>1, <1>2, FS_CardinalityType
<1>4. Cardinality(S) = 0 <=> S = {}
  BY <1>1, FS_EmptySet
<1> QED
  BY <1>1, <1>2, <1>3, <1>4

LEMMA CounterConstants ==
  ASSUME Counters!CounterAssumption
  PROVE  /\ CounterDay \in Nat \ {0} /\ RetentionDays \in Nat \ {0} /\ ShortDays \in Nat \ {0}
         /\ Patience \in Nat /\ Patience <= CounterDay
         /\ \A t \in Nat : Counters!dayOf(t) \in Nat
         /\ \A s, t \in Nat : s <= t => Counters!dayOf(s) <= Counters!dayOf(t)
         /\ \A s, t \in Nat : s <= t /\ t - s <= Patience =>
              Counters!dayOf(t) <= Counters!dayOf(s) + 1
         /\ \A t \in Nat : Counters!dayOf(t - RetentionDays * CounterDay) =
              Counters!dayOf(t) - RetentionDays
<1>1. /\ CounterDay \in Nat \ {0} /\ RetentionDays \in Nat \ {0} /\ ShortDays \in Nat \ {0}
      /\ Patience \in Nat /\ Patience <= CounterDay
  BY DEF Counters!CounterAssumption
<1>2. \A t \in Int : Counters!dayOf(t) = t \div CounterDay
  BY DEF Counters!dayOf
<1>3. ASSUME NEW s \in Nat, NEW t \in Nat, s <= t
      PROVE  /\ Counters!dayOf(s) \in Nat
             /\ Counters!dayOf(s) <= Counters!dayOf(t)
             /\ t - s <= Patience => Counters!dayOf(t) <= Counters!dayOf(s) + 1
  <2>1. /\ s \div CounterDay \in Nat
        /\ s \div CounterDay <= t \div CounterDay
        /\ t - s <= CounterDay => t \div CounterDay <= (s \div CounterDay) + 1
    BY <1>1, <1>3, DaysGrow, Zenon
  <2>2. t - s <= Patience => t - s <= CounterDay
    BY <1>1, <1>3
  <2>3. Counters!dayOf(s) = s \div CounterDay /\ Counters!dayOf(t) = t \div CounterDay
    BY <1>2
  <2> QED
    BY <2>1, <2>2, <2>3, Zenon
<1>4. \A t \in Nat : Counters!dayOf(t) \in Nat
  BY <1>3
<1>5. ASSUME NEW t \in Nat
      PROVE  Counters!dayOf(t - RetentionDays * CounterDay) = Counters!dayOf(t) - RetentionDays
  <2>1. RetentionDays \in Nat /\ t - RetentionDays * CounterDay \in Int
    BY <1>1
  <2>2. (t - RetentionDays * CounterDay) \div CounterDay = (t \div CounterDay) - RetentionDays
    BY <1>1, <2>1, DaysBack, Zenon
  <2>3. Counters!dayOf(t) = t \div CounterDay
    BY <1>2
  <2>4. Counters!dayOf(t - RetentionDays * CounterDay)
          = (t - RetentionDays * CounterDay) \div CounterDay
    BY <1>2, <2>1, Zenon
  <2> QED
    BY <2>2, <2>3, <2>4, Zenon
<1>6. \A s, t \in Nat : s <= t => Counters!dayOf(s) <= Counters!dayOf(t)
  BY <1>3
<1>7. \A s, t \in Nat : s <= t /\ t - s <= Patience =>
        Counters!dayOf(t) <= Counters!dayOf(s) + 1
  BY <1>3
<1> QED
  BY <1>1, <1>4, <1>5, <1>6, <1>7

LEMMA CounterInit ==
  ASSUME Counters!CounterAssumption, Counters!Init
  PROVE  CounterInv
<1>1. now = 0 /\ table = {} /\ past = {} /\ holder = [w \in Workers |-> -1]
  BY DEF Counters!Init, Counters!Idle
<1>2. report = [step |-> "none", now |-> 0, days |-> 0, today |-> 0, short |-> 0,
                perDay |-> {}, last |-> -1, before |-> {}]
  BY DEF Counters!Init, Counters!NoAnswer, Counters!Never
<1>3. report \in Report
  BY <1>2 DEF Report
<1>4. CounterTypes
  BY <1>1, <1>3, TotalOfNone, FS_EmptySet DEF CounterTypes
<1>5. OneHolds /\ RowsAreDays
  BY <1>1 DEF OneHolds, RowsAreDays
<1>6. DaysAreKept
  <2>1. \A a, b : InDays(a, b) = {} /\ EventsOf(a, b) = {}
    BY <1>1 DEF InDays, EventsOf
  <2> QED
    BY <2>1, TotalOfNone, FS_EmptySet DEF DaysAreKept
<1>7. ReportInv
  BY <1>2 DEF ReportInv, AskedLately, TodayIsRead, ShortIsRead, SeriesIsRead, LastIsRead
<1> QED
  BY <1>4, <1>5, <1>6, <1>7 DEF CounterInv

LEMMA ShownIs ==
  ASSUME CounterTypes
  PROVE  \A d : Counters!Shown(d) \in Nat
<1> SUFFICES ASSUME NEW d
             PROVE  Counters!Shown(d) \in Nat
  OBVIOUS
<1> DEFINE ofDay == {r \in report.perDay : r.dia = d}
<1>1. ofDay \subseteq CounterRow
  BY DEF CounterTypes, Report
<1>2. Counters!Shown(d) = IF ofDay = {} THEN 0 ELSE (CHOOSE r \in ofDay : TRUE).n
  BY DEF Counters!Shown
<1> HIDE DEF ofDay
<1>3. ofDay # {} => (CHOOSE r \in ofDay : TRUE) \in CounterRow
  BY <1>1
<1> QED
  BY <1>2, <1>3 DEF CounterRow

(* What a report has read stays bracketed while more is counted. *)
LEMMA ReportStays ==
  ASSUME CounterTypes, ReportInv, report' = report, past \subseteq past',
         CounterTypes', AskedLately'
  PROVE  ReportInv'
<1>1. \A a, b : /\ Cardinality(EventsOf(a, b)) \in Nat /\ Cardinality(EventsOf(a, b)') \in Nat
                /\ Cardinality(EventsOf(a, b)) <= Cardinality(EventsOf(a, b)')
  <2> SUFFICES ASSUME NEW a, NEW b
               PROVE  /\ Cardinality(EventsOf(a, b)) \in Nat
                      /\ Cardinality(EventsOf(a, b)') \in Nat
                      /\ Cardinality(EventsOf(a, b)) <= Cardinality(EventsOf(a, b)')
    OBVIOUS
  <2>1. IsFiniteSet(past')
    BY DEF CounterTypes
  <2>2. EventsOf(a, b) \subseteq EventsOf(a, b)' /\ EventsOf(a, b)' \subseteq past'
    BY DEF EventsOf
  <2>3. IsFiniteSet(EventsOf(a, b)')
    BY <2>1, <2>2, FS_Subset
  <2>4. IsFiniteSet(EventsOf(a, b)) /\ Cardinality(EventsOf(a, b)) <= Cardinality(EventsOf(a, b)')
    BY <2>2, <2>3, FS_Subset
  <2> QED
    BY <2>3, <2>4, FS_CardinalityType
<1>2. /\ Counters!Today' = Counters!Today /\ WeekStart' = WeekStart
      /\ Counters!Known' = Counters!Known
      /\ \A d : Counters!Shown(d)' = Counters!Shown(d)
      /\ \A a, b : Begun(a, b)' = Begun(a, b)
  <2>1. Counters!Today' = Counters!Today
    BY DEF Counters!Today
  <2>2. Counters!Longest' = Counters!Longest
    BY DEF Counters!Longest
  <2> QED
    BY <2>1, <2>2 DEF WeekStart, Counters!Known, Counters!Shown, Begun
<1>3. report.today \in Nat /\ report.short \in Nat /\ \A d : Counters!Shown(d) \in Nat
  BY ShownIs DEF CounterTypes, Report
<1>. PICK t : t = Counters!Today
  OBVIOUS
<1>. PICK s : s = WeekStart
  OBVIOUS
<1>4. TodayIsRead'
  <2> SUFFICES ASSUME report.step \in {"short", "series", "last", "told"}
               PROVE  /\ Cardinality(Begun(t, t)) <= report.today
                      /\ report.today <= Cardinality(EventsOf(t, t)')
    BY <1>2 DEF TodayIsRead, EventsOf
  <2>1. /\ Cardinality(Begun(t, t)) <= report.today
        /\ report.today <= Cardinality(EventsOf(t, t))
    BY DEF ReportInv, TodayIsRead
  <2> QED
    BY <1>1, <1>3, <2>1
<1>5. ShortIsRead'
  <2> SUFFICES ASSUME report.step \in {"series", "last", "told"}, RetentionDays >= ShortDays
               PROVE  /\ Cardinality(Begun(s, t)) <= report.short
                      /\ report.short <= Cardinality(EventsOf(s, t)')
    BY <1>2 DEF ShortIsRead, EventsOf
  <2>1. /\ Cardinality(Begun(s, t)) <= report.short
        /\ report.short <= Cardinality(EventsOf(s, t))
    BY DEF ReportInv, ShortIsRead
  <2> QED
    BY <1>1, <1>3, <2>1
<1>6. SeriesIsRead'
  <2> SUFFICES ASSUME report.step \in {"last", "told"}
               PROVE  /\ \A d \in Counters!Known :
                           /\ Cardinality(Begun(d, d)) <= Counters!Shown(d)
                           /\ Counters!Shown(d) <= Cardinality(EventsOf(d, d)')
                      /\ report.today <= Counters!Shown(Counters!Today)
                      /\ RetentionDays >= ShortDays =>
                           report.short <=
                             Counters!Total({r \in report.perDay : r.dia > Counters!Today - ShortDays})
    BY <1>2, UnitsAre DEF SeriesIsRead, EventsOf
  <2>1. SeriesIsRead
    BY DEF ReportInv
  <2>2. ASSUME NEW d \in Counters!Known
        PROVE  Counters!Shown(d) <= Cardinality(EventsOf(d, d)')
    BY <1>1, <1>3, <2>1 DEF SeriesIsRead
  <2> QED
    BY <2>1, <2>2 DEF SeriesIsRead
<1>7. LastIsRead'
  BY <1>2 DEF ReportInv, LastIsRead
<1> QED
  BY <1>4, <1>5, <1>6, <1>7 DEF ReportInv

LEMMA CounterRecordInv ==
  ASSUME Counters!CounterAssumption, CounterInv, NEW w \in Workers, Counters!Record(w)
  PROVE  CounterInv'
<1>1. /\ \A v \in Workers : holder[v] = -1
      /\ holder' = [holder EXCEPT ![w] = now]
      /\ UNCHANGED <<now, table, report, past>>
  BY DEF Counters!Record, Counters!Idle
<1>2. CounterTypes'
  <2>1. UNCHANGED Counters!Units(table)
    BY <1>1, UnitsAre DEF Counters!Units
  <2> QED
    BY <1>1, <2>1 DEF CounterInv, CounterTypes
<1>3. OneHolds'
  <2>1. \A v \in Workers : holder'[v] = IF v = w THEN now ELSE -1
    BY <1>1 DEF CounterInv, CounterTypes
  <2>2. \A e \in past : e.at <= now /\ now \in Nat
    BY DEF CounterInv, OneHolds, CounterTypes
  <2>3. \A e \in past : e.n <= Cardinality(past)
    BY DEF CounterInv, OneHolds
  <2>4. \A v \in Workers : holder'[v] # -1 => v = w /\ holder'[v] = now
    BY <2>1
  <2>5. now <= now
    BY DEF CounterInv, CounterTypes
  <2> QED
    BY <1>1, <2>2, <2>3, <2>4, <2>5 DEF OneHolds
<1>4. RowsAreDays' /\ DaysAreKept'
  BY <1>1 DEF CounterInv, RowsAreDays, DaysAreKept, InDays, EventsOf, Counters!dayOf,
     Counters!Total, Counters!Units
<1>5. AskedLately'
  BY <1>1 DEF CounterInv, ReportInv, AskedLately
<1> QED
  BY <1>1, <1>2, <1>3, <1>4, <1>5, ReportStays DEF CounterInv

LEMMA CounterTickInv ==
  ASSUME Counters!CounterAssumption, CounterInv, Counters!Tick
  PROVE  CounterInv'
<1>1. /\ report.step \in {"today", "short", "series", "last"} => now - report.now < Patience
      /\ now' = now + 1
      /\ UNCHANGED <<table, holder, report, past>>
  BY DEF Counters!Tick
<1>2. now \in Nat /\ Patience \in Nat /\ report.now \in Nat /\ RetentionDays \in Nat
  BY CounterConstants DEF CounterInv, CounterTypes, Report
<1>3. CounterTypes'
  <2>1. UNCHANGED Counters!Units(table)
    BY <1>1 DEF Counters!Units
  <2> QED
    BY <1>1, <1>2, <2>1 DEF CounterInv, CounterTypes
<1>4. OneHolds'
  <2>1. \A e \in past : e.at \in Nat /\ e.at <= now
    BY DEF CounterInv, CounterTypes, OneHolds, Event
  <2>2. \A v \in Workers : holder[v] # -1 => holder[v] \in Nat /\ holder[v] <= now
    BY DEF CounterInv, CounterTypes, OneHolds
  <2>3. /\ \A e \in past : e.at <= now + 1
        /\ \A v \in Workers : holder[v] # -1 => holder[v] <= now + 1
    BY <1>2, <2>1, <2>2
  <2> QED
    BY <1>1, <2>3 DEF CounterInv, OneHolds
<1>5. RowsAreDays'
  BY <1>1 DEF CounterInv, RowsAreDays, Counters!dayOf
<1>6. DaysAreKept'
  <2>1. PICK d \in Nat : d = Counters!dayOf(now)
    BY <1>2, CounterConstants
  <2>2. PICK f \in Nat : f = Counters!dayOf(now + 1)
    BY <1>2, CounterConstants
  <2>3. d <= f
    BY <1>2, <2>1, <2>2, CounterConstants
  <2>4. \A a \in Int : a >= f - RetentionDays => a >= d - RetentionDays
    BY <1>2, <2>3
  <2>5. Counters!dayOf(now)' = f
    BY <1>1, <2>2 DEF Counters!dayOf
  <2>6. \A a, b : InDays(a, b)' = InDays(a, b) /\ EventsOf(a, b)' = EventsOf(a, b)
    BY <1>1 DEF InDays, EventsOf
  <2> QED
    BY <2>1, <2>4, <2>5, <2>6, UnitsAre DEF CounterInv, DaysAreKept
<1>7. AskedLately'
  BY <1>1, <1>2 DEF CounterInv, ReportInv, AskedLately
<1> QED
  BY <1>1, <1>3, <1>4, <1>5, <1>6, <1>7, ReportStays DEF CounterInv

LEMMA CounterPurgeInv ==
  ASSUME Counters!CounterAssumption, CounterInv, Counters!PurgeCounters
  PROVE  CounterInv'
<1>1. PICK d \in Nat : d = Counters!dayOf(now)
  BY CounterConstants DEF CounterInv, CounterTypes
<1>2. /\ table' = {r \in table : r.dia >= d - RetentionDays}
      /\ UNCHANGED <<now, holder, report, past>>
  BY <1>1, CounterConstants DEF Counters!PurgeCounters, CounterInv, CounterTypes
<1>3. CounterTypes'
  <2>1. IsFiniteSet(Counters!Units(table'))
    BY <1>2, TotalOfSome DEF CounterInv
  <2>2. Counters!Units(table)' = Counters!Units(table')
    BY DEF Counters!Units
  <2> QED
    BY <1>2, <2>1, <2>2 DEF CounterInv, CounterTypes
<1>4. OneHolds' /\ RowsAreDays'
  BY <1>2 DEF CounterInv, OneHolds, RowsAreDays, Counters!dayOf
<1>5. DaysAreKept'
  <2>1. \A a, b \in Int : a >= d - RetentionDays => InDays(a, b)' = InDays(a, b)
    <3>1. \A r \in table : r.dia \in Nat
      BY DEF CounterInv, CounterTypes, CounterRow
    <3>2. \A a, b, c \in Int : a >= d - RetentionDays /\ c \in a .. b => c >= d - RetentionDays
      BY CounterConstants
    <3> QED
      BY <1>2, <3>1, <3>2 DEF InDays
  <2>2. \A a, b : EventsOf(a, b)' = EventsOf(a, b)
    BY <1>2 DEF EventsOf
  <2>3. Counters!dayOf(now)' = d
    BY <1>1, <1>2 DEF Counters!dayOf
  <2> QED
    BY <1>1, <2>1, <2>2, <2>3, UnitsAre DEF CounterInv, DaysAreKept
<1>6. AskedLately'
  BY <1>2 DEF CounterInv, ReportInv, AskedLately
<1> QED
  BY <1>2, <1>3, <1>4, <1>5, <1>6, ReportStays DEF CounterInv

LEMMA UpToLast == \A k \in Nat \ {0} : 1 .. k = (1 .. k - 1) \cup {k}
  OBVIOUS

(* What the write of one event does to some rows that hold all of its day. *)
LEMMA OneMoreUnit ==
  ASSUME CounterTypes, RowsAreDays, NEW day \in Nat, NEW n \in Nat, NEW at \in Nat,
         NEW S, S \subseteq table, Counters!RowsOf(day) \subseteq S,
         \/ Counters!RowsOf(day) = {} /\ n = 1
         \/ \E r \in Counters!RowsOf(day) : n = r.n + 1,
         NEW more,
         more = (S \ Counters!RowsOf(day)) \cup {[dia |-> day, n |-> n, ultimo |-> at]}
  PROVE  /\ Counters!Units(more) = Counters!Units(S) \cup {<<day, n>>}
         /\ Counters!Total(more) = Counters!Total(S) + 1
<1> DEFINE ofDay == Counters!RowsOf(day)
           new == [dia |-> day, n |-> n, ultimo |-> at]
<1>0. more = (S \ ofDay) \cup {new}
  OBVIOUS
<1>1. ofDay = {r \in table : r.dia = day}
  BY DEF Counters!RowsOf
<1>2. /\ n \in Nat \ {0} /\ {r \in S : r.dia = day} = ofDay
      /\ \A r \in ofDay : r.dia = day /\ r.n = n - 1 /\ r.n \in Nat
      /\ (ofDay = {} => n = 1)
  <2>1. CASE ofDay = {}
    BY <1>1, <2>1
  <2>2. CASE ofDay # {}
    <3>1. PICK r \in ofDay : n = r.n + 1
      BY <2>2
    <3>2. r \in table /\ r \in ofDay /\ n = r.n + 1
      BY <1>1, <3>1
    <3>3. ofDay = {r}
      BY <1>1, <3>2 DEF RowsAreDays
    <3>4. n = r.n + 1
      BY <3>1
    <3>5. r.n \in Nat /\ r.dia = day
      BY <1>1, <3>2 DEF CounterTypes, CounterRow
    <3> QED
      BY <1>1, <3>3, <3>4, <3>5
  <2> QED
    BY <2>1, <2>2
<1>3. new.dia = day /\ new.n = n
  OBVIOUS
<1>4. \A r \in S : r.dia \in Nat /\ r.n \in Nat
  BY DEF CounterTypes, CounterRow
<1>8. ofDay \subseteq S
  OBVIOUS
<1> HIDE DEF ofDay, new
<1>5. \A u : u \in Counters!Units(more) <=>
              (\E r \in S \ ofDay : u \in {r.dia} \X (1 .. r.n)) \/ u \in {day} \X (1 .. n)
  BY <1>0, <1>3, UnitsAre
<1>6. {day} \X (1 .. n) = ({day} \X (1 .. n - 1)) \cup {<<day, n>>}
  <2>1. 1 .. n = (1 .. n - 1) \cup {n}
    BY <1>2, UpToLast, Zenon
  <2> QED
    BY <2>1
<1>7. \A u : (\E r \in ofDay : u \in {r.dia} \X (1 .. r.n)) <=> u \in {day} \X (1 .. n - 1)
  <2>1. CASE ofDay = {}
    <3>1. n = 1
      BY <1>2, <2>1, Zenon
    <3>2. 1 .. (1 - 1) = {}
      OBVIOUS
    <3>3. 1 .. (n - 1) = {}
      BY <3>1, <3>2, Zenon
    <3> QED
      BY <2>1, <3>3
  <2>2. CASE ofDay # {}
    BY <1>2, <2>2
  <2> QED
    BY <2>1, <2>2
<1>9. Counters!Units(more) = Counters!Units(S) \cup {<<day, n>>}
  <2>1. \A u : u \in Counters!Units(S) <=>
               \/ \E r \in S \ ofDay : u \in {r.dia} \X (1 .. r.n)
               \/ \E r \in ofDay : u \in {r.dia} \X (1 .. r.n)
    BY <1>8, UnitsAre
  <2>2. \A u : u \in Counters!Units(more) <=> u \in Counters!Units(S) \/ u = <<day, n>>
    BY <1>5, <1>6, <1>7, <2>1
  <2> QED
    BY <2>2
<1>10. <<day, n>> \notin Counters!Units(S)
  <2> SUFFICES ASSUME NEW r \in S, <<day, n>> \in {r.dia} \X (1 .. r.n)
               PROVE  FALSE
    BY UnitsAre
  <2>1. r.dia = day /\ n <= r.n
    BY <1>4
  <2>2. r.n = n - 1
    BY <1>2, <2>1
  <2> QED
    BY <2>1, <2>2
<1>11. Counters!Total(more) = Counters!Total(S) + 1
  <2>1. IsFiniteSet(Counters!Units(S)) /\ Counters!Total(S) = Cardinality(Counters!Units(S))
    BY TotalOfSome, UnitsAre
  <2>2. Cardinality(Counters!Units(more)) = Cardinality(Counters!Units(S)) + 1
    <3>1. Cardinality(Counters!Units(S) \cup {<<day, n>>}) = Cardinality(Counters!Units(S)) + 1
      BY <1>10, <2>1, FS_AddElement, Zenon
    <3> QED
      BY <1>9, <3>1, Zenon
  <2> QED
    BY <2>1, <2>2, UnitsAre
<1> QED
  BY <1>9, <1>11

LEMMA CounterIncrementInv ==
  ASSUME Counters!CounterAssumption, CounterInv, NEW w \in Workers, Counters!IncrementCounter(w)
  PROVE  CounterInv'
<1>1. PICK at \in Nat : at = holder[w] /\ at <= now
  BY DEF Counters!IncrementCounter, Counters!Idle, CounterInv, CounterTypes, OneHolds
<1>2. PICK day \in Nat : day = Counters!dayOf(at)
  BY CounterConstants
<1>3. PICK ofDay : ofDay = Counters!RowsOf(day)
  OBVIOUS
<1>4. PICK n : n = IF ofDay = {} THEN 1 ELSE (CHOOSE r \in ofDay : TRUE).n + 1
  OBVIOUS
<1>5. n \in Nat \ {0}
  <2>1. ofDay # {} => (CHOOSE r \in ofDay : TRUE) \in CounterRow
    BY <1>3 DEF Counters!RowsOf, CounterInv, CounterTypes
  <2> QED
    BY <1>4, <2>1 DEF CounterRow
<1>6. PICK N \in Nat : N = Cardinality(past)
  BY EventsAreFinite DEF CounterInv
<1> DEFINE new == [dia |-> day, n |-> n, ultimo |-> at]
           event == [n |-> N + 1, at |-> at, dia |-> day]
<1>7. /\ table' = (table \ ofDay) \cup {new}
      /\ past' = past \cup {event}
      /\ holder' = [holder EXCEPT ![w] = -1]
      /\ UNCHANGED <<now, report>>
  <2>1. /\ table' = (table \ Counters!RowsOf(Counters!dayOf(at))) \cup
                      {[dia |-> Counters!dayOf(at),
                        n |-> IF Counters!RowsOf(Counters!dayOf(at)) = {} THEN 1
                              ELSE (CHOOSE row_ \in Counters!RowsOf(Counters!dayOf(at)) : TRUE).n + 1,
                        ultimo |-> at]}
        /\ past' = past \cup {[n |-> Counters!Cardinality(past) + 1, at |-> at,
                               dia |-> Counters!dayOf(at)]}
        /\ holder' = [holder EXCEPT ![w] = -1]
        /\ UNCHANGED <<now, report>>
    BY <1>1 DEF Counters!IncrementCounter, Counters!Idle
  <2> QED
    BY <1>2, <1>3, <1>4, <1>6, <2>1, CounterCardinality
<1>8. new \in CounterRow /\ event \in Event
  BY <1>5 DEF CounterRow, Event
<1>9. new.dia = day /\ new.ultimo = at /\ event.dia = day /\ event.at = at /\ event.n = N + 1
  OBVIOUS
<1>10. ofDay = {r \in table : r.dia = day}
  BY <1>3 DEF Counters!RowsOf
<1>11. event \notin past
  <2>1. \A e \in past : e.n <= N /\ e.n \in Nat
    BY <1>6 DEF CounterInv, CounterTypes, OneHolds, Event
  <2>2. ~(N + 1 <= N)
    OBVIOUS
  <2> QED
    BY <1>9, <2>1, <2>2
<1>12. IsFiniteSet(past') /\ Cardinality(past') = N + 1
  BY <1>6, <1>7, <1>11, FS_AddElement DEF CounterInv, CounterTypes
<1>13. \A e \in past : e.at <= at
  BY <1>1 DEF CounterInv, OneHolds
<1>14. \A v \in Workers : holder'[v] = -1
  <2>1. \A v \in Workers : v # w => holder[v] = -1
    BY <1>1 DEF CounterInv, OneHolds
  <2> QED
    BY <1>7, <2>1 DEF CounterInv, CounterTypes
<1> HIDE DEF new
<1>15. ASSUME NEW S, S \subseteq table, ofDay \subseteq S
       PROVE  /\ Counters!Units((S \ ofDay) \cup {new}) = Counters!Units(S) \cup {<<day, n>>}
              /\ Counters!Total((S \ ofDay) \cup {new}) = Counters!Total(S) + 1
  <2>1. \/ Counters!RowsOf(day) = {} /\ n = 1
        \/ \E r \in Counters!RowsOf(day) : n = r.n + 1
    BY <1>3, <1>4
  <2>2. n \in Nat /\ Counters!RowsOf(day) \subseteq S /\ CounterTypes /\ RowsAreDays
    BY <1>3, <1>5, <1>15 DEF CounterInv
  <2>3. PICK more : more = (S \ Counters!RowsOf(day)) \cup {[dia |-> day, n |-> n, ultimo |-> at]}
    OBVIOUS
  <2>4. /\ Counters!Units(more) = Counters!Units(S) \cup {<<day, n>>}
        /\ Counters!Total(more) = Counters!Total(S) + 1
    BY <1>1, <1>2, <1>15, <2>1, <2>2, <2>3, OneMoreUnit
  <2> QED
    BY <1>3, <2>3, <2>4 DEF new
<1> HIDE DEF event
<1>16. CounterTypes'
  <2>1. Counters!Units(table') = Counters!Units(table) \cup {<<day, n>>}
    BY <1>7, <1>10, <1>15
  <2>2. IsFiniteSet(Counters!Units(table'))
    BY <2>1, FS_AddElement DEF CounterInv, CounterTypes
  <2>3. Counters!Units(table)' = Counters!Units(table')
    BY DEF Counters!Units
  <2> QED
    BY <1>7, <1>8, <1>12, <2>2, <2>3 DEF CounterInv, CounterTypes
<1>17. OneHolds'
  <2>1. \A e \in past' : e.n <= N + 1 /\ e.at <= now
    <3>1. \A e \in past : e.n <= N + 1 /\ e.at <= now
      BY <1>6 DEF CounterInv, CounterTypes, OneHolds, Event
    <3>2. N + 1 <= N + 1
      OBVIOUS
    <3> QED
      BY <1>1, <1>7, <1>9, <3>1, <3>2
  <2> QED
    BY <1>7, <1>12, <1>14, <2>1 DEF OneHolds
<1>18. RowsAreDays'
  <2>1. \A e \in past' : e.dia = Counters!dayOf(e.at)
    BY <1>2, <1>7, <1>9 DEF CounterInv, RowsAreDays
  <2>2. \A r, q \in table' : r.dia = q.dia => r = q
    BY <1>7, <1>9, <1>10 DEF CounterInv, RowsAreDays
  <2>3. \A r \in table' : \E e \in past' : e.dia = r.dia /\ e.at = r.ultimo
    BY <1>7, <1>9 DEF CounterInv, RowsAreDays
  <2>4. \A r \in table' : \A e \in past' : e.dia = r.dia => e.at <= r.ultimo
    <3>1. at <= at
      OBVIOUS
    <3>2. \A e \in past' : e.at <= at
      BY <1>7, <1>9, <1>13, <3>1
    <3>3. \A r \in table \ ofDay : r.dia # day
      BY <1>10
    <3> QED
      BY <1>7, <1>9, <3>2, <3>3 DEF CounterInv, RowsAreDays
  <2> QED
    BY <1>7, <2>1, <2>2, <2>3, <2>4 DEF RowsAreDays, Counters!dayOf
<1>19. DaysAreKept'
  <2> SUFFICES ASSUME NEW a \in Int, NEW b \in Int, a >= Counters!dayOf(now) - RetentionDays
               PROVE  Counters!Total(InDays(a, b)') = Cardinality(EventsOf(a, b)')
    BY <1>7, UnitsAre DEF DaysAreKept, Counters!dayOf, Counters!Total, Counters!Units
  <2>1. Counters!Total(InDays(a, b)) = Cardinality(EventsOf(a, b))
    BY DEF CounterInv, DaysAreKept
  <2>2. InDays(a, b) \subseteq table /\ EventsOf(a, b) \subseteq past
    BY DEF InDays, EventsOf
  <2>3. CASE day \in a .. b
    <3>1. InDays(a, b)' = (InDays(a, b) \ ofDay) \cup {new} /\ ofDay \subseteq InDays(a, b)
      BY <1>7, <1>9, <1>10, <2>3 DEF InDays
    <3>2. EventsOf(a, b)' = EventsOf(a, b) \cup {event} /\ event \notin EventsOf(a, b)
      BY <1>7, <1>9, <1>11, <2>3 DEF EventsOf
    <3>3. Counters!Total(InDays(a, b)') = Counters!Total(InDays(a, b)) + 1
      BY <1>15, <2>2, <3>1
    <3>4. Cardinality(EventsOf(a, b)') = Cardinality(EventsOf(a, b)) + 1
      BY <2>2, <3>2, EventsAreFinite, FS_AddElement DEF CounterInv
    <3> QED
      BY <2>1, <3>3, <3>4
  <2>4. CASE day \notin a .. b
    <3>1. InDays(a, b)' = InDays(a, b)
      BY <1>7, <1>9, <1>10, <2>4 DEF InDays
    <3>2. EventsOf(a, b)' = EventsOf(a, b)
      BY <1>7, <1>9, <2>4 DEF EventsOf
    <3> QED
      BY <2>1, <3>1, <3>2
  <2> QED
    BY <2>3, <2>4
<1>20. AskedLately'
  BY <1>7 DEF CounterInv, ReportInv, AskedLately
<1> QED
  BY <1>7, <1>16, <1>17, <1>18, <1>19, <1>20, ReportStays DEF CounterInv

(* While it is answered, the purge spares the days a request may ask for. *)
LEMMA WindowIsCounted ==
  ASSUME Counters!CounterAssumption, CounterInv,
         report.step \in {"today", "short", "series", "last"},
         NEW a \in Int, NEW b \in Int, a > Counters!Today - RetentionDays
  PROVE  Counters!Total(InDays(a, b)) = Cardinality(EventsOf(a, b))
<1>1. /\ report.now \in Nat /\ now \in Nat
      /\ report.now <= now /\ now - report.now <= Patience
  BY DEF CounterInv, CounterTypes, Report, ReportInv, AskedLately
<1>2. PICK d \in Nat : d = Counters!dayOf(now)
  BY <1>1, CounterConstants
<1>3. PICK t \in Nat : t = Counters!dayOf(report.now)
  BY <1>1, CounterConstants
<1>4. d <= t + 1
  BY <1>1, <1>2, <1>3, CounterConstants
<1>5. RetentionDays \in Nat /\ a > t - RetentionDays
  BY <1>3, CounterConstants DEF Counters!Today
<1>6. a >= d - RetentionDays
  BY <1>2, <1>3, <1>4, <1>5
<1> QED
  BY <1>2, <1>6 DEF CounterInv, DaysAreKept

(* So what the table says of such a day is what was counted on it. *)
LEMMA DayIsCounted ==
  ASSUME Counters!CounterAssumption, CounterInv,
         report.step \in {"today", "short", "series", "last"},
         NEW d \in Int, d > Counters!Today - RetentionDays
  PROVE  /\ InDays(d, d) = {} => Cardinality(EventsOf(d, d)) = 0
         /\ \A r \in InDays(d, d) : InDays(d, d) = {r} /\ Cardinality(EventsOf(d, d)) = r.n
<1>1. Counters!Total(InDays(d, d)) = Cardinality(EventsOf(d, d))
  BY WindowIsCounted
<1>2. ASSUME NEW r \in InDays(d, d)
      PROVE  InDays(d, d) = {r} /\ Cardinality(EventsOf(d, d)) = r.n
  <2>1. \A q \in InDays(d, d) : q \in table /\ q.dia = d
    <3>1. \A k \in Int : k \in d .. d => k = d
      OBVIOUS
    <3> QED
      BY <3>1 DEF InDays, CounterInv, CounterTypes, CounterRow
  <2>2. InDays(d, d) = {r}
    BY <2>1 DEF CounterInv, RowsAreDays
  <2>3. r \in CounterRow
    BY <2>1 DEF CounterInv, CounterTypes
  <2> QED
    BY <1>1, <2>2, <2>3, TotalOfOne
<1> QED
  BY <1>1, <1>2, TotalOfNone

LEMMA BegunIsFewer ==
  ASSUME CounterInv, report.step \notin {"none", "refused"}
  PROVE  \A a, b : /\ Cardinality(Begun(a, b)) \in Nat /\ Cardinality(EventsOf(a, b)) \in Nat
                   /\ Cardinality(Begun(a, b)) <= Cardinality(EventsOf(a, b))
<1> SUFFICES ASSUME NEW a, NEW b
             PROVE  /\ Cardinality(Begun(a, b)) \in Nat /\ Cardinality(EventsOf(a, b)) \in Nat
                    /\ Cardinality(Begun(a, b)) <= Cardinality(EventsOf(a, b))
  OBVIOUS
<1>1. Begun(a, b) \subseteq EventsOf(a, b) /\ EventsOf(a, b) \subseteq past
  BY DEF CounterInv, ReportInv, AskedLately, Begun, EventsOf
<1> QED
  BY <1>1, EventsAreFinite DEF CounterInv

(* A statement that reads changes the report alone. *)
LEMMA ReadingStays ==
  ASSUME CounterInv, UNCHANGED <<now, table, holder, past>>, report' \in Report
  PROVE  CounterTypes' /\ OneHolds' /\ RowsAreDays' /\ DaysAreKept'
<1>1. UNCHANGED Counters!Units(table)
  BY DEF Counters!Units
<1>2. CounterTypes'
  BY <1>1 DEF CounterInv, CounterTypes
<1>3. OneHolds' /\ RowsAreDays'
  BY DEF CounterInv, OneHolds, RowsAreDays, Counters!dayOf
<1>4. DaysAreKept'
  BY UnitsAre DEF CounterInv, DaysAreKept, InDays, EventsOf, Counters!dayOf
<1> QED
  BY <1>2, <1>3, <1>4

(* Neither does it change what the request asks for. *)
LEMMA AskingStays ==
  ASSUME UNCHANGED <<now, past>>, report'.now = report.now, report'.days = report.days,
         report'.before = report.before
  PROVE  /\ Counters!Today' = Counters!Today /\ WeekStart' = WeekStart
         /\ Counters!Longest' = Counters!Longest /\ Counters!Known' = Counters!Known
         /\ \A a, b : Begun(a, b)' = Begun(a, b) /\ EventsOf(a, b)' = EventsOf(a, b)
<1>1. Counters!Today' = Counters!Today
  BY DEF Counters!Today
<1>2. Counters!Longest' = Counters!Longest
  BY DEF Counters!Longest
<1> QED
  BY <1>1, <1>2 DEF WeekStart, Counters!Known, Begun, EventsOf

(* The days that the answer has to know, which have been kept for it. *)
LEMMA KnownAreKept ==
  ASSUME Counters!CounterAssumption, CounterInv, report.step \notin {"none", "refused"}
  PROVE  /\ Counters!Today \in Nat /\ report.days \in 1 .. RetentionDays
         /\ Counters!Longest \in Nat /\ Counters!Longest >= report.days
         /\ Counters!Longest >= ShortDays
         /\ Counters!Today > Counters!Today - RetentionDays
         /\ Counters!Today \in Counters!Known
         /\ RetentionDays >= ShortDays => WeekStart > Counters!Today - RetentionDays
         /\ \A d \in Counters!Known :
              /\ d \in Int /\ d > Counters!Today - RetentionDays
              /\ d \in (Counters!Today - (Counters!Longest - 1)) .. Counters!Today
<1>1. PICK t \in Nat : t = Counters!Today
  BY CounterConstants DEF Counters!Today, CounterInv, CounterTypes, Report
<1>2. PICK D \in 1 .. RetentionDays : D = report.days
  BY DEF CounterInv, ReportInv, AskedLately
<1>3. RetentionDays \in Nat \ {0} /\ ShortDays \in Nat \ {0}
  BY CounterConstants
<1>4. PICK L \in Nat : L = Counters!Longest /\ L >= D /\ L >= ShortDays
  BY <1>2, <1>3 DEF Counters!Longest
<1>5. Counters!Known = {d \in (t - (L - 1)) .. t :
         d > t - D \/ (RetentionDays >= ShortDays /\ d > t - ShortDays)}
  BY <1>1, <1>2, <1>4 DEF Counters!Known
<1>6. t \in Counters!Known
  BY <1>1, <1>2, <1>3, <1>4, <1>5
<1>7. \A d \in Counters!Known : d \in Int /\ d > t - RetentionDays /\ d \in (t - (L - 1)) .. t
  BY <1>1, <1>2, <1>3, <1>4, <1>5
<1>8. RetentionDays >= ShortDays => t - (ShortDays - 1) > t - RetentionDays
  BY <1>1, <1>3
<1>9. t > t - RetentionDays
  BY <1>1, <1>3
<1> QED
  BY <1>1, <1>2, <1>4, <1>6, <1>7, <1>8, <1>9 DEF WeekStart

LEMMA SeriesWindowInv ==
  ASSUME Counters!CounterAssumption, CounterInv, NEW days \in 1 .. RetentionDays + 1,
         Counters!seriesWindow(days)
  PROVE  CounterInv'
<1>1. /\ report' = [Counters!NoAnswer EXCEPT
                      !.step = IF days > RetentionDays THEN "refused" ELSE "today",
                      !.days = days, !.now = now, !.before = past]
      /\ UNCHANGED <<now, table, holder, past>>
  BY DEF Counters!seriesWindow, Counters!Read
<1>2. now \in Nat /\ days \in Nat /\ past \subseteq Event /\ RetentionDays \in Nat /\ Patience \in Nat
  BY CounterConstants DEF CounterInv, CounterTypes
<1>3. Counters!NoAnswer \in Report
  BY DEF Counters!NoAnswer, Counters!Never, Report
<1>4. report' \in Report
  BY <1>1, <1>2, <1>3 DEF Report
<1>5. /\ report'.step = IF days > RetentionDays THEN "refused" ELSE "today"
      /\ report'.days = days /\ report'.now = now /\ report'.before = past
  BY <1>1, <1>3 DEF Report
<1>6. AskedLately'
  BY <1>1, <1>2, <1>5 DEF AskedLately
<1>7. TodayIsRead' /\ ShortIsRead' /\ SeriesIsRead' /\ LastIsRead'
  BY <1>5 DEF TodayIsRead, ShortIsRead, SeriesIsRead, LastIsRead
<1> QED
  BY <1>1, <1>4, <1>6, <1>7, ReadingStays DEF CounterInv, ReportInv

LEMMA ReadTodayInv ==
  ASSUME Counters!CounterAssumption, CounterInv, Counters!ReadToday
  PROVE  CounterInv'
<1>. PICK t : t = Counters!Today
  OBVIOUS
<1>1. /\ report.step = "today"
      /\ report' = [report EXCEPT !.step = "short", !.today = Counters!Between(t, t)]
      /\ UNCHANGED <<now, table, holder, past>>
  BY DEF Counters!ReadToday, Counters!Read
<1>2. Counters!Between(t, t) = Counters!Total(InDays(t, t))
  BY DEF Counters!Between, InDays
<1>3. t \in Nat /\ t > t - RetentionDays
  BY <1>1, KnownAreKept
<1>4. Counters!Between(t, t) = Cardinality(EventsOf(t, t))
  BY <1>1, <1>2, <1>3, WindowIsCounted
<1>5. /\ Cardinality(Begun(t, t)) <= Counters!Between(t, t) /\ Counters!Between(t, t) \in Nat
      /\ Counters!Between(t, t) <= Cardinality(EventsOf(t, t))
  <2>1. /\ Cardinality(Begun(t, t)) <= Cardinality(EventsOf(t, t))
        /\ Cardinality(EventsOf(t, t)) \in Nat
    BY <1>1, BegunIsFewer
  <2> QED
    BY <1>4, <2>1
<1>6. /\ report' \in Report /\ report'.step = "short" /\ report'.today = Counters!Between(t, t)
      /\ report'.now = report.now /\ report'.days = report.days /\ report'.before = report.before
  BY <1>1, <1>5 DEF CounterInv, CounterTypes, Report
<1>7. AskedLately'
  BY <1>1, <1>6 DEF CounterInv, ReportInv, AskedLately
<1>8. TodayIsRead'
  BY <1>1, <1>5, <1>6, AskingStays DEF TodayIsRead
<1>9. ShortIsRead' /\ SeriesIsRead' /\ LastIsRead'
  BY <1>6 DEF ShortIsRead, SeriesIsRead, LastIsRead
<1> QED
  BY <1>1, <1>6, <1>7, <1>8, <1>9, ReadingStays DEF CounterInv, ReportInv

LEMMA ReadShortInv ==
  ASSUME Counters!CounterAssumption, CounterInv, Counters!ReadShort
  PROVE  CounterInv'
<1>. PICK t : t = Counters!Today
  OBVIOUS
<1>. PICK s : s = WeekStart
  OBVIOUS
<1>1. /\ report.step = "short"
      /\ report' = [report EXCEPT !.step = "series", !.short = Counters!Between(s, t)]
      /\ UNCHANGED <<now, table, holder, past>>
  BY DEF Counters!ReadShort, Counters!Read, WeekStart
<1>2. Counters!Between(s, t) = Counters!Total(InDays(s, t))
  BY DEF Counters!Between, InDays
<1>3. t \in Nat /\ s \in Int /\ (RetentionDays >= ShortDays => s > t - RetentionDays)
  BY <1>1, KnownAreKept, CounterConstants DEF WeekStart
<1>4. Counters!Between(s, t) \in Nat
  BY <1>2, TotalOfSome DEF InDays, CounterInv
<1>5. RetentionDays >= ShortDays =>
        /\ Cardinality(Begun(s, t)) <= Counters!Between(s, t)
        /\ Counters!Between(s, t) <= Cardinality(EventsOf(s, t))
  <2> SUFFICES ASSUME RetentionDays >= ShortDays
               PROVE  /\ Cardinality(Begun(s, t)) <= Counters!Between(s, t)
                      /\ Counters!Between(s, t) <= Cardinality(EventsOf(s, t))
    OBVIOUS
  <2>1. /\ Cardinality(Begun(s, t)) <= Cardinality(EventsOf(s, t))
        /\ Cardinality(EventsOf(s, t)) \in Nat
    BY <1>1, BegunIsFewer
  <2>2. Counters!Between(s, t) = Cardinality(EventsOf(s, t))
    BY <1>1, <1>2, <1>3, WindowIsCounted
  <2> QED
    BY <2>1, <2>2
<1>6. /\ report' \in Report /\ report'.step = "series" /\ report'.short = Counters!Between(s, t)
      /\ report'.now = report.now /\ report'.days = report.days /\ report'.before = report.before
      /\ report'.today = report.today
  BY <1>1, <1>4 DEF CounterInv, CounterTypes, Report
<1>7. AskedLately'
  BY <1>1, <1>6 DEF CounterInv, ReportInv, AskedLately
<1>8. TodayIsRead'
  BY <1>1, <1>6, AskingStays DEF CounterInv, ReportInv, TodayIsRead
<1>9. ShortIsRead'
  BY <1>1, <1>5, <1>6, AskingStays DEF ShortIsRead
<1>10. SeriesIsRead' /\ LastIsRead'
  BY <1>6 DEF SeriesIsRead, LastIsRead
<1> QED
  BY <1>1, <1>6, <1>7, <1>8, <1>9, <1>10, ReadingStays DEF CounterInv, ReportInv

LEMMA ReadSeriesInv ==
  ASSUME Counters!CounterAssumption, CounterInv, Counters!ReadSeries
  PROVE  CounterInv'
<1>. PICK t : t = Counters!Today
  OBVIOUS
<1>. PICK s : s = WeekStart
  OBVIOUS
<1>. PICK f : f = t - (Counters!Longest - 1)
  OBVIOUS
<1>. PICK known : known = Counters!Known
  OBVIOUS
<1>1. /\ report.step = "series"
      /\ report' = [report EXCEPT !.step = "last", !.perDay = InDays(f, t)]
      /\ UNCHANGED <<now, table, holder, past>>
  BY DEF Counters!ReadSeries, Counters!Read, InDays
<1>2. InDays(f, t) \subseteq CounterRow
  BY DEF InDays, CounterInv, CounterTypes
<1>3. /\ report' \in Report /\ report'.step = "last" /\ report'.perDay = InDays(f, t)
      /\ report'.now = report.now /\ report'.days = report.days /\ report'.before = report.before
      /\ report'.today = report.today /\ report'.short = report.short
  BY <1>1, <1>2 DEF CounterInv, CounterTypes, Report
<1>4. /\ t \in Nat /\ f \in Int /\ s \in Int /\ t \in known /\ t > t - RetentionDays
      /\ f <= s /\ s = t - (ShortDays - 1) /\ ShortDays \in Nat
      /\ RetentionDays >= ShortDays => s > t - RetentionDays
      /\ \A d \in known : d \in Int /\ d > t - RetentionDays /\ d \in f .. t
  BY <1>1, KnownAreKept, CounterConstants DEF WeekStart
<1>5. Counters!Known' = known /\ Counters!Today' = t /\ WeekStart' = s
      /\ \A a, b : Begun(a, b)' = Begun(a, b) /\ EventsOf(a, b)' = EventsOf(a, b)
  BY <1>1, <1>3, AskingStays
<1>6. ASSUME NEW d \in known
      PROVE  Counters!Shown(d)' = Cardinality(EventsOf(d, d))
  <2>1. Counters!Shown(d)' =
          IF {r \in report'.perDay : r.dia = d} = {} THEN 0
          ELSE (CHOOSE r \in {r \in report'.perDay : r.dia = d} : TRUE).n
    BY DEF Counters!Shown
  <2>2. {r \in report'.perDay : r.dia = d} = InDays(d, d)
    <3>1. d \in Int /\ d \in f .. t
      BY <1>4, <1>6
    <3>2. \A k \in Int : k \in d .. d <=> k = d
      BY <3>1
    <3>3. \A r \in table : r.dia \in Int
      BY DEF CounterInv, CounterTypes, CounterRow
    <3> QED
      BY <1>3, <3>1, <3>2, <3>3 DEF InDays
  <2>3. /\ InDays(d, d) = {} => Cardinality(EventsOf(d, d)) = 0
        /\ \A r \in InDays(d, d) : Cardinality(EventsOf(d, d)) = r.n
    BY <1>1, <1>4, <1>6, DayIsCounted
  <2> QED
    BY <2>1, <2>2, <2>3
<1>7. AskedLately'
  BY <1>1, <1>3 DEF CounterInv, ReportInv, AskedLately
<1>8. TodayIsRead' /\ ShortIsRead'
  BY <1>1, <1>3, <1>5 DEF CounterInv, ReportInv, TodayIsRead, ShortIsRead
<1>9. ASSUME NEW d \in known
      PROVE  /\ Cardinality(Begun(d, d)) <= Counters!Shown(d)'
             /\ Counters!Shown(d)' <= Cardinality(EventsOf(d, d))
  <2>1. /\ Cardinality(Begun(d, d)) <= Cardinality(EventsOf(d, d))
        /\ Cardinality(EventsOf(d, d)) \in Nat
    BY <1>1, BegunIsFewer
  <2> QED
    BY <1>6, <1>9, <2>1
<1>10. report.today <= Counters!Shown(t)'
  <2>1. report.today <= Cardinality(EventsOf(t, t))
    BY <1>1 DEF CounterInv, ReportInv, TodayIsRead
  <2> QED
    BY <1>4, <1>6, <2>1
<1>11. RetentionDays >= ShortDays =>
         report.short <= Counters!Total({r \in report'.perDay : r.dia > t - ShortDays})
  <2> SUFFICES ASSUME RetentionDays >= ShortDays
               PROVE  report.short <= Counters!Total({r \in report'.perDay : r.dia > t - ShortDays})
    OBVIOUS
  <2>1. {r \in report'.perDay : r.dia > t - ShortDays} = InDays(s, t)
    <3>1. \A k \in Int : k \in f .. t /\ k > t - ShortDays <=> k \in s .. t
      BY <1>4
    <3>2. \A r \in table : r.dia \in Int
      BY DEF CounterInv, CounterTypes, CounterRow
    <3> QED
      BY <1>3, <3>1, <3>2 DEF InDays
  <2>2. report.short <= Cardinality(EventsOf(s, t))
    BY <1>1 DEF CounterInv, ReportInv, ShortIsRead
  <2>3. Counters!Total(InDays(s, t)) = Cardinality(EventsOf(s, t))
    BY <1>1, <1>4, WindowIsCounted
  <2> QED
    BY <2>1, <2>2, <2>3
<1>12. SeriesIsRead'
  <2>1. \A d \in known : /\ Cardinality(Begun(d, d))' <= Counters!Shown(d)'
                         /\ Counters!Shown(d)' <= Cardinality(EventsOf(d, d))'
    BY <1>5, <1>9
  <2>2. Counters!Shown(Counters!Today)' = Counters!Shown(t)'
    BY <1>5 DEF Counters!Shown
  <2>3. RetentionDays >= ShortDays => report'.short <=
          Counters!Total({r \in report.perDay : r.dia > Counters!Today - ShortDays})'
    BY <1>3, <1>5, <1>11 DEF Counters!Total, Counters!Units
  <2> QED
    BY <1>3, <1>5, <1>10, <2>1, <2>2, <2>3 DEF SeriesIsRead
<1>13. LastIsRead'
  BY <1>3 DEF LastIsRead
<1> QED
  BY <1>1, <1>3, <1>7, <1>8, <1>12, <1>13, ReadingStays DEF CounterInv, ReportInv

(* What Max finds among the times of the rows. *)
LEMMA LatestIs ==
  ASSUME CounterInv, table # {}, NEW latest, latest = Counters!Max({r.ultimo : r \in table})
  PROVE  /\ latest \in Nat
         /\ \E e \in past : e.at = latest
         /\ \A r \in table : r.ultimo <= latest
<1> DEFINE times == {r.ultimo : r \in table}
<1>1. /\ \A r \in table : r.ultimo \in Nat /\ \E e \in past : e.at = r.ultimo
      /\ \A e \in past : e.at <= now
      /\ now \in Nat
  BY DEF CounterInv, CounterTypes, CounterRow, RowsAreDays, OneHolds
<1>2. times \subseteq Nat /\ times # {} /\ \A k \in times : k <= now
  BY <1>1
<1>3. PICK m \in times : \A k \in times : k <= m
  BY <1>1, <1>2, GreatestNumber
<1>4. \A k \in times : m >= k
  BY <1>2, <1>3
<1>5. latest \in times /\ \A k \in times : latest >= k
  BY <1>3, <1>4 DEF Counters!Max
<1>6. \A k \in times : k <= latest
  BY <1>2, <1>5
<1> QED
  BY <1>1, <1>2, <1>5, <1>6

LEMMA LastEventPerKeyInv ==
  ASSUME Counters!CounterAssumption, CounterInv, Counters!LastEventPerKey
  PROVE  CounterInv'
<1>. PICK latest : latest = IF table = {} THEN -1 ELSE Counters!Max({r.ultimo : r \in table})
  OBVIOUS
<1>1. /\ report.step = "last"
      /\ report' = [report EXCEPT !.step = "told", !.last = latest]
      /\ UNCHANGED <<now, table, holder, past>>
  BY DEF Counters!LastEventPerKey, Counters!Read, Counters!Never
<1>2. /\ latest \in Nat \cup {-1}
      /\ latest = -1 \/ \E e \in past : e.at = latest
      /\ table # {} => latest \in Nat
      /\ \A r \in table : r.ultimo <= latest
  BY LatestIs
<1>3. /\ report' \in Report /\ report'.step = "told" /\ report'.last = latest
      /\ report'.now = report.now /\ report'.days = report.days /\ report'.before = report.before
      /\ report'.today = report.today /\ report'.short = report.short
      /\ report'.perDay = report.perDay
  BY <1>1, <1>2 DEF CounterInv, CounterTypes, Report
<1>4. /\ Counters!Known' = Counters!Known /\ Counters!Today' = Counters!Today
      /\ WeekStart' = WeekStart /\ \A d : Counters!Shown(d)' = Counters!Shown(d)
      /\ \A a, b : Begun(a, b)' = Begun(a, b) /\ EventsOf(a, b)' = EventsOf(a, b)
  BY <1>1, <1>3, AskingStays DEF Counters!Shown
<1>5. AskedLately' /\ TodayIsRead' /\ ShortIsRead'
  BY <1>1, <1>3, <1>4 DEF CounterInv, ReportInv, AskedLately, TodayIsRead, ShortIsRead
<1>6. SeriesIsRead'
  <2>1. SeriesIsRead
    BY DEF CounterInv, ReportInv
  <2>2. Counters!Shown(Counters!Today)' = Counters!Shown(Counters!Today)
    BY <1>3, <1>4 DEF Counters!Shown
  <2>3. Counters!Total({r \in report.perDay : r.dia > Counters!Today - ShortDays})'
          = Counters!Total({r \in report.perDay : r.dia > Counters!Today - ShortDays})
    BY <1>3, <1>4 DEF Counters!Total, Counters!Units
  <2> QED
    BY <1>1, <1>3, <1>4, <2>1, <2>2, <2>3 DEF SeriesIsRead
<1>7. ASSUME NEW d \in Counters!Known, NEW e \in past, e.dia = d
      PROVE  latest >= e.at /\ latest # -1
  <2>1. d \in Int /\ d > Counters!Today - RetentionDays
    BY <1>1, <1>7, KnownAreKept
  <2>2. e \in EventsOf(d, d) /\ EventsOf(d, d) \subseteq past
    BY <1>7, <2>1 DEF EventsOf
  <2>3. Cardinality(EventsOf(d, d)) > 0
    BY <2>2, EventsAreFinite DEF CounterInv
  <2>4. PICK r \in InDays(d, d) : TRUE
    BY <1>1, <2>1, <2>3, DayIsCounted
  <2>5. r \in table /\ r.dia = d
    <3>1. \A k \in Int : k \in d .. d => k = d
      BY <2>1
    <3> QED
      BY <2>4, <3>1 DEF InDays, CounterInv, CounterTypes, CounterRow
  <2>6. e.at <= r.ultimo /\ r.ultimo <= latest /\ latest \in Nat
    BY <1>2, <1>7, <2>5 DEF CounterInv, RowsAreDays
  <2>7. e.at \in Nat /\ r.ultimo \in Nat
    BY <1>7, <2>5 DEF CounterInv, CounterTypes, CounterRow, Event
  <2> QED
    BY <2>6, <2>7
<1>8. \A e \in report.before : e.dia \in Counters!Known => latest >= e.at
  BY <1>1, <1>7 DEF CounterInv, ReportInv, AskedLately
<1>9. ASSUME NEW d \in Counters!Known, Counters!Shown(d) > 0
      PROVE  latest # -1
  <2>1. d \in Int
    BY <1>1, KnownAreKept
  <2>2. EventsOf(d, d) # {}
    <3>1. Counters!Shown(d) <= Cardinality(EventsOf(d, d))
      BY <1>1 DEF CounterInv, ReportInv, SeriesIsRead
    <3>2. EventsOf(d, d) = {} => Cardinality(EventsOf(d, d)) = 0
      BY FS_EmptySet
    <3>3. Counters!Shown(d) \in Nat
      BY ShownIs DEF CounterInv
    <3> QED
      BY <1>9, <3>1, <3>2, <3>3
  <2>3. PICK e \in past : e.dia = d
    <3>1. \A k \in Int : k \in d .. d => k = d
      BY <2>1
    <3>2. \A e \in past : e.dia \in Int
      BY DEF CounterInv, CounterTypes, Event
    <3> QED
      BY <2>2, <3>1, <3>2 DEF EventsOf
  <2> QED
    BY <1>7, <1>9, <2>3
<1>10. LastIsRead'
  BY <1>1, <1>2, <1>3, <1>4, <1>8, <1>9 DEF LastIsRead
<1> QED
  BY <1>1, <1>3, <1>5, <1>6, <1>10, ReadingStays DEF CounterInv, ReportInv

LEMMA CounterNext ==
  ASSUME Counters!CounterAssumption, CounterInv, [Counters!Next]_(Counters!vars)
  PROVE  CounterInv'
<1>1. CASE UNCHANGED Counters!vars
  <2>1. report \in Report /\ UNCHANGED <<now, table, holder, report, past>>
    BY <1>1 DEF Counters!vars, CounterInv, CounterTypes
  <2>2. CounterTypes' /\ OneHolds' /\ RowsAreDays' /\ DaysAreKept'
    BY <2>1, ReadingStays
  <2>3. AskedLately'
    BY <2>1 DEF CounterInv, ReportInv, AskedLately
  <2> QED
    BY <2>1, <2>2, <2>3, ReportStays DEF CounterInv
<1>2. CASE Counters!Next
  BY <1>2, CounterRecordInv, CounterIncrementInv, CounterPurgeInv, SeriesWindowInv,
     ReadTodayInv, ReadShortInv, ReadSeriesInv, LastEventPerKeyInv, CounterTickInv DEF
     Counters!Next
<1> QED
  BY <1>1, <1>2

LEMMA NumbersOfCounterInv ==
  ASSUME Counters!CounterAssumption, CounterInv
  PROVE  Counters!NumbersAreOfTheirDays
<1> SUFFICES ASSUME report.step = "told"
             PROVE  Counters!NumbersAreOfTheirDays
  BY DEF Counters!NumbersAreOfTheirDays
<1>1. /\ Counters!Today \in Int
      /\ \A d \in Counters!Known : d \in Int
  BY KnownAreKept
<1>2. \A d \in Int : /\ Counters!OfDay(report.before, d) = Cardinality(Begun(d, d))
                     /\ Counters!OfDay(past, d) = Cardinality(EventsOf(d, d))
  <2> SUFFICES ASSUME NEW d \in Int
               PROVE  /\ Counters!OfDay(report.before, d) = Cardinality(Begun(d, d))
                      /\ Counters!OfDay(past, d) = Cardinality(EventsOf(d, d))
    OBVIOUS
  <2>1. \A k \in Int : k \in d .. d <=> k = d
    OBVIOUS
  <2>2. report.before \subseteq past /\ \A e \in past : e.dia \in Int
    BY DEF CounterInv, CounterTypes, ReportInv, AskedLately, Event
  <2>3. {e \in report.before : e.dia = d} = Begun(d, d) /\ {e \in past : e.dia = d} = EventsOf(d, d)
    BY <2>1, <2>2 DEF Begun, EventsOf
  <2> QED
    BY <2>3, CounterCardinality DEF Counters!OfDay
<1>3. \A d \in Counters!Known :
        /\ Counters!OfDay(report.before, d) <= Counters!Shown(d)
        /\ Counters!Shown(d) <= Counters!OfDay(past, d)
  BY <1>1, <1>2 DEF CounterInv, ReportInv, SeriesIsRead
<1>4. /\ Counters!OfDay(report.before, Counters!Today) <= report.today
      /\ report.today <= Counters!Shown(Counters!Today)
  BY <1>1, <1>2 DEF CounterInv, ReportInv, TodayIsRead, SeriesIsRead
<1>5. RetentionDays >= ShortDays =>
        /\ Counters!Since(report.before, Counters!Today - (ShortDays - 1)) <= report.short
        /\ report.short <=
             Counters!Total({r \in report.perDay : r.dia > Counters!Today - ShortDays})
  <2>1. Counters!Since(report.before, WeekStart) = Cardinality(Begun(WeekStart, Counters!Today))
    BY CounterCardinality DEF Counters!Since, Begun
  <2> QED
    BY <2>1 DEF CounterInv, ReportInv, ShortIsRead, SeriesIsRead, WeekStart
<1>6. /\ report.last \in {-1} \cup {e.at : e \in past}
      /\ \A e \in report.before : e.dia \in Counters!Known => report.last >= e.at
      /\ (\E d \in Counters!Known : Counters!Shown(d) > 0) => report.last # -1
  BY DEF CounterInv, ReportInv, LastIsRead
<1> QED
  BY <1>3, <1>4, <1>5, <1>6 DEF Counters!NumbersAreOfTheirDays, Counters!Never

HIDE DEF table, holder, report, past

---------------------------------------------------------------------------
(* The renewal of tokens.                                                  *)

instances == s1
tokens == s2
failures == s3
renewer == s4
rounded == s5
outcome == s6
tried == s7
mine == s8
overtaken == s9
hung == s10
restarts == s11

USE DEF instances, tokens, failures, renewer, rounded, outcome, tried, mine, overtaken,
  hung, restarts

(* The modules of the sides share one Cardinality. *)
LEMMA RenewalCardinality == \A S : Renewal!Cardinality(S) = Cardinality(S)
  BY DEF Renewal!Cardinality, Cardinality

AtWork == renewer.pc \in {"calling", "persist"}

IsIssued(t) == \E x \in tokens : x.id = t

(* Meta numbers its tokens: the next number is nobody's. *)
TokensAreTrue ==
  /\ IsFiniteSet(tokens)
  /\ \A x \in tokens : x.id <= Cardinality(tokens)
  /\ \A x, y \in tokens : x.id = y.id => x = y

InstanceIsTrue(s) ==
  instances[s].exists =>
    /\ IsIssued(instances[s].token) /\ instances[s].definido_em \in 0..now
    /\ instances[s].definido_em + TokenValidity
         <= Renewal!Issued(instances[s].token).until + Renewal!Issued(instances[s].token).spent
    /\ s \notin overtaken => Renewal!Issued(instances[s].token).owner = mine[s]

(* The renewal at work: its stamp is the day it began, which has not ended *)
(* unless it waits for Meta for whole days; the token it renews, and the   *)
(* one it got, are those of the owner who set the first.                   *)
RenewerIsTrue ==
  AtWork =>
    /\ renewer.slug \in Slugs /\ renewer.at \in 0..now /\ IsIssued(renewer.seen)
    /\ ~hung => renewer.at = now
    /\ renewer.slug \notin overtaken => Renewal!Issued(renewer.seen).owner = mine[renewer.slug]
    /\ renewer.pc = "persist" =>
         /\ IsIssued(renewer.new)
         /\ renewer.at + TokenValidity
              <= Renewal!Issued(renewer.new).until + Renewal!Issued(renewer.new).spent
         /\ Renewal!Issued(renewer.new).owner = Renewal!Issued(renewer.seen).owner

TokenAge(s) == now - instances[s].definido_em
Tried(s) == instances[s].token \in tried
UnderWay(s) == AtWork /\ renewer.slug = s /\ renewer.seen = instances[s].token

(* A day has room for one round at least: a token as old as RenewAge is    *)
(* tried in the first whole round that comes to its instance, and so none  *)
(* is older and not tried.                                                 *)
DueIsTried(s) ==
  instances[s].exists =>
    /\ TokenAge(s) > RenewAge => Tried(s)
    /\ TokenAge(s) >= RenewAge /\ rounded => Tried(s)
    /\ TokenAge(s) >= RenewAge /\ renewer.pc # "idle" /\ renewer.whole /\ s \notin renewer.todo =>
         Tried(s) \/ UnderWay(s)

FailuresAreLast == \A s \in Slugs : failures[s] # Renewal!Never <=> outcome[s] = "failed"

RenewalInv ==
  /\ Renewal!TypeOK
  /\ TokensAreTrue
  /\ \A s \in Slugs : InstanceIsTrue(s)
  /\ RenewerIsTrue
  /\ ~hung => \A s \in Slugs : DueIsTried(s)
  /\ FailuresAreLast

(* The tokens of Meta.                                                     *)

(* A token is found by its number. *)
LEMMA FoundById ==
  ASSUME NEW T, \A x, y \in T : x.id = y.id => x = y, NEW z \in T
  PROVE  (CHOOSE x \in T : x.id = z.id) = z
<1>1. \E y \in T : y.id = z.id
  OBVIOUS
<1>2. \E y : y \in T /\ y.id = z.id
  BY <1>1
<1> QED
  BY <1>2

(* What is known of the tokens stays as long as none is issued. *)
LEMMA SameTokens ==
  ASSUME tokens' = tokens
  PROVE  /\ TokensAreTrue => TokensAreTrue'
         /\ \A t : IsIssued(t) => IsIssued(t)'
         /\ \A t : Renewal!Issued(t)' = Renewal!Issued(t)
  BY DEF TokensAreTrue, IsIssued, Renewal!Issued

(* ... and, of the others, when one is issued. *)
LEMMA NewToken ==
  ASSUME Renewal!TypeOK, TokensAreTrue, NEW x, x.id = Renewal!Fresh, tokens' = tokens \cup {x}
  PROVE  /\ TokensAreTrue'
         /\ \A t : IsIssued(t) => IsIssued(t)' /\ Renewal!Issued(t)' = Renewal!Issued(t)
         /\ IsIssued(x.id)' /\ Renewal!Issued(x.id)' = x
<1>1. /\ Cardinality(tokens) \in Nat
      /\ \A y \in tokens : y.id \in Nat /\ y.id <= Cardinality(tokens)
  BY FS_CardinalityType DEF TokensAreTrue, Renewal!TypeOK, Renewal!Token
<1>2. x \notin tokens
  BY <1>1, RenewalCardinality DEF Renewal!Fresh
<1>3. IsFiniteSet(tokens') /\ Cardinality(tokens') = Cardinality(tokens) + 1
  BY <1>2, FS_AddElement DEF TokensAreTrue
<1>4. TokensAreTrue'
  BY <1>1, <1>3, RenewalCardinality DEF TokensAreTrue, Renewal!Fresh
<1>5. ASSUME NEW y \in tokens'
      PROVE  IsIssued(y.id)' /\ Renewal!Issued(y.id)' = y
  <2>1. \A a, b \in tokens' : a.id = b.id => a = b
    BY <1>4 DEF TokensAreTrue
  <2>2. (CHOOSE a \in tokens' : a.id = y.id) = y
    BY <2>1, FoundById
  <2> QED
    BY <2>2 DEF IsIssued, Renewal!Issued
<1>6. ASSUME NEW y \in tokens
      PROVE  Renewal!Issued(y.id) = y
  BY FoundById DEF TokensAreTrue, Renewal!Issued
<1>7. ASSUME NEW t, IsIssued(t)
      PROVE  IsIssued(t)' /\ Renewal!Issued(t)' = Renewal!Issued(t)
  <2>1. PICK y \in tokens : y.id = t
    BY <1>7 DEF IsIssued
  <2>2. y \in tokens'
    OBVIOUS
  <2> QED
    BY <2>1, <2>2, <1>5, <1>6
<1> QED
  BY <1>4, <1>5, <1>7

(* The owner and the operator.                                             *)

LEMMA RenewalInit ==
  ASSUME Renewal!RenewalAssumption, Renewal!Init
  PROVE  RenewalInv
<1>1. Renewal!TypeOK
  <2>1. now \in Renewal!Time /\ restarts \in 0..MaxRestarts /\ tokens = {}
    BY DEF Renewal!Init, Renewal!RenewalAssumption, Renewal!Time
  <2>2. Renewal!NoRow \in Renewal!Instance
    BY DEF Renewal!NoRow, Renewal!Instance
  <2>3. /\ renewer \in [pc : {"idle", "next", "calling", "persist"}, todo : SUBSET Slugs,
                        whole : BOOLEAN, slug : Slugs \cup {NoSlug}, seen : Renewal!Token \cup {0},
                        at : Renewal!Time \cup {Renewal!Never}, new : Renewal!Token \cup {0}]
        /\ outcome \in [Slugs -> {"none", "ok", "failed"}]
        /\ failures \in [Slugs -> Renewal!Time \cup {Renewal!Never}]
    BY DEF Renewal!Init, Renewal!Resting
  <2> QED
    BY <2>1, <2>2, <2>3 DEF Renewal!Init, Renewal!TypeOK
<1>2. TokensAreTrue
  BY FS_EmptySet DEF Renewal!Init, TokensAreTrue
<1>3. \A s \in Slugs : InstanceIsTrue(s) /\ DueIsTried(s)
  BY DEF Renewal!Init, Renewal!NoRow, InstanceIsTrue, DueIsTried
<1>4. RenewerIsTrue
  BY DEF Renewal!Init, Renewal!Resting, RenewerIsTrue, AtWork
<1>5. FailuresAreLast
  BY DEF Renewal!Init, FailuresAreLast
<1> QED
  BY <1>1, <1>2, <1>3, <1>4, <1>5 DEF RenewalInv

(* The owner sets a new token: the date is that of the token, and it is    *)
(* too young to be due.  A renewal at work is overtaken.                   *)
LEMMA SetsInv ==
  ASSUME Renewal!RenewalAssumption, RenewalInv, NEW s \in Slugs, Renewal!Sets(s),
         NEW r \in Renewal!Instance, r.exists, r.token = Renewal!Fresh, r.definido_em = now,
         instances' = [instances EXCEPT ![s] = r],
         UNCHANGED <<now, failures, renewer, rounded, outcome, tried, hung, restarts>>
  PROVE  RenewalInv'
<1>0. PICK spent \in Ages :
        tokens' = tokens \cup {[id |-> Renewal!Fresh, owner |-> Renewal!Fresh,
                               until |-> now + TokenValidity - spent, spent |-> spent]}
  BY DEF Renewal!Sets
<1>x. PICK x : x = [id |-> Renewal!Fresh, owner |-> Renewal!Fresh,
                    until |-> now + TokenValidity - spent, spent |-> spent]
  OBVIOUS
<1>a. now \in Nat /\ TokenValidity \in Nat /\ spent \in Nat /\ spent <= TokenValidity
  BY <1>0 DEF RenewalInv, Renewal!TypeOK, Renewal!Time, Renewal!RenewalAssumption
<1>1. /\ tokens' = tokens \cup {x} /\ x.id = Renewal!Fresh
      /\ x.owner = Renewal!Fresh /\ x.until + x.spent = now + TokenValidity
  BY <1>0, <1>x, <1>a
<1>b. x \in [id : Renewal!Token, owner : Renewal!Token, until : Nat, spent : 0..TokenValidity]
  BY <1>x, <1>a DEF Renewal!Sets
<1>2. Renewal!TypeOK'
  <2>2. mine' \in [Slugs -> Renewal!Token \cup {0}] /\ overtaken' \subseteq Slugs
    BY DEF Renewal!Sets, RenewalInv, Renewal!TypeOK
  <2>3. /\ instances' \in [Slugs -> Renewal!Instance]
        /\ \A u \in Slugs : ~instances'[u].exists => instances'[u] = Renewal!NoRow
    BY DEF RenewalInv, Renewal!TypeOK
  <2> QED
    BY <1>1, <1>b, <2>2, <2>3 DEF RenewalInv, Renewal!TypeOK
<1>3. /\ TokensAreTrue'
      /\ \A t : IsIssued(t) => IsIssued(t)' /\ Renewal!Issued(t)' = Renewal!Issued(t)
      /\ IsIssued(x.id)' /\ Renewal!Issued(x.id)' = x
  BY <1>1, NewToken DEF RenewalInv
<1>4. now \in Nat /\ instances'[s] = r /\ mine'[s] = Renewal!Fresh
  BY DEF RenewalInv, Renewal!TypeOK, Renewal!Time, Renewal!Sets
<1>5. ASSUME NEW u \in Slugs, u # s
      PROVE  /\ instances'[u] = instances[u] /\ mine'[u] = mine[u]
             /\ u \in overtaken' <=> u \in overtaken
  BY <1>5 DEF RenewalInv, Renewal!TypeOK, Renewal!Sets
<1>6. ASSUME NEW u \in Slugs
      PROVE  InstanceIsTrue(u)'
  <2>1. CASE u = s
    <3>1. instances'[u].token = x.id /\ instances'[u].definido_em = now /\ mine'[u] = x.owner
      BY <1>1, <1>4, <2>1
    <3>2. Renewal!Issued(instances[u].token)' = x /\ IsIssued(instances[u].token)'
      BY <1>3, <3>1
    <3> QED
      BY <1>1, <1>4, <3>1, <3>2 DEF InstanceIsTrue, Renewal!RenewalAssumption
  <2>2. CASE u # s
    BY <1>3, <1>5, <2>2 DEF RenewalInv, InstanceIsTrue
  <2> QED
    BY <2>1, <2>2
<1>7. RenewerIsTrue'
  <2> SUFFICES ASSUME AtWork
               PROVE  RenewerIsTrue'
    BY DEF RenewerIsTrue, AtWork
  <2>1. renewer.slug = s => s \in overtaken'
    BY DEF Renewal!Sets, Renewal!Renewing, AtWork
  <2>2. RenewerIsTrue
    BY DEF RenewalInv
  <2>3. renewer.slug \notin overtaken' =>
          /\ renewer.slug \notin overtaken
          /\ mine'[renewer.slug] = mine[renewer.slug]
    BY <2>1, <2>2, <1>5 DEF RenewerIsTrue
  <2> QED
    BY <1>3, <2>2, <2>3 DEF RenewerIsTrue, AtWork
<1>8. ASSUME ~hung, NEW u \in Slugs
      PROVE  DueIsTried(u)'
  <2>1. CASE u = s
    BY <1>4, <2>1 DEF DueIsTried, TokenAge, Renewal!RenewalAssumption
  <2>2. CASE u # s
    <3>1. DueIsTried(u)
      BY <1>8 DEF RenewalInv
    <3> QED
      BY <1>5, <2>2, <3>1 DEF DueIsTried, TokenAge, Tried, UnderWay, AtWork
  <2> QED
    BY <2>1, <2>2
<1>9. FailuresAreLast'
  BY DEF RenewalInv, FailuresAreLast, Renewal!Never
<1> QED
  BY <1>2, <1>3, <1>6, <1>7, <1>8, <1>9 DEF RenewalInv

LEMMA CreateInv ==
  ASSUME Renewal!RenewalAssumption, RenewalInv, NEW s \in Slugs, Renewal!CreateInstance(s)
  PROVE  RenewalInv'
<1> DEFINE r == [exists |-> TRUE, token |-> Renewal!Fresh, definido_em |-> now,
                 renovado_em |-> Renewal!Never]
<1>1. r \in Renewal!Instance
  BY DEF Renewal!CreateInstance, Renewal!Sets, RenewalInv, Renewal!TypeOK, Renewal!Instance
<1> QED
  BY <1>1, SetsInv DEF Renewal!CreateInstance

LEMMA RotateInv ==
  ASSUME Renewal!RenewalAssumption, RenewalInv, NEW s \in Slugs, Renewal!RotateInstance(s)
  PROVE  RenewalInv'
<1> DEFINE r == [instances[s] EXCEPT !.token = Renewal!Fresh, !.definido_em = now]
<1>1. instances[s] \in Renewal!Instance
  BY DEF RenewalInv, Renewal!TypeOK
<1>2. /\ r \in Renewal!Instance /\ r.exists
      /\ r.token = Renewal!Fresh /\ r.definido_em = now
  BY <1>1 DEF Renewal!RotateInstance, Renewal!Sets, RenewalInv, Renewal!TypeOK,
     Renewal!Instance
<1>3. instances' = [instances EXCEPT ![s] = r]
  BY DEF Renewal!RotateInstance
<1> HIDE DEF r
<1> QED
  BY <1>2, <1>3, SetsInv DEF Renewal!RotateInstance

(* Nothing is said of a row that is gone. *)
LEMMA RemoveInv ==
  ASSUME Renewal!RenewalAssumption, RenewalInv, NEW s \in Slugs, Renewal!RemoveInstance(s)
  PROVE  RenewalInv'
<1>1. /\ TokensAreTrue'
      /\ \A t : IsIssued(t) => IsIssued(t)'
      /\ \A t : Renewal!Issued(t)' = Renewal!Issued(t)
  BY SameTokens DEF Renewal!RemoveInstance, RenewalInv
<1>2. ASSUME NEW u \in Slugs
      PROVE  IF u = s THEN ~instances'[u].exists ELSE instances'[u] = instances[u]
  BY DEF Renewal!RemoveInstance, RenewalInv, Renewal!TypeOK, Renewal!NoRow
<1>3. Renewal!TypeOK'
  <2>1. Renewal!NoRow \in Renewal!Instance
    BY DEF Renewal!NoRow, Renewal!Instance
  <2> QED
    BY <2>1 DEF Renewal!RemoveInstance, Renewal!history, RenewalInv, Renewal!TypeOK
<1>4. ASSUME NEW u \in Slugs
      PROVE  InstanceIsTrue(u)'
  BY <1>1, <1>2 DEF Renewal!RemoveInstance, Renewal!history, RenewalInv, InstanceIsTrue
<1>5. RenewerIsTrue'
  BY <1>1 DEF Renewal!RemoveInstance, Renewal!history, RenewalInv, RenewerIsTrue, AtWork
<1>6. ASSUME ~hung, NEW u \in Slugs
      PROVE  DueIsTried(u)'
  <2>1. DueIsTried(u)
    BY <1>6 DEF RenewalInv
  <2> QED
    BY <1>2, <2>1 DEF Renewal!RemoveInstance, Renewal!history, DueIsTried, TokenAge,
       Tried, UnderWay, AtWork
<1>7. FailuresAreLast'
  BY DEF Renewal!RemoveInstance, Renewal!history, RenewalInv, FailuresAreLast
<1> QED
  BY <1>1, <1>3, <1>4, <1>5, <1>6, <1>7 DEF Renewal!RemoveInstance, RenewalInv

(* The rounds.                                                             *)

Renewers ==
  [pc : {"idle", "next", "calling", "persist"}, todo : SUBSET Slugs, whole : BOOLEAN,
   slug : Slugs \cup {NoSlug}, seen : Renewal!Token \cup {0},
   at : Renewal!Time \cup {Renewal!Never}, new : Renewal!Token \cup {0}]

(* The rows and the tokens say the same while only time passes. *)
LEMMA SameInstances ==
  ASSUME RenewalInv, UNCHANGED <<instances, tokens, mine, overtaken>>, now' \in Nat, now <= now'
  PROVE  /\ TokensAreTrue'
         /\ \A s \in Slugs : InstanceIsTrue(s)'
<1>1. /\ TokensAreTrue'
      /\ \A t : IsIssued(t) => IsIssued(t)'
      /\ \A t : Renewal!Issued(t)' = Renewal!Issued(t)
  BY SameTokens DEF RenewalInv
<1>2. now \in Nat
  BY DEF RenewalInv, Renewal!TypeOK, Renewal!Time
<1> QED
  BY <1>1, <1>2 DEF RenewalInv, InstanceIsTrue

(* A round begins with the instances there are and ends with none left: if *)
(* it was whole, every token that was due has been tried.                  *)
LEMMA RenewalRoundInv ==
  ASSUME Renewal!RenewalAssumption, RenewalInv, Renewal!ListInstances \/ Renewal!RoundEnds
  PROVE  RenewalInv'
<1>1. /\ UNCHANGED <<now, instances, tokens, failures, outcome, tried, mine, overtaken, hung,
                     restarts>>
      /\ ~AtWork /\ ~AtWork'
      /\ rounded' \in BOOLEAN /\ renewer' \in Renewers
  <2>1. /\ Renewal!Resting \in Renewers
        /\ [Renewal!Resting EXCEPT !.pc = "next",
                                   !.todo = {s \in Slugs : instances[s].exists}] \in Renewers
    BY DEF Renewal!Resting, Renewers
  <2>2. CASE Renewal!ListInstances
    BY <2>1, <2>2 DEF Renewal!ListInstances, Renewal!history, AtWork, Renewal!Resting,
       RenewalInv, Renewal!TypeOK
  <2>3. CASE Renewal!RoundEnds
    <3>1. (rounded \/ renewer.whole) \in BOOLEAN
      OBVIOUS
    <3> QED
      BY <2>1, <2>3, <3>1 DEF Renewal!RoundEnds, Renewal!history, AtWork, Renewal!Resting
  <2> QED
    BY <2>2, <2>3
<1>2. now \in Nat
  BY DEF RenewalInv, Renewal!TypeOK, Renewal!Time
<1>3. Renewal!TypeOK'
  BY <1>1 DEF RenewalInv, Renewal!TypeOK, Renewers
<1>4. TokensAreTrue' /\ \A s \in Slugs : InstanceIsTrue(s)'
  BY <1>1, <1>2, SameInstances
<1>5. RenewerIsTrue' /\ FailuresAreLast'
  BY <1>1 DEF RenewerIsTrue, RenewalInv, FailuresAreLast
<1>6. ASSUME ~hung, NEW s \in Slugs
      PROVE  DueIsTried(s)'
  <2>1. DueIsTried(s)
    BY <1>6 DEF RenewalInv
  <2>2. CASE Renewal!ListInstances
    <3>1. rounded' = rounded /\ renewer'.todo = {u \in Slugs : instances[u].exists}
      BY <2>2 DEF Renewal!ListInstances, Renewal!Resting
    <3> QED
      BY <1>1, <2>1, <3>1 DEF DueIsTried, TokenAge, Tried
  <2>3. CASE Renewal!RoundEnds
    <3>1. renewer'.pc = "idle" /\ rounded' = (rounded \/ renewer.whole)
          /\ renewer.pc = "next" /\ renewer.todo = {}
      BY <2>3 DEF Renewal!RoundEnds, Renewal!Resting
    <3> QED
      BY <1>1, <2>1, <3>1 DEF DueIsTried, TokenAge, Tried, UnderWay
  <2> QED
    BY <2>2, <2>3
<1> QED
  BY <1>1, <1>3, <1>4, <1>5, <1>6 DEF RenewalInv

(* The round leaves an instance behind it: its token is not due, or too    *)
(* old and tried, or it is renewed now; or the round is not whole.         *)
LEMMA FindTokenInv ==
  ASSUME Renewal!RenewalAssumption, RenewalInv, NEW s \in Slugs,
         Renewal!FindInstance(s) \/ Renewal!FindInstanceFails(s)
  PROVE  RenewalInv'
<1>1. /\ UNCHANGED <<now, instances, tokens, failures, rounded, outcome, tried, mine, overtaken,
                     hung, restarts>>
      /\ renewer.pc = "next" /\ renewer'.pc \in {"next", "calling"}
      /\ renewer'.todo = renewer.todo \ {s}
      /\ renewer \in Renewers
  BY DEF Renewal!FindInstance, Renewal!FindInstanceFails, Renewal!history, RenewalInv,
     Renewal!TypeOK, Renewers
<1>2. now \in Renewal!Time /\ instances[s] \in Renewal!Instance
  BY DEF RenewalInv, Renewal!TypeOK
<1>3. renewer' \in Renewers
  <2>1. \/ renewer' = [renewer EXCEPT !.pc = "calling", !.todo = @ \ {s}, !.slug = s,
                                     !.seen = instances[s].token, !.at = now]
        \/ renewer' = [renewer EXCEPT !.todo = @ \ {s}]
        \/ renewer' = [renewer EXCEPT !.todo = @ \ {s}, !.whole = FALSE]
    BY DEF Renewal!FindInstance, Renewal!FindInstanceFails
  <2>2. instances[s].token \in Renewal!Token \cup {0}
    BY <1>2 DEF Renewal!Instance
  <2> QED
    BY <1>1, <1>2, <2>1, <2>2 DEF Renewers
<1>4. Renewal!TypeOK'
  BY <1>1, <1>3 DEF RenewalInv, Renewal!TypeOK, Renewers
<1>5. TokensAreTrue' /\ \A u \in Slugs : InstanceIsTrue(u)'
  BY <1>1, <1>2, SameInstances DEF Renewal!Time
<1>6. ASSUME AtWork'
      PROVE  /\ Renewal!FindInstance(s) /\ instances[s].exists
             /\ renewer'.pc = "calling" /\ renewer'.slug = s
             /\ renewer'.seen = instances[s].token /\ renewer'.at = now
  BY <1>1, <1>6 DEF Renewal!FindInstance, Renewal!FindInstanceFails, AtWork, Renewers
<1>7. RenewerIsTrue'
  <2> SUFFICES ASSUME AtWork'
               PROVE  RenewerIsTrue'
    BY DEF RenewerIsTrue
  <2>1. InstanceIsTrue(s)'
    BY <1>5
  <2>2. IsIssued(instances[s].token)'
    BY <1>1, <1>6, <2>1 DEF InstanceIsTrue
  <2>3. s \notin overtaken' => Renewal!Issued(instances[s].token)'.owner = mine'[s]
    BY <1>1, <1>6, <2>1 DEF InstanceIsTrue
  <2>4. /\ IsIssued(renewer.seen)'
        /\ Renewal!Issued(renewer.seen)' = Renewal!Issued(instances[s].token)'
    BY <1>1, <1>6, <2>2
  <2> QED
    BY <1>1, <1>2, <1>6, <2>3, <2>4 DEF RenewerIsTrue, Renewal!Time
<1>8. ASSUME ~hung, NEW u \in Slugs
      PROVE  DueIsTried(u)'
  <2>1. DueIsTried(u) /\ ~AtWork
    BY <1>1, <1>8 DEF RenewalInv, AtWork
  <2>2. CASE u # s \/ Renewal!FindInstanceFails(s)
    <3>1. u \notin renewer'.todo /\ renewer'.whole => u \notin renewer.todo /\ renewer.whole
      <4>1. CASE Renewal!FindInstanceFails(s)
        <5>1. renewer' = [renewer EXCEPT !.todo = @ \ {s}, !.whole = FALSE]
          BY <4>1 DEF Renewal!FindInstanceFails
        <5> QED
          BY <1>1, <5>1 DEF Renewers
      <4>2. CASE u # s /\ Renewal!FindInstance(s)
        <5>1. renewer'.whole = renewer.whole
          BY <1>1, <4>2 DEF Renewal!FindInstance, Renewers
        <5> QED
          BY <1>1, <4>2, <5>1
      <4> QED
        BY <2>2, <4>1, <4>2
    <3> QED
      BY <1>1, <2>1, <3>1 DEF DueIsTried, TokenAge, Tried, UnderWay
  <2>3. CASE u = s /\ Renewal!FindInstance(s)
    <3>1. ASSUME instances[s].exists, TokenAge(s) >= RenewAge
          PROVE  Tried(s) \/ UnderWay(s)'
      <4>1. now - instances[s].definido_em \in Int
        BY <1>2, <3>1 DEF RenewalInv, InstanceIsTrue, Renewal!Time
      <4>2. CASE TokenAge(s) >= TokenValidity
        BY <2>1, <2>3, <3>1, <4>1, <4>2 DEF DueIsTried, TokenAge, Renewal!RenewalAssumption
      <4>3. CASE ~(TokenAge(s) >= TokenValidity)
        <5>1. Renewal!decideIGTokenRenewal(TokenAge(s)) = "renew"
          BY <3>1, <4>1, <4>3 DEF Renewal!decideIGTokenRenewal, TokenAge,
             Renewal!RenewalAssumption
        <5>2. renewer' = [renewer EXCEPT !.pc = "calling", !.todo = @ \ {s}, !.slug = s,
                                         !.seen = instances[s].token, !.at = now]
          BY <2>3, <3>1, <5>1 DEF Renewal!FindInstance, TokenAge
        <5> QED
          BY <1>1, <5>2 DEF UnderWay, AtWork, Renewers
      <4> QED
        BY <4>2, <4>3
    <3> QED
      BY <1>1, <2>1, <2>3, <3>1 DEF DueIsTried, TokenAge, Tried
  <2> QED
    BY <2>2, <2>3
<1>9. FailuresAreLast'
  BY <1>1 DEF RenewalInv, FailuresAreLast, Renewal!Never
<1> QED
  BY <1>1, <1>4, <1>5, <1>7, <1>8, <1>9 DEF RenewalInv

(* The renewal of one token.                                               *)

(* An attempt that failed: the token it was for is tried. *)
LEMMA FailsInv ==
  ASSUME Renewal!RenewalAssumption, RenewalInv, AtWork, Renewal!Fails(renewer.slug),
         UNCHANGED <<now, instances, tokens, rounded, mine, overtaken, hung, restarts>>
  PROVE  RenewalInv'
<1>1. /\ renewer.slug \in Slugs /\ renewer.at \in Renewal!Time /\ now \in Nat
      /\ renewer.at # Renewal!Never /\ IsIssued(renewer.seen)
  <2>1. RenewerIsTrue /\ now \in 0..RenewalEnd
    BY DEF RenewalInv, Renewal!TypeOK, Renewal!Time
  <2> QED
    BY <2>1 DEF RenewerIsTrue, Renewal!Time, Renewal!Never, Renewal!RenewalAssumption
<1>2. renewer.seen \in Renewal!Token
  BY <1>1 DEF IsIssued, RenewalInv, Renewal!TypeOK
<1>3. /\ renewer'.pc = "next" /\ renewer'.todo = renewer.todo
      /\ renewer'.whole = renewer.whole /\ renewer' \in Renewers
  BY DEF Renewal!Fails, Renewal!NextSlug, RenewalInv, Renewal!TypeOK, Renewers
<1>4. /\ failures' = [failures EXCEPT ![renewer.slug] = IF @ = Renewal!Never THEN renewer.at ELSE @]
      /\ outcome' = [outcome EXCEPT ![renewer.slug] = "failed"]
      /\ tried' = tried \cup {renewer.seen}
  BY DEF Renewal!Fails, Renewal!markFailure
<1>5. Renewal!TypeOK'
  <2>1. failures' \in [Slugs -> Renewal!Time \cup {Renewal!Never}]
    BY <1>1, <1>4 DEF RenewalInv, Renewal!TypeOK
  <2>2. outcome' \in [Slugs -> {"none", "ok", "failed"}] /\ tried' \subseteq Renewal!Token
    BY <1>2, <1>4 DEF RenewalInv, Renewal!TypeOK
  <2> QED
    BY <1>3, <2>1, <2>2 DEF RenewalInv, Renewal!TypeOK, Renewers
<1>6. TokensAreTrue' /\ \A s \in Slugs : InstanceIsTrue(s)'
  BY <1>1, SameInstances
<1>7. RenewerIsTrue'
  BY <1>3 DEF RenewerIsTrue, AtWork
<1>8. ASSUME ~hung, NEW s \in Slugs
      PROVE  DueIsTried(s)'
  <2>1. DueIsTried(s) /\ renewer.pc # "idle"
    BY <1>8 DEF RenewalInv, AtWork
  <2>2. Tried(s) \/ UnderWay(s) => Tried(s)'
    BY <1>4 DEF Tried, UnderWay
  <2> QED
    BY <1>3, <2>1, <2>2 DEF DueIsTried, TokenAge
<1>9. FailuresAreLast'
  <2>1. \A s \in Slugs : failures[s] # Renewal!Never <=> outcome[s] = "failed"
    BY DEF RenewalInv, FailuresAreLast
  <2>2. \A s \in Slugs : failures'[s] # Renewal!Never <=> outcome'[s] = "failed"
    BY <1>1, <1>4, <2>1 DEF RenewalInv, Renewal!TypeOK
  <2> QED
    BY <2>2 DEF FailuresAreLast, Renewal!Never
<1> QED
  BY <1>5, <1>6, <1>7, <1>8, <1>9 DEF RenewalInv

(* Meta gives another token, of the same owner. *)
LEMMA MetaRenewsInv ==
  ASSUME Renewal!RenewalAssumption, RenewalInv, Renewal!MetaRenews
  PROVE  RenewalInv'
<1>1. /\ renewer.pc = "calling" /\ renewer \in Renewers /\ AtWork
      /\ renewer' = [renewer EXCEPT !.pc = "persist", !.new = Renewal!Fresh]
      /\ Renewal!Fresh \in Renewal!Token
      /\ UNCHANGED <<now, instances, failures, rounded, outcome, tried, mine, overtaken, hung,
                     restarts>>
  BY DEF Renewal!MetaRenews, Renewal!history, AtWork, RenewalInv, Renewal!TypeOK, Renewers
<1>2. /\ renewer.slug \in Slugs /\ renewer.at \in 0..now /\ IsIssued(renewer.seen)
      /\ ~hung => renewer.at = now
      /\ renewer.slug \notin overtaken => Renewal!Issued(renewer.seen).owner = mine[renewer.slug]
  BY <1>1 DEF RenewalInv, RenewerIsTrue
<1>3. PICK x : x = [id |-> Renewal!Fresh, owner |-> Renewal!Issued(renewer.seen).owner,
                    until |-> now + TokenValidity, spent |-> 0]
  OBVIOUS
<1>4. tokens' = tokens \cup {x} /\ x.id = Renewal!Fresh /\ x.until = now + TokenValidity
      /\ x.spent = 0 /\ x.owner = Renewal!Issued(renewer.seen).owner
  BY <1>3 DEF Renewal!MetaRenews
<1>5. now \in Nat /\ x.owner \in Renewal!Token
  <2>1. PICK y \in tokens : y.id = renewer.seen
    BY <1>2 DEF IsIssued
  <2>2. Renewal!Issued(y.id) = y
    BY FoundById DEF RenewalInv, TokensAreTrue, Renewal!Issued
  <2> QED
    BY <1>4, <2>1, <2>2 DEF RenewalInv, Renewal!TypeOK, Renewal!Time
<1>6. Renewal!TypeOK'
  <2>1. tokens' \subseteq [id : Renewal!Token, owner : Renewal!Token, until : Nat,
                            spent : 0..TokenValidity]
    BY <1>1, <1>3, <1>4, <1>5 DEF RenewalInv, Renewal!TypeOK, Renewal!RenewalAssumption
  <2>2. renewer' \in Renewers
    BY <1>1 DEF Renewers
  <2> QED
    BY <1>1, <2>1, <2>2 DEF RenewalInv, Renewal!TypeOK, Renewers
<1>7. /\ TokensAreTrue'
      /\ \A t : IsIssued(t) => IsIssued(t)' /\ Renewal!Issued(t)' = Renewal!Issued(t)
      /\ IsIssued(x.id)' /\ Renewal!Issued(x.id)' = x
  BY <1>4, NewToken DEF RenewalInv
<1>8. ASSUME NEW s \in Slugs
      PROVE  InstanceIsTrue(s)'
  BY <1>1, <1>7 DEF RenewalInv, InstanceIsTrue
<1>9. RenewerIsTrue'
  <2>1. /\ renewer'.pc = "persist" /\ renewer'.slug = renewer.slug /\ renewer'.new = x.id
        /\ renewer'.seen = renewer.seen /\ renewer'.at = renewer.at
    BY <1>1, <1>4 DEF Renewers
  <2>2. IsIssued(renewer.new)' /\ Renewal!Issued(renewer.new)' = x
    BY <1>7, <2>1
  <2>3. IsIssued(renewer.seen)' /\ Renewal!Issued(renewer.seen)' = Renewal!Issued(renewer.seen)
    BY <1>2, <1>7, <2>1
  <2>4. renewer'.at + TokenValidity <= x.until + x.spent
    BY <1>2, <1>4, <1>5, <2>1 DEF Renewal!RenewalAssumption
  <2> QED
    BY <1>1, <1>2, <1>4, <2>1, <2>2, <2>3, <2>4 DEF RenewerIsTrue
<1>10. ASSUME ~hung, NEW s \in Slugs
       PROVE  DueIsTried(s)'
  <2>1. DueIsTried(s)
    BY <1>10 DEF RenewalInv
  <2>2. UnderWay(s) => UnderWay(s)'
    BY <1>1 DEF UnderWay, AtWork, Renewers
  <2>3. renewer'.todo = renewer.todo /\ renewer'.whole = renewer.whole /\ renewer.pc # "idle"
    BY <1>1 DEF Renewers
  <2> QED
    BY <1>1, <2>1, <2>2, <2>3 DEF DueIsTried, TokenAge, Tried
<1>11. FailuresAreLast'
  BY <1>1 DEF RenewalInv, FailuresAreLast, Renewal!Never
<1> QED
  BY <1>1, <1>6, <1>7, <1>8, <1>9, <1>10, <1>11 DEF RenewalInv

(* The token and the day its renewal began go into whatever row is there:  *)
(* if the owner has set another one since, the instance is overtaken.      *)
LEMMA PersistInv ==
  ASSUME Renewal!RenewalAssumption, RenewalInv, Renewal!Persist
  PROVE  RenewalInv'
<1>1. PICK s : s = renewer.slug
  OBVIOUS
<1>2. /\ renewer.pc = "persist" /\ renewer \in Renewers /\ AtWork
      /\ instances' = [instances EXCEPT ![s].token = renewer.new, ![s].definido_em = renewer.at,
                            ![s].renovado_em = renewer.at]
      /\ failures' = [failures EXCEPT ![s] = Renewal!Never]
      /\ outcome' = [outcome EXCEPT ![s] = "ok"]
      /\ renewer' = [renewer EXCEPT !.pc = "next", !.slug = NoSlug, !.seen = 0,
                                    !.at = Renewal!Never, !.new = 0]
      /\ instances[s].exists
      /\ UNCHANGED <<now, tokens, rounded, tried, mine, overtaken, hung, restarts>>
  BY <1>1 DEF Renewal!Persist, Renewal!Stamp, Renewal!NextSlug, AtWork, RenewalInv,
     Renewal!TypeOK, Renewers
<1>3. /\ s \in Slugs /\ renewer.at \in 0..now /\ IsIssued(renewer.new)
      /\ ~hung => renewer.at = now
      /\ renewer.at + TokenValidity
           <= Renewal!Issued(renewer.new).until + Renewal!Issued(renewer.new).spent
      /\ s \notin overtaken => Renewal!Issued(renewer.new).owner = mine[s]
  BY <1>1, <1>2 DEF RenewalInv, RenewerIsTrue
<1>4. /\ instances'[s].exists /\ instances'[s].token = renewer.new
      /\ instances'[s].definido_em = renewer.at
      /\ \A u \in Slugs : u # s => instances'[u] = instances[u]
  BY <1>2, <1>3 DEF RenewalInv, Renewal!TypeOK, Renewal!Instance
<1>5. now \in Renewal!Time /\ renewer.at \in Renewal!Time /\ renewer.new \in Renewal!Token \cup {0}
  <2>1. now \in 0..RenewalEnd
    BY DEF RenewalInv, Renewal!TypeOK, Renewal!Time
  <2> QED
    BY <1>2, <1>3, <2>1 DEF Renewal!Time, Renewers, Renewal!RenewalAssumption
<1>6. Renewal!TypeOK'
  <2>1. /\ instances' \in [Slugs -> Renewal!Instance]
        /\ \A u \in Slugs : ~instances'[u].exists => instances'[u] = Renewal!NoRow
    <3>1. instances[s] \in Renewal!Instance
      BY <1>3 DEF RenewalInv, Renewal!TypeOK
    <3>2. [instances[s] EXCEPT !.token = renewer.new, !.definido_em = renewer.at,
                         !.renovado_em = renewer.at] \in Renewal!Instance
      BY <1>5, <3>1 DEF Renewal!Instance
    <3>3. instances' = [instances EXCEPT ![s] = [instances[s] EXCEPT !.token = renewer.new,
                                     !.definido_em = renewer.at, !.renovado_em = renewer.at]]
      BY <1>2, <1>3 DEF RenewalInv, Renewal!TypeOK
    <3>4. instances' \in [Slugs -> Renewal!Instance]
      BY <3>2, <3>3 DEF RenewalInv, Renewal!TypeOK
    <3> QED
      BY <1>4, <3>4 DEF RenewalInv, Renewal!TypeOK
  <2>2. renewer' \in Renewers
    BY <1>2 DEF Renewers
  <2> QED
    BY <1>2, <2>1, <2>2 DEF RenewalInv, Renewal!TypeOK, Renewers
<1>7. /\ TokensAreTrue'
      /\ \A t : IsIssued(t) => IsIssued(t)'
      /\ \A t : Renewal!Issued(t)' = Renewal!Issued(t)
  BY <1>2, SameTokens DEF RenewalInv
<1>8. ASSUME NEW u \in Slugs
      PROVE  InstanceIsTrue(u)'
  <2>1. CASE u = s
    <3>1. /\ IsIssued(instances[s].token)'
          /\ Renewal!Issued(instances[s].token)' = Renewal!Issued(renewer.new)
      BY <1>3, <1>4, <1>7
    <3> QED
      BY <1>2, <1>3, <1>4, <2>1, <3>1 DEF InstanceIsTrue
  <2>2. CASE u # s
    BY <1>2, <1>4, <1>7, <2>2 DEF RenewalInv, InstanceIsTrue
  <2> QED
    BY <2>1, <2>2
<1>9. RenewerIsTrue'
  BY <1>2 DEF RenewerIsTrue, AtWork, Renewers
<1>10. ASSUME ~hung, NEW u \in Slugs
       PROVE  DueIsTried(u)'
  <2>1. DueIsTried(u)
    BY <1>10 DEF RenewalInv
  <2>2. CASE u = s
    BY <1>2, <1>3, <1>4, <1>5, <1>10, <2>2 DEF DueIsTried, TokenAge,
       Renewal!RenewalAssumption, Renewal!Time
  <2>3. CASE u # s
    <3>1. ~UnderWay(u)
      BY <1>1, <2>3 DEF UnderWay
    <3>2. /\ renewer'.todo = renewer.todo /\ renewer'.whole = renewer.whole
          /\ renewer.pc # "idle"
      BY <1>2 DEF Renewers
    <3>3. instances'[u] = instances[u] /\ now' = now /\ tried' = tried /\ rounded' = rounded
      BY <1>2, <1>4, <2>3
    <3> QED
      BY <2>1, <3>1, <3>2, <3>3 DEF DueIsTried, TokenAge, Tried
  <2> QED
    BY <2>2, <2>3
<1>11. FailuresAreLast'
  <2>1. \A u \in Slugs : failures[u] # Renewal!Never <=> outcome[u] = "failed"
    BY DEF RenewalInv, FailuresAreLast
  <2>2. \A u \in Slugs : failures'[u] # Renewal!Never <=> outcome'[u] = "failed"
    BY <1>2, <1>3, <2>1 DEF RenewalInv, Renewal!TypeOK
  <2> QED
    BY <2>2 DEF FailuresAreLast, Renewal!Never
<1> QED
  BY <1>2, <1>6, <1>7, <1>8, <1>9, <1>10, <1>11 DEF RenewalInv

(* The process and the clock.                                              *)

(* What was tried is Meta's to know: a restart forgets only the failures. *)
LEMMA RenewalRestartInv ==
  ASSUME Renewal!RenewalAssumption, RenewalInv, Renewal!Restart
  PROVE  RenewalInv'
<1>1. /\ UNCHANGED <<now, instances, tokens, rounded, tried, mine, overtaken, hung>>
      /\ restarts' \in 0..MaxRestarts
      /\ renewer' = Renewal!Resting /\ Renewal!Resting.pc = "idle" /\ Renewal!Resting \in Renewers
      /\ failures' = [s \in Slugs |-> Renewal!Never] /\ outcome' = [s \in Slugs |-> "none"]
  BY DEF Renewal!Restart, Renewal!Resting, Renewers, RenewalInv, Renewal!TypeOK,
     Renewal!RenewalAssumption
<1>2. Renewal!TypeOK'
  BY <1>1 DEF RenewalInv, Renewal!TypeOK, Renewers
<1>3. now \in Nat
  BY DEF RenewalInv, Renewal!TypeOK, Renewal!Time
<1>4. TokensAreTrue' /\ \A s \in Slugs : InstanceIsTrue(s)'
  BY <1>1, <1>3, SameInstances
<1>5. RenewerIsTrue'
  BY <1>1 DEF RenewerIsTrue, AtWork
<1>6. ASSUME ~hung, NEW s \in Slugs
      PROVE  DueIsTried(s)'
  <2>1. DueIsTried(s)
    BY <1>6 DEF RenewalInv
  <2> QED
    BY <1>1, <2>1 DEF DueIsTried, TokenAge, Tried
<1>7. FailuresAreLast'
  BY <1>1 DEF FailuresAreLast, Renewal!Never
<1> QED
  BY <1>1, <1>2, <1>4, <1>5, <1>6, <1>7 DEF RenewalInv

(* A day ends after a whole round, or with the goroutine waiting for Meta. *)
LEMMA RenewalTickInv ==
  ASSUME Renewal!RenewalAssumption, RenewalInv, Renewal!Tick
  PROVE  RenewalInv'
<1>1. /\ now \in Nat /\ now' = now + 1 /\ now' \in Renewal!Time
      /\ rounded' = FALSE /\ hung' = (hung \/ renewer.pc = "calling")
      /\ renewer.pc = "calling" \/ (renewer.pc = "idle" /\ rounded)
      /\ UNCHANGED <<instances, tokens, failures, renewer, outcome, tried, mine, overtaken,
                     restarts>>
  BY DEF Renewal!Tick, Renewal!history, RenewalInv, Renewal!TypeOK, Renewal!Time,
     Renewal!RenewalAssumption
<1>2. Renewal!TypeOK'
  <2>1. hung' \in BOOLEAN
    BY <1>1 DEF RenewalInv, Renewal!TypeOK
  <2> QED
    BY <1>1, <2>1 DEF RenewalInv, Renewal!TypeOK
<1>3. TokensAreTrue' /\ \A s \in Slugs : InstanceIsTrue(s)'
  BY <1>1, SameInstances
<1>4. RenewerIsTrue'
  <2> SUFFICES ASSUME AtWork
               PROVE  RenewerIsTrue'
    BY <1>1 DEF RenewerIsTrue, AtWork
  <2>1. (\A t : IsIssued(t) => IsIssued(t)') /\ \A t : Renewal!Issued(t)' = Renewal!Issued(t)
    BY <1>1, SameTokens
  <2>2. renewer.pc = "calling" /\ hung'
    BY <1>1 DEF AtWork
  <2>3. /\ renewer.slug \in Slugs /\ renewer.at \in 0..now /\ IsIssued(renewer.seen)
        /\ renewer.slug \notin overtaken => Renewal!Issued(renewer.seen).owner = mine[renewer.slug]
    BY DEF RenewalInv, RenewerIsTrue
  <2>4. renewer.at \in 0..now'
    BY <1>1, <2>3
  <2> QED
    BY <1>1, <2>1, <2>2, <2>3, <2>4 DEF RenewerIsTrue
<1>5. ASSUME ~hung', NEW s \in Slugs
      PROVE  DueIsTried(s)'
  <2>1. ~hung /\ renewer.pc = "idle" /\ rounded
    BY <1>1, <1>5
  <2>2. DueIsTried(s)
    BY <2>1 DEF RenewalInv
  <2>3. instances[s].exists => instances[s].definido_em \in Nat
    BY <1>1 DEF RenewalInv, InstanceIsTrue
  <2> QED
    BY <1>1, <2>1, <2>2, <2>3 DEF DueIsTried, TokenAge, Tried, Renewal!RenewalAssumption
<1>6. FailuresAreLast'
  BY <1>1 DEF RenewalInv, FailuresAreLast, Renewal!Never
<1> QED
  BY <1>2, <1>3, <1>4, <1>5, <1>6 DEF RenewalInv

(* The theorems.                                                           *)

LEMMA RenewalNext ==
  ASSUME Renewal!RenewalAssumption, RenewalInv, [Renewal!Next]_(Renewal!vars)
  PROVE  RenewalInv'
<1>1. CASE UNCHANGED Renewal!vars
  <2>1. now \in Nat /\ UNCHANGED <<instances, tokens, mine, overtaken, now>>
    BY <1>1 DEF Renewal!vars, RenewalInv, Renewal!TypeOK, Renewal!Time
  <2>2. TokensAreTrue' /\ \A s \in Slugs : InstanceIsTrue(s)'
    BY <2>1, SameInstances
  <2>3. (\A t : IsIssued(t) => IsIssued(t)') /\ \A t : Renewal!Issued(t)' = Renewal!Issued(t)
    BY <2>1, SameTokens
  <2>4. RenewerIsTrue'
    BY <1>1, <2>3 DEF Renewal!vars, RenewalInv, RenewerIsTrue, AtWork
  <2>5. ~hung' => \A s \in Slugs : DueIsTried(s)'
    BY <1>1 DEF Renewal!vars, RenewalInv, DueIsTried, TokenAge, Tried, UnderWay, AtWork
  <2>6. Renewal!TypeOK' /\ FailuresAreLast'
    BY <1>1 DEF Renewal!vars, RenewalInv, Renewal!TypeOK, FailuresAreLast, Renewal!Never
  <2> QED
    BY <2>2, <2>4, <2>5, <2>6 DEF RenewalInv
<1>2. CASE Renewal!ListInstances \/ Renewal!RoundEnds
  BY <1>2, RenewalRoundInv
<1>3. ASSUME NEW s \in Slugs, Renewal!FindInstance(s) \/ Renewal!FindInstanceFails(s)
      PROVE  RenewalInv'
  BY <1>3, FindTokenInv
<1>4. ASSUME NEW s \in Slugs,
             \/ Renewal!CreateInstance(s)
             \/ Renewal!RotateInstance(s)
             \/ Renewal!RemoveInstance(s)
      PROVE  RenewalInv'
  BY <1>4, CreateInv, RotateInv, RemoveInv
<1>5. CASE Renewal!MetaRenews \/ Renewal!Persist
  BY <1>5, MetaRenewsInv, PersistInv
<1>6. CASE Renewal!RenewalFails \/ Renewal!PersistFails
  BY <1>6, FailsInv DEF Renewal!RenewalFails, Renewal!PersistFails, AtWork
<1>7. CASE Renewal!Restart \/ Renewal!Tick
  BY <1>7, RenewalRestartInv, RenewalTickInv
<1> QED
  BY <1>1, <1>2, <1>3, <1>4, <1>5, <1>6, <1>7 DEF Renewal!Next

LEMMA AcceptedOfInv ==
  ASSUME Renewal!RenewalAssumption, RenewalInv
  PROVE  Renewal!UnexpiredIsAccepted
<1> SUFFICES ASSUME NEW s \in Slugs, instances[s].exists, Renewal!Verdict(s) # "expired"
             PROVE  now < Renewal!Issued(instances[s].token).until
                            + Renewal!Issued(instances[s].token).spent
  BY DEF Renewal!UnexpiredIsAccepted
<1>1. InstanceIsTrue(s) /\ now \in Nat
  BY DEF RenewalInv, Renewal!TypeOK, Renewal!Time
<1>2. now < instances[s].definido_em + TokenValidity
  BY <1>1 DEF Renewal!Verdict, InstanceIsTrue, Renewal!RenewalAssumption
<1>3. /\ Renewal!Issued(instances[s].token).until \in Nat
      /\ Renewal!Issued(instances[s].token).spent \in Nat
  <2>1. PICK y \in tokens : y.id = instances[s].token
    BY <1>1 DEF InstanceIsTrue, IsIssued
  <2>2. Renewal!Issued(y.id) = y
    BY FoundById DEF RenewalInv, TokensAreTrue, Renewal!Issued
  <2> QED
    BY <2>1, <2>2 DEF RenewalInv, Renewal!TypeOK, Renewal!RenewalAssumption
<1> QED
  BY <1>1, <1>2, <1>3 DEF InstanceIsTrue, Renewal!RenewalAssumption

LEMMA OwnersOfInv ==
  ASSUME RenewalInv
  PROVE  Renewal!OwnersTokenIsKept
  BY DEF RenewalInv, InstanceIsTrue, Renewal!OwnersTokenIsKept

LEMMA AnnouncedOfInv ==
  ASSUME Renewal!RenewalAssumption, RenewalInv
  PROVE  Renewal!ExpiryWasAnnounced
<1>1. ASSUME ~hung, NEW s \in Slugs, instances[s].exists, Renewal!Verdict(s) = "expired"
      PROVE  instances[s].token \in tried
  <2>1. DueIsTried(s) /\ InstanceIsTrue(s) /\ now \in Nat
    BY <1>1 DEF RenewalInv, Renewal!TypeOK, Renewal!Time
  <2>2. now >= instances[s].definido_em + TokenValidity
    BY <1>1 DEF Renewal!Verdict
  <2>3. TokenAge(s) > RenewAge
    BY <1>1, <2>1, <2>2 DEF InstanceIsTrue, TokenAge, Renewal!RenewalAssumption
  <2> QED
    BY <1>1, <2>1, <2>3 DEF DueIsTried, Tried
<1> QED
  BY <1>1 DEF Renewal!ExpiryWasAnnounced, RenewalInv, FailuresAreLast

HIDE DEF instances, tokens, failures, renewer, rounded, outcome, tried, mine, overtaken,
  hung, restarts

---------------------------------------------------------------------------
(* The sides.                                                              *)

(* Each side keeps the invariant of its module. *)
IInv ==
  /\ side = "lifecycle" => Lifecycle!IInv
  /\ side = "pair" => Pair!IInv
  /\ side = "renewal" => RenewalInv
  /\ side = "number" => NumberInv
  /\ side = "certificate" => CertificateInv
  /\ side = "probe" => ProbeInv
  /\ side = "watchdog" => WatchdogInv
  /\ side = "log" => LogInv
  /\ side = "alerts" => AlertInv
  /\ side = "rejections" => RejectionInv
  /\ side = "counters" => CounterInv

LEMMA InitInv ==
  ASSUME Init
  PROVE  IInv
<1>1. side = "lifecycle" => Lifecycle!IInv
  BY ControlPlaneAssumption, Lifecycle!InitInv DEF Init, ControlPlaneAssumption
<1>2. side = "pair" => Pair!IInv
  BY ControlPlaneAssumption, Pair!InitIsTrue DEF Init, ControlPlaneAssumption
<1>3. side = "renewal" => RenewalInv
  BY ControlPlaneAssumption, RenewalInit DEF Init, ControlPlaneAssumption
<1>4. side = "number" => NumberInv
  BY ControlPlaneAssumption, NumberInit DEF Init, ControlPlaneAssumption
<1>5. side = "certificate" => CertificateInv
  BY ControlPlaneAssumption, CertificateInit DEF Init, ControlPlaneAssumption
<1>6. side = "probe" => ProbeInv
  BY ControlPlaneAssumption, ProbeInit DEF Init, ControlPlaneAssumption
<1>7. side = "watchdog" => WatchdogInv
  BY ControlPlaneAssumption, WatchdogInit DEF Init, ControlPlaneAssumption
<1>8. side = "log" => LogInv
  BY ControlPlaneAssumption, LogInit DEF Init, ControlPlaneAssumption
<1>9. side = "alerts" => AlertInv
  BY ControlPlaneAssumption, AlertInit DEF Init, ControlPlaneAssumption
<1>10. side = "rejections" => RejectionInv
  BY ControlPlaneAssumption, RejectionInit DEF Init, ControlPlaneAssumption
<1>11. side = "counters" => CounterInv
  BY ControlPlaneAssumption, CounterInit DEF Init, ControlPlaneAssumption
<1> QED
  BY <1>1, <1>2, <1>3, <1>4, <1>5, <1>6, <1>7, <1>8, <1>9, <1>10, <1>11 DEF IInv

(* A step is one of the side the behaviour has taken. *)
LEMMA SideSteps ==
  ASSUME [Next]_vars
  PROVE  /\ side' = side
         /\ side = "lifecycle" => [Lifecycle!Next]_(Lifecycle!vars)
         /\ side = "pair" => [Pair!Next]_(Pair!vars)
         /\ side = "renewal" => [Renewal!Next]_(Renewal!vars)
         /\ side = "number" => [Number!Next]_(Number!vars)
         /\ side = "certificate" => [Certificate!Next]_(Certificate!vars)
         /\ side = "probe" => [Ingress!Next]_(Ingress!vars)
         /\ side = "watchdog" => [Dog!Next]_(Dog!vars)
         /\ side = "log" => [Log!Next]_(Log!vars)
         /\ side = "alerts" => [Alerts!Next]_(Alerts!vars)
         /\ side = "rejections" => [Rejections!Next]_(Rejections!vars)
         /\ side = "counters" => [Counters!Next]_(Counters!vars)
  BY DEF Next, vars, Lifecycle!vars, Lifecycle!history, Pair!vars, Renewal!vars,
     Number!vars, Certificate!vars, Ingress!vars, Dog!vars, Log!vars, Alerts!vars,
     Rejections!vars, Counters!vars

LEMMA NextInv ==
  ASSUME IInv, [Next]_vars
  PROVE  IInv'
<1>1. side = "lifecycle" => Lifecycle!IInv'
  BY SideSteps, ControlPlaneAssumption, Lifecycle!NextInv DEF IInv, ControlPlaneAssumption
<1>2. side = "pair" => Pair!IInv'
  BY SideSteps, ControlPlaneAssumption, Pair!NextKeepsIInv DEF IInv, ControlPlaneAssumption
<1>3. side = "renewal" => RenewalInv'
  BY SideSteps, ControlPlaneAssumption, RenewalNext DEF IInv, ControlPlaneAssumption
<1>4. side = "number" => NumberInv'
  BY SideSteps, ControlPlaneAssumption, NumberNext DEF IInv, ControlPlaneAssumption
<1>5. side = "certificate" => CertificateInv'
  BY SideSteps, ControlPlaneAssumption, CertificateNext DEF IInv, ControlPlaneAssumption
<1>6. side = "probe" => ProbeInv'
  BY SideSteps, ControlPlaneAssumption, ProbeNext DEF IInv, ControlPlaneAssumption
<1>7. side = "watchdog" => WatchdogInv'
  BY SideSteps, ControlPlaneAssumption, WatchdogNext DEF IInv, ControlPlaneAssumption
<1>8. side = "log" => LogInv'
  BY SideSteps, ControlPlaneAssumption, LogNext DEF IInv, ControlPlaneAssumption
<1>9. side = "alerts" => AlertInv'
  BY SideSteps, ControlPlaneAssumption, AlertNext DEF IInv, ControlPlaneAssumption
<1>10. side = "rejections" => RejectionInv'
  BY SideSteps, ControlPlaneAssumption, RejectionNext DEF IInv, ControlPlaneAssumption
<1>11. side = "counters" => CounterInv'
  BY SideSteps, ControlPlaneAssumption, CounterNext DEF IInv, ControlPlaneAssumption
<1> QED
  BY <1>1, <1>2, <1>3, <1>4, <1>5, <1>6, <1>7, <1>8, <1>9, <1>10, <1>11, SideSteps DEF IInv

LEMMA Invariance == Spec => []IInv
<1>1. Init => IInv
  BY InitInv
<1>2. IInv /\ [Next]_vars => IInv'
  BY NextInv
<1> QED
  BY <1>1, <1>2, PTL DEF Spec

---------------------------------------------------------------------------
(* The life of an instance.                                                *)

(***************************************************************************)
(* The smoke test is the only door to ativo = 1 (smoke.go).                *)
(***************************************************************************)
THEOREM ActivationIsProved == Spec => []ActiveWasProved
<1>1. IInv => ActiveWasProved
  BY Lifecycle!ActivationOfIInv DEF IInv, ActiveWasProved
<1> QED
  BY <1>1, Invariance, PTL

(***************************************************************************)
(* All registrations since the window opened lie within one window (the    *)
(* transaction of RegisterMeta in store.go).                               *)
(***************************************************************************)
THEOREM OneWindow == Spec => []RegistrationsFitOneWindow
<1>1. IInv => RegistrationsFitOneWindow
  BY DEF IInv, RegistrationsFitOneWindow, Lifecycle!IInv
<1> QED
  BY <1>1, Invariance, PTL

(***************************************************************************)
(* A test whose message went out says so (smoke_handler.go).               *)
(***************************************************************************)
THEOREM SendingIsOwnedUp == Spec => []SentIsOwnedUp
<1>1. IInv => SentIsOwnedUp
  BY DEF IInv, SentIsOwnedUp, Lifecycle!IInv
<1> QED
  BY <1>1, Invariance, PTL

(***************************************************************************)
(* A slug used again shows no number from another life (RemoveInstance in  *)
(* store.go), but for a life of which a send was under way at the removal. *)
(***************************************************************************)
THEOREM NumbersDie == Spec => []NumbersDieWithTheInstance
<1>1. IInv => NumbersDieWithTheInstance
  BY DEF IInv, NumbersDieWithTheInstance, Lifecycle!IInv, Lifecycle!NumbersAreTrue
<1> QED
  BY <1>1, Invariance, PTL

(***************************************************************************)
(* No removal takes an active instance (RemoveInstance in store.go).       *)
(***************************************************************************)
THEOREM RemovedWhilePaused == Spec => RemovedOnlyWhilePaused
<1>1. IInv /\ [Next]_vars => [side = "lifecycle" => Lifecycle!RemovalFindsItPaused]_vars
  <2> SUFFICES ASSUME IInv, [Next]_vars, side = "lifecycle"
               PROVE  Lifecycle!RemovalFindsItPaused \/ UNCHANGED vars
    OBVIOUS
  <2>1. [Lifecycle!RemovalFindsItPaused]_(Lifecycle!vars)
    BY SideSteps, Lifecycle!RemovalOfIInv DEF IInv
  <2>2. CASE UNCHANGED Lifecycle!vars
    BY <2>2 DEF Lifecycle!vars, Lifecycle!history, Lifecycle!RemovalFindsItPaused
  <2> QED
    BY <2>1, <2>2
<1> QED
  BY <1>1, Invariance, PTL DEF Spec, RemovedOnlyWhilePaused

---------------------------------------------------------------------------
(* The pair.                                                               *)

(***************************************************************************)
(* The file never lets two machines act, and a failover sends twice only   *)
(* what was not replicated (leadership.go).                                *)
(***************************************************************************)
THEOREM PairIsOne == Spec => []PairActsAsOne
<1>1. IInv => PairActsAsOne
  BY ControlPlaneAssumption, Pair!PairOfIInv DEF IInv, PairActsAsOne, ControlPlaneAssumption
<1> QED
  BY <1>1, Invariance, PTL

(***************************************************************************)
(* `zapgw lost` lists every message of the fallen machine that is at risk  *)
(* (forensics.go).                                                         *)
(***************************************************************************)
THEOREM PostMortemHolds == Spec => []PostMortemIsRight
<1>1. IInv => PostMortemIsRight
  BY ControlPlaneAssumption, Pair!PostMortemOfIInv DEF IInv, PostMortemIsRight,
     ControlPlaneAssumption
<1> QED
  BY <1>1, Invariance, PTL

---------------------------------------------------------------------------
(* The renewal of tokens.                                                  *)

(***************************************************************************)
(* A token the state does not call expired works at Meta, but for the age  *)
(* one of the owner's had when it was set (instagram_renewer.go,           *)
(* instagramTokenInState of state.go).                                     *)
(***************************************************************************)
THEOREM DatesAreKept == Spec => []UnexpiredIsAccepted
<1>1. IInv => UnexpiredIsAccepted
  BY ControlPlaneAssumption, AcceptedOfInv DEF IInv, UnexpiredIsAccepted,
     ControlPlaneAssumption
<1> QED
  BY <1>1, Invariance, PTL

(***************************************************************************)
(* The token of a row descends from the one its owner last set, unless it  *)
(* was set beside a renewal (RenewInstagramTokenAt).                       *)
(***************************************************************************)
THEOREM TokenStaysTheOwners == Spec => []OwnersTokenIsKept
<1>1. IInv => OwnersTokenIsKept
  BY OwnersOfInv DEF IInv, OwnersTokenIsKept
<1> QED
  BY <1>1, Invariance, PTL

(***************************************************************************)
(* `failing` is said exactly of the last attempt, and no token expires     *)
(* before an attempt to renew it has failed, unless the goroutine waited   *)
(* for Meta for whole days (Check, checkOne, markFailure).                 *)
(***************************************************************************)
THEOREM NoSilentFailure == Spec => []ExpiryWasAnnounced
<1>1. IInv => ExpiryWasAnnounced
  BY ControlPlaneAssumption, AnnouncedOfInv DEF IInv, ExpiryWasAnnounced,
     ControlPlaneAssumption
<1> QED
  BY <1>1, Invariance, PTL

---------------------------------------------------------------------------
(* The monitors.                                                           *)

(***************************************************************************)
(* What GET /v1/estado and /v1/health show of a credential and of the      *)
(* ingress was so no longer ago than it is valid, and one check before     *)
(* (Watchdog.Read, the probes of ingress.go and external_probe.go).        *)
(***************************************************************************)
THEOREM MonitorsTellOfNow == Spec => []MonitorsDescribeNow
<1>1. IInv => MonitorsDescribeNow
  BY ControlPlaneAssumption, NowOfWatchdogInv, ShownOfProbeInv
  DEF IInv, MonitorsDescribeNow, ControlPlaneAssumption
<1> QED
  BY <1>1, Invariance, PTL

---------------------------------------------------------------------------
(* The alerts.                                                             *)

(***************************************************************************)
(* While the process lives, a loss was named in a message or waits for the *)
(* summary of the open window (tracker.go); and of bodies above the cap no *)
(* burst goes by without an ALARME, no ALARME comes without a burst, and   *)
(* of three the first and the last are a window apart (countRejection of   *)
(* inbound/handler.go).                                                    *)
(***************************************************************************)
THEOREM LossesAreTold == Spec => []NoLossIsForgotten
<1>1. IInv => NoLossIsForgotten
  BY ControlPlaneAssumption, BurstsOfRejectionInv
  DEF IInv, NoLossIsForgotten, AlertInv, ControlPlaneAssumption
<1> QED
  BY <1>1, Invariance, PTL

(***************************************************************************)
(* The series of failures is what failed since the last accepted message,  *)
(* and its message was earned (tracker.go).                                *)
(***************************************************************************)
THEOREM SeriesHolds == Spec => []SeriesIsWhatFailed
<1>1. IInv => SeriesIsWhatFailed
  BY ControlPlaneAssumption, SeriesOfAlertInv
  DEF IInv, SeriesIsWhatFailed, ControlPlaneAssumption
<1> QED
  BY <1>1, Invariance, PTL

---------------------------------------------------------------------------
(* What the database is asked for.                                         *)

(***************************************************************************)
(* No late write leaves an older observation of a number on top (number.go)*)
(* or makes a certificate older than its writers could (certificate.go),   *)
(* and what GET /v1/estado says of a day was counted on it, the purge and  *)
(* midnight notwithstanding (counter.go, state_handler.go).                *)
(***************************************************************************)
THEOREM ObservationsStayRecent == Spec => []ObservationsAreRecent
<1>1. IInv => ObservationsAreRecent
  BY ControlPlaneAssumption, NewestOfNumberInv, NumbersOfCounterInv
  DEF IInv, ObservationsAreRecent, CertificateInv, ControlPlaneAssumption
<1> QED
  BY <1>1, Invariance, PTL

---------------------------------------------------------------------------
(* The log.                                                                *)

(***************************************************************************)
(* After a turn in which nothing was deleted `zapgw log --seguir` is not   *)
(* blind to any line written since the turn began; a deletion repeats a    *)
(* line at most once; without one each new line is shown exactly once      *)
(* (followLog of log.go, LogLinesSince of transit.go).                     *)
(***************************************************************************)
THEOREM FollowSees == Spec => []FollowIsNotBlind
<1>1. IInv => FollowIsNotBlind
  BY ControlPlaneAssumption, FollowOfLogInv DEF IInv, FollowIsNotBlind,
     ControlPlaneAssumption
<1> QED
  BY <1>1, Invariance, PTL

=============================================================================
