--------------------------- MODULE MCControlPlane ---------------------------
(***************************************************************************)
(* What runs beside the messages, in one run: the alerts, the life of an   *)
(* instance, the pair, the renewal of tokens, the monitors, the counters   *)
(* and the log.                                                            *)
(* They share no state that any of them decides on; a behaviour takes one  *)
(* side and keeps it.  A side's variables are the first of s1, s2, ...; the *)
(* others stay 0.                                                          *)
(***************************************************************************)
EXTENDS Integers, FiniteSets, TLC

CONSTANTS
  \* InstanceLifecycle; Workers are the writers of CounterState as well
  Numbers, Tokens, Smokes, Workers, Types, Window, Horizon, MaxLives,
  \* Failover
  Nodes, Handlers, Keys, Nobody, FileValidity, LeaseTTL, PairEnd, MaxTakeovers,
  \* InstagramRenewal
  Slugs, NoSlug, TokenValidity, MinAge, RenewAge, Ages, RenewalEnd, MaxTokens, MaxRestarts,
  \* NumberAtMeta and Watchdog
  Deadline, NumberEnd, MaxLimit, MaxUpdates, VerdictValidity, WatchdogEnd, MaxCredentials,
  \* CallbackCertificate
  Deliverers, CallbackTimeout, KeepAlive, CertificateEnd, MaxSwaps,
  \* Probe
  ProbeValues, ProbeValidity, ProbeDeadline, ProbeEnd,
  \* AlertTracker and RejectionCounter
  LossWindow, SeriesCount, SeriesWindow, Reminder, Deliveries, AlertEnd,
  Threshold, RefusalWindow, MaxRefusals, RefusalEnd,
  \* TransitLog
  LogSlugs, Counterparties, Everyone, FirstLines, MaxLines, MaxDeletions,
  \* CounterState
  CounterDay, RetentionDays, ShortDays, Patience, CounterEnd, MaxEvents

VARIABLES side, now, s1, s2, s3, s4, s5, s6, s7, s8, s9, s10, s11

vars == <<side, now, s1, s2, s3, s4, s5, s6, s7, s8, s9, s10, s11>>

Alerts == INSTANCE AlertTracker WITH
  MaxNow <- AlertEnd,
  loss <- s1, series <- s2, observed <- s3, reported <- s4, sent <- s5, restarts <- s6

Lifecycle == INSTANCE InstanceLifecycleProofs WITH
  clock <- now, row <- s1, enviadas <- s2, smoke <- s3, tx <- s4, accepted <- s5,
  activator <- s6, registered <- s7, life <- s8, sending <- s9, outlived <- s10

Pair == INSTANCE FailoverProofs WITH
  Validity <- FileValidity, MaxNow <- PairEnd,
  lease <- s1, file <- s2, db <- s3, replica <- s4, restored <- s5, fallen <- s6,
  task <- s7, messages <- s8, takeovers <- s9, term <- s10

Renewal == INSTANCE InstagramRenewal WITH
  None <- NoSlug, Validity <- TokenValidity, MaxNow <- RenewalEnd,
  row <- s1, tokens <- s2, failures <- s3, renewer <- s4, rounded <- s5, last <- s6,
  tried <- s7, mine <- s8, overtaken <- s9, hung <- s10, restarts <- s11

Dog == INSTANCE Watchdog WITH
  Validity <- VerdictValidity, MaxNow <- WatchdogEnd, MaxTokens <- MaxCredentials,
  instance <- s1, refused <- s2, fields <- s3, m <- s4, check <- s5, last <- s6

Number == INSTANCE NumberAtMeta WITH
  MaxNow <- NumberEnd,
  limit <- s1, there <- s2, writer <- s3, row <- s4, written <- s5, seen <- s6, updates <- s7

Certificate == INSTANCE CallbackCertificate WITH
  Deliveries <- Deliverers, Timeout <- CallbackTimeout, MaxNow <- CertificateEnd,
  certificate <- s1, connections <- s2, delivery <- s3, row <- s4, newest <- s5, served <- s6

Ingress == INSTANCE Probe WITH
  Values <- ProbeValues, Validity <- ProbeValidity, Deadline <- ProbeDeadline,
  MaxNow <- ProbeEnd,
  value <- s1, m <- s2, asking <- s3, was <- s4, failed <- s5, restarts <- s6

Log == INSTANCE TransitLog WITH
  Slugs <- LogSlugs, Numbers <- Counterparties,
  transito <- now, lines <- s1, follow <- s2, lastRowid <- s3, shown <- s4,
  deletions <- s5, started <- s6, begun <- s7, calm <- s8

Rejections == INSTANCE RejectionCounter WITH
  Window <- RefusalWindow, MaxNow <- RefusalEnd,
  counting <- s1, refused <- s2, restarts <- s3

Counters == INSTANCE CounterState WITH
  Writers <- Workers, Day <- CounterDay, MaxNow <- CounterEnd,
  contador <- s1, writer <- s2, answer <- s3, counted <- s4

ASSUME ControlPlaneAssumption ==
  /\ Alerts!AlertAssumption /\ Lifecycle!LifecycleAssumption
  /\ Pair!FailoverAssumption /\ Renewal!RenewalAssumption
  /\ Dog!WatchdogAssumption /\ Number!NumberAssumption
  /\ Certificate!CertificateAssumption /\ Ingress!ProbeAssumption
  /\ Log!LogAssumption
  /\ Rejections!RejectionAssumption /\ Counters!CounterAssumption

(* Connections and tokens of the lifecycle and writers of the counters are  *)
(* interchangeable: no property names one, and the other sides have none.   *)
LifecycleSymmetry == Permutations(Workers) \cup Permutations(Tokens)

After3 == <<s4, s5, s6, s7, s8, s9, s10, s11>>
After4 == <<s5, s6, s7, s8, s9, s10, s11>>
After6 == <<s7, s8, s9, s10, s11>>
After7 == <<s8, s9, s10, s11>>
After8 == <<s9, s10, s11>>
After10 == <<s11>>

Zero9 == s10 = 0 /\ s11 = 0
Zero8 == s9 = 0 /\ Zero9
Zero7 == s8 = 0 /\ Zero8
Zero6 == s7 = 0 /\ Zero7
Zero4 == s5 = 0 /\ s6 = 0 /\ Zero6
Zero3 == s4 = 0 /\ Zero4

Init ==
  \/ side = "alerts" /\ Alerts!Init /\ Zero6
  \/ side = "lifecycle" /\ Lifecycle!Init /\ s11 = 0
  \/ side = "pair" /\ Pair!Init /\ s11 = 0
  \/ side = "renewal" /\ Renewal!Init
  \/ side = "watchdog" /\ Dog!Init /\ Zero6
  \/ side = "number" /\ Number!Init /\ Zero7
  \/ side = "certificate" /\ Certificate!Init /\ Zero6
  \/ side = "probe" /\ Ingress!Init /\ Zero6
  \/ side = "log" /\ Log!Init /\ Zero8
  \/ side = "rejections" /\ Rejections!Init /\ Zero3
  \/ side = "counters" /\ Counters!Init /\ Zero4

Next ==
  /\ UNCHANGED side
  /\ \/ side = "alerts" /\ Alerts!Next /\ UNCHANGED After6
     \/ side = "lifecycle" /\ Lifecycle!Next /\ UNCHANGED After10
     \/ side = "pair" /\ Pair!Next /\ UNCHANGED After10
     \/ side = "renewal" /\ Renewal!Next
     \/ side = "watchdog" /\ Dog!Next /\ UNCHANGED After6
     \/ side = "number" /\ Number!Next /\ UNCHANGED After7
     \/ side = "certificate" /\ Certificate!Next /\ UNCHANGED After6
     \/ side = "probe" /\ Ingress!Next /\ UNCHANGED After6
     \/ side = "log" /\ Log!Next /\ UNCHANGED After8
     \/ side = "rejections" /\ Rejections!Next /\ UNCHANGED After3
     \/ side = "counters" /\ Counters!Next /\ UNCHANGED After4

Spec == Init /\ [][Next]_vars

-----------------------------------------------------------------------------
(* Properties: those of each side, which its module states and explains.   *)

(* "Never a silently dropped alert" (tracker.go), and the ALARME about     *)
(* bodies above the cap (inbound/handler.go).                              *)
NoLossIsForgotten ==
  /\ side = "alerts" => Alerts!NoLossIsForgotten
  /\ side = "rejections" => Rejections!BurstsAreTold

(* The series of failures an operator hears of (tracker.go). *)
SeriesIsWhatFailed == side = "alerts" => Alerts!SeriesIsWhatFailed

(* The smoke test is the only door to ativo = 1 (smoke.go). *)
ActiveWasProved == side = "lifecycle" => Lifecycle!ActiveWasProved

(* The window of POST /v1/cadastro (store.go). *)
RegistrationsFitOneWindow == side = "lifecycle" => Lifecycle!RegistrationsFitOneWindow

(* The answer of a smoke test whose message went out (smoke_handler.go). *)
SentIsOwnedUp == side = "lifecycle" => Lifecycle!SentIsOwnedUp

(* A slug used again shows no number "from another life" (store.go). *)
NumbersDieWithTheInstance == side = "lifecycle" => Lifecycle!NumbersDieWithTheInstance

(* No removal takes an active instance (RemoveInstance, store.go). *)
RemovedOnlyWhilePaused == [][side = "lifecycle" => Lifecycle!RemovalFindsItPaused]_vars

(* Who may act, and what a failover sends twice (leadership.go). *)
PairActsAsOne == side = "pair" => Pair!PairActsAsOne

(* What `zapgw lost` lists (forensics.go). *)
PostMortemIsRight == side = "pair" => Pair!PostMortemIsRight

(* The date of a token against its life at Meta (instagram_renewer.go). *)
UnexpiredIsAccepted == side = "renewal" => Renewal!UnexpiredIsAccepted

(* A renewal beside the rotation of the owner (instagram_renewer.go). *)
OwnersTokenIsKept == side = "renewal" => Renewal!OwnersTokenIsKept

(* Failures are told and no token expires in silence (instagram_renewer.go). *)
ExpiryWasAnnounced == side = "renewal" => Renewal!ExpiryWasAnnounced

(* What is measured and kept in memory describes now, and is unknown once  *)
(* it is too old (watchdog.go, ingress.go, external_probe.go).             *)
MonitorsDescribeNow ==
  /\ side = "watchdog" => Dog!VerdictDescribesNow
  /\ side = "probe" => Ingress!ShownDescribesNow

(* What is observed and kept in the database is the most recent            *)
(* observation, or as recent as its writers can make it (number.go,        *)
(* certificate.go), and a number of a day is what was counted on it        *)
(* (counter.go).                                                           *)
ObservationsAreRecent ==
  /\ side = "number" => Number!NewestObservationStays
  /\ side = "certificate" => Certificate!CertificateIsRecent
  /\ side = "counters" => Counters!NumbersAreOfTheirDays

(* What `zapgw log --seguir` shows (log.go). *)
FollowIsNotBlind == side = "log" => Log!FollowIsNotBlind

=============================================================================
