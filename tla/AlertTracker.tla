---------------------------- MODULE AlertTracker ----------------------------
(***************************************************************************)
(* What the operator is told on Telegram: Tracker and Sender of            *)
(* internal/alert/tracker.go, for one instance.                            *)
(*                                                                         *)
(* Tracker.Observe hears the outcome of every delivery, under a mutex, and *)
(* decides which messages to send now; Sender hands each one to a          *)
(* goroutine of its own and never looks back.  There is no timer: a        *)
(* summary of losses waits for the next delivery.  Nothing is kept across  *)
(* a restart.                                                              *)
(***************************************************************************)
EXTENDS Integers, FiniteSets

CONSTANTS
  LossWindow,     \* lossAggregationWindow: 10 min
  SeriesCount,    \* seriesFailureThreshold: 10
  SeriesWindow,   \* seriesFailureWindow: 30 min
  Reminder,       \* seriesReminderInterval: 6 h
  Deliveries,     \* bound: deliveries observed
  MaxNow,         \* bound: last instant of the clock
  MaxRestarts     \* bound: restarts of the process

AlertAssumption ==
  /\ LossWindow \in Nat \ {0} /\ SeriesCount \in Nat \ {0}
  /\ SeriesWindow \in Nat \ {0} /\ Reminder \in Nat
  /\ Deliveries \in Nat /\ MaxNow \in Nat /\ MaxRestarts \in Nat

VARIABLES
  now,
  loss,      \* the open window of losses: its start, and the losses buffered
  series,    \* the failures since the last delivery that was accepted
  observed,  \* what was observed of each delivery, numbered as a correlation is
  reported,  \* losses that some message named
  sent,      \* messages handed to the notifier
  restarts

vars == <<now, loss, series, observed, reported, sent, restarts>>

NoLoss   == [open |-> FALSE, start |-> 0, buffered |-> {}]
NoSeries == [open |-> FALSE, first |-> 0, count |-> 0, alerted |-> FALSE, last |-> 0]

Kinds == {"lost", "more_lost", "failing", "still_failing", "back"}

(* `which` is the delivery whose observation sent the message. *)
Message == [kind : Kinds, at : Nat, about : SUBSET Nat, which : Nat]

TypeOK ==
  /\ now \in Nat /\ restarts \in Nat
  /\ loss \in [open : BOOLEAN, start : Nat, buffered : SUBSET Nat]
  /\ series \in [open : BOOLEAN, first : Nat, count : Nat, alerted : BOOLEAN, last : Nat]
  /\ ~loss.open => loss = NoLoss
  /\ ~series.open => series = NoSeries
  /\ \A o \in observed : o.n \in Nat /\ o.at \in Nat /\ o.outcome \in {"loss", "failed", "accepted"}
  /\ reported \subseteq Nat
  /\ sent \subseteq Message

Init ==
  /\ now = 0 /\ restarts = 0
  /\ loss = NoLoss /\ series = NoSeries
  /\ observed = {} /\ reported = {} /\ sent = {}

---------------------------------------------------------------------------
(* Tracker.Observe.                                                        *)

Number == Cardinality(observed) + 1

Msg(kind, about) == [kind |-> kind, at |-> now, about |-> about, which |-> Number]

(* flushLossWindowLocked: an expired window ends, whatever was observed. *)
Expired == loss.open /\ now - loss.start >= LossWindow

(* Mutant: the buffer is dropped with the window it was in. *)
Flushed_DropsBuffer == {}

Flushed ==
  IF Expired /\ loss.buffered # {}
  THEN {Msg("more_lost", loss.buffered)} ELSE {}

Open == IF Expired THEN NoLoss ELSE loss

(* observeLossLocked: the first loss alerts, the next are buffered. *)
ObserveLoss(n) ==
  /\ IF Open.open
     THEN /\ loss' = [Open EXCEPT !.buffered = @ \cup {n}]
          /\ sent' = sent \cup Flushed
          /\ reported' = reported \cup UNION {m.about : m \in Flushed}
     ELSE /\ loss' = [open |-> TRUE, start |-> now, buffered |-> {}]
          /\ sent' = sent \cup Flushed \cup {Msg("lost", {n})}
          /\ reported' = reported \cup {n} \cup UNION {m.about : m \in Flushed}
  /\ UNCHANGED series

Sends(msgs) ==
  /\ sent' = sent \cup Flushed \cup msgs
  /\ reported' = reported \cup UNION {m.about : m \in Flushed}
  /\ loss' = Open

(* A series as this failure leaves it, before the decision to alert. *)
Failing ==
  IF series.open THEN [series EXCEPT !.count = @ + 1]
  ELSE [open |-> TRUE, first |-> now, count |-> 1, alerted |-> FALSE, last |-> 0]

(* Mutant: both the count and the age are asked for. *)
Due_Both == Failing.count >= SeriesCount /\ now - Failing.first >= SeriesWindow

Due == Failing.count >= SeriesCount \/ now - Failing.first >= SeriesWindow

Reminded(s) == [s EXCEPT !.last = now]

(* observeSeriesFailureLocked. *)
ObserveFailure(n) ==
  LET s == Failing IN
  \/ /\ ~s.alerted /\ ~Due
     /\ series' = s /\ Sends({})
  \/ /\ ~s.alerted /\ Due
     /\ series' = [s EXCEPT !.alerted = TRUE, !.last = now]
     /\ Sends({Msg("failing", {})})
  \/ /\ s.alerted /\ now - s.last < Reminder
     /\ series' = s /\ Sends({})
  \/ /\ s.alerted /\ now - s.last >= Reminder
     /\ series' = Reminded(s)
     /\ Sends({Msg("still_failing", {})})

(* observeRecoveryLocked. *)
ObserveAccepted(n) ==
  /\ series' = NoSeries
  /\ Sends(IF series.alerted THEN {Msg("back", {})} ELSE {})

Observe(outcome) ==
  /\ Number <= Deliveries
  /\ observed' = observed \cup {[n |-> Number, at |-> now, outcome |-> outcome]}
  /\ CASE outcome = "loss"     -> ObserveLoss(Number)
       [] outcome = "failed"   -> ObserveFailure(Number)
       [] outcome = "accepted" -> ObserveAccepted(Number)
  /\ UNCHANGED <<now, restarts>>

---------------------------------------------------------------------------
(* The clock and the process.                                              *)

Tick ==
  /\ now < MaxNow
  /\ now' = now + 1
  /\ UNCHANGED <<loss, series, observed, reported, sent, restarts>>

(* The process stops and starts: its memory is gone. *)
Restart ==
  /\ restarts < MaxRestarts
  /\ restarts' = restarts + 1
  /\ loss' = NoLoss /\ series' = NoSeries
  /\ UNCHANGED <<now, observed, reported, sent>>

Next ==
  \/ \E o \in {"loss", "failed", "accepted"} : Observe(o)
  \/ Tick
  \/ Restart

Spec == Init /\ [][Next]_vars

---------------------------------------------------------------------------
Lost == {o.n : o \in {p \in observed : p.outcome = "loss"}}

(***************************************************************************)
(* No loss is forgotten: each one was named in a message, or waits in the  *)
(* open window for the summary ("never a silently dropped alert").  A      *)
(* restart forgets the buffered ones, whatever that comment says, so the   *)
(* promise is the one of a process that lives.                             *)
(***************************************************************************)
NoLossIsForgotten ==
  restarts = 0 => \A n \in Lost : n \in reported \/ n \in loss.buffered

(* The accepted deliveries before delivery n: they name its series. *)
AcceptedBefore(n) ==
  {o.n : o \in {p \in observed : p.outcome = "accepted" /\ p.n < n}}

FailedSince ==
  {o \in observed : o.outcome = "failed" /\ AcceptedBefore(o.n) = AcceptedBefore(Number)}

(* Messages k and m are of one series, k the earlier. *)
About(k, m) == k.which < m.which /\ AcceptedBefore(k.which) = AcceptedBefore(m.which)

(***************************************************************************)
(* A series is what failed since the last accepted delivery: losses        *)
(* neither end nor lengthen it, and the operator has been told of it       *)
(* exactly when it was long enough or old enough as a failure arrived.     *)
(* Restarts included, the operator is never told of a recovery from a      *)
(* series nobody reported, and within a series is reminded no sooner than  *)
(* Reminder after the last message about it.                               *)
(***************************************************************************)
SeriesIsWhatFailed ==
  /\ restarts = 0 =>
       /\ series.count = Cardinality(FailedSince)
       /\ series.alerted <=>
            \/ Cardinality(FailedSince) >= SeriesCount
            \/ \E o, p \in FailedSince : o.at - p.at >= SeriesWindow
  /\ \A m \in sent :
       /\ m.kind = "back" => \E k \in sent : About(k, m) /\ k.kind = "failing"
       /\ m.kind = "still_failing" =>
            \A k \in sent : About(k, m) /\ k.kind \in {"failing", "still_failing"}
                              => m.at - k.at >= Reminder
=============================================================================
