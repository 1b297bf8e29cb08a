-------------------------------- MODULE Probe --------------------------------
(***************************************************************************)
(* The two probes of the ingress: ConnectorProbe (ingress.go), which asks  *)
(* the tunnel how many connections it has, and ExternalProbe               *)
(* (external_probe.go), which asks somebody outside whether the gateway is *)
(* reached.  Both keep the last answer in memory, with the start of a run  *)
(* of failures, and are read without a call.                               *)
(***************************************************************************)
EXTENDS Integers

CONSTANTS
  Values,      \* what the one asked may say
  Validity,    \* three intervals
  Deadline,    \* connectorProbeDeadline, externalProbeDeadline
  MaxNow,      \* bound: last instant of the clock
  MaxRestarts  \* bound: restarts of the process

ProbeAssumption ==
  /\ Validity \in Nat /\ Deadline \in Nat
  /\ MaxNow \in Nat /\ MaxRestarts \in Nat
  /\ Values \cap {"none", "unknown"} = {}

VARIABLES
  now,
  value,      \* the truth
  m,          \* the last measurement
  asking,     \* the question that is on its way
  was,        \* the last instant at which each value was true
  failed,     \* did the last attempt fail?
  restarts

vars == <<now, value, m, asking, was, failed, restarts>>

Never == -(Validity + Deadline + 1)
Idle == [pc |-> "idle"]
NoMeasurement == [value |-> "none", measuredAt |-> Never, failingSince |-> Never]

Init ==
  /\ now = 0 /\ restarts = 0
  /\ value \in Values
  /\ m = NoMeasurement /\ asking = Idle /\ failed = FALSE
  /\ was = [v \in Values |-> IF v = value THEN now ELSE Never]

(* Measure: one question, by the timer or by `zapgw state`. *)
Measure ==
  /\ asking = Idle
  /\ asking' = [pc |-> "ask", since |-> now, got |-> "none"]
  /\ UNCHANGED <<now, value, m, was, failed, restarts>>

(* The answer: its body decides, whatever its status, if it names the      *)
(* value; a body without it is the same as none.                           *)
Answers ==
  /\ asking.pc = "ask" /\ asking.got = "none"
  /\ asking' = [asking EXCEPT !.got = value]
  /\ UNCHANGED <<now, value, m, was, failed, restarts>>

(* record, of an attempt that failed and of one that answered. *)
RecordFailure ==
  /\ asking.pc = "ask"
  /\ m' = IF m.failingSince = Never THEN [m EXCEPT !.failingSince = now] ELSE m
  /\ asking' = Idle /\ failed' = TRUE
  /\ UNCHANGED <<now, value, was, restarts>>

RecordValue ==
  /\ asking.pc = "ask" /\ asking.got # "none"
  /\ m' = [value |-> asking.got, measuredAt |-> now, failingSince |-> Never]
  /\ asking' = Idle /\ failed' = FALSE
  /\ UNCHANGED <<now, value, was, restarts>>

Changes ==
  /\ value' \in Values \ {value}
  /\ was' = [was EXCEPT ![value'] = now]
  /\ UNCHANGED <<now, m, asking, failed, restarts>>

Tick ==
  /\ now < MaxNow
  /\ asking.pc = "ask" => now < asking.since + Deadline
  /\ now' = now + 1
  /\ was' = [was EXCEPT ![value] = now']
  /\ UNCHANGED <<value, m, asking, failed, restarts>>

Restart ==
  /\ restarts < MaxRestarts /\ restarts' = restarts + 1
  /\ m' = NoMeasurement /\ asking' = Idle /\ failed' = FALSE
  /\ UNCHANGED <<now, value, was>>

Next == Measure \/ Answers \/ RecordFailure \/ RecordValue \/ Changes \/ Tick \/ Restart

Spec == Init /\ [][Next]_vars

---------------------------------------------------------------------------
(* Read: what was measured is shown unless it is old, or attempts fail. *)
Read ==
  IF m.failingSince = Never /\ now - m.measuredAt <= Validity THEN m.value ELSE "unknown"

(***************************************************************************)
(* "A cache that never expires is a lie with a timestamp" (ingress.go):    *)
(* a value that is shown was true no longer ago than the validity and one  *)
(* question, and is not shown while the last attempt failed.               *)
(***************************************************************************)
ShownDescribesNow ==
  Read \in Values => ~failed /\ now - was[Read] <= Validity + Deadline
=============================================================================
