-------------------------- MODULE RejectionCounter --------------------------
(***************************************************************************)
(* The ALARME about bodies above the cap, for one instance:                *)
(* rejectionCounter of internal/inbound/handler.go.                        *)
(*                                                                         *)
(* A 413 mends nothing: Meta sends the same body again until it gives up.  *)
(* One is not worth waking a person, a burst is, and a burst must not wake *)
(* him for every body in it.  The count lives in a window anchored at its  *)
(* first refusal, in memory, under a mutex: record is one step.            *)
(***************************************************************************)
EXTENDS Integers, Sequences

CONSTANTS
  Threshold,    \* largeBodyThreshold: 3
  Window,       \* largeBodyWindow: 1 h
  MaxRefusals,  \* bound: bodies refused
  MaxNow,       \* bound: last instant of the clock
  MaxRestarts   \* bound: restarts of the process

RejectionAssumption ==
  /\ Threshold \in Nat \ {0} /\ Window \in Nat \ {0}
  /\ MaxRefusals \in Nat /\ MaxNow \in Nat /\ MaxRestarts \in Nat

VARIABLES
  now,
  counting,  \* the window of the instance: when it started, and its count
  refused,   \* every refusal, in order: when, the number told, and whether it alarmed
  restarts

vars == <<now, counting, refused, restarts>>

NoWindow == [start |-> 0, n |-> 0]

TypeOK ==
  /\ now \in Nat /\ restarts \in Nat
  /\ counting \in [start : Nat, n : Nat]
  /\ refused \in Seq([at : Nat, n : Nat, alarm : BOOLEAN])

Init ==
  /\ now = 0 /\ restarts = 0
  /\ counting = NoWindow /\ refused = <<>>

(* The window this refusal counts in. *)
Counting ==
  IF counting.n = 0 \/ now - counting.start >= Window
  THEN [start |-> now, n |-> 0] ELSE counting

(* A body above the cap: 413, and the line that goes with it. *)
Refuse ==
  LET n == Counting.n + 1 IN
  /\ Len(refused) < MaxRefusals
  /\ counting' = [Counting EXCEPT !.n = n]
  /\ refused' = Append(refused, [at |-> now, n |-> n, alarm |-> n = Threshold])
  /\ UNCHANGED <<now, restarts>>

Tick ==
  /\ now < MaxNow /\ now' = now + 1
  /\ UNCHANGED <<counting, refused, restarts>>

(* "It does not need to survive a restart." *)
Restart ==
  /\ restarts < MaxRestarts /\ restarts' = restarts + 1
  /\ counting' = NoWindow
  /\ UNCHANGED <<now, refused>>

Next == Refuse \/ Tick \/ Restart

Spec == Init /\ [][Next]_vars

---------------------------------------------------------------------------
Indices == 1 .. Len(refused)

(* The refusals i .. j came within less than a window. *)
Within(i, j) == refused[j].at - refused[i].at < Window

(***************************************************************************)
(* Whoever operates the gateway hears of a burst, and not of every body.   *)
(*   - no burst goes by untold: 2 * Threshold - 1 refusals within less     *)
(*     than a window had an ALARME among them or in the window before.     *)
(*     (Threshold refusals may be split between two windows and stay       *)
(*     untold; and a restart in between delays the alarm.)                 *)
(*   - no alarm without a burst: the last Threshold refusals of an ALARME  *)
(*     are within less than a window, and the number told is theirs;       *)
(*   - of three alarms, the first and the last are a window apart, within  *)
(*     one life of the process.                                            *)
(***************************************************************************)
BurstsAreTold ==
  /\ \A j \in Indices :
       refused[j].alarm => /\ refused[j].n = Threshold
                           /\ j >= Threshold /\ Within(j - Threshold + 1, j)
  /\ restarts = 0 =>
       /\ \A i, j \in Indices :
            (j - i >= 2 * Threshold - 2 /\ Within(i, j)) =>
               \E k \in 1 .. j : refused[k].alarm /\ Within(k, i)
       /\ \A i, j, k \in Indices :
            (i < j /\ j < k /\ \A m \in {i, j, k} : refused[m].alarm) => ~Within(i, k)
=============================================================================
