------------------------ MODULE CallbackCertificate ------------------------
(***************************************************************************)
(* The certificate of an instance's callback, as the deliveries see it:    *)
(* Deliverer.observeCertificate (internal/inbound/deliver.go) and the row  *)
(* of table certificado_do_callback (internal/config/certificate.go).      *)
(*                                                                         *)
(* The observation is dated at the start of its delivery and written after *)
(* the callback's answer; a connection that is kept shows the certificate  *)
(* of its handshake.  Nothing compares it with what is stored.             *)
(***************************************************************************)
EXTENDS Integers

CONSTANTS
  Deliveries,  \* goroutines that deliver to this callback
  Timeout,     \* timeout_ms: a delivery's deadline
  KeepAlive,   \* bound: how long a connection outlives its handshake
  MaxNow,      \* bound: last instant of the clock
  MaxSwaps     \* bound: certificates the callback has had

CertificateAssumption ==
  /\ Timeout \in Nat /\ KeepAlive \in Nat
  /\ MaxNow \in Nat /\ MaxSwaps \in Nat \ {0}

VARIABLES
  now,
  certificate,  \* the certificate the callback serves
  connections,  \* the ones of the connections that were kept, and since when
  delivery,     \* what each goroutine is doing
  row,          \* the row of certificado_do_callback
  newest,       \* the start of the latest delivery whose certificate was written
  served        \* the last instant at which each certificate was served

vars == <<now, certificate, connections, delivery, row, newest, served>>

Certificates == 1..MaxSwaps

Idle == [pc |-> "idle"]
None == [certificate |-> 0, at |-> 0]

Init ==
  /\ now = 0 /\ certificate = 1
  /\ connections = {}
  /\ delivery = [d \in Deliveries |-> Idle]
  /\ row = None /\ newest = 0
  /\ served = [c \in Certificates |-> 0]

---------------------------------------------------------------------------
(* Deliverer.Deliver. *)

Start(d) ==
  /\ delivery[d] = Idle
  /\ delivery' = [delivery EXCEPT ![d] = [pc |-> "call", start |-> now, sees |-> 0]]
  /\ UNCHANGED <<now, certificate, connections, row, newest, served>>

(* The request goes out on a new connection, or on one that was kept. *)
Connect(d) ==
  /\ delivery[d].pc = "call" /\ delivery[d].sees = 0
  /\ \E c \in connections \cup {[certificate |-> certificate, at |-> now]} :
       /\ connections' = connections \cup {c}
       /\ delivery' = [delivery EXCEPT ![d].sees = c.certificate]
  /\ UNCHANGED <<now, certificate, row, newest, served>>

(* RecordCallbackCertificate always overwrites. *)
Recorded(sees, start) == [certificate |-> sees, at |-> start]

(* The callback answers in time: the observation is written, unless the    *)
(* write fails, which is only logged.                                      *)
ObserveCertificate(d) ==
  /\ delivery[d].pc = "call" /\ delivery[d].sees # 0
  /\ delivery' = [delivery EXCEPT ![d] = Idle]
  /\ \/ /\ row' = Recorded(delivery[d].sees, delivery[d].start)
        /\ newest' = IF delivery[d].start > newest THEN delivery[d].start ELSE newest
     \/ UNCHANGED <<row, newest>>
  /\ UNCHANGED <<now, certificate, connections, served>>

(* No answer, or none in time: nothing is observed. *)
Fail(d) ==
  /\ delivery[d].pc = "call"
  /\ delivery' = [delivery EXCEPT ![d] = Idle]
  /\ UNCHANGED <<now, certificate, connections, row, newest, served>>

(* RemoveInstance takes the row along. *)
RemoveInstance ==
  /\ row # None
  /\ row' = None /\ newest' = 0
  /\ UNCHANGED <<now, certificate, connections, delivery, served>>

---------------------------------------------------------------------------
(* The callback and the clock. *)

Swap ==
  /\ certificate < MaxSwaps /\ certificate' = certificate + 1
  /\ served' = [served EXCEPT ![certificate'] = now]
  /\ UNCHANGED <<now, connections, delivery, row, newest>>

Tick ==
  /\ now < MaxNow
  /\ \A d \in Deliveries : delivery[d].pc = "call" => now < delivery[d].start + Timeout
  /\ now' = now + 1
  /\ connections' = {c \in connections : now' - c.at <= KeepAlive}
  /\ served' = [served EXCEPT ![certificate] = now']
  /\ UNCHANGED <<certificate, delivery, row, newest>>

Next ==
  \/ \E d \in Deliveries : Start(d) \/ Connect(d) \/ ObserveCertificate(d) \/ Fail(d)
  \/ RemoveInstance \/ Swap \/ Tick

Spec == Init /\ [][Next]_vars

(***************************************************************************)
(* "What the gateway just saw is what counts" (certificate.go:66).  Since  *)
(* the row is always overwritten, a delivery that took longer can put an   *)
(* older observation back; but never one older than the newest by more     *)
(* than the time a delivery may take, and the certificate it shows was     *)
(* served no longer before its date than a connection is kept.             *)
(***************************************************************************)
CertificateIsRecent ==
  row # None =>
    /\ newest - row.at <= Timeout
    /\ row.at - served[row.certificate] <= KeepAlive
=============================================================================
