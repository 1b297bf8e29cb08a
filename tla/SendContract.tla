--------------------------- MODULE SendContract ---------------------------
(***************************************************************************)
(* What POST /v1/messages promises a consumer about its Idempotency-Key,   *)
(* without saying how: no handlers, no statements, no answers in flight.   *)
(*                                                                         *)
(* Taking a free key grants one attempt to send.  An attempt either        *)
(* creates one message or comes to nothing.  The key is given back only    *)
(* when its attempt came to nothing, or created a message that Meta        *)
(* disowned; otherwise it stays taken until the retention has passed.  A   *)
(* 200 is given only for a message of that key and of that request.        *)
(***************************************************************************)
EXTENDS Naturals, FiniteSets

CONSTANTS Row, Hashes, NoHash, Legacy, TTL

VARIABLES now, keys, grants, messages, acked

cvars == <<now, keys, grants, messages, acked>>

(* A taken key and an attempt are both named by what took the key. *)
Taking(r, q, t) == [row |-> r, hash |-> q, born |-> t]

Init ==
  /\ now = 0
  /\ keys = {Taking(r, NoHash, 0) : r \in Legacy}
  /\ grants = {} /\ messages = {} /\ acked = {}

Reserve(r, q) ==
  /\ \A k \in keys : k.row # r
  /\ keys' = keys \cup {Taking(r, q, now)}
  /\ grants' = grants \cup {Taking(r, q, now)}
  /\ UNCHANGED <<now, messages, acked>>

Create(g, disowned) ==
  /\ messages' = messages \cup {[id |-> Cardinality(messages) + 1, row |-> g.row,
                                 hash |-> g.hash, born |-> g.born, disowned |-> disowned]}
  /\ grants' = grants \ {g}
  /\ UNCHANGED <<now, keys, acked>>

ComeToNothing(G) ==
  /\ grants' = grants \ G
  /\ UNCHANGED <<now, keys, messages, acked>>

(* Nothing of this key can still arrive, or has arrived and was owned. *)
NothingSent(k) ==
  /\ \A g \in grants : g.row = k.row => g.born + TTL < k.born
  /\ \A m \in messages : m.row = k.row => m.disowned \/ m.born + TTL < k.born

GiveBack(k) ==
  /\ NothingSent(k)
  /\ keys' = keys \ {k}
  /\ UNCHANGED <<now, grants, messages, acked>>

Forget ==
  /\ keys' = {k \in keys : k.born + TTL >= now}
  /\ UNCHANGED <<now, grants, messages, acked>>

Acknowledge(m) ==
  /\ acked' = acked \cup {[row |-> m.row, hash |-> m.hash, id |-> m.id]}
  /\ UNCHANGED <<now, keys, grants, messages>>

Tick == now' = now + 1 /\ UNCHANGED <<keys, grants, messages, acked>>

Next ==
  \/ \E r \in Row, q \in Hashes : Reserve(r, q)
  \/ \E g \in grants, d \in BOOLEAN : Create(g, d)
  \/ \E G \in SUBSET grants : ComeToNothing(G)
  \/ \E k \in keys : GiveBack(k)
  \/ Forget
  \/ \E m \in messages : Acknowledge(m)
  \/ Tick

Spec == Init /\ [][Next]_cvars
===========================================================================
