-------------------------- MODULE MCOutboundSend --------------------------
(* OutboundSend on small instances: the rows an older binary left. *)
EXTENDS OutboundSend

(* One key was reserved by a binary older than the column hash_pedido. *)
OneLegacyRow == {CHOOSE r \in Row : TRUE}
===========================================================================
