------------------------- MODULE MCInboundDelivery -------------------------
(* InboundDelivery on small instances: what the batches carry. *)
EXTENDS InboundDelivery, TLC

CONSTANTS own, other, acct, alien, big

(* Messages, some name nobody, beside an account event; an account event whose
   account cannot be read; a body above the cap. *)
Mixed ==
  (acct :> [numbers |-> {own, NoId}, accounts |-> {own}, large |-> FALSE])
  @@ (alien :> [numbers |-> {own}, accounts |-> {NoId}, large |-> FALSE])
  @@ (big :> [numbers |-> {own}, accounts |-> {}, large |-> TRUE])

First == [state |-> "active", number |-> own, account |-> own, secretIsMetas |-> TRUE]
=============================================================================
