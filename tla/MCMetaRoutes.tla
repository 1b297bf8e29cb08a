---------------------------- MODULE MCMetaRoutes ----------------------------
(* The values of MetaRoutes' constants that a .cfg cannot write.           *)
EXTENDS MetaRoutes

CONSTANTS r1, r2

(* Any route beside the one that counts. *)
AnyBesideARead == {w \in [Requests -> Routes] : w[r2] = mark}

OneDownload == {[r \in Requests |-> download]}

(* A refusal of each class, and a limit among the permanent ones. *)
SomeRefusals == {<<400, 100>>, <<400, 130429>>, <<401, 190>>, <<503, 0>>}
=============================================================================
