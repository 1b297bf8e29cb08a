---------------------------- MODULE MCTemplates ----------------------------
(* Templates on small instances: a refusal, a limit that comes with the
   status of a refusal, and a server error; a deletion beside a creation, or
   beside another deletion. *)
EXTENDS Templates

CONSTANTS r1, r2, en

SomeRefusals == {<<400, 0>>, <<400, 80007>>, <<500, 0>>}

DeletionBeside ==
  {[r \in Requests |-> IF r = r1 THEN <<"delete", en>> ELSE <<op, en>>] :
     op \in {"create", "delete"}}
=============================================================================
