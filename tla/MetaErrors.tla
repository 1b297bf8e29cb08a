---------------------------- MODULE MetaErrors ----------------------------
(***************************************************************************)
(* The classes of Meta's errors (internal/meta/errors.go), which are what  *)
(* a consumer acts on: repeat later, do not repeat, call the operator, or  *)
(* "nobody knows what happened".                                           *)
(***************************************************************************)
EXTENDS Naturals

(* unknown never comes from an answer: only from the lack of one. *)
ErrorClass == {"retryable", "permanent", "config", "unknown"}

ServerError == 500..599

(* Codes that are limits whatever status they come with. *)
retryableCodesByNature == {130429, 131056, 133016, 131048, 80007}

classOfStatus(status) ==
  CASE status \in ServerError \cup {408, 425, 429} -> "retryable"
    [] status \in {401, 403}                       -> "config"
    [] OTHER                                       -> "permanent"

(* The code only ever softens a permanent error. *)
ClassifyResponse(status, code) ==
  IF classOfStatus(status) = "permanent" /\ code \in retryableCodesByNature
  THEN "retryable" ELSE classOfStatus(status)
===========================================================================
