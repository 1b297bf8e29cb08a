---------------------------- MODULE WebhookParts ----------------------------
(***************************************************************************)
(* Parts of a payload of Meta's (internal/meta/parse.go): any of them may  *)
(* be missing, or have a shape the gateway does not know how to read.      *)
(***************************************************************************)
EXTENDS Naturals, Sequences, SequencesExt

Absent == [state |-> "absent"]
Unreadable == [state |-> "unreadable"]
Read(x) == [state |-> "read", is |-> x]

messageBlock(part, zero) == IF part.state = "read" THEN part.is ELSE zero

(* A number or a string, the one tolerance for an id or a time. *)
textFromNumberOrString(part) == messageBlock(part, "")
toUnix(part) == messageBlock(part, 0)

Broken(part) == part.state = "unreadable"

(* The shapes the decoder leaves: a part is missing, has a shape that is not *)
(* read, or was read as what its place calls for, a list or a block with     *)
(* these fields.                                                             *)
IsPart(part) == part \in {Absent, Unreadable} \/ part = Read(part.is)
IsList(part) == IsPart(part) /\ (part.state = "read" => part.is \in Seq(ToSet(part.is)))
IsBlock(part, fields) ==
  /\ IsPart(part)
  /\ part.state = "read" => /\ part.is = [k \in DOMAIN part.is |-> part.is[k]]
                            /\ fields \subseteq DOMAIN part.is

(* The pieces of an account event's key. *)
Pieces ==
  [template_status   |-> <<"id", "event">>,
   template_category |-> <<"id", "previous", "new">>,
   number_quality    |-> <<"number", "event", "previous", "current">>,
   account_alert     |-> <<"entity", "type", "severity", "state">>]
=============================================================================
