------------------------------- MODULE Phone -------------------------------
(***************************************************************************)
(* The canonical form of a phone number (internal/meta/phone.go), the one  *)
(* that goes to Meta and into the request's hash.  A number as somebody    *)
(* wrote it is a sequence of one-character strings.                        *)
(***************************************************************************)
EXTENDS Naturals, Sequences

Digits == {"0", "1", "2", "3", "4", "5", "6", "7", "8", "9"}

LOCAL IsDigit(c) == c \in Digits

OnlyDigits(number) == SelectSeq(number, IsDigit)

(* A Brazilian mobile number written without its ninth digit: a landline has *)
(* twelve digits too, and its subscriber number starts with 2..5.            *)
LacksTheNinth(d) ==
  /\ Len(d) = 12
  /\ SubSeq(d, 1, 2) = <<"5", "5">>
  /\ d[5] \in {"6", "7", "8", "9"}

Canonicalize(number) ==
  LET d == OnlyDigits(number)
  IN IF LacksTheNinth(d) THEN SubSeq(d, 1, 4) \o <<"9">> \o SubSeq(d, 5, 12)
     ELSE d
=============================================================================
