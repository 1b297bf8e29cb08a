-------------------------- MODULE InstagramRenewal --------------------------
(***************************************************************************)
(* The renewal of Instagram's long-lived tokens: InstagramRenewer of       *)
(* internal/outbound/instagram_renewer.go, and the block instagram_token   *)
(* of GET /v1/estado (state.go), the only place where anybody is told.     *)
(*                                                                         *)
(* One goroutine goes through the instances, hour after hour, and renews   *)
(* every token that is old enough; the call to Meta is made with a context *)
(* that never ends.  Meanwhile the owner rotates tokens, removes and       *)
(* creates instances, and the process stops.  A tick is a day: between two *)
(* ticks the goroutine has finished a round, or it waits for Meta.         *)
(***************************************************************************)
EXTENDS Naturals, FiniteSets

CONSTANTS
  Slugs,      \* the instances of tipo = instagram
  None,       \* no slug
  Validity,   \* InstagramTokenValidity: 60 days
  MinAge,     \* MinAgeToRenewIGToken: 24 h
  RenewAge,   \* DaysToRenewIGToken: 30 days
  Ages,       \* bound: ages of the owner's tokens on the day they are set
  MaxNow,     \* bound: last day of the clock
  MaxTokens,  \* bound: tokens ever issued
  MaxRestarts \* bound: restarts of the process

RenewalAssumption ==
  /\ Validity \in Nat /\ MinAge \in Nat \ {0} /\ RenewAge \in Nat
  /\ MinAge <= RenewAge /\ RenewAge < Validity
  /\ Ages \subseteq 0..Validity
  /\ MaxNow \in Nat /\ MaxTokens \in Nat /\ MaxRestarts \in Nat
  /\ None \notin Slugs

Never == MaxNow + 1
Time == 0..MaxNow

VARIABLES
  now,
  row,       \* the rows of table instancia
  tokens,    \* the tokens Meta issued: its end, its age when the owner set it,
             \* and the one the owner set that it descends from
  failures,  \* InstagramRenewer.failures
  renewer,   \* where the goroutine is
  rounded,   \* has a whole round ended since the last tick?
  last,      \* history: how the last attempt ended, since the process started
  tried,     \* history: tokens an attempt to renew failed for
  mine,      \* history: the token the owner last set
  overtaken, \* history: did the owner set it while a renewal was at work?
  hung,      \* history: did a day end with the goroutine waiting for Meta?
  restarts

vars == <<now, row, tokens, failures, renewer, rounded, last, tried, mine,
          overtaken, hung, restarts>>
history == <<last, tried, mine, overtaken>>

Token == 1..MaxTokens

Instance == [exists : BOOLEAN, token : Token \cup {0}, definido_em : Time \cup {Never},
             renovado_em : Time \cup {Never}]

NoRow == [exists |-> FALSE, token |-> 0, definido_em |-> Never, renovado_em |-> Never]

Resting == [pc |-> "idle", todo |-> {}, whole |-> TRUE, slug |-> None,
            seen |-> 0, at |-> Never, new |-> 0]

TypeOK ==
  /\ now \in Time /\ restarts \in 0..MaxRestarts
  /\ row \in [Slugs -> Instance]
  /\ \A s \in Slugs : ~row[s].exists => row[s] = NoRow
  /\ tokens \subseteq [id : Token, owner : Token, until : Nat, spent : 0..Validity]
  /\ failures \in [Slugs -> Time \cup {Never}]
  /\ renewer \in [pc : {"idle", "next", "calling", "persist"}, todo : SUBSET Slugs,
                  whole : BOOLEAN, slug : Slugs \cup {None}, seen : Token \cup {0},
                  at : Time \cup {Never}, new : Token \cup {0}]
  /\ rounded \in BOOLEAN /\ hung \in BOOLEAN
  /\ last \in [Slugs -> {"none", "ok", "failed"}]
  /\ tried \subseteq Token
  /\ mine \in [Slugs -> Token \cup {0}] /\ overtaken \subseteq Slugs

Init ==
  /\ now = 0 /\ restarts = 0
  /\ row = [s \in Slugs |-> NoRow]
  /\ tokens = {}
  /\ failures = [s \in Slugs |-> Never]
  /\ renewer = Resting /\ rounded = FALSE
  /\ last = [s \in Slugs |-> "none"]
  /\ tried = {} /\ mine = [s \in Slugs |-> 0] /\ overtaken = {}
  /\ hung = FALSE

Issued(t) == CHOOSE x \in tokens : x.id = t

---------------------------------------------------------------------------
(* The owner and the operator.                                             *)

Fresh == Cardinality(tokens) + 1

(* A renewal that reached Meta or is about to write works on this slug. *)
Renewing(s) == renewer.slug = s /\ renewer.pc \in {"calling", "persist"}

(* The owner sets a long-lived token, of today or as old as it may be (the *)
(* one of the row again counts as another): nobody asks Meta for its age.  *)
Sets(s) ==
  /\ Fresh \in Token
  /\ \E spent \in Ages :
       tokens' = tokens \cup {[id |-> Fresh, owner |-> Fresh,
                              until |-> now + Validity - spent, spent |-> spent]}
  /\ mine' = [mine EXCEPT ![s] = Fresh]
  /\ overtaken' = IF Renewing(s) THEN overtaken \cup {s} ELSE overtaken \ {s}

CreateInstance(s) ==
  /\ ~row[s].exists
  /\ Sets(s)
  /\ row' = [row EXCEPT ![s] = [exists |-> TRUE, token |-> Fresh,
                                definido_em |-> now, renovado_em |-> Never]]
  /\ UNCHANGED <<now, failures, renewer, rounded, last, tried, hung, restarts>>

(* Mutant: the date is written, the column of the token is not. *)
RotateInstance_DateOnly(s) ==
  /\ row[s].exists
  /\ Sets(s)
  /\ row' = [row EXCEPT ![s].definido_em = now]
  /\ UNCHANGED <<now, failures, renewer, rounded, last, tried, hung, restarts>>

(* RotateInstance with a new token_envio: token_renovado_em stays. *)
RotateInstance(s) ==
  /\ row[s].exists
  /\ Sets(s)
  /\ row' = [row EXCEPT ![s].token = Fresh, ![s].definido_em = now]
  /\ UNCHANGED <<now, failures, renewer, rounded, last, tried, hung, restarts>>

RemoveInstance(s) ==
  /\ row[s].exists
  /\ row' = [row EXCEPT ![s] = NoRow]
  /\ UNCHANGED <<now, tokens, failures, renewer, rounded, history, hung, restarts>>

---------------------------------------------------------------------------
(* InstagramRenewer.Check and checkOne.                                    *)

(* ListInstances; if it fails the round ends with nothing done. *)
ListInstances ==
  /\ renewer.pc = "idle"
  /\ renewer' = [Resting EXCEPT !.pc = "next", !.todo = {s \in Slugs : row[s].exists}]
  /\ UNCHANGED <<now, row, tokens, failures, rounded, history, hung, restarts>>

(* Mutant: the age to renew at is taken for the end of the validity. *)
decideIGTokenRenewal_NoWindow(age) ==
  IF age >= RenewAge THEN "expired"
  ELSE IF age < MinAge THEN "too_young" ELSE "wait"

decideIGTokenRenewal(age) ==
  IF age >= Validity THEN "expired"
  ELSE CASE age < MinAge    -> "too_young"
         [] age >= RenewAge -> "renew"
         [] OTHER           -> "wait"

(* FindInstance, and the decision; the token it read is the one renewed. *)
FindInstance(s) ==
  LET age == now - row[s].definido_em IN
  /\ renewer.pc = "next" /\ s \in renewer.todo
  /\ IF row[s].exists /\ decideIGTokenRenewal(age) = "renew"
     THEN renewer' = [renewer EXCEPT !.pc = "calling", !.todo = @ \ {s}, !.slug = s,
                                     !.seen = row[s].token, !.at = now]
     ELSE renewer' = [renewer EXCEPT !.todo = @ \ {s}]
  /\ UNCHANGED <<now, row, tokens, failures, rounded, history, hung, restarts>>

(* The row cannot be read: the next round tries again. *)
FindInstanceFails(s) ==
  /\ renewer.pc = "next" /\ s \in renewer.todo
  /\ renewer' = [renewer EXCEPT !.todo = @ \ {s}, !.whole = FALSE]
  /\ UNCHANGED <<now, row, tokens, failures, rounded, history, hung, restarts>>

RoundEnds ==
  /\ renewer.pc = "next" /\ renewer.todo = {}
  /\ rounded' = (rounded \/ renewer.whole)
  /\ renewer' = Resting
  /\ UNCHANGED <<now, row, tokens, failures, history, hung, restarts>>

(* Only the first failure of a run sets its start. *)
markFailure(s) ==
  failures' = [failures EXCEPT ![s] = IF @ = Never THEN renewer.at ELSE @]

NextSlug ==
  renewer' = [renewer EXCEPT !.pc = "next", !.slug = None, !.seen = 0,
                             !.at = Never, !.new = 0]

Fails(s) ==
  /\ markFailure(s)
  /\ last' = [last EXCEPT ![s] = "failed"]
  /\ tried' = tried \cup {renewer.seen}
  /\ NextSlug

(* Meta refuses, or the connection breaks, or the answer has no token. *)
RenewalFails ==
  /\ renewer.pc = "calling"
  /\ Fails(renewer.slug)
  /\ UNCHANGED <<now, row, tokens, rounded, mine, overtaken, hung, restarts>>

(* Meta renews a token that has not ended: another token, as long again. *)
MetaRenews ==
  /\ renewer.pc = "calling"
  /\ Fresh \in Token
  /\ Issued(renewer.seen).until > now
  /\ tokens' = tokens \cup {[id |-> Fresh, owner |-> Issued(renewer.seen).owner,
                             until |-> now + Validity, spent |-> 0]}
  /\ renewer' = [renewer EXCEPT !.pc = "persist", !.new = Fresh]
  /\ UNCHANGED <<now, row, failures, rounded, history, hung, restarts>>

Stamp == renewer.at

(* RenewInstagramTokenAt, whatever token the row holds by now. *)
Persist ==
  LET s == renewer.slug IN
  /\ renewer.pc = "persist" /\ row[s].exists
  /\ row' = [row EXCEPT ![s].token = renewer.new, ![s].definido_em = Stamp,
                        ![s].renovado_em = Stamp]
  /\ failures' = [failures EXCEPT ![s] = Never]
  /\ last' = [last EXCEPT ![s] = "ok"]
  /\ NextSlug
  /\ UNCHANGED <<now, tokens, rounded, tried, mine, overtaken, hung, restarts>>

(* Mutant: the date of the renewal is stored before the token is. *)
PersistFails_Dated ==
  LET s == renewer.slug IN
  /\ renewer.pc = "persist"
  /\ Fails(s)
  /\ row' = IF row[s].exists THEN [row EXCEPT ![s].definido_em = Stamp] ELSE row
  /\ UNCHANGED <<now, tokens, rounded, mine, overtaken, hung, restarts>>

(* The store fails, or finds no row: the old token stays. *)
PersistFails ==
  /\ renewer.pc = "persist"
  /\ Fails(renewer.slug)
  /\ UNCHANGED <<now, row, tokens, rounded, mine, overtaken, hung, restarts>>

---------------------------------------------------------------------------
(* The process and the clock.                                              *)

Restart ==
  /\ restarts < MaxRestarts
  /\ restarts' = restarts + 1
  /\ failures' = [s \in Slugs |-> Never]
  /\ renewer' = Resting
  /\ last' = [s \in Slugs |-> "none"]
  /\ UNCHANGED <<now, row, tokens, rounded, tried, mine, overtaken, hung>>

Tick ==
  /\ now < MaxNow
  /\ renewer.pc = "calling" \/ (renewer.pc = "idle" /\ rounded)
  /\ now' = now + 1
  /\ rounded' = FALSE
  /\ hung' = (hung \/ renewer.pc = "calling")
  /\ UNCHANGED <<row, tokens, failures, renewer, history, restarts>>

Next ==
  \/ ListInstances \/ RoundEnds
  \/ \E s \in Slugs : \/ FindInstance(s) \/ FindInstanceFails(s) \/ CreateInstance(s)
                      \/ RotateInstance(s) \/ RemoveInstance(s)
  \/ MetaRenews \/ RenewalFails \/ Persist \/ PersistFails
  \/ Restart \/ Tick

Spec == Init /\ [][Next]_vars

---------------------------------------------------------------------------
(* instagramTokenInState: what the consumer reads.                         *)

Verdict(s) ==
  IF now >= row[s].definido_em + Validity THEN "expired"
  ELSE IF failures[s] # Never THEN "failing"
  ELSE IF row[s].renovado_em # Never THEN "ok" ELSE "pending"

---------------------------------------------------------------------------
(***************************************************************************)
(* A token the state does not call expired works at Meta, but for one the  *)
(* owner set when it was no longer new, which is dated by the day it was   *)
(* set: its date promises too much by the age it had then, and no more.    *)
(* A renewed token is never promised too much, whoever rotated, whatever   *)
(* failed in between and however long the call took.                       *)
(***************************************************************************)
UnexpiredIsAccepted ==
  \A s \in Slugs : row[s].exists /\ Verdict(s) # "expired" =>
    now < Issued(row[s].token).until + Issued(row[s].token).spent

(***************************************************************************)
(* The token in the row descends from the one the owner last set, unless   *)
(* the owner set it while a renewal of the one before was at work: that    *)
(* renewal is then written over it.                                        *)
(***************************************************************************)
OwnersTokenIsKept ==
  \A s \in Slugs : row[s].exists /\ s \notin overtaken =>
    Issued(row[s].token).owner = mine[s]

(***************************************************************************)
(* "Honest FROM THE FIRST failure": while the process lives, `failing` is  *)
(* said of an instance exactly if its last attempt failed; and unless the  *)
(* goroutine waited for Meta for whole days, no token is called expired    *)
(* before an attempt to renew it has failed.  (One that was set when it    *)
(* was old may be refused by Meta before it is ever tried: its age is not  *)
(* known.)                                                                 *)
(***************************************************************************)
ExpiryWasAnnounced ==
  /\ \A s \in Slugs : failures[s] # Never <=> last[s] = "failed"
  /\ ~hung => \A s \in Slugs : row[s].exists /\ Verdict(s) = "expired" =>
    row[s].token \in tried

(***************************************************************************)
(* What the renewer is there for (instagram_renewer.go, its header and     *)
(* Start): no token expires "without anything trying to fix it", and the   *)
(* state is honest from the first failure, whatever Meta does.             *)
(***************************************************************************)
NoSilentExpiry ==
  \A s \in Slugs : row[s].exists /\ Verdict(s) = "expired" => row[s].token \in tried
=============================================================================
