------------------------- MODULE InstanceLifecycle -------------------------
(***************************************************************************)
(* One instance (one slug) from its creation to its removal: the row in    *)
(* table instancia, the handlers and commands that write it, and the       *)
(* smoke test, the only door to ativo = 1.                                 *)
(*                                                                         *)
(* The smoke test reads the row once and then talks to Meta for seconds;   *)
(* registrations, rotations, pauses, removals and other smoke tests run    *)
(* meanwhile.  RegisterMeta and RemoveInstance are transactions of two     *)
(* statements: SQLite lets a transaction that has read write only if       *)
(* nothing was committed since its read ("fresh"), so the second statement *)
(* either sees what the first one saw or fails.                            *)
(*                                                                         *)
(* Data: a credential is a pair of phone number id and sending token, the  *)
(* two fields that go into a call to Meta; the other columns never decide  *)
(* anything here.  Times are ticks; Never is the empty stamp.              *)
(***************************************************************************)
EXTENDS Integers, FiniteSets

CONSTANTS
    Numbers,     \* phone_number_id values
    Tokens,      \* token_envio values
    Smokes,      \* smoke tests, each run once
    Workers,     \* connections that run RegisterMeta and RemoveInstance
    Types,       \* values of tipo among whatsapp and instagram
    Window,      \* RegistrationWindow, in ticks
    Horizon,     \* bound on the clock
    MaxLives     \* bound on creations of the slug

LifecycleAssumption ==
    /\ Types \subseteq {"whatsapp", "instagram"}
    /\ Window \in Nat \ {0}
    /\ Horizon \in Nat \ {0}
    /\ MaxLives \in Nat \ {0}

Never == 0
Time == 1 .. Horizon
Stamp == Time \cup {Never}
Credential == Numbers \X Tokens
NoCredential == <<"", "">>
Columns == Credential \cup {NoCredential}
Lives == 0 .. MaxLives

VARIABLES
    clock,
    row,        \* the row of table instancia
    enviadas,   \* the counter "enviadas" of the slug: the lives whose sends it counts
    sending,    \* the lives of which POST /v1/messages has a send on its way
    smoke,      \* the smoke tests
    tx,         \* the transactions
    accepted,   \* history: credentials Meta accepted a message with
    activator,  \* history: the smoke test that last set ativo = 1
    registered, \* history: instants of the registrations of this window
    life,       \* history: how often the slug was created
    outlived    \* history: lives of which a send was still to be counted at the removal

vars == <<clock, row, enviadas, sending, smoke, tx, accepted, activator, registered,
          life, outlived>>
history == <<accepted, activator, registered, life>>
numbers == <<enviadas, sending, outlived>>

Row == [exists : BOOLEAN, ativo : BOOLEAN, tipo : {"whatsapp", "instagram"},
        cred : Columns, cadastro_em : Stamp]
Answers == {"none", "activated", "already_active", "not_found", "refused", "sent_not_activated"}
SmokeState ==
    [pc : {"idle", "check", "send", "count", "activate", "answered", "cut_off"},
     seen : Columns,          \* the snapshot FindInstance returned
     life : Lives,            \* ... of this life of the slug
     untouched : BOOLEAN,     \* no credential write or removal since the snapshot
     sent : BOOLEAN,          \* Meta returned the id of a message
     answer : Answers]
Transaction ==
    [at : {"idle", "asked", "register", "remove"},
     cred : Columns, now : Stamp,
     cadastro_em : Stamp,     \* what the first statement read
     fresh : BOOLEAN]         \* nothing was committed since that read

TypeOK ==
    /\ clock \in Time
    /\ row \in Row
    /\ enviadas \subseteq Lives /\ sending \subseteq Lives /\ outlived \subseteq Lives
    /\ smoke \in [Smokes -> SmokeState]
    /\ tx \in [Workers -> Transaction]
    /\ accepted \subseteq Columns
    /\ activator \subseteq Smokes /\ Cardinality(activator) <= 1
    /\ registered \subseteq Time
    /\ life \in Lives

----------------------------------------------------------------------------
(* What a commit does to the others                                        *)

\* Every commit, to whatever table, leaves the open transactions behind.
Behind == [w \in Workers |-> [tx[w] EXCEPT !.fresh = FALSE]]
\* A connection between two transactions.
Idle == [at |-> "idle", cred |-> NoCredential, now |-> Never,
         cadastro_em |-> Never, fresh |-> FALSE]
NoRow == [exists |-> FALSE, ativo |-> FALSE, tipo |-> "whatsapp", cred |-> NoCredential,
          cadastro_em |-> Never]
\* The credential columns were written, or the row was deleted.
Touched == [s \in Smokes |-> [smoke[s] EXCEPT !.untouched = FALSE]]

IsOpen_OneTooLong(cadastro_em, now) ==
    cadastro_em = Never \/ now <= cadastro_em + Window + 1

IsOpen(cadastro_em, now) == cadastro_em = Never \/ now <= cadastro_em + Window

----------------------------------------------------------------------------
(* The operator's commands                                                 *)

\* slug is the primary key: creating an existing one is an error.  The row
\* is born paused and its registration window has not opened.
Create(c, tipo) ==
    /\ ~row.exists
    /\ life < MaxLives
    /\ life' = life + 1
    /\ row' = [exists |-> TRUE, ativo |-> FALSE, tipo |-> tipo, cred |-> c,
                cadastro_em |-> Never]
    /\ registered' = {}
    /\ activator' = {}
    /\ smoke' = Touched
    /\ tx' = Behind
    /\ UNCHANGED <<clock, numbers, accepted>>

\* RotateInstance with a new token_envio; ativo and the window stay.
Rotate(t) ==
    /\ row.exists
    /\ row' = [row EXCEPT !.cred[2] = t]
    /\ smoke' = Touched
    /\ tx' = Behind
    /\ UNCHANGED <<clock, numbers, history>>

Reopen ==
    /\ row.exists
    /\ row' = [row EXCEPT !.cadastro_em = Never]
    /\ registered' = {}
    /\ tx' = Behind
    /\ UNCHANGED <<clock, numbers, smoke, accepted, activator, life>>

\* The consumer's POST /v1/pausa and the operator's command alike.
Pause ==
    /\ row.exists
    /\ row' = [row EXCEPT !.ativo = FALSE]
    /\ tx' = Behind
    /\ UNCHANGED <<clock, numbers, smoke, history>>

\* RemoveInstance: the check and the deletes in one transaction.
RemoveRead(w) ==
    /\ tx[w].at = "idle"
    /\ row.exists /\ ~row.ativo
    /\ tx' = [tx EXCEPT ![w] = [@ EXCEPT !.at = "remove", !.fresh = TRUE]]
    /\ UNCHANGED <<clock, row, numbers, smoke, history>>

\* Sends that have read the row, and whose number is still to be written.
Abroad ==
    sending \cup {smoke[s].life : s \in {t \in Smokes : smoke[t].pc \in {"check", "send", "count"}}}

\* The deletes take the counters of the slug along.
NumbersGo ==
    /\ enviadas' = {}
    /\ outlived' = outlived \cup Abroad
    /\ UNCHANGED sending

RemoveWrite_NoTransaction(w) ==
    /\ tx[w].at = "remove"
    /\ row' = NoRow
    /\ NumbersGo
    /\ registered' = {}
    /\ activator' = {}
    /\ smoke' = Touched
    /\ tx' = [Behind EXCEPT ![w] = Idle]
    /\ UNCHANGED <<clock, accepted, life>>

RemoveWrite_LeavesNumbers(w) ==
    /\ tx[w].at = "remove"
    /\ tx[w].fresh
    /\ row' = NoRow
    /\ outlived' = outlived \cup Abroad /\ UNCHANGED <<enviadas, sending>>
    /\ registered' = {}
    /\ activator' = {}
    /\ smoke' = Touched
    /\ tx' = [Behind EXCEPT ![w] = Idle]
    /\ UNCHANGED <<clock, accepted, life>>

RemoveWrite(w) ==
    /\ tx[w].at = "remove"
    /\ tx[w].fresh
    /\ row' = NoRow
    /\ NumbersGo
    /\ registered' = {}
    /\ activator' = {}
    /\ smoke' = Touched
    /\ tx' = [Behind EXCEPT ![w] = Idle]
    /\ UNCHANGED <<clock, accepted, life>>

----------------------------------------------------------------------------
(* POST /v1/cadastro                                                       *)

\* The handler found the instance, refused Instagram, and read its clock.
RegisterAsk(w, c) ==
    /\ tx[w].at = "idle"
    /\ row.exists /\ row.tipo = "whatsapp"
    /\ tx' = [tx EXCEPT ![w] = [@ EXCEPT !.at = "asked", !.cred = c, !.now = clock]]
    /\ UNCHANGED <<clock, row, numbers, smoke, history>>

\* The transaction reads cadastro_em; a closed window (409) and a row
\* removed meanwhile (404) end it with nothing written.
RegisterRead(w) ==
    /\ tx[w].at = "asked"
    /\ tx' = [tx EXCEPT ![w] =
               IF row.exists /\ IsOpen(row.cadastro_em, tx[w].now)
               THEN [@ EXCEPT !.at = "register", !.fresh = TRUE,
                              !.cadastro_em = row.cadastro_em]
               ELSE Idle]
    /\ UNCHANGED <<clock, row, numbers, smoke, history>>

\* The first insert opens the window; ativo is not among the columns.
RegisterWrite(w) ==
    LET first == IF tx[w].cadastro_em = Never THEN tx[w].now ELSE tx[w].cadastro_em
    IN  /\ tx[w].at = "register"
        /\ tx[w].fresh
        /\ row' = [row EXCEPT !.cred = tx[w].cred, !.cadastro_em = first]
        /\ registered' = registered \cup {tx[w].now}
        /\ smoke' = Touched
        /\ tx' = [Behind EXCEPT ![w] = Idle]
        /\ UNCHANGED <<clock, numbers, accepted, activator, life>>

\* The database refuses the write of a transaction that was left behind.
TransactionFails(w) ==
    /\ tx[w].at \in {"register", "remove"}
    /\ tx' = [tx EXCEPT ![w] = Idle]
    /\ UNCHANGED <<clock, row, numbers, smoke, history>>

----------------------------------------------------------------------------
(* POST /v1/fumaca and zapgw smoke                                         *)

Answering(s, a) == [smoke EXCEPT ![s].pc = "answered", ![s].answer = a]

\* Step 1: the snapshot everything after it works with.
SmokeStart(s) ==
    /\ smoke[s].pc = "idle"
    /\ \/ /\ ~row.exists
          /\ smoke' = Answering(s, "not_found")
       \/ /\ row.exists /\ row.ativo
          /\ smoke' = Answering(s, "already_active")
       \/ /\ row.exists /\ ~row.ativo
          /\ smoke' = [smoke EXCEPT ![s] =
                        [@ EXCEPT !.pc = IF row.tipo = "instagram" THEN "send" ELSE "check",
                                  !.seen = row.cred, !.life = life,
                                  !.untouched = TRUE]]
    /\ UNCHANGED <<clock, row, numbers, tx, history>>

\* Step 2: Meta accepts the token, or the test ends.
SmokeCheck(s) ==
    /\ smoke[s].pc = "check"
    /\ smoke' \in {[smoke EXCEPT ![s].pc = "send"], Answering(s, "refused")}
    /\ UNCHANGED <<clock, row, numbers, tx, history>>

SmokeSend_WithoutId(s) ==
    /\ smoke[s].pc = "send"
    /\ \/ /\ smoke' = [smoke EXCEPT ![s].pc = "count", ![s].sent = TRUE]
          /\ accepted' = accepted
          /\ UNCHANGED tx
       \/ /\ smoke' = Answering(s, "refused")
          /\ tx' = Behind
          /\ UNCHANGED accepted
    /\ UNCHANGED <<clock, row, numbers, activator, registered, life>>

\* Step 3: Meta returns an id; or refuses, stays silent, or returns none
\* (a failure is counted, in a row this model does not follow).
SmokeSend(s) ==
    /\ smoke[s].pc = "send"
    /\ \/ /\ smoke' = [smoke EXCEPT ![s].pc = "count", ![s].sent = TRUE]
          /\ accepted' = accepted \cup {smoke[s].seen}
          /\ UNCHANGED tx
       \/ /\ smoke' = Answering(s, "refused")
          /\ tx' = Behind
          /\ UNCHANGED accepted
    /\ UNCHANGED <<clock, row, numbers, activator, registered, life>>

\* counter.Record(slug, enviadas): table contador references no instance, and
\* a write that fails is only logged.
Record(l) ==
    /\ \/ enviadas' = enviadas \cup {l} /\ tx' = Behind
       \/ UNCHANGED <<enviadas, tx>>
    /\ UNCHANGED outlived

SmokeCount(s) ==
    /\ smoke[s].pc = "count"
    /\ smoke' = [smoke EXCEPT ![s].pc = "activate"]
    /\ Record(smoke[s].life)
    /\ UNCHANGED <<clock, row, sending, history>>

SmokeActivate_FailureAsRefusal(s) ==
    /\ smoke[s].pc = "activate"
    /\ \/ /\ row.exists
          /\ row' = [row EXCEPT !.ativo = TRUE]
          /\ activator' = {s}
          /\ smoke' = Answering(s, "activated")
          /\ tx' = Behind
       \/ /\ ~row.exists
          /\ smoke' = Answering(s, "not_found")
          /\ UNCHANGED <<row, activator, tx>>
       \/ /\ smoke' = Answering(s, "refused")
          /\ UNCHANGED <<row, activator, tx>>
    /\ UNCHANGED <<clock, numbers, accepted, registered, life>>

\* Step 4: UPDATE ... SET ativo = 1 WHERE slug = ?, whatever the row holds by
\* now.  Both failures carry ErrSmokeActivationFailed, but the one of a
\* missing row also carries ErrInstanceNotFound, which respondSmokeError
\* tests first.
SmokeActivate(s) ==
    /\ smoke[s].pc = "activate"
    /\ \/ /\ row.exists
          /\ row' = [row EXCEPT !.ativo = TRUE]
          /\ activator' = {s}
          /\ smoke' = Answering(s, "activated")
          /\ tx' = Behind
       \/ /\ ~row.exists
          /\ smoke' = Answering(s, "not_found")
          /\ UNCHANGED <<row, activator, tx>>
       \/ /\ smoke' = Answering(s, "sent_not_activated")   \* the store failed
          /\ UNCHANGED <<row, activator, tx>>
    /\ UNCHANGED <<clock, numbers, accepted, registered, life>>

----------------------------------------------------------------------------
(* The surroundings                                                        *)

\* POST /v1/messages reads an active row, and talks to Meta for seconds.
ConsumerAsks ==
    /\ row.exists /\ row.ativo
    /\ sending' = sending \cup {life}
    /\ UNCHANGED <<clock, row, enviadas, outlived, smoke, tx, history>>

\* The send is over, well or badly; others of the same life may be under way.
ConsumerIsAnswered(l) ==
    /\ l \in sending /\ sending' \in {sending, sending \ {l}}
    /\ \/ Record(l)
       \/ tx' = Behind /\ UNCHANGED <<enviadas, outlived>>   \* a failure is counted
    /\ UNCHANGED <<clock, row, smoke, history>>

\* The process stops: transactions roll back, tests and sends are cut off.
Restart ==
    /\ smoke' = [s \in Smokes |-> IF smoke[s].pc \in {"idle", "answered"} THEN smoke[s]
                                  ELSE [smoke[s] EXCEPT !.pc = "cut_off"]]
    /\ tx' = [w \in Workers |-> Idle]
    /\ sending' = {}
    /\ UNCHANGED <<clock, row, enviadas, outlived, history>>

Tick ==
    /\ clock < Horizon
    /\ clock' = clock + 1
    /\ UNCHANGED <<row, numbers, smoke, tx, history>>

Init ==
    /\ clock = 1
    /\ row = NoRow
    /\ enviadas = {} /\ sending = {} /\ outlived = {}
    /\ smoke = [s \in Smokes |->
                 [pc |-> "idle", seen |-> row.cred, life |-> 0, untouched |-> FALSE,
                  sent |-> FALSE, answer |-> "none"]]
    /\ tx = [w \in Workers |-> Idle]
    /\ accepted = {}
    /\ activator = {}
    /\ registered = {}
    /\ life = 0

SmokeStep(s) ==
    \/ SmokeStart(s) \/ SmokeCheck(s) \/ SmokeSend(s)
    \/ SmokeCount(s) \/ SmokeActivate(s)
TransactionStep(w) ==
    \/ \E c \in Credential : RegisterAsk(w, c)
    \/ RegisterRead(w) \/ RegisterWrite(w)
    \/ RemoveRead(w) \/ RemoveWrite(w) \/ TransactionFails(w)

Next ==
    \/ \E c \in Credential, tipo \in Types : Create(c, tipo)
    \/ \E t \in Tokens : Rotate(t)
    \/ Reopen \/ Pause
    \/ \E s \in Smokes : SmokeStep(s)
    \/ \E w \in Workers : TransactionStep(w)
    \/ ConsumerAsks \/ \E l \in Lives : ConsumerIsAnswered(l)
    \/ Restart \/ Tick

Spec == Init /\ [][Next]_vars

----------------------------------------------------------------------------
(* Properties                                                              *)

\* "ativo = 1 is ALWAYS a consequence of Meta having accepted the send": an
\* active instance was activated by a smoke test that got an id back, and
\* unless somebody wrote the credentials after that test read them, the
\* credentials in force are the ones Meta accepted.  A registration or a
\* rotation during the test slips in unproved: that is what "untouched" says.
ActiveWasProved ==
    row.ativo => \E s \in activator :
        /\ smoke[s].sent
        /\ smoke[s].seen \in accepted
        /\ smoke[s].untouched => row.cred = smoke[s].seen

\* Since the window last opened, every registration that was written fits
\* into one window that starts at the first of them, whatever the
\* interleaving of the transactions and however stale their clock reading.
RegistrationsFitOneWindow ==
    /\ row.cadastro_em # Never <=> registered # {}
    /\ registered # {} => row.cadastro_em \in registered
    /\ \A t \in registered : t <= row.cadastro_em + Window

\* RemoveInstance checks inside its transaction, so that no smoke test
\* activates the instance between the check and the deletes.
RemovalFindsItPaused == row.exists /\ ~row'.exists => ~row.ativo

\* Once Meta returned an id, the answer says the message went out (activated,
\* or ErrSmokeActivationFailed: sent, do not run it again), as long as nobody
\* removed the instance meanwhile: then the answer is the plain 404, because
\* respondSmokeError looks for ErrInstanceNotFound first.
SentIsOwnedUp ==
    \A s \in Smokes :
        smoke[s].pc = "answered" /\ smoke[s].sent /\ smoke[s].untouched
        => smoke[s].answer \in {"activated", "sent_not_activated"}

\* A removal takes the numbers of the instance with it, and a slug used again
\* shows none "from another life", but for a life of which a send or a smoke
\* test was on its way at the removal: those are counted afterwards, up to a
\* deadline later, in a table that references no instance.
NumbersDieWithTheInstance ==
    enviadas \subseteq outlived \cup (IF row.exists THEN {life} ELSE {})
=============================================================================
