---------------------- MODULE InstanceLifecycleProofs ----------------------
(***************************************************************************)
(* What InstanceLifecycle promises, for any number of smoke tests and      *)
(* connections, any credentials, window and clock.                         *)
(***************************************************************************)
EXTENDS InstanceLifecycle, FiniteSetTheorems, TLAPS

---------------------------------------------------------------------------
(* The invariant.                                                          *)

(* A row that is not there is empty, one that is has a number and a token. *)
RowIsTrue ==
  /\ row.exists => row.cred \in Credential
  /\ ~row.exists => row = NoRow

(* What a smoke test remembers.  While nobody wrote the credentials the    *)
(* instance it read is there, the same life of it, with the same ones.     *)
SmokeIsTrue(s) ==
  /\ smoke[s].pc \in {"idle", "check", "send"} => ~smoke[s].sent
  /\ smoke[s].pc \in {"count", "activate"} => smoke[s].sent /\ smoke[s].seen \in accepted
  /\ smoke[s].untouched =>
       row.exists /\ row.cred = smoke[s].seen /\ smoke[s].life = life

(* A transaction that was not left behind still sees what it read.         *)
TxIsTrue(w) ==
  /\ tx[w].at \in {"asked", "register"} => tx[w].cred \in Credential /\ tx[w].now \in Time
  /\ tx[w].at = "register" => IsOpen(tx[w].cadastro_em, tx[w].now)
  /\ tx[w].at = "register" /\ tx[w].fresh => row.exists /\ row.cadastro_em = tx[w].cadastro_em
  /\ tx[w].at = "remove" /\ tx[w].fresh => row.exists /\ ~row.ativo

(* An active instance was activated by a test Meta accepted a message of.  *)
ActivatorIsTrue ==
  /\ \A s \in activator :
       smoke[s].pc = "answered" /\ smoke[s].sent /\ smoke[s].seen \in accepted
  /\ row.ativo => activator # {}

(* A send of an earlier life, and what was counted of one, was under way   *)
(* when that life ended.                                                   *)
Current == IF row.exists THEN {life} ELSE {}

NumbersAreTrue ==
  /\ NumbersDieWithTheInstance
  /\ Abroad \subseteq outlived \cup Current

IInv ==
  /\ TypeOK /\ RowIsTrue
  /\ \A s \in Smokes : SmokeIsTrue(s)
  /\ \A w \in Workers : TxIsTrue(w)
  /\ ActivatorIsTrue
  /\ RegistrationsFitOneWindow /\ SentIsOwnedUp /\ NumbersAreTrue

---------------------------------------------------------------------------
(* What the helpers return.                                                *)

LEMMA Constants ==
  ASSUME LifecycleAssumption
  PROVE  /\ Time \subseteq Nat /\ Never \notin Time /\ 1 \in Time
         /\ Lives \subseteq Nat /\ 0 \in Lives
         /\ NoCredential \in Columns /\ Credential \subseteq Columns
  BY DEF LifecycleAssumption, Time, Never, Lives, Columns

LEMMA NoActivator == {} \subseteq Smokes /\ Cardinality({}) <= 1
  BY FS_EmptySet

LEMMA OneActivator ==
  ASSUME NEW s \in Smokes
  PROVE  {s} \subseteq Smokes /\ Cardinality({s}) <= 1
  BY FS_Singleton

LEMMA IdleIsTransaction ==
  /\ Idle \in Transaction
  /\ Idle.at = "idle" /\ ~Idle.fresh
  BY DEF Idle, Transaction, Columns, Stamp

LEMMA NoRowIsRow ==
  /\ NoRow \in Row
  /\ ~NoRow.exists /\ ~NoRow.ativo /\ NoRow.cadastro_em = Never
  BY DEF NoRow, Row, Columns, Stamp

(* A transaction left behind keeps everything but its freshness. *)
LEMMA LeftBehind ==
  ASSUME TypeOK
  PROVE  /\ Behind \in [Workers -> Transaction]
         /\ \A w \in Workers :
              /\ Behind[w].at = tx[w].at /\ Behind[w].cred = tx[w].cred
              /\ Behind[w].now = tx[w].now /\ Behind[w].cadastro_em = tx[w].cadastro_em
              /\ ~Behind[w].fresh
<1>1. ASSUME NEW t \in Transaction
      PROVE  /\ [t EXCEPT !.fresh = FALSE] \in Transaction
             /\ LET u == [t EXCEPT !.fresh = FALSE]
                IN  u.at = t.at /\ u.cred = t.cred /\ u.now = t.now
                    /\ u.cadastro_em = t.cadastro_em /\ ~u.fresh
  BY DEF Transaction
<1>2. \A w \in Workers : tx[w] \in Transaction
  BY DEF TypeOK
<1> QED
  BY <1>1, <1>2 DEF Behind

(* A test whose instance was touched keeps everything else. *)
LEMMA TouchedTests ==
  ASSUME TypeOK
  PROVE  /\ Touched \in [Smokes -> SmokeState]
         /\ \A s \in Smokes :
              /\ Touched[s].pc = smoke[s].pc /\ Touched[s].seen = smoke[s].seen
              /\ Touched[s].life = smoke[s].life /\ Touched[s].sent = smoke[s].sent
              /\ Touched[s].answer = smoke[s].answer /\ ~Touched[s].untouched
<1>1. ASSUME NEW t \in SmokeState
      PROVE  /\ [t EXCEPT !.untouched = FALSE] \in SmokeState
             /\ LET u == [t EXCEPT !.untouched = FALSE]
                IN  u.pc = t.pc /\ u.seen = t.seen /\ u.life = t.life
                    /\ u.sent = t.sent /\ u.answer = t.answer /\ ~u.untouched
  BY DEF SmokeState
<1>2. \A s \in Smokes : smoke[s] \in SmokeState
  BY DEF TypeOK
<1> QED
  BY <1>1, <1>2 DEF Touched

---------------------------------------------------------------------------
(* Steps that move one transaction, and steps that move one test.          *)

(* Nothing but the transaction of w changes. *)
LEMMA TransactionMoves ==
  ASSUME IInv, NEW w \in Workers, NEW t \in Transaction, tx' = [tx EXCEPT ![w] = t],
         UNCHANGED <<clock, row, numbers, smoke, history>>,
         t.at \in {"asked", "register"} => t.cred \in Credential /\ t.now \in Time,
         t.at = "register" => /\ IsOpen(t.cadastro_em, t.now)
                              /\ t.fresh => row.exists /\ row.cadastro_em = t.cadastro_em,
         t.at = "remove" /\ t.fresh => row.exists /\ ~row.ativo
  PROVE  IInv'
<1>1. TypeOK'
  BY DEF IInv, TypeOK, history, numbers
<1>2. ASSUME NEW v \in Workers
      PROVE  TxIsTrue(v)'
  <2>1. CASE v = w
    BY <2>1 DEF IInv, TypeOK, TxIsTrue
  <2>2. CASE v # w
    BY <2>2 DEF IInv, TypeOK, TxIsTrue
  <2> QED
    BY <2>1, <2>2
<1> QED
  BY <1>1, <1>2 DEF IInv, history, numbers, RowIsTrue, SmokeIsTrue, ActivatorIsTrue,
     RegistrationsFitOneWindow, SentIsOwnedUp, NumbersAreTrue, NumbersDieWithTheInstance,
     Abroad, Current

(* A step that leaves the row as it is and the transactions as they are or *)
(* behind does not disturb what they saw.                                  *)
LEMMA TransactionsStay ==
  ASSUME IInv, tx' = tx \/ tx' = Behind,
         tx' = Behind \/ row' = row
  PROVE  /\ tx' \in [Workers -> Transaction]
         /\ \A w \in Workers : TxIsTrue(w)'
<1>1. CASE tx' = Behind
  BY <1>1, LeftBehind DEF IInv, TxIsTrue
<1>2. CASE tx' = tx /\ row' = row
  BY <1>2 DEF IInv, TypeOK, TxIsTrue
<1> QED
  BY <1>1, <1>2

(* Nothing but the test s changes, what Meta accepted, and perhaps the     *)
(* counter.                                                                *)
LEMMA TestMoves ==
  ASSUME IInv, NEW s \in Smokes, NEW t \in SmokeState, smoke' = [smoke EXCEPT ![s] = t],
         smoke[s].pc # "answered",
         UNCHANGED <<clock, row, activator, registered, life>>,
         accepted \subseteq accepted', accepted' \subseteq Columns,
         enviadas' \subseteq Lives, UNCHANGED <<sending, outlived>>,
         tx' = tx \/ tx' = Behind,
         t.pc \in {"idle", "check", "send"} => ~t.sent,
         t.pc \in {"count", "activate"} => t.sent /\ t.seen \in accepted',
         t.untouched => row.exists /\ row.cred = t.seen /\ t.life = life,
         t.pc = "answered" /\ t.sent /\ t.untouched
           => t.answer \in {"activated", "sent_not_activated"},
         NumbersAreTrue'
  PROVE  IInv'
<1>1. /\ tx' \in [Workers -> Transaction]
      /\ \A w \in Workers : TxIsTrue(w)'
  BY TransactionsStay
<1>2. TypeOK'
  BY <1>1 DEF IInv, TypeOK
<1>3. smoke'[s] = t /\ \A r \in Smokes \ {s} : smoke'[r] = smoke[r]
  BY DEF IInv, TypeOK
<1>4. ASSUME NEW r \in Smokes
      PROVE  SmokeIsTrue(r)'
  BY <1>3 DEF IInv, SmokeIsTrue
<1>5. ActivatorIsTrue'
  BY <1>3 DEF IInv, TypeOK, ActivatorIsTrue
<1>6. SentIsOwnedUp'
  BY <1>3 DEF IInv, SentIsOwnedUp
<1> QED
  BY <1>1, <1>2, <1>4, <1>5, <1>6 DEF IInv, RowIsTrue, RegistrationsFitOneWindow

(* A test that starts is of the life there is; one that goes on is of the  *)
(* life it was of; and it counts, if it does, a send that was under way.   *)
LEMMA NumbersStay ==
  ASSUME IInv, NEW s \in Smokes, NEW t \in SmokeState, smoke' = [smoke EXCEPT ![s] = t],
         UNCHANGED <<row, sending, outlived, life>>,
         enviadas' \subseteq enviadas \cup Abroad,
         \/ t.pc \notin {"check", "send", "count"}
         \/ row.exists /\ t.life = life
         \/ t.life = smoke[s].life /\ smoke[s].pc \in {"check", "send", "count"}
  PROVE  NumbersAreTrue'
<1>1. smoke'[s] = t /\ \A r \in Smokes \ {s} : smoke'[r] = smoke[r]
  BY DEF IInv, TypeOK
<1>2. Abroad' \subseteq Abroad \cup Current
  BY <1>1 DEF Abroad, Current
<1> QED
  BY <1>2 DEF IInv, NumbersAreTrue, NumbersDieWithTheInstance, Current

---------------------------------------------------------------------------
(* The smoke test.                                                         *)

(* The test ends with an answer and writes nothing. *)
LEMMA TestAnswers ==
  ASSUME IInv, NEW s \in Smokes, NEW a \in Answers, smoke' = Answering(s, a),
         smoke[s].pc # "answered",
         UNCHANGED <<clock, row, numbers, history>>, tx' = tx \/ tx' = Behind,
         smoke[s].sent /\ smoke[s].untouched => a = "sent_not_activated"
  PROVE  IInv'
<1> DEFINE t == [smoke[s] EXCEPT !.pc = "answered", !.answer = a]
<1>1. smoke[s] \in SmokeState
  BY DEF IInv, TypeOK
<1>2. /\ t \in SmokeState /\ t.pc = "answered" /\ t.answer = a
      /\ t.seen = smoke[s].seen /\ t.life = smoke[s].life /\ t.untouched = smoke[s].untouched
      /\ t.sent = smoke[s].sent
  BY <1>1 DEF SmokeState, Answers
<1>3. smoke' = [smoke EXCEPT ![s] = t]
  BY DEF Answering
<1>4. accepted' \subseteq Columns /\ enviadas' \subseteq Lives /\ UNCHANGED <<sending, outlived>>
  BY DEF IInv, TypeOK, history, numbers
<1>5. t.untouched => row.exists /\ row.cred = t.seen /\ t.life = life
  BY <1>2 DEF IInv, SmokeIsTrue
<1> HIDE DEF t
<1>6. NumbersAreTrue'
  BY <1>2, <1>3, NumbersStay DEF history, numbers
<1>7. UNCHANGED <<clock, row, activator, registered, life>> /\ accepted \subseteq accepted'
  BY DEF history
<1>8. t.pc = "answered" /\ t.sent /\ t.untouched
        => t.answer \in {"activated", "sent_not_activated"}
  BY <1>2
<1> QED
  BY <1>2, <1>3, <1>4, <1>5, <1>6, <1>7, <1>8, TestMoves

LEMMA SmokeStartInv ==
  ASSUME LifecycleAssumption, IInv, NEW s \in Smokes, SmokeStart(s)
  PROVE  IInv'
<1>0. smoke[s].pc = "idle" /\ ~smoke[s].sent
  BY DEF SmokeStart, IInv, SmokeIsTrue
<1>1. CASE smoke' \in {Answering(s, "not_found"), Answering(s, "already_active")}
  BY <1>0, <1>1, TestAnswers DEF SmokeStart, Answers
<1>2. CASE smoke' \notin {Answering(s, "not_found"), Answering(s, "already_active")}
  <2> DEFINE pc == IF row.tipo = "instagram" THEN "send" ELSE "check"
             t == [smoke[s] EXCEPT !.pc = pc, !.seen = row.cred, !.life = life,
                                   !.untouched = TRUE]
  <2>1. row.exists /\ smoke' = [smoke EXCEPT ![s] = t]
    BY <1>2 DEF SmokeStart
  <2>2. smoke[s] \in SmokeState /\ row.cred \in Columns /\ life \in Lives
        /\ accepted' \subseteq Columns /\ enviadas' \subseteq Lives /\ enviadas' = enviadas
        /\ UNCHANGED <<sending, outlived>>
    BY DEF SmokeStart, IInv, TypeOK, Row, history, numbers
  <2>3. pc \in {"check", "send"}
    OBVIOUS
  <2>4. /\ t \in SmokeState /\ t.pc \in {"check", "send"}
        /\ t.seen = row.cred /\ t.life = life /\ t.untouched /\ ~t.sent
    BY <1>0, <2>2, <2>3 DEF SmokeState
  <2> HIDE DEF t, pc
  <2>5. NumbersAreTrue'
    BY <2>1, <2>2, <2>4, NumbersStay DEF SmokeStart, history
  <2> QED
    BY <1>0, <2>1, <2>2, <2>4, <2>5, TestMoves DEF SmokeStart, history
<1> QED
  BY <1>1, <1>2

(* A test that goes on to its next step. *)
LEMMA TestGoesOn ==
  ASSUME IInv, NEW s \in Smokes, NEW t \in SmokeState, smoke' = [smoke EXCEPT ![s] = t],
         t.seen = smoke[s].seen, t.life = smoke[s].life, t.untouched = smoke[s].untouched,
         smoke[s].pc \in {"check", "send", "count"}, t.pc \in {"send", "count", "activate"},
         t.pc = "send" => ~t.sent,
         t.pc \in {"count", "activate"} => t.sent /\ t.seen \in accepted',
         UNCHANGED <<clock, row, activator, registered, life, sending, outlived>>,
         tx' = tx \/ tx' = Behind,
         accepted \subseteq accepted', accepted' \subseteq Columns,
         enviadas' = enviadas \/ enviadas' = enviadas \cup {t.life}
  PROVE  IInv'
<1>1. t.life \in Lives /\ enviadas' \subseteq Lives
  BY DEF IInv, TypeOK, SmokeState
<1>2. t.untouched => row.exists /\ row.cred = t.seen /\ t.life = life
  BY DEF IInv, SmokeIsTrue
<1>3. t.life \in Abroad
  BY DEF Abroad
<1>4. NumbersAreTrue'
  BY <1>3, NumbersStay
<1> QED
  BY <1>1, <1>2, <1>4, TestMoves

LEMMA SmokeCheckInv ==
  ASSUME IInv, NEW s \in Smokes, SmokeCheck(s)
  PROVE  IInv'
<1>1. CASE smoke' = Answering(s, "refused")
  BY <1>1, TestAnswers DEF SmokeCheck, Answers, IInv, SmokeIsTrue
<1>2. CASE smoke' = [smoke EXCEPT ![s].pc = "send"]
  <2> DEFINE t == [smoke[s] EXCEPT !.pc = "send"]
  <2>1. smoke[s] \in SmokeState /\ accepted \subseteq Columns
    BY DEF IInv, TypeOK
  <2>2. /\ t \in SmokeState /\ t.pc = "send" /\ t.sent = smoke[s].sent
        /\ t.seen = smoke[s].seen /\ t.life = smoke[s].life /\ t.untouched = smoke[s].untouched
    BY <2>1 DEF SmokeState
  <2>3. smoke' = [smoke EXCEPT ![s] = t]
    BY <1>2
  <2>4. /\ UNCHANGED <<clock, row, activator, registered, life, sending, outlived>>
        /\ tx' = tx /\ accepted' = accepted /\ enviadas' = enviadas /\ smoke[s].pc = "check"
        /\ ~smoke[s].sent
    BY DEF SmokeCheck, history, numbers, IInv, SmokeIsTrue
  <2> HIDE DEF t
  <2> QED
    BY <2>1, <2>2, <2>3, <2>4, TestGoesOn
<1> QED
  BY <1>1, <1>2 DEF SmokeCheck

LEMMA SmokeSendInv ==
  ASSUME IInv, NEW s \in Smokes, SmokeSend(s)
  PROVE  IInv'
<1>1. smoke[s] \in SmokeState /\ smoke[s].seen \in Columns /\ accepted \subseteq Columns
  BY DEF IInv, TypeOK, SmokeState
<1>2. CASE smoke' = Answering(s, "refused") /\ accepted' = accepted /\ tx' = Behind
  BY <1>2, TestAnswers DEF SmokeSend, Answers, history, IInv, SmokeIsTrue
<1>3. CASE /\ smoke' = [smoke EXCEPT ![s].pc = "count", ![s].sent = TRUE]
           /\ accepted' = accepted \cup {smoke[s].seen} /\ tx' = tx
  <2> DEFINE t == [smoke[s] EXCEPT !.pc = "count", !.sent = TRUE]
  <2>1. /\ t \in SmokeState /\ t.pc = "count" /\ t.sent
        /\ t.seen = smoke[s].seen /\ t.life = smoke[s].life /\ t.untouched = smoke[s].untouched
    BY <1>1 DEF SmokeState
  <2>2. smoke' = [smoke EXCEPT ![s] = t]
    BY <1>1, <1>3 DEF IInv, TypeOK
  <2>3. /\ UNCHANGED <<clock, row, activator, registered, life, sending, outlived>>
        /\ enviadas' = enviadas /\ smoke[s].pc = "send"
    BY DEF SmokeSend, numbers
  <2> HIDE DEF t
  <2> QED
    BY <1>1, <1>3, <2>1, <2>2, <2>3, TestGoesOn
<1> QED
  BY <1>2, <1>3 DEF SmokeSend

LEMMA SmokeCountInv ==
  ASSUME IInv, NEW s \in Smokes, SmokeCount(s)
  PROVE  IInv'
<1> DEFINE t == [smoke[s] EXCEPT !.pc = "activate"]
<1>1. smoke[s] \in SmokeState /\ accepted \subseteq Columns
  BY DEF IInv, TypeOK
<1>2. /\ t \in SmokeState /\ t.pc = "activate" /\ t.sent = smoke[s].sent
      /\ t.seen = smoke[s].seen /\ t.life = smoke[s].life /\ t.untouched = smoke[s].untouched
  BY <1>1 DEF SmokeState
<1>3. smoke' = [smoke EXCEPT ![s] = t] /\ smoke[s].pc = "count"
      /\ smoke[s].sent /\ smoke[s].seen \in accepted
  BY DEF SmokeCount, IInv, SmokeIsTrue
<1>4. /\ UNCHANGED <<clock, row, activator, registered, life, sending, outlived>>
      /\ accepted' = accepted /\ (tx' = tx \/ tx' = Behind)
      /\ enviadas' = enviadas \/ enviadas' = enviadas \cup {smoke[s].life}
  BY DEF SmokeCount, Record, history
<1> HIDE DEF t
<1> QED
  BY <1>1, <1>2, <1>3, <1>4, TestGoesOn

(* The UPDATE that activates; the credentials are those Meta accepted the  *)
(* message with, unless somebody wrote them meanwhile.                     *)
LEMMA ActivationInv ==
  ASSUME IInv, NEW s \in Smokes, smoke[s].pc = "activate", row.exists,
         row' = [row EXCEPT !.ativo = TRUE], activator' = {s},
         smoke' = Answering(s, "activated"), tx' = Behind,
         UNCHANGED <<clock, numbers, accepted, registered, life>>
  PROVE  IInv'
<1> DEFINE t == [smoke[s] EXCEPT !.pc = "answered", !.answer = "activated"]
<1>1. smoke[s] \in SmokeState
  BY DEF IInv, TypeOK
<1>2. /\ t \in SmokeState /\ t.pc = "answered" /\ t.answer = "activated"
      /\ t.seen = smoke[s].seen /\ t.life = smoke[s].life /\ t.untouched = smoke[s].untouched
      /\ t.sent = smoke[s].sent
  BY <1>1 DEF SmokeState, Answers
<1>3. smoke' = [smoke EXCEPT ![s] = t]
  BY DEF Answering
<1> HIDE DEF t
<1>4. smoke'[s] = t /\ \A r \in Smokes \ {s} : smoke'[r] = smoke[r]
  BY <1>3 DEF IInv, TypeOK
<1>5. /\ row' \in Row /\ row'.exists /\ row'.cred = row.cred /\ row'.cadastro_em = row.cadastro_em
  BY DEF IInv, TypeOK, Row
<1>6. /\ tx' \in [Workers -> Transaction]
      /\ \A w \in Workers : TxIsTrue(w)'
  BY TransactionsStay
<1>7. TypeOK'
  BY <1>2, <1>3, <1>5, <1>6, OneActivator DEF IInv, TypeOK, numbers
<1>8. RowIsTrue'
  BY <1>5 DEF IInv, RowIsTrue
<1>9. ASSUME NEW r \in Smokes
      PROVE  SmokeIsTrue(r)'
  <2>1. CASE r = s
    BY <1>2, <1>4, <1>5, <2>1 DEF IInv, SmokeIsTrue
  <2>2. CASE r # s
    BY <1>4, <1>5, <2>2 DEF IInv, SmokeIsTrue
  <2> QED
    BY <2>1, <2>2
<1>10. ActivatorIsTrue'
  BY <1>2, <1>4 DEF IInv, ActivatorIsTrue, SmokeIsTrue
<1>11. RegistrationsFitOneWindow'
  BY <1>5 DEF IInv, RegistrationsFitOneWindow
<1>12. SentIsOwnedUp'
  BY <1>2, <1>4 DEF IInv, SentIsOwnedUp
<1>13. NumbersAreTrue'
  BY <1>2, <1>4, <1>5 DEF IInv, NumbersAreTrue, NumbersDieWithTheInstance, Abroad, Current,
     numbers
<1> QED
  BY <1>6, <1>7, <1>8, <1>9, <1>10, <1>11, <1>12, <1>13 DEF IInv

LEMMA SmokeActivateInv ==
  ASSUME IInv, NEW s \in Smokes, SmokeActivate(s)
  PROVE  IInv'
<1>1. CASE /\ row.exists /\ row' = [row EXCEPT !.ativo = TRUE] /\ activator' = {s}
           /\ smoke' = Answering(s, "activated") /\ tx' = Behind
  BY <1>1, ActivationInv DEF SmokeActivate
<1>2. CASE ~row.exists /\ smoke' = Answering(s, "not_found") /\ UNCHANGED <<row, activator, tx>>
  <2>1. ~smoke[s].untouched
    BY <1>2 DEF IInv, SmokeIsTrue
  <2> QED
    BY <1>2, <2>1, TestAnswers DEF SmokeActivate, Answers, history
<1>3. CASE smoke' = Answering(s, "sent_not_activated") /\ UNCHANGED <<row, activator, tx>>
  BY <1>3, TestAnswers DEF SmokeActivate, Answers, history
<1> QED
  BY <1>1, <1>2, <1>3 DEF SmokeActivate

---------------------------------------------------------------------------
(* The transactions.                                                       *)

LEMMA TransactionEnds ==
  ASSUME IInv, NEW w \in Workers, tx' = [tx EXCEPT ![w] = Idle],
         UNCHANGED <<clock, row, numbers, smoke, history>>
  PROVE  IInv'
  BY IdleIsTransaction, TransactionMoves

LEMMA RemoveReadInv ==
  ASSUME IInv, NEW w \in Workers, RemoveRead(w)
  PROVE  IInv'
<1> DEFINE t == [tx[w] EXCEPT !.at = "remove", !.fresh = TRUE]
<1>1. tx[w] \in Transaction
  BY DEF IInv, TypeOK
<1>2. t \in Transaction /\ t.at = "remove"
  BY <1>1 DEF Transaction
<1>3. tx' = [tx EXCEPT ![w] = t]
  BY DEF RemoveRead
<1> HIDE DEF t
<1> QED
  BY <1>2, <1>3, TransactionMoves DEF RemoveRead

LEMMA RegisterAskInv ==
  ASSUME LifecycleAssumption, IInv, NEW w \in Workers, NEW c \in Credential, RegisterAsk(w, c)
  PROVE  IInv'
<1> DEFINE t == [tx[w] EXCEPT !.at = "asked", !.cred = c, !.now = clock]
<1>1. tx[w] \in Transaction /\ c \in Columns /\ clock \in Time /\ clock \in Stamp
  BY Constants DEF IInv, TypeOK, Stamp
<1>2. t \in Transaction /\ t.at = "asked" /\ t.cred = c /\ t.now = clock
  BY <1>1 DEF Transaction
<1>3. tx' = [tx EXCEPT ![w] = t]
  BY DEF RegisterAsk
<1> HIDE DEF t
<1> QED
  BY <1>1, <1>2, <1>3, TransactionMoves DEF RegisterAsk

LEMMA RegisterReadInv ==
  ASSUME IInv, NEW w \in Workers, RegisterRead(w)
  PROVE  IInv'
<1>1. CASE row.exists /\ IsOpen(row.cadastro_em, tx[w].now)
  <2> DEFINE t == [tx[w] EXCEPT !.at = "register", !.fresh = TRUE,
                                !.cadastro_em = row.cadastro_em]
  <2>1. tx[w] \in Transaction /\ row.cadastro_em \in Stamp
    BY DEF IInv, TypeOK, Row
  <2>2. /\ t \in Transaction /\ t.at = "register" /\ t.cred = tx[w].cred /\ t.now = tx[w].now
        /\ t.cadastro_em = row.cadastro_em
    BY <2>1 DEF Transaction
  <2>3. tx' = [tx EXCEPT ![w] = t]
    BY <1>1 DEF RegisterRead
  <2>4. t.cred \in Credential /\ t.now \in Time
    BY <2>2 DEF RegisterRead, IInv, TxIsTrue
  <2> HIDE DEF t
  <2> QED
    BY <1>1, <2>2, <2>3, <2>4, TransactionMoves DEF RegisterRead
<1>2. CASE ~(row.exists /\ IsOpen(row.cadastro_em, tx[w].now))
  BY <1>2, TransactionEnds DEF RegisterRead
<1> QED
  BY <1>1, <1>2

---------------------------------------------------------------------------
(* The commits that write the row.                                         *)

(* The credentials were written or the row came or went: every test is     *)
(* told, and every transaction is left behind.                             *)
LEMMA CredentialsWritten ==
  ASSUME IInv, smoke' = Touched, UNCHANGED <<clock, accepted>>,
         tx' = Behind \/ \E w \in Workers : tx' = [Behind EXCEPT ![w] = Idle],
         row' \in Row, RowIsTrue', row'.ativo => row.ativo /\ activator' = activator,
         activator' = activator \/ activator' = {}, life' \in Lives,
         enviadas' \subseteq Lives, sending' \subseteq Lives, outlived' \subseteq Lives,
         registered' \subseteq Time, RegistrationsFitOneWindow', NumbersAreTrue'
  PROVE  IInv'
<1>1. /\ smoke' \in [Smokes -> SmokeState]
      /\ \A s \in Smokes :
           /\ smoke'[s].pc = smoke[s].pc /\ smoke'[s].seen = smoke[s].seen
           /\ smoke'[s].sent = smoke[s].sent /\ ~smoke'[s].untouched
  BY TouchedTests DEF IInv
<1>2. ASSUME NEW w \in Workers
      PROVE  /\ ~tx'[w].fresh
             /\ \/ tx'[w] = Idle
                \/ /\ tx'[w].at = tx[w].at /\ tx'[w].cred = tx[w].cred
                   /\ tx'[w].now = tx[w].now /\ tx'[w].cadastro_em = tx[w].cadastro_em
  BY LeftBehind, IdleIsTransaction DEF IInv
<1>3. tx' \in [Workers -> Transaction]
  BY LeftBehind, IdleIsTransaction DEF IInv
<1>4. TypeOK'
  BY <1>1, <1>3, NoActivator DEF IInv, TypeOK
<1>5. \A s \in Smokes : SmokeIsTrue(s)'
  BY <1>1 DEF IInv, SmokeIsTrue
<1>6. \A w \in Workers : TxIsTrue(w)'
  BY <1>2, IdleIsTransaction DEF IInv, TxIsTrue
<1>7. ActivatorIsTrue'
  BY <1>1 DEF IInv, TypeOK, ActivatorIsTrue
<1>8. SentIsOwnedUp'
  BY <1>1 DEF SentIsOwnedUp
<1> QED
  BY <1>4, <1>5, <1>6, <1>7, <1>8 DEF IInv

(* The sends under way are the same as before, whatever was written, and   *)
(* no life ends unless its row does.                                       *)
LEMMA SameAbroad ==
  ASSUME IInv, smoke' = smoke \/ smoke' = Touched, UNCHANGED numbers,
         row.exists => row'.exists /\ life' = life
  PROVE  /\ NumbersAreTrue'
         /\ enviadas' \subseteq Lives /\ sending' \subseteq Lives /\ outlived' \subseteq Lives
<1>1. \A s \in Smokes : smoke'[s].pc = smoke[s].pc /\ smoke'[s].life = smoke[s].life
  BY TouchedTests DEF IInv
<1>2. Abroad' = Abroad
  BY <1>1 DEF Abroad, numbers
<1> QED
  BY <1>2 DEF IInv, TypeOK, NumbersAreTrue, NumbersDieWithTheInstance, Current, numbers

(* A commit that leaves the credentials alone. *)
LEMMA ColumnsWritten ==
  ASSUME IInv, tx' = Behind, UNCHANGED <<clock, smoke, accepted, activator, life>>,
         row' \in Row, row'.exists = row.exists, row'.cred = row.cred, RowIsTrue',
         row'.ativo => row.ativo, enviadas' \subseteq Lives, sending' \subseteq Lives,
         outlived' \subseteq Lives, registered' \subseteq Time,
         RegistrationsFitOneWindow', NumbersAreTrue'
  PROVE  IInv'
<1>1. /\ tx' \in [Workers -> Transaction]
      /\ \A w \in Workers : TxIsTrue(w)'
  BY TransactionsStay
<1>2. TypeOK'
  BY <1>1 DEF IInv, TypeOK
<1>3. \A s \in Smokes : SmokeIsTrue(s)'
  BY DEF IInv, SmokeIsTrue
<1> QED
  BY <1>1, <1>2, <1>3 DEF IInv, ActivatorIsTrue, SentIsOwnedUp

LEMMA CreateInv ==
  ASSUME LifecycleAssumption, IInv, NEW c \in Credential, NEW tipo \in Types, Create(c, tipo)
  PROVE  IInv'
<1>1. /\ row' \in Row /\ row'.exists /\ ~row'.ativo /\ row'.cred = c /\ row'.cadastro_em = Never
  BY DEF Create, Row, Columns, Stamp, LifecycleAssumption
<1>2. life' \in Lives
  BY DEF Create, IInv, TypeOK, Lives, LifecycleAssumption
<1>3. /\ NumbersAreTrue'
      /\ enviadas' \subseteq Lives /\ sending' \subseteq Lives /\ outlived' \subseteq Lives
  BY SameAbroad DEF Create
<1>4. RowIsTrue' /\ RegistrationsFitOneWindow'
  BY <1>1 DEF Create, RowIsTrue, RegistrationsFitOneWindow
<1> QED
  BY <1>1, <1>2, <1>3, <1>4, CredentialsWritten DEF Create

LEMMA RotateInv ==
  ASSUME IInv, NEW t \in Tokens, Rotate(t)
  PROVE  IInv'
<1>1. row.cred \in Credential /\ row \in Row
  BY DEF Rotate, IInv, RowIsTrue, TypeOK
<1>2. [row.cred EXCEPT ![2] = t] \in Credential
  BY <1>1 DEF Credential
<1>3. /\ row' \in Row /\ row'.exists /\ row'.ativo = row.ativo /\ row'.cred \in Credential
      /\ row'.cadastro_em = row.cadastro_em
  <2>1. row' = [row EXCEPT !.cred = [row.cred EXCEPT ![2] = t]]
    BY DEF Rotate
  <2> QED
    BY <1>1, <1>2, <2>1 DEF Rotate, Row, Columns
<1>4. /\ NumbersAreTrue'
      /\ enviadas' \subseteq Lives /\ sending' \subseteq Lives /\ outlived' \subseteq Lives
  BY <1>3, SameAbroad DEF Rotate, history
<1>5. RowIsTrue' /\ RegistrationsFitOneWindow'
  BY <1>3 DEF Rotate, history, IInv, RowIsTrue, RegistrationsFitOneWindow
<1>6. /\ life' \in Lives /\ registered' \subseteq Time
      /\ activator' = activator /\ accepted' = accepted
  BY DEF Rotate, history, IInv, TypeOK
<1> QED
  BY <1>3, <1>4, <1>5, <1>6, CredentialsWritten DEF Rotate

LEMMA RegisterWriteInv ==
  ASSUME LifecycleAssumption, IInv, NEW w \in Workers, RegisterWrite(w)
  PROVE  IInv'
<1> DEFINE now == tx[w].now
           first == IF tx[w].cadastro_em = Never THEN now ELSE tx[w].cadastro_em
<1>1. /\ row \in Row /\ row.exists /\ row.cadastro_em = tx[w].cadastro_em
      /\ tx[w].cred \in Credential /\ now \in Time /\ IsOpen(tx[w].cadastro_em, now)
  BY DEF RegisterWrite, IInv, TypeOK, TxIsTrue
<1>2. now \in Nat /\ now # Never /\ Window \in Nat
  BY <1>1, Constants DEF LifecycleAssumption
<1>3. first \in Stamp /\ first # Never
  BY <1>1, <1>2 DEF Row, Stamp
<1>4. /\ row' \in Row /\ row'.exists /\ row'.ativo = row.ativo /\ row'.cred \in Credential
      /\ row'.cadastro_em = first
  BY <1>1, <1>3 DEF RegisterWrite, Row, Columns
<1>5. registered' = registered \cup {now}
  BY DEF RegisterWrite
<1>6. RegistrationsFitOneWindow'
  <2>1. CASE tx[w].cadastro_em = Never
    <3>1. registered = {} /\ first = now
      BY <1>1, <2>1 DEF IInv, RegistrationsFitOneWindow
    <3> QED
      BY <1>2, <1>4, <1>5, <3>1 DEF RegistrationsFitOneWindow
  <2>2. CASE tx[w].cadastro_em # Never
    <3>1. first = row.cadastro_em /\ now <= first + Window
      BY <1>1, <2>2 DEF IsOpen
    <3> QED
      BY <1>1, <1>3, <1>4, <1>5, <2>2, <3>1 DEF IInv, RegistrationsFitOneWindow
  <2> QED
    BY <2>1, <2>2
<1>7. /\ NumbersAreTrue'
      /\ enviadas' \subseteq Lives /\ sending' \subseteq Lives /\ outlived' \subseteq Lives
  BY <1>4, SameAbroad DEF RegisterWrite
<1>8. RowIsTrue'
  BY <1>4 DEF RowIsTrue
<1>9. life' \in Lives /\ registered' \subseteq Time
  BY <1>1, <1>5 DEF RegisterWrite, IInv, TypeOK
<1> HIDE DEF now, first
<1> QED
  BY <1>4, <1>6, <1>7, <1>8, <1>9, CredentialsWritten DEF RegisterWrite

LEMMA RemoveWriteInv ==
  ASSUME LifecycleAssumption, IInv, NEW w \in Workers, RemoveWrite(w)
  PROVE  IInv'
<1>1. row' \in Row /\ ~row'.exists /\ ~row'.ativo /\ row'.cadastro_em = Never /\ row' = NoRow
  BY NoRowIsRow DEF RemoveWrite
<1>2. /\ smoke' = Touched /\ enviadas' = {} /\ sending' = sending
      /\ outlived' = outlived \cup Abroad
  BY DEF RemoveWrite, NumbersGo
<1>a. \A s \in Smokes : smoke'[s].pc = smoke[s].pc /\ smoke'[s].life = smoke[s].life
  BY <1>2, TouchedTests DEF IInv
<1>b. Abroad' = Abroad
  BY <1>2, <1>a DEF Abroad
<1>c. Abroad \subseteq Lives
  BY DEF Abroad, IInv, TypeOK, SmokeState
<1>d. enviadas' \subseteq Lives /\ sending' \subseteq Lives /\ outlived' \subseteq Lives
  BY <1>2, <1>c DEF IInv, TypeOK
<1>e. NumbersAreTrue'
  BY <1>2, <1>b DEF NumbersAreTrue, NumbersDieWithTheInstance
<1>3. RowIsTrue' /\ RegistrationsFitOneWindow'
  BY <1>1 DEF RemoveWrite, RowIsTrue, RegistrationsFitOneWindow
<1>4. life' \in Lives /\ registered' = {}
  BY DEF RemoveWrite, IInv, TypeOK
<1> QED
  BY <1>1, <1>3, <1>4, <1>d, <1>e, CredentialsWritten DEF RemoveWrite

LEMMA ReopenInv ==
  ASSUME LifecycleAssumption, IInv, Reopen
  PROVE  IInv'
<1>1. /\ row' \in Row /\ row'.exists /\ row'.cred = row.cred /\ row'.ativo = row.ativo
      /\ row'.cadastro_em = Never
  BY DEF Reopen, IInv, TypeOK, Row, Stamp
<1>2. RowIsTrue' /\ RegistrationsFitOneWindow'
  BY <1>1 DEF Reopen, IInv, RowIsTrue, RegistrationsFitOneWindow
<1>3. /\ NumbersAreTrue'
      /\ enviadas' \subseteq Lives /\ sending' \subseteq Lives /\ outlived' \subseteq Lives
  BY <1>1, SameAbroad DEF Reopen
<1> QED
  BY <1>1, <1>2, <1>3, ColumnsWritten DEF Reopen

LEMMA PauseInv ==
  ASSUME IInv, Pause
  PROVE  IInv'
<1>1. /\ row' \in Row /\ row'.exists /\ row'.cred = row.cred /\ ~row'.ativo
      /\ row'.cadastro_em = row.cadastro_em
  BY DEF Pause, IInv, TypeOK, Row
<1>2. registered' \subseteq Time /\ UNCHANGED <<accepted, activator, life, registered>>
  BY DEF Pause, history, IInv, TypeOK
<1>3. RowIsTrue' /\ RegistrationsFitOneWindow'
  BY <1>1, <1>2 DEF Pause, IInv, RowIsTrue, RegistrationsFitOneWindow
<1>4. /\ NumbersAreTrue'
      /\ enviadas' \subseteq Lives /\ sending' \subseteq Lives /\ outlived' \subseteq Lives
  BY <1>1, <1>2, SameAbroad DEF Pause
<1> QED
  BY <1>1, <1>2, <1>3, <1>4, ColumnsWritten DEF Pause

---------------------------------------------------------------------------
(* The surroundings.                                                       *)

(* A send of the consumer's that begins or ends changes the numbers alone. *)
LEMMA OnlyNumbers ==
  ASSUME IInv, tx' = tx \/ tx' = Behind, UNCHANGED <<clock, row, smoke, history>>,
         enviadas' \subseteq Lives, sending' \subseteq Lives, outlived' \subseteq Lives,
         NumbersAreTrue'
  PROVE  IInv'
<1>1. /\ tx' \in [Workers -> Transaction]
      /\ \A w \in Workers : TxIsTrue(w)'
  BY TransactionsStay
<1>2. TypeOK'
  BY <1>1 DEF IInv, TypeOK, history
<1> QED
  BY <1>1, <1>2 DEF IInv, history, RowIsTrue, SmokeIsTrue, ActivatorIsTrue,
     RegistrationsFitOneWindow, SentIsOwnedUp

LEMMA ConsumerAsksInv ==
  ASSUME IInv, ConsumerAsks
  PROVE  IInv'
<1>1. /\ UNCHANGED <<clock, row, enviadas, outlived, smoke, tx, history>>
      /\ row.exists /\ sending' = sending \cup {life} /\ life' = life
  BY DEF ConsumerAsks, history
<1>2. Abroad' = Abroad \cup Current
  BY <1>1 DEF Abroad, Current
<1>3. NumbersAreTrue'
  BY <1>1, <1>2 DEF IInv, NumbersAreTrue, NumbersDieWithTheInstance, Current
<1>4. enviadas' \subseteq Lives /\ sending' \subseteq Lives /\ outlived' \subseteq Lives
  BY <1>1 DEF IInv, TypeOK
<1> QED
  BY <1>1, <1>3, <1>4, OnlyNumbers

(* What is counted now was under way. *)
LEMMA ConsumerIsAnsweredInv ==
  ASSUME IInv, NEW l \in Lives, ConsumerIsAnswered(l)
  PROVE  IInv'
<1>1. /\ UNCHANGED <<clock, row, outlived, smoke, history>> /\ life' = life
      /\ l \in sending /\ sending' \subseteq sending
      /\ enviadas' \subseteq enviadas \cup {l} /\ (tx' = tx \/ tx' = Behind)
  BY DEF ConsumerIsAnswered, Record, history
<1>2. Abroad' \subseteq Abroad /\ l \in Abroad
  BY <1>1 DEF Abroad
<1>3. NumbersAreTrue'
  BY <1>1, <1>2 DEF IInv, NumbersAreTrue, NumbersDieWithTheInstance, Current
<1>4. enviadas' \subseteq Lives /\ sending' \subseteq Lives /\ outlived' \subseteq Lives
  BY <1>1 DEF IInv, TypeOK
<1> QED
  BY <1>1, <1>3, <1>4, OnlyNumbers

LEMMA TickInv ==
  ASSUME LifecycleAssumption, IInv, Tick
  PROVE  IInv'
<1>1. clock' \in Time
  BY DEF Tick, IInv, TypeOK, Time, LifecycleAssumption
<1>2. TypeOK'
  BY <1>1 DEF Tick, history, numbers, IInv, TypeOK
<1> QED
  BY <1>2 DEF Tick, history, numbers, IInv, RowIsTrue, SmokeIsTrue, TxIsTrue, ActivatorIsTrue,
     RegistrationsFitOneWindow, SentIsOwnedUp, NumbersAreTrue, NumbersDieWithTheInstance,
     Abroad, Current

(* A test that is cut off keeps what it knows. *)
LEMMA RestartInv ==
  ASSUME IInv, Restart
  PROVE  IInv'
<1>1. ASSUME NEW s \in Smokes
      PROVE  /\ smoke'[s] \in SmokeState
             /\ smoke'[s].seen = smoke[s].seen /\ smoke'[s].life = smoke[s].life
             /\ smoke'[s].sent = smoke[s].sent /\ smoke'[s].untouched = smoke[s].untouched
             /\ smoke'[s].answer = smoke[s].answer
             /\ \/ smoke'[s].pc = smoke[s].pc /\ smoke[s].pc \in {"idle", "answered"}
                \/ smoke'[s].pc = "cut_off"
             /\ smoke[s].pc = "answered" => smoke'[s].pc = "answered"
  <2>1. smoke[s] \in SmokeState
    BY DEF IInv, TypeOK
  <2> DEFINE t == [smoke[s] EXCEPT !.pc = "cut_off"]
  <2>2. /\ t \in SmokeState /\ t.pc = "cut_off" /\ t.seen = smoke[s].seen
        /\ t.life = smoke[s].life /\ t.sent = smoke[s].sent
        /\ t.untouched = smoke[s].untouched /\ t.answer = smoke[s].answer
    BY <2>1 DEF SmokeState
  <2>3. \/ smoke'[s] = smoke[s] /\ smoke[s].pc \in {"idle", "answered"}
        \/ smoke[s].pc # "answered" /\ smoke'[s] = t
    BY DEF Restart
  <2> HIDE DEF t
  <2> QED
    BY <2>1, <2>2, <2>3
<1>2. /\ smoke' \in [Smokes -> SmokeState]
  BY <1>1 DEF Restart
<1>3. tx' \in [Workers -> Transaction] /\ \A w \in Workers : tx'[w] = Idle
  BY IdleIsTransaction DEF Restart
<1>4. TypeOK'
  BY <1>2, <1>3 DEF Restart, history, IInv, TypeOK
<1>5. UNCHANGED <<row, enviadas, outlived, accepted, activator, registered, life>>
  BY DEF Restart, history
<1>6. \A s \in Smokes : SmokeIsTrue(s)'
  BY <1>1, <1>5 DEF IInv, SmokeIsTrue
<1>7. \A w \in Workers : TxIsTrue(w)'
  BY <1>3, IdleIsTransaction DEF TxIsTrue
<1>8. ActivatorIsTrue'
  BY <1>1, <1>5 DEF IInv, TypeOK, ActivatorIsTrue
<1>9. SentIsOwnedUp'
  BY <1>1 DEF IInv, SentIsOwnedUp
<1>10. NumbersAreTrue'
  <2>1. Abroad' = {}
    BY <1>1 DEF Abroad, Restart
  <2> QED
    BY <1>5, <2>1 DEF IInv, NumbersAreTrue, NumbersDieWithTheInstance
<1> QED
  BY <1>4, <1>5, <1>6, <1>7, <1>8, <1>9, <1>10 DEF IInv, RowIsTrue, RegistrationsFitOneWindow

---------------------------------------------------------------------------
LEMMA InitInv ==
  ASSUME LifecycleAssumption, Init
  PROVE  IInv
<1>1. row.cred \in Columns /\ row = NoRow /\ row \in Row /\ ~row.exists /\ ~row.ativo
      /\ row.cadastro_em = Never
  BY NoRowIsRow DEF Init, Row
<1>2. /\ smoke \in [Smokes -> SmokeState]
      /\ \A s \in Smokes : smoke[s].pc = "idle" /\ ~smoke[s].sent /\ ~smoke[s].untouched
  BY <1>1, Constants DEF Init, SmokeState, Stamp, Answers
<1>3. tx \in [Workers -> Transaction] /\ \A w \in Workers : tx[w] = Idle
  BY IdleIsTransaction DEF Init
<1>4. TypeOK
  BY <1>1, <1>2, <1>3, Constants, NoActivator DEF Init, TypeOK, Stamp
<1>5. \A w \in Workers : TxIsTrue(w)
  BY <1>3, IdleIsTransaction DEF TxIsTrue
<1>6. \A s \in Smokes : SmokeIsTrue(s)
  BY <1>2 DEF SmokeIsTrue
<1> QED
  BY <1>1, <1>2, <1>4, <1>5, <1>6 DEF Init, IInv, RowIsTrue, ActivatorIsTrue,
     RegistrationsFitOneWindow, SentIsOwnedUp, NumbersAreTrue, NumbersDieWithTheInstance, Abroad

LEMMA NextInv ==
  ASSUME LifecycleAssumption, IInv, [Next]_vars
  PROVE  IInv'
<1>1. CASE \E s \in Smokes : SmokeStep(s)
  BY <1>1, SmokeStartInv, SmokeCheckInv, SmokeSendInv, SmokeCountInv, SmokeActivateInv
     DEF SmokeStep
<1>2. CASE \E w \in Workers : TransactionStep(w)
  <2> SUFFICES ASSUME NEW w \in Workers, TransactionStep(w)
               PROVE  IInv'
    BY <1>2
  <2>1. CASE TransactionFails(w)
    BY <2>1, TransactionEnds DEF TransactionFails
  <2> QED
    BY <2>1, RegisterAskInv, RegisterReadInv, RegisterWriteInv, RemoveReadInv, RemoveWriteInv
       DEF TransactionStep
<1>3. CASE \/ \E c \in Credential, tipo \in Types : Create(c, tipo)
           \/ \E t \in Tokens : Rotate(t)
           \/ Reopen \/ Pause
  BY <1>3, CreateInv, RotateInv, ReopenInv, PauseInv
<1>4. CASE ConsumerAsks \/ (\E l \in Lives : ConsumerIsAnswered(l)) \/ Restart \/ Tick
  BY <1>4, ConsumerAsksInv, ConsumerIsAnsweredInv, RestartInv, TickInv
<1>5. CASE UNCHANGED vars
  BY <1>5 DEF vars, IInv, TypeOK, RowIsTrue, SmokeIsTrue, TxIsTrue, ActivatorIsTrue,
     RegistrationsFitOneWindow, SentIsOwnedUp, NumbersAreTrue, NumbersDieWithTheInstance,
     Abroad, Current
<1> QED
  BY <1>1, <1>2, <1>3, <1>4, <1>5 DEF Next

LEMMA Invariance ==
  ASSUME LifecycleAssumption
  PROVE  Spec => []IInv
<1>1. Init => IInv
  BY InitInv
<1>2. IInv /\ [Next]_vars => IInv'
  BY NextInv
<1> QED
  BY <1>1, <1>2, PTL DEF Spec

LEMMA ActivationOfIInv ==
  ASSUME IInv
  PROVE  ActiveWasProved
BY DEF IInv, TypeOK, ActivatorIsTrue, SmokeIsTrue, ActiveWasProved

(* The transaction that removes saw a paused row, and it is still that row. *)
LEMMA RemovalOfIInv ==
  ASSUME IInv, [Next]_vars
  PROVE  [RemovalFindsItPaused]_vars
<1> SUFFICES ASSUME Next, row.exists, ~row'.exists
             PROVE  ~row.ativo
  BY DEF RemovalFindsItPaused
<1>1. ASSUME NEW w \in Workers, RemoveWrite(w)
      PROVE  ~row.ativo
  BY <1>1 DEF RemoveWrite, IInv, TxIsTrue
<1>2. ASSUME NEW w \in Workers, TransactionStep(w), ~RemoveWrite(w)
      PROVE  FALSE
  BY <1>2 DEF TransactionStep, RegisterAsk, RegisterRead, RegisterWrite, RemoveRead,
     TransactionFails, IInv, TypeOK, Row
<1>3. ASSUME NEW s \in Smokes, SmokeStep(s)
      PROVE  FALSE
  BY <1>3 DEF SmokeStep, SmokeStart, SmokeCheck, SmokeSend, SmokeCount, SmokeActivate,
     IInv, TypeOK, Row
<1>4. CASE \/ \E c \in Credential, tipo \in Types : Create(c, tipo)
           \/ \E t \in Tokens : Rotate(t)
           \/ Reopen \/ Pause
           \/ ConsumerAsks \/ (\E l \in Lives : ConsumerIsAnswered(l)) \/ Restart \/ Tick
  BY <1>4 DEF Create, Rotate, Reopen, Pause, ConsumerAsks, ConsumerIsAnswered, Restart, Tick,
     IInv, TypeOK, Row
<1> QED
  BY <1>1, <1>2, <1>3, <1>4 DEF Next

---------------------------------------------------------------------------
(***************************************************************************)
(* The smoke test is the only door to ativo = 1 (smoke.go): whatever is    *)
(* registered, rotated, paused or removed while it talks to Meta, an       *)
(* active instance has a test behind it that Meta accepted a message of.   *)
(***************************************************************************)
THEOREM ActivationIsProved ==
  ASSUME LifecycleAssumption
  PROVE  Spec => []ActiveWasProved
<1>1. IInv => ActiveWasProved
  BY ActivationOfIInv
<1> QED
  BY <1>1, Invariance, PTL

(***************************************************************************)
(* All registrations since the window opened lie within one window (the    *)
(* transaction of RegisterMeta in store.go).                               *)
(***************************************************************************)
THEOREM OneWindow ==
  ASSUME LifecycleAssumption
  PROVE  Spec => []RegistrationsFitOneWindow
<1>1. IInv => RegistrationsFitOneWindow
  BY DEF IInv
<1> QED
  BY <1>1, Invariance, PTL

(***************************************************************************)
(* A test whose message went out says so, unless the instance it was of    *)
(* is gone (respondSmokeError in smoke_handler.go).                        *)
(***************************************************************************)
THEOREM SendingIsOwnedUp ==
  ASSUME LifecycleAssumption
  PROVE  Spec => []SentIsOwnedUp
<1>1. IInv => SentIsOwnedUp
  BY DEF IInv
<1> QED
  BY <1>1, Invariance, PTL

(***************************************************************************)
(* A slug used again shows no number from another life (RemoveInstance in  *)
(* store.go), but for those of a life of which a send was under way at the *)
(* removal.                                                                *)
(***************************************************************************)
THEOREM NumbersDie ==
  ASSUME LifecycleAssumption
  PROVE  Spec => []NumbersDieWithTheInstance
<1>1. IInv => NumbersDieWithTheInstance
  BY DEF IInv, NumbersAreTrue
<1> QED
  BY <1>1, Invariance, PTL

(***************************************************************************)
(* No removal takes an active instance: the check of RemoveInstance and    *)
(* its deletes are one transaction (store.go).                             *)
(***************************************************************************)
THEOREM RemovedWhilePaused ==
  ASSUME LifecycleAssumption
  PROVE  Spec => [][RemovalFindsItPaused]_vars
<1>1. IInv /\ [Next]_vars => [RemovalFindsItPaused]_vars
  BY RemovalOfIInv
<1> QED
  BY <1>1, Invariance, PTL DEF Spec
=============================================================================
