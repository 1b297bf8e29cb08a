-------------------------- MODULE TemplatesProofs --------------------------
(***************************************************************************)
(* What the answers of /v1/templates say, for any number of requests and   *)
(* languages, any answers of Meta, any lag of its catalogue and whatever   *)
(* people do at the WhatsApp Manager.                                      *)
(***************************************************************************)
EXTENDS Templates, TLAPS

---------------------------------------------------------------------------
(* The invariant.                                                          *)

(* What was ever created is live or burned, and never both. *)
EntryIsTrue(l) ==
  /\ entry[l] # "none" => l \in made
  /\ l \in made /\ entry[l] # "live" => l \in burned
  /\ l \in burned => entry[l] # "live"

(* The catalogue may lag, but what it lists has been. *)
CatalogueIsPast(l) ==
  /\ shown[l] # "none" => l \in made
  /\ shown[l] = "ending" => l \in burned

(* A call is made once, and what Meta performed left its mark. *)
CallIsTrue(r) ==
  /\ call[r] = "done" =>
       IF task[r].op = "create" THEN task[r].lang \in made ELSE burned = Languages
  /\ task[r].pc \in {"idle", "preread"} => call[r] = "none"

(* The pre-read is what a deletion is later read against: an entry it      *)
(* listed can cease to be shown as live only by having been deleted.       *)
FoundIsTrue(r) ==
  /\ \A l \in task[r].found : l \in made /\ (shown[l] # "live" => l \in burned)
  /\ task[r].op = "delete" /\ task[r].pc \in {"calling", "reread"} => task[r].found # {}

ToldIsTrue(r) ==
  /\ task[r].pc # "answered" => task[r].told = "nothing"
  /\ task[r].told = "created" => call[r] = "done" /\ task[r].lang \in made
  /\ task[r].told = "confirmed" => task[r].lang \in made
  /\ task[r].status = "ending" => task[r].lang \in burned
  /\ task[r].told = "apagado" => task[r].found # {} /\ task[r].found \subseteq burned
  /\ task[r].told \in {"retryable", "permanent", "config", "ja_nao_existia"} =>
       call[r] \in {"none", "refused"} \/ r \in disowned

IInv ==
  /\ TypeOK
  /\ \A l \in Languages : EntryIsTrue(l) /\ CatalogueIsPast(l)
  /\ \A r \in Requests : CallIsTrue(r) /\ FoundIsTrue(r) /\ ToldIsTrue(r)

---------------------------------------------------------------------------
(* Frames: a step of one request, and a step of Meta, its catalogue or     *)
(* people.                                                                 *)

LEMMA ClassIsAClass ==
  ASSUME NEW status, NEW code
  PROVE  ClassifyResponse(status, code) \in ErrorClass
  BY DEF ClassifyResponse, classOfStatus, ErrorClass

(* Only the request r moves: what has to be shown is what is said of r.    *)
LEMMA RequestMoves ==
  ASSUME IInv, NEW r \in Requests, NEW t \in Task,
         task' = [task EXCEPT ![r] = t],
         call' \in [Requests -> {"none", "sent", "done", "refused"}],
         \A q \in Requests \ {r} : call'[q] = call[q],
         disowned \subseteq disowned', disowned' \subseteq Requests, apagados' \in Nat,
         UNCHANGED meta,
         CallIsTrue(r)', FoundIsTrue(r)', ToldIsTrue(r)'
  PROVE  IInv'
<1>1. /\ task' \in [Requests -> Task]
      /\ \A q \in Requests \ {r} : task'[q] = task[q]
  BY DEF IInv, TypeOK
<1>2. TypeOK'
  BY <1>1 DEF IInv, TypeOK, meta
<1>3. \A l \in Languages : EntryIsTrue(l)' /\ CatalogueIsPast(l)'
  BY DEF IInv, EntryIsTrue, CatalogueIsPast, meta
<1>4. ASSUME NEW q \in Requests \ {r}
      PROVE  CallIsTrue(q)' /\ FoundIsTrue(q)' /\ ToldIsTrue(q)'
  BY <1>1, <1>4 DEF IInv, CallIsTrue, FoundIsTrue, ToldIsTrue, meta
<1> QED
  BY <1>2, <1>3, <1>4 DEF IInv

(* The world moves on, and no deletion is ever taken back. *)
LEMMA WorldMoves ==
  ASSUME IInv, UNCHANGED <<disowned, task, apagados>>,
         entry' \in [Languages -> Entry], shown' \in [Languages -> Entry],
         made \subseteq made', made' \subseteq Languages,
         burned \subseteq burned', burned' \subseteq Languages,
         manual' \in 0..MaxManual,
         \A l \in Languages : EntryIsTrue(l)' /\ CatalogueIsPast(l)',
         \A l \in made : shown'[l] # "live" => shown'[l] = shown[l] \/ l \in burned',
         call' \in [Requests -> {"none", "sent", "done", "refused"}],
         \A r \in Requests : CallIsTrue(r)',
         \A r \in Requests : call[r] # "sent" => call'[r] = call[r]
  PROVE  IInv'
<1>1. TypeOK'
  BY DEF IInv, TypeOK
<1>2. ASSUME NEW r \in Requests
      PROVE  FoundIsTrue(r)' /\ ToldIsTrue(r)'
  <2>1. task[r].found \subseteq Languages
    BY DEF IInv, TypeOK, Task
  <2>2. FoundIsTrue(r)'
    BY <2>1 DEF IInv, FoundIsTrue
  <2>3. ToldIsTrue(r)'
    BY DEF IInv, ToldIsTrue
  <2> QED
    BY <2>2, <2>3
<1> QED
  BY <1>1, <1>2 DEF IInv

(* An answer ends a request; what is left to show is that it is true.      *)
LEMMA AnswerEnds ==
  ASSUME IInv, NEW r \in Requests, NEW a \in Answers, Answer(r, a),
         UNCHANGED <<meta, call>>, apagados' \in Nat,
         disowned \subseteq disowned', disowned' \subseteq Requests,
         a # "confirmed", a = "created" => call[r] = "done" /\ task[r].lang \in made,
         a = "apagado" => task[r].found # {} /\ task[r].found \subseteq burned,
         a \in {"retryable", "permanent", "config", "ja_nao_existia"} =>
           call[r] \in {"none", "refused"} \/ r \in disowned'
  PROVE  IInv'
<1> DEFINE t == Answered(task[r], a)
<1>1. /\ t \in Task
      /\ t.pc = "answered" /\ t.told = a /\ t.status = task[r].status
      /\ t.op = task[r].op /\ t.lang = task[r].lang /\ t.found = task[r].found
  <2>1. task[r] \in Task
    BY DEF IInv, TypeOK
  <2>2. 0 \in 0..Rereads
    BY TemplatesAssumption
  <2> QED
    BY <2>1, <2>2 DEF Task, Answered, Ends
<1>2. task' = [task EXCEPT ![r] = t]
  BY DEF Answer
<1> HIDE DEF t
<1>3. task'[r] = t
  BY <1>2 DEF IInv, TypeOK
<1>4. CallIsTrue(r)' /\ FoundIsTrue(r)' /\ ToldIsTrue(r)'
  BY <1>1, <1>3 DEF IInv, CallIsTrue, FoundIsTrue, ToldIsTrue, meta
<1>5. call' \in [Requests -> {"none", "sent", "done", "refused"}]
  BY DEF IInv, TypeOK
<1> QED
  BY <1>1, <1>2, <1>4, <1>5, RequestMoves

---------------------------------------------------------------------------
(* The handlers up to the call.                                            *)

LEMMA RefuseKeepsIInv ==
  ASSUME IInv, NEW r \in Requests, Refuse(r)
  PROVE  IInv'
<1>1. PICK c \in {"permanent", "config", "retryable"} : Answer(r, c)
  BY DEF Refuse
<1>2. c \in Answers /\ c \notin {"created", "confirmed", "apagado"}
  BY DEF Answers, ErrorClass
<1>3. call[r] = "none"
  BY DEF IInv, CallIsTrue, Refuse, At
<1>4. UNCHANGED <<meta, call, disowned, apagados>>
  BY DEF Refuse
<1> QED
  BY <1>1, <1>2, <1>3, <1>4, AnswerEnds DEF IInv, TypeOK

LEMMA AdmitKeepsIInv ==
  ASSUME IInv, NEW r \in Requests, Admit(r)
  PROVE  IInv'
<1>1. /\ task[r] \in Task /\ task[r].pc = "idle" /\ call[r] = "none"
      /\ UNCHANGED <<meta, disowned, apagados>>
  BY DEF IInv, TypeOK, CallIsTrue, Admit, At
<1>2. CASE task[r].op = "create"
  <2> DEFINE t == [task[r] EXCEPT !.pc = "calling"]
  <2>1. /\ t \in Task /\ t.pc = "calling" /\ t.op = "create"
        /\ t.found = task[r].found /\ t.told = task[r].told /\ t.lang = task[r].lang
        /\ t.status = task[r].status
    BY <1>1, <1>2 DEF Task
  <2>2. /\ task' = [task EXCEPT ![r] = t]
        /\ call' = [call EXCEPT ![r] = "sent"]
    BY <1>2 DEF Admit, GoTo, Calls
  <2> HIDE DEF t
  <2>3. /\ task'[r] = t /\ call'[r] = "sent"
        /\ call' \in [Requests -> {"none", "sent", "done", "refused"}]
        /\ \A q \in Requests \ {r} : call'[q] = call[q]
    BY <2>2 DEF IInv, TypeOK
  <2>4. CallIsTrue(r)' /\ FoundIsTrue(r)' /\ ToldIsTrue(r)'
    BY <1>1, <2>1, <2>3 DEF IInv, CallIsTrue, FoundIsTrue, ToldIsTrue, meta
  <2> QED
    BY <1>1, <2>1, <2>2, <2>3, <2>4, RequestMoves DEF IInv, TypeOK
<1>3. CASE task[r].op # "create"
  <2> DEFINE t == [task[r] EXCEPT !.pc = "preread"]
  <2>1. /\ t \in Task /\ t.pc = "preread" /\ t.op = task[r].op
        /\ t.found = task[r].found /\ t.told = task[r].told /\ t.lang = task[r].lang
        /\ t.status = task[r].status
    BY <1>1 DEF Task
  <2>2. /\ task' = [task EXCEPT ![r] = t]
        /\ UNCHANGED call
    BY <1>3 DEF Admit, GoTo
  <2> HIDE DEF t
  <2>3. /\ task'[r] = t
        /\ call' \in [Requests -> {"none", "sent", "done", "refused"}]
    BY <2>2 DEF IInv, TypeOK
  <2>4. CallIsTrue(r)' /\ FoundIsTrue(r)' /\ ToldIsTrue(r)'
    BY <1>1, <2>1, <2>2, <2>3 DEF IInv, CallIsTrue, FoundIsTrue, ToldIsTrue, meta
  <2> QED
    BY <1>1, <2>1, <2>2, <2>3, <2>4, RequestMoves DEF IInv, TypeOK
<1> QED
  BY <1>2, <1>3

(* What the pre-read lists is deleted as soon as it is no longer live:     *)
(* that a lagging catalogue says so of an entry is proof enough of it.     *)
LEMMA PrereadKeepsIInv ==
  ASSUME IInv, NEW r \in Requests, Preread(r)
  PROVE  IInv'
<1>1. /\ task[r] \in Task /\ task[r].pc = "preread" /\ call[r] = "none"
      /\ UNCHANGED <<meta, disowned, apagados>>
  BY DEF IInv, TypeOK, CallIsTrue, Preread, At
<1>2. CASE Listed = {}
  <2>1. Answer(r, "ja_nao_existia") /\ UNCHANGED call
    BY <1>2 DEF Preread
  <2>2. "ja_nao_existia" \in Answers
    BY DEF Answers
  <2> QED
    BY <1>1, <2>1, <2>2, AnswerEnds DEF IInv, TypeOK
<1>3. CASE Listed # {}
  <2> DEFINE t == [task[r] EXCEPT !.pc = "calling", !.found = Listed]
  <2>1. /\ t \in Task /\ t.pc = "calling" /\ t.op = task[r].op
        /\ t.found = Listed /\ t.told = task[r].told /\ t.lang = task[r].lang
        /\ t.status = task[r].status
    BY <1>1 DEF Task, Listed
  <2>2. /\ task' = [task EXCEPT ![r] = t]
        /\ call' = [call EXCEPT ![r] = "sent"]
    BY <1>3 DEF Preread, Calls
  <2> HIDE DEF t
  <2>3. /\ task'[r] = t /\ call'[r] = "sent"
        /\ call' \in [Requests -> {"none", "sent", "done", "refused"}]
        /\ \A q \in Requests \ {r} : call'[q] = call[q]
    BY <2>2 DEF IInv, TypeOK
  <2>4. \A l \in Listed : l \in made /\ (shown[l] # "live" => l \in burned)
    <3>1. \A l \in Listed : /\ l \in Languages /\ shown[l] # "none"
                            /\ shown[l] \in Entry
      BY DEF Listed, IInv, TypeOK
    <3> QED
      BY <3>1 DEF IInv, CatalogueIsPast, Entry
  <2>5. CallIsTrue(r)' /\ ToldIsTrue(r)'
    BY <1>1, <2>1, <2>3 DEF IInv, CallIsTrue, ToldIsTrue, meta
  <2>6. FoundIsTrue(r)'
    BY <1>1, <1>3, <2>1, <2>3, <2>4 DEF FoundIsTrue, meta
  <2> QED
    BY <1>1, <2>1, <2>2, <2>3, <2>5, <2>6, RequestMoves DEF IInv, TypeOK
<1> QED
  BY <1>2, <1>3

LEMMA PrereadFailsKeepsIInv ==
  ASSUME IInv, NEW r \in Requests, PrereadFails(r)
  PROVE  IInv'
<1>1. PICK c \in {"config", "retryable"} \cup {ClassifyResponse(a[1], a[2]) : a \in Refusals} :
        Answer(r, c)
  BY DEF PrereadFails
<1>2. c \in ErrorClass
  BY ClassIsAClass DEF ErrorClass
<1>3. c \in Answers /\ c \notin {"created", "confirmed", "apagado"}
  BY <1>2 DEF Answers, ErrorClass
<1>4. call[r] = "none"
  BY DEF IInv, CallIsTrue, PrereadFails, At
<1>5. UNCHANGED <<meta, call, disowned, apagados>>
  BY DEF PrereadFails
<1> QED
  BY <1>1, <1>3, <1>4, <1>5, AnswerEnds DEF IInv, TypeOK

---------------------------------------------------------------------------
(* What Meta does with a call.                                             *)

LEMMA MetaCreatesKeepsIInv ==
  ASSUME IInv, NEW r \in Requests, MetaCreates(r)
  PROVE  IInv'
<1> DEFINE lang == task[r].lang
<1>1. lang \in Languages /\ lang \notin burned
  BY DEF MetaCreates, IInv, TypeOK, Task
<1>2. /\ entry' = [entry EXCEPT ![lang] = "live"]
      /\ made' = made \cup {lang}
      /\ call' = [call EXCEPT ![r] = "done"]
      /\ call[r] = "sent" /\ task[r].op = "create"
      /\ UNCHANGED <<burned, shown, manual, disowned, task, apagados>>
  BY DEF MetaCreates
<1> HIDE DEF lang
<1>3. \A l \in Languages : EntryIsTrue(l)' /\ CatalogueIsPast(l)'
  BY <1>1, <1>2 DEF IInv, TypeOK, EntryIsTrue, CatalogueIsPast
<1>4. \A q \in Requests : CallIsTrue(q)'
  <2>1. CallIsTrue(r)'
    BY <1>2 DEF IInv, TypeOK, CallIsTrue, lang
  <2>2. ASSUME NEW q \in Requests \ {r}
        PROVE  CallIsTrue(q)'
    BY <1>2 DEF IInv, TypeOK, CallIsTrue
  <2> QED
    BY <2>1, <2>2
<1>5. /\ call' \in [Requests -> {"none", "sent", "done", "refused"}]
      /\ entry' \in [Languages -> Entry]
  BY <1>1, <1>2 DEF IInv, TypeOK, Entry
<1>6. \A q \in Requests : call[q] # "sent" => call'[q] = call[q]
  BY <1>2 DEF IInv, TypeOK
<1> QED
  BY <1>1, <1>2, <1>3, <1>4, <1>5, <1>6, WorldMoves DEF IInv, TypeOK

(* A deletion leaves nothing live in the languages it burns.               *)
LEMMA DeletionBurns ==
  ASSUME IInv, NEW langs \in SUBSET Languages, entry' \in Deleted(langs),
         burned' = burned \cup langs, UNCHANGED <<shown, made>>
  PROVE  /\ entry' \in [Languages -> Entry]
         /\ \A l \in Languages : EntryIsTrue(l)' /\ CatalogueIsPast(l)'
<1>1. /\ entry' \in [Languages -> Entry]
      /\ \A l \in Languages : IF l \in langs /\ entry[l] # "none"
                              THEN entry'[l] \in {"none", "ending"}
                              ELSE entry'[l] = entry[l]
  BY DEF Deleted
<1> QED
  BY <1>1 DEF IInv, EntryIsTrue, CatalogueIsPast

LEMMA MetaDeletesKeepsIInv ==
  ASSUME IInv, NEW r \in Requests, MetaDeletes(r)
  PROVE  IInv'
<1>1. /\ entry' \in Deleted(Languages) /\ burned' = Languages
      /\ call' = [call EXCEPT ![r] = "done"]
      /\ call[r] = "sent" /\ task[r].op = "delete"
      /\ UNCHANGED <<shown, made, manual, disowned, task, apagados>>
  BY DEF MetaDeletes
<1>2. burned \subseteq Languages /\ burned' = burned \cup Languages
  BY <1>1 DEF IInv, TypeOK
<1>3. /\ entry' \in [Languages -> Entry]
      /\ \A l \in Languages : EntryIsTrue(l)' /\ CatalogueIsPast(l)'
  BY <1>1, <1>2, DeletionBurns
<1>4. \A q \in Requests : CallIsTrue(q)'
  <2>1. CallIsTrue(r)'
    BY <1>1 DEF IInv, TypeOK, CallIsTrue
  <2>2. ASSUME NEW q \in Requests \ {r}
        PROVE  CallIsTrue(q)'
    BY <1>1 DEF IInv, TypeOK, CallIsTrue
  <2> QED
    BY <2>1, <2>2
<1>5. /\ call' \in [Requests -> {"none", "sent", "done", "refused"}]
      /\ \A q \in Requests : call[q] # "sent" => call'[q] = call[q]
  BY <1>1 DEF IInv, TypeOK
<1> QED
  BY <1>1, <1>2, <1>3, <1>4, <1>5, WorldMoves DEF IInv, TypeOK

LEMMA MetaRefusesKeepsIInv ==
  ASSUME IInv, NEW r \in Requests, MetaRefuses(r)
  PROVE  IInv'
<1>1. /\ call' = [call EXCEPT ![r] = "refused"] /\ call[r] = "sent"
      /\ UNCHANGED <<entry, burned, shown, made, manual, disowned, task, apagados>>
  BY DEF MetaRefuses, meta
<1>2. \A q \in Requests : CallIsTrue(q)'
  BY <1>1 DEF IInv, TypeOK, CallIsTrue
<1>3. \A l \in Languages : EntryIsTrue(l)' /\ CatalogueIsPast(l)'
  BY <1>1 DEF IInv, EntryIsTrue, CatalogueIsPast
<1>4. /\ call' \in [Requests -> {"none", "sent", "done", "refused"}]
      /\ \A q \in Requests : call[q] # "sent" => call'[q] = call[q]
  BY <1>1 DEF IInv, TypeOK
<1> QED
  BY <1>1, <1>2, <1>3, <1>4, WorldMoves DEF IInv, TypeOK

---------------------------------------------------------------------------
(* The answer, or the lack of one.                                         *)

LEMMA HearSuccessKeepsIInv ==
  ASSUME IInv, NEW r \in Requests, HearSuccess(r)
  PROVE  IInv'
<1>1. /\ task[r].pc = "calling" /\ call[r] = "done"
      /\ UNCHANGED <<meta, call, disowned>>
  BY DEF HearSuccess, At
<1>2. CASE task[r].op = "create"
  <2>1. Answer(r, "created") /\ UNCHANGED apagados
    BY <1>2 DEF HearSuccess
  <2>2. task[r].lang \in made
    BY <1>1, <1>2 DEF IInv, CallIsTrue
  <2>3. "created" \in Answers
    BY DEF Answers
  <2> QED
    BY <1>1, <2>1, <2>2, <2>3, AnswerEnds DEF IInv, TypeOK
<1>3. CASE task[r].op = "delete"
  <2>1. Answer(r, "apagado") /\ apagados' \in {apagados, apagados + 1}
    BY <1>3 DEF HearSuccess, RespondDeleted
  <2>2. task[r].found # {} /\ task[r].found \subseteq burned
    BY <1>1, <1>3 DEF IInv, TypeOK, Task, CallIsTrue, FoundIsTrue
  <2>3. "apagado" \in Answers
    BY DEF Answers
  <2>4. apagados' \in Nat
    BY <2>1 DEF IInv, TypeOK
  <2> QED
    BY <1>1, <2>1, <2>2, <2>3, <2>4, AnswerEnds DEF IInv, TypeOK
<1>4. task[r].op \in {"create", "delete"}
  BY DEF IInv, TypeOK, Task
<1> QED
  BY <1>2, <1>3, <1>4

LEMMA HearErrorKeepsIInv ==
  ASSUME IInv, NEW r \in Requests, HearError(r)
  PROVE  IInv'
<1>1. PICK a \in Refusals :
        /\ \/ call[r] = "refused" /\ UNCHANGED disowned
           \/ /\ call[r] = "done" /\ a[1] \in ServerError
              /\ disowned' = disowned \cup {r}
        /\ Answer(r, ClassifyResponse(a[1], a[2]))
  BY DEF HearError
<1> DEFINE c == ClassifyResponse(a[1], a[2])
<1>2. c \in ErrorClass
  BY ClassIsAClass
<1>3. Answer(r, c)
  BY <1>1
<1> HIDE DEF c
<1>4. c \in Answers /\ c \notin {"created", "confirmed", "apagado"}
  BY <1>2 DEF Answers, ErrorClass
<1>5. /\ disowned \subseteq disowned' /\ disowned' \subseteq Requests
      /\ call[r] \in {"none", "refused"} \/ r \in disowned'
  BY <1>1 DEF IInv, TypeOK
<1>6. UNCHANGED <<meta, call, apagados>>
  BY DEF HearError
<1> QED
  BY <1>3, <1>4, <1>5, <1>6, AnswerEnds DEF IInv, TypeOK

(* Steps of a handler that change neither what it asks for nor what it     *)
(* found, and tell nobody anything.                                        *)
LEMMA HandlerGoesOn ==
  ASSUME IInv, NEW r \in Requests, NEW t \in Task, task' = [task EXCEPT ![r] = t],
         UNCHANGED <<meta, call, disowned, apagados>>,
         t.op = task[r].op, t.lang = task[r].lang, t.found = task[r].found,
         t.told = task[r].told, t.status = task[r].status,
         t.pc = task[r].pc \/ (task[r].pc = "calling" /\ t.pc = "reread")
  PROVE  IInv'
<1>1. task'[r] = t
  BY DEF IInv, TypeOK
<1>2. CallIsTrue(r)' /\ FoundIsTrue(r)' /\ ToldIsTrue(r)'
  BY <1>1 DEF IInv, CallIsTrue, FoundIsTrue, ToldIsTrue, meta
<1>3. call' \in [Requests -> {"none", "sent", "done", "refused"}]
  BY DEF IInv, TypeOK
<1> QED
  BY <1>2, <1>3, RequestMoves DEF IInv, TypeOK

LEMMA SilenceKeepsIInv ==
  ASSUME IInv, NEW r \in Requests, Silence(r)
  PROVE  IInv'
<1> DEFINE t == [task[r] EXCEPT !.pc = "reread"]
<1>1. task[r] \in Task /\ task[r].pc = "calling"
  BY DEF IInv, TypeOK, Silence, At
<1>2. /\ t \in Task /\ t.pc = "reread" /\ t.op = task[r].op /\ t.lang = task[r].lang
      /\ t.found = task[r].found /\ t.told = task[r].told /\ t.status = task[r].status
  BY <1>1 DEF Task
<1>3. /\ task' = [task EXCEPT ![r] = t]
      /\ UNCHANGED <<meta, call, disowned, apagados>>
  BY DEF Silence, GoTo
<1> HIDE DEF t
<1> QED
  BY <1>1, <1>2, <1>3, HandlerGoesOn

(* A deletion is accepted when nothing of the name is shown as live.  That *)
(* is all a lagging catalogue has to show: an entry that was listed before *)
(* and is not live now was deleted meanwhile.                              *)
LEMMA AcceptedIsDeleted ==
  ASSUME IInv, NEW r \in Requests, DeletionAccepted
  PROVE  task[r].found \subseteq burned
<1>1. \A l \in Languages : shown[l] # "live"
  BY DEF DeletionAccepted, Listed
<1>2. task[r].found \subseteq Languages
  BY DEF IInv, TypeOK, Task
<1> QED
  BY <1>1, <1>2 DEF IInv, FoundIsTrue

LEMMA RereadKeepsIInv ==
  ASSUME IInv, NEW r \in Requests, Reread(r)
  PROVE  IInv'
<1>1. /\ task[r] \in Task /\ task[r].pc = "reread"
      /\ UNCHANGED <<meta, call, disowned>>
      /\ apagados \in Nat
  BY DEF IInv, TypeOK, Reread, At
<1>2. CASE /\ Resolved(r) /\ task[r].op = "create" /\ UNCHANGED apagados
           /\ task' = [task EXCEPT ![r] =
                         [Answered(@, "confirmed") EXCEPT !.status = shown[task[r].lang]]]
  <2> DEFINE st == shown[task[r].lang]
             t == [Answered(task[r], "confirmed") EXCEPT !.status = st]
  <2>1. task[r].lang \in Languages /\ st # "none"
    BY <1>1, <1>2 DEF Resolved, CatalogReread, Task
  <2>2. /\ st \in Entry /\ task[r].lang \in made
        /\ st = "ending" => task[r].lang \in burned
    BY <2>1 DEF IInv, TypeOK, CatalogueIsPast
  <2>3. task' = [task EXCEPT ![r] = t]
    BY <1>2
  <2> HIDE DEF st
  <2>4. /\ t \in Task /\ t.pc = "answered" /\ t.told = "confirmed" /\ t.status = st
        /\ t.op = task[r].op /\ t.lang = task[r].lang /\ t.found = task[r].found
    <3>1. 0 \in 0..Rereads
      BY TemplatesAssumption
    <3> QED
      BY <1>1, <2>2, <3>1 DEF Task, Answered, Ends, Answers
  <2> HIDE DEF t
  <2>5. task'[r] = t
    BY <2>3 DEF IInv, TypeOK
  <2>6. CallIsTrue(r)' /\ FoundIsTrue(r)' /\ ToldIsTrue(r)'
    BY <1>1, <2>2, <2>4, <2>5 DEF IInv, CallIsTrue, FoundIsTrue, ToldIsTrue, meta
  <2>7. call' \in [Requests -> {"none", "sent", "done", "refused"}]
    BY <1>1 DEF IInv, TypeOK
  <2> QED
    BY <1>1, <1>2, <2>3, <2>4, <2>6, <2>7, RequestMoves DEF IInv, TypeOK
<1>3. CASE Resolved(r) /\ task[r].op = "delete" /\ RespondDeleted(r)
  <2>1. DeletionAccepted /\ Answer(r, "apagado") /\ apagados' \in {apagados, apagados + 1}
    BY <1>3 DEF Resolved, RespondDeleted
  <2>2. task[r].found # {} /\ task[r].found \subseteq burned
    BY <1>1, <1>3, <2>1, AcceptedIsDeleted DEF IInv, FoundIsTrue
  <2>3. "apagado" \in Answers
    BY DEF Answers
  <2>4. apagados' \in Nat
    BY <1>1, <2>1
  <2> QED
    BY <1>1, <2>1, <2>2, <2>3, <2>4, AnswerEnds DEF IInv, TypeOK
<1>4. CASE Answer(r, "unknown") /\ UNCHANGED apagados
  <2>1. "unknown" \in Answers
    BY DEF Answers, ErrorClass
  <2> QED
    BY <1>1, <1>4, <2>1, AnswerEnds DEF IInv, TypeOK
<1>5. CASE /\ ~LastAttempt(r) /\ UNCHANGED apagados
           /\ task' = [task EXCEPT ![r].attempts = NextAttempt(r)]
  <2> DEFINE t == [task[r] EXCEPT !.attempts = NextAttempt(r)]
  <2>1. NextAttempt(r) \in 0..Rereads
    BY <1>1, <1>5, TemplatesAssumption DEF LastAttempt, NextAttempt, Task
  <2>2. /\ t \in Task /\ t.pc = task[r].pc /\ t.op = task[r].op /\ t.lang = task[r].lang
        /\ t.found = task[r].found /\ t.told = task[r].told /\ t.status = task[r].status
    BY <1>1, <2>1 DEF Task
  <2>3. task' = [task EXCEPT ![r] = t]
    BY <1>5
  <2> HIDE DEF t
  <2> QED
    BY <1>1, <1>5, <2>2, <2>3, HandlerGoesOn
<1> QED
  BY <1>2, <1>3, <1>4, <1>5 DEF Reread

LEMMA RereadFailsKeepsIInv ==
  ASSUME IInv, NEW r \in Requests, RereadFails(r)
  PROVE  IInv'
<1>1. Answer(r, "unknown") /\ UNCHANGED <<meta, call, disowned, apagados>>
  BY DEF RereadFails
<1>2. "unknown" \in Answers
  BY DEF Answers, ErrorClass
<1> QED
  BY <1>1, <1>2, AnswerEnds DEF IInv, TypeOK

---------------------------------------------------------------------------
(* The consumer, the process, the catalogue, and people.                   *)

LEMMA HangUpKeepsIInv ==
  ASSUME IInv, NEW r \in Requests, HangUp(r)
  PROVE  IInv'
<1> DEFINE t == [task[r] EXCEPT !.away = TRUE]
<1>1. task[r] \in Task
  BY DEF IInv, TypeOK
<1>2. /\ t \in Task /\ t.pc = task[r].pc /\ t.op = task[r].op /\ t.lang = task[r].lang
      /\ t.found = task[r].found /\ t.told = task[r].told /\ t.status = task[r].status
  BY <1>1 DEF Task
<1>3. /\ task' = [task EXCEPT ![r] = t]
      /\ UNCHANGED <<meta, call, disowned, apagados>>
  BY DEF HangUp
<1> HIDE DEF t
<1> QED
  BY <1>2, <1>3, HandlerGoesOn

LEMMA CrashKeepsIInv ==
  ASSUME IInv, Crash
  PROVE  IInv'
<1>1. UNCHANGED <<entry, burned, shown, made, manual, call, disowned, apagados>>
  BY DEF Crash, meta
<1>2. ASSUME NEW r \in Requests
      PROVE  /\ task'[r] \in Task
             /\ task'[r].op = task[r].op /\ task'[r].lang = task[r].lang
             /\ task'[r].found = task[r].found /\ task'[r].told = task[r].told
             /\ task'[r].status = task[r].status
             /\ task'[r].pc = task[r].pc
                  \/ (task[r].pc # "answered" /\ task'[r].pc = "cut")
  <2>1. task[r] \in Task
    BY DEF IInv, TypeOK
  <2>2. 0 \in 0..Rereads
    BY TemplatesAssumption
  <2>3. CASE task[r].pc \in {"idle", "answered"}
    BY <2>1, <2>3 DEF Crash
  <2>4. CASE task[r].pc \notin {"idle", "answered"}
    <3>1. task'[r] = Ends(task[r], "cut")
      BY <2>4 DEF Crash
    <3> QED
      BY <2>1, <2>2, <2>4, <3>1 DEF Task, Ends
  <2> QED
    BY <2>3, <2>4
<1>3. task' \in [Requests -> Task]
  <2>1. task' = [r \in Requests |-> task'[r]]
    BY DEF Crash
  <2> QED
    BY <1>2, <2>1
<1>4. TypeOK'
  BY <1>1, <1>3 DEF IInv, TypeOK
<1>5. \A l \in Languages : EntryIsTrue(l)' /\ CatalogueIsPast(l)'
  BY <1>1 DEF IInv, EntryIsTrue, CatalogueIsPast
<1>6. \A r \in Requests : CallIsTrue(r)' /\ FoundIsTrue(r)' /\ ToldIsTrue(r)'
  BY <1>1, <1>2 DEF IInv, CallIsTrue, FoundIsTrue, ToldIsTrue
<1> QED
  BY <1>4, <1>5, <1>6 DEF IInv

(* The catalogue catches up with an entry: one that was made and is no     *)
(* longer live is burned.                                                  *)
LEMMA CatchUpKeepsIInv ==
  ASSUME IInv, NEW l \in Languages, CatchUp(l)
  PROVE  IInv'
<1>1. /\ shown' = [shown EXCEPT ![l] = entry[l]]
      /\ UNCHANGED <<entry, burned, made, manual, call, disowned, task, apagados>>
  BY DEF CatchUp
<1>2. /\ shown' \in [Languages -> Entry] /\ shown'[l] = entry[l]
      /\ \A k \in Languages \ {l} : shown'[k] = shown[k]
  BY <1>1 DEF IInv, TypeOK
<1>3. ASSUME NEW k \in Languages
      PROVE  EntryIsTrue(k)' /\ CatalogueIsPast(k)'
  BY <1>1, <1>2 DEF IInv, EntryIsTrue, CatalogueIsPast
<1>4. \A k \in made : shown'[k] # "live" => shown'[k] = shown[k] \/ k \in burned'
  BY <1>1, <1>2 DEF IInv, TypeOK, EntryIsTrue
<1>5. \A r \in Requests : CallIsTrue(r)'
  BY <1>1 DEF IInv, CallIsTrue
<1> QED
  BY <1>1, <1>2, <1>3, <1>4, <1>5, WorldMoves DEF IInv, TypeOK

LEMMA DeliveredKeepsIInv ==
  ASSUME IInv, NEW l \in Languages, Delivered(l)
  PROVE  IInv'
<1>1. /\ entry[l] = "ending" /\ entry' = [entry EXCEPT ![l] = "none"]
      /\ UNCHANGED <<burned, shown, made, manual, call, disowned, task, apagados>>
  BY DEF Delivered
<1>2. \A k \in Languages : EntryIsTrue(k)' /\ CatalogueIsPast(k)'
  BY <1>1 DEF IInv, TypeOK, EntryIsTrue, CatalogueIsPast
<1>3. entry' \in [Languages -> Entry]
  BY <1>1 DEF IInv, TypeOK, Entry
<1>4. \A r \in Requests : CallIsTrue(r)'
  BY <1>1 DEF IInv, CallIsTrue
<1> QED
  BY <1>1, <1>2, <1>3, <1>4, WorldMoves DEF IInv, TypeOK

LEMMA SomebodyCreatesKeepsIInv ==
  ASSUME IInv, NEW l \in Languages, SomebodyCreates(l)
  PROVE  IInv'
<1>1. /\ manual < MaxManual /\ manual' = manual + 1
      /\ l \notin burned /\ entry' = [entry EXCEPT ![l] = "live"]
      /\ made' = made \cup {l}
      /\ UNCHANGED <<burned, shown, call, disowned, task, apagados>>
  BY DEF SomebodyCreates
<1>2. \A k \in Languages : EntryIsTrue(k)' /\ CatalogueIsPast(k)'
  BY <1>1 DEF IInv, TypeOK, EntryIsTrue, CatalogueIsPast
<1>3. entry' \in [Languages -> Entry] /\ manual' \in 0..MaxManual
  BY <1>1, TemplatesAssumption DEF IInv, TypeOK, Entry
<1>4. \A r \in Requests : CallIsTrue(r)'
  BY <1>1 DEF IInv, CallIsTrue
<1> QED
  BY <1>1, <1>2, <1>3, <1>4, WorldMoves DEF IInv, TypeOK

LEMMA SomebodyDeletesKeepsIInv ==
  ASSUME IInv, NEW l \in Languages, SomebodyDeletes(l)
  PROVE  IInv'
<1>1. /\ manual < MaxManual /\ manual' = manual + 1
      /\ entry' \in Deleted({l}) /\ burned' = burned \cup {l}
      /\ UNCHANGED <<shown, made, call, disowned, task, apagados>>
  BY DEF SomebodyDeletes
<1>2. /\ entry' \in [Languages -> Entry]
      /\ \A k \in Languages : EntryIsTrue(k)' /\ CatalogueIsPast(k)'
  BY <1>1, DeletionBurns
<1>3. manual' \in 0..MaxManual
  BY <1>1, TemplatesAssumption DEF IInv, TypeOK
<1>4. \A r \in Requests : CallIsTrue(r)'
  BY <1>1 DEF IInv, TypeOK, CallIsTrue
<1> QED
  BY <1>1, <1>2, <1>3, <1>4, WorldMoves DEF IInv, TypeOK

---------------------------------------------------------------------------
(* The whole.                                                              *)

LEMMA InitIsTrue ==
  ASSUME Init
  PROVE  IInv
<1>1. PICK w \in Wanted :
        task = [r \in Requests |->
                  [pc |-> "idle", op |-> w[r][1], lang |-> w[r][2], found |-> {},
                   attempts |-> 0, away |-> FALSE, told |-> "nothing", status |-> "none"]]
  BY DEF Init
<1>2. ASSUME NEW r \in Requests
      PROVE  /\ task[r] \in Task
             /\ task[r].pc = "idle" /\ task[r].found = {} /\ task[r].told = "nothing"
             /\ task[r].status = "none"
  <2>1. w[r] \in {"create", "delete"} \X Languages
    BY TemplatesAssumption
  <2>2. w[r][1] \in {"create", "delete"} /\ w[r][2] \in Languages
    BY <2>1
  <2>3. 0 \in 0..Rereads
    BY TemplatesAssumption
  <2> QED
    BY <1>1, <2>2, <2>3 DEF Task, Entry
<1>3. task \in [Requests -> Task]
  <2>1. task = [r \in Requests |-> task[r]]
    BY <1>1
  <2> QED
    BY <1>2, <2>1
<1>4. entry \in [Languages -> Entry] /\ shown = entry
  BY DEF Init, Entry
<1>5. 0 \in 0..MaxManual
  BY TemplatesAssumption
<1>6. TypeOK
  BY <1>3, <1>4, <1>5 DEF Init, TypeOK
<1>7. \A l \in Languages : EntryIsTrue(l) /\ CatalogueIsPast(l)
  BY DEF Init, EntryIsTrue, CatalogueIsPast
<1>8. \A r \in Requests : CallIsTrue(r) /\ FoundIsTrue(r) /\ ToldIsTrue(r)
  BY <1>2 DEF Init, CallIsTrue, FoundIsTrue, ToldIsTrue
<1> QED
  BY <1>6, <1>7, <1>8 DEF IInv

LEMMA NextKeepsIInv ==
  ASSUME IInv, [Next]_vars
  PROVE  IInv'
<1>1. ASSUME NEW r \in Requests, Refuse(r)  PROVE IInv'
  BY <1>1, RefuseKeepsIInv
<1>2. ASSUME NEW r \in Requests, Admit(r)  PROVE IInv'
  BY <1>2, AdmitKeepsIInv
<1>3. ASSUME NEW r \in Requests, HandlerStep(r)  PROVE IInv'
  BY <1>3, PrereadKeepsIInv, PrereadFailsKeepsIInv, HearSuccessKeepsIInv, HearErrorKeepsIInv,
     SilenceKeepsIInv, RereadKeepsIInv, RereadFailsKeepsIInv DEF HandlerStep
<1>4. ASSUME NEW r \in Requests, HangUp(r)  PROVE IInv'
  BY <1>4, HangUpKeepsIInv
<1>5. ASSUME NEW r \in Requests, MetaCreates(r) \/ MetaDeletes(r) \/ MetaRefuses(r)
      PROVE  IInv'
  BY <1>5, MetaCreatesKeepsIInv, MetaDeletesKeepsIInv, MetaRefusesKeepsIInv
<1>6. ASSUME NEW l \in Languages,
             CatchUp(l) \/ Delivered(l) \/ SomebodyCreates(l) \/ SomebodyDeletes(l)
      PROVE  IInv'
  BY <1>6, CatchUpKeepsIInv, DeliveredKeepsIInv, SomebodyCreatesKeepsIInv,
     SomebodyDeletesKeepsIInv
<1>7. ASSUME Crash  PROVE IInv'
  BY <1>7, CrashKeepsIInv
<1>8. ASSUME UNCHANGED vars  PROVE IInv'
  <2>1. UNCHANGED <<entry, burned, shown, made, call, disowned, task, apagados, manual>>
    BY <1>8 DEF vars
  <2> QED
    BY <2>1 DEF IInv, TypeOK, EntryIsTrue, CatalogueIsPast, CallIsTrue, FoundIsTrue, ToldIsTrue
<1> QED
  BY <1>1, <1>2, <1>3, <1>4, <1>5, <1>6, <1>7, <1>8 DEF Next

LEMMA Invariance == Spec => []IInv
<1>1. Init => IInv
  BY InitIsTrue
<1>2. IInv /\ [Next]_vars => IInv'
  BY NextKeepsIInv
<1> QED
  BY <1>1, <1>2, PTL DEF Spec

(* Types. *)
THEOREM TemplatesTypes == Spec => []TypeOK
<1>1. IInv => TypeOK
  BY DEF IInv
<1> QED
  BY <1>1, Invariance, PTL

(***************************************************************************)
(* What a 201 of POST /v1/templates is worth: for the call's own answer    *)
(* this call was performed; for a reread somebody's was, and in either     *)
(* case the name is taken in this language for good, by the entry or by    *)
(* its deletion, and a status of PENDING_DELETION tells the truth          *)
(* (create, respondAmbiguousOutcome).                                      *)
(***************************************************************************)
THEOREM CreatedIsTrue == Spec => []CreatedIsThere
<1>1. ASSUME IInv, NEW r \in Requests
      PROVE  /\ task[r].told = "created" => call[r] = "done"
             /\ task[r].told \in {"created", "confirmed"} =>
                  task[r].lang \in made
                  /\ (entry[task[r].lang] # "none" \/ task[r].lang \in burned)
             /\ task[r].status = "ending" => task[r].lang \in burned
  BY <1>1 DEF IInv, TypeOK, Task, EntryIsTrue, ToldIsTrue
<1>2. IInv => CreatedIsThere
  BY <1>1 DEF CreatedIsThere
<1> QED
  BY <1>2, Invariance, PTL

(***************************************************************************)
(* `apagado` of DELETE /v1/templates is true of every entry its pre-read   *)
(* listed, though the verdict may come from a catalogue that lags behind.  *)
(***************************************************************************)
THEOREM DeletedIsTrue == Spec => []DeletedIsGone
<1>1. ASSUME IInv, NEW r \in Requests, task[r].told = "apagado"
      PROVE  /\ task[r].found # {}
             /\ \A l \in task[r].found : l \in burned /\ entry[l] # "live"
  <2>1. task[r].found # {} /\ task[r].found \subseteq burned /\ burned \subseteq Languages
    BY <1>1 DEF IInv, TypeOK, ToldIsTrue
  <2> QED
    BY <1>1, <2>1 DEF IInv, EntryIsTrue
<1>2. IInv => DeletedIsGone
  BY <1>1 DEF DeletedIsGone
<1> QED
  BY <1>2, Invariance, PTL

(***************************************************************************)
(* A class other than unknown is never given to a call that Meta performed *)
(* and did not disown, nor to one still on its way.                        *)
(***************************************************************************)
THEOREM DoubtIsTold == Spec => []DoubtIsOwnedUp
<1>1. IInv => DoubtIsOwnedUp
  BY DEF IInv, ToldIsTrue, DoubtIsOwnedUp
<1> QED
  BY <1>1, Invariance, PTL
=============================================================================
