----------------------------- MODULE Templates -----------------------------
(***************************************************************************)
(* POST and DELETE /v1/templates (TemplatesHandler of                      *)
(* internal/outbound/templates_handler.go, internal/meta/templates.go),    *)
(* for one template name in several languages.                             *)
(*                                                                         *)
(* Neither call can be repeated blindly: a deletion has no undo and burns  *)
(* the name.  When Meta's verdict is missing the handler rereads Meta's    *)
(* catalogue, up to four times over 17 seconds, to find out what happened. *)
(* The catalogue may lag behind, other requests and people at the WhatsApp *)
(* Manager work on the same name, and a call whose answer nobody awaits    *)
(* any more may still be performed.                                        *)
(***************************************************************************)
EXTENDS MetaErrors, FiniteSets

CONSTANTS
  Requests,   \* requests, each served once by its own goroutine
  Languages,
  Rereads,    \* attempts of spacedRereadsOf: len(RereadWaits) + 1
  Wanted,     \* what the requests may ask for: functions to <<op, language>>
  Refusals,   \* answers of Meta that refuse: pairs <<status, code>>
  MaxManual   \* bound: changes made at the WhatsApp Manager

ASSUME TemplatesAssumption ==
  /\ Rereads \in Nat \ {0} /\ MaxManual \in Nat
  /\ Wanted \subseteq [Requests -> {"create", "delete"} \X Languages]
  /\ \A a \in Refusals : a[1] \in Nat /\ a[2] \in Nat /\ a[1] \notin 200..299

VARIABLES
  entry,     \* Meta's entry of each language
  burned,    \* languages in which the name cannot be used again
  shown,     \* the entries as the catalogue lists them
  made,      \* history: languages the name was ever created in
  call,      \* the call of each request, at Meta
  disowned,  \* history: calls Meta performed and answered with a 5xx
  task,      \* what each handler is doing
  apagados,  \* the counter templates_apagados
  manual

vars == <<entry, burned, shown, made, call, disowned, task, apagados, manual>>
meta == <<entry, burned, shown, made, manual>>

(* ending is PENDING_DELETION: deleted, and listed until all is delivered. *)
Entry == {"none", "live", "ending"}

(* confirmed is the 201 that rests on a reread, and says so in its warning. *)
Answers == ErrorClass \cup {"created", "confirmed", "apagado", "ja_nao_existia"}

Task == [pc : {"idle", "preread", "calling", "reread", "answered", "cut"},
         op : {"create", "delete"}, lang : Languages,
         found : SUBSET Languages,   \* the entries the pre-read listed
         attempts : 0..Rereads,
         away : BOOLEAN,             \* the consumer hung up: r.Context() is done
         told : Answers \cup {"nothing"},
         status : Entry]             \* of the entry a 201 by reread lists

TypeOK ==
  /\ entry \in [Languages -> Entry] /\ shown \in [Languages -> Entry]
  /\ burned \subseteq Languages /\ made \subseteq Languages
  /\ call \in [Requests -> {"none", "sent", "done", "refused"}]
  /\ disowned \subseteq Requests
  /\ task \in [Requests -> Task]
  /\ apagados \in Nat /\ manual \in 0..MaxManual

Init ==
  /\ entry \in [Languages -> {"none", "live"}]
  /\ shown = entry /\ made = {l \in Languages : entry[l] = "live"}
  /\ burned = {} /\ disowned = {}
  /\ call = [r \in Requests |-> "none"]
  /\ \E w \in Wanted :
       task = [r \in Requests |->
                 [pc |-> "idle", op |-> w[r][1], lang |-> w[r][2], found |-> {},
                  attempts |-> 0, away |-> FALSE, told |-> "nothing", status |-> "none"]]
  /\ apagados = 0 /\ manual = 0

At(r, pc) == task[r].pc = pc
GoTo(r, pc) == task' = [task EXCEPT ![r].pc = pc]

(* What the handler forgets as it ends. *)
Ends(t, pc) == [t EXCEPT !.pc = pc, !.attempts = 0, !.away = FALSE]

Answered(t, a) == [Ends(t, "answered") EXCEPT !.told = a]

Answer(r, a) == task' = [task EXCEPT ![r] = Answered(@, a)]

---------------------------------------------------------------------------
(* The handlers up to the call.                                            *)

(* Token, body or query, the consumer's link, the instance, its type, and  *)
(* the shape of waba_id: nothing has left for Meta.                        *)
Refuse(r) ==
  /\ At(r, "idle")
  /\ \E c \in {"permanent", "config", "retryable"} : Answer(r, c)
  /\ UNCHANGED <<meta, call, disowned, apagados>>

Calls(r) == call' = [call EXCEPT ![r] = "sent"]

Admit(r) ==
  /\ At(r, "idle")
  /\ IF task[r].op = "create"
     THEN GoTo(r, "calling") /\ Calls(r)
     ELSE GoTo(r, "preread") /\ UNCHANGED call
  /\ UNCHANGED <<meta, disowned, apagados>>

(* entriesWithName: whatever their status, the pending ones included. *)
Listed == {l \in Languages : shown[l] # "none"}

(* The deletion of what is not there is answered without a call. *)
Preread(r) ==
  /\ At(r, "preread") /\ ~task[r].away
  /\ IF Listed = {}
     THEN Answer(r, "ja_nao_existia") /\ UNCHANGED call
     ELSE /\ task' = [task EXCEPT ![r].pc = "calling", ![r].found = Listed]
          /\ Calls(r)
  /\ UNCHANGED <<meta, disowned, apagados>>

(* respondCatalogError: too many pages and a foreign page are the          *)
(* operator's, an answer of Meta has its class, all else can be repeated.  *)
PrereadFails(r) ==
  /\ At(r, "preread")
  /\ \E c \in {"config", "retryable"} \cup {ClassifyResponse(a[1], a[2]) : a \in Refusals} :
       Answer(r, c)
  /\ UNCHANGED <<meta, call, disowned, apagados>>

---------------------------------------------------------------------------
(* What Meta does with a call, whether or not anybody waits for it.        *)

MetaCreates(r) ==
  /\ call[r] = "sent" /\ task[r].op = "create"
  /\ entry[task[r].lang] = "none" /\ task[r].lang \notin burned
  /\ entry' = [entry EXCEPT ![task[r].lang] = "live"]
  /\ made' = made \cup {task[r].lang}
  /\ call' = [call EXCEPT ![r] = "done"]
  /\ UNCHANGED <<burned, shown, manual, disowned, task, apagados>>

(* Deleted, or pending for as long as a message of it is undelivered. *)
Deleted(langs) ==
  {e \in [Languages -> Entry] :
     \A l \in Languages : IF l \in langs /\ entry[l] # "none"
                          THEN e[l] \in {"none", "ending"} ELSE e[l] = entry[l]}

(* All languages of the name at once, and the name is burned. *)
MetaDeletes(r) ==
  /\ call[r] = "sent" /\ task[r].op = "delete"
  /\ \E l \in Languages : entry[l] # "none"
  /\ entry' \in Deleted(Languages)
  /\ burned' = Languages
  /\ call' = [call EXCEPT ![r] = "done"]
  /\ UNCHANGED <<shown, made, manual, disowned, task, apagados>>

(* Refused, or never arrived. *)
MetaRefuses(r) ==
  /\ call[r] = "sent"
  /\ call' = [call EXCEPT ![r] = "refused"]
  /\ UNCHANGED <<meta, disowned, task, apagados>>

---------------------------------------------------------------------------
(* The answer, or the lack of one.                                         *)

(* The counter first; that it could not be written is only logged. *)
RespondDeleted(r) ==
  /\ apagados' \in {apagados, apagados + 1}
  /\ Answer(r, "apagado")

(* The id of the new template, or success:true. *)
HearSuccess(r) ==
  /\ At(r, "calling") /\ ~task[r].away /\ call[r] = "done"
  /\ IF task[r].op = "create"
     THEN Answer(r, "created") /\ UNCHANGED apagados
     ELSE RespondDeleted(r)
  /\ UNCHANGED <<meta, call, disowned>>

(* A MetaError is an answer, with the class of its status and its code;    *)
(* a 5xx may follow what it disowns.                                       *)
HearError(r) ==
  /\ At(r, "calling") /\ ~task[r].away
  /\ \E a \in Refusals :
       /\ \/ call[r] = "refused" /\ UNCHANGED disowned
          \/ /\ call[r] = "done" /\ a[1] \in ServerError
             /\ disowned' = disowned \cup {r}
       /\ Answer(r, ClassifyResponse(a[1], a[2]))
  /\ UNCHANGED <<meta, call, apagados>>

(* Mutant: a call that got no answer is one that can be repeated, as it is *)
(* for the reads.                                                          *)
Silence_Retryable(r) ==
  /\ At(r, "calling")
  /\ Answer(r, "retryable")
  /\ UNCHANGED <<meta, call, disowned, apagados>>

(* The deadline, a broken connection, a consumer that hung up, or a 2xx    *)
(* that says nothing (ErrTemplateWithoutID, ErrDeletionNotConfirmed).      *)
Silence(r) ==
  /\ At(r, "calling")
  /\ GoTo(r, "reread")
  /\ UNCHANGED <<meta, call, disowned, apagados>>

---------------------------------------------------------------------------
(* spacedRereadsOf: the waits in between are where everybody else moves.   *)

(* Mutant: any entry of the name will do, in whatever language. *)
CatalogReread_AnyLanguage(r) == Listed # {}

(* The entry of this name and language; its status is not looked at. *)
CatalogReread(r) == shown[task[r].lang] # "none"

(* Mutant: one pending entry is enough. *)
DeletionAccepted_One == Listed = {} \/ \E l \in Languages : shown[l] = "ending"

(* All that is left of the name is pending deletion. *)
DeletionAccepted == \A l \in Listed : shown[l] = "ending"

Resolved(r) == IF task[r].op = "create" THEN CatalogReread(r) ELSE DeletionAccepted

LastAttempt(r) == task[r].attempts + 1 >= Rereads

(* Mutant: after the longest pause the loop begins with the shortest again. *)
NextAttempt_Wraps(r) == (task[r].attempts + 1) % (Rereads - 1)

NextAttempt(r) == task[r].attempts + 1

Reread(r) ==
  /\ At(r, "reread") /\ ~task[r].away
  /\ \/ /\ Resolved(r) /\ task[r].op = "create"
        /\ task' = [task EXCEPT ![r] =
                      [Answered(@, "confirmed") EXCEPT !.status = shown[task[r].lang]]]
        /\ UNCHANGED apagados
     \/ /\ Resolved(r) /\ task[r].op = "delete"
        /\ RespondDeleted(r)
     \/ /\ ~Resolved(r) /\ LastAttempt(r)   \* inconclusive, and said so
        /\ Answer(r, "unknown")
        /\ UNCHANGED apagados
     \/ /\ ~Resolved(r) /\ ~LastAttempt(r)
        /\ task' = [task EXCEPT ![r].attempts = NextAttempt(r)]
        /\ UNCHANGED apagados
  /\ UNCHANGED <<meta, call, disowned>>

RereadFails(r) ==
  /\ At(r, "reread")
  /\ Answer(r, "unknown")
  /\ UNCHANGED <<meta, call, disowned, apagados>>

---------------------------------------------------------------------------
(* The consumer, the process, Meta's catalogue, and people.                *)

HangUp(r) ==
  /\ task[r].pc \in {"preread", "calling", "reread"} /\ ~task[r].away
  /\ task' = [task EXCEPT ![r].away = TRUE]
  /\ UNCHANGED <<meta, call, disowned, apagados>>

Crash ==
  /\ task' = [r \in Requests |->
                IF task[r].pc \in {"idle", "answered"} THEN task[r]
                ELSE Ends(task[r], "cut")]
  /\ UNCHANGED <<meta, call, disowned, apagados>>

CatchUp(l) ==
  /\ shown' = [shown EXCEPT ![l] = entry[l]]
  /\ UNCHANGED <<entry, burned, made, manual, call, disowned, task, apagados>>

(* A pending entry disappears once its last message was delivered. *)
Delivered(l) ==
  /\ entry[l] = "ending"
  /\ entry' = [entry EXCEPT ![l] = "none"]
  /\ UNCHANGED <<burned, shown, made, manual, call, disowned, task, apagados>>

SomebodyCreates(l) ==
  /\ manual < MaxManual /\ manual' = manual + 1
  /\ entry[l] = "none" /\ l \notin burned
  /\ entry' = [entry EXCEPT ![l] = "live"]
  /\ made' = made \cup {l}
  /\ UNCHANGED <<burned, shown, call, disowned, task, apagados>>

(* At the WhatsApp Manager one language can be deleted on its own. *)
SomebodyDeletes(l) ==
  /\ manual < MaxManual /\ manual' = manual + 1
  /\ entry[l] = "live"
  /\ entry' \in Deleted({l})
  /\ burned' = burned \cup {l}
  /\ UNCHANGED <<shown, made, call, disowned, task, apagados>>

HandlerStep(r) ==
  \/ Preread(r) \/ PrereadFails(r)
  \/ HearSuccess(r) \/ HearError(r) \/ Silence(r)
  \/ Reread(r) \/ RereadFails(r)

Next ==
  \/ \E r \in Requests : \/ Refuse(r) \/ Admit(r) \/ HandlerStep(r) \/ HangUp(r)
                         \/ MetaCreates(r) \/ MetaDeletes(r) \/ MetaRefuses(r)
  \/ \E l \in Languages : \/ CatchUp(l) \/ Delivered(l)
                          \/ SomebodyCreates(l) \/ SomebodyDeletes(l)
  \/ Crash

Spec == Init /\ [][Next]_vars

(* Every call has a deadline and every wait an end; nothing is assumed of  *)
(* Meta, of its catalogue or of the consumer.                              *)
FairSpec == Spec /\ \A r \in Requests : WF_vars(HandlerStep(r))

---------------------------------------------------------------------------
(***************************************************************************)
(* What a 201 promises.  Given for the call's own answer: this very call   *)
(* made the template.  Given for a reread of a catalogue that may lag: the *)
(* entry met was once made in this language, by whomever.  Of both: the    *)
(* name is taken in this language, by the entry or by its deletion, so     *)
(* that nothing is lost by obeying "do NOT create it again"; and one whose *)
(* status is PENDING_DELETION was deleted.  Not that the entry is there,   *)
(* nor, by a reread, that the call was performed: see README.md.           *)
(***************************************************************************)
CreatedIsThere ==
  \A r \in Requests :
    LET lang == task[r].lang
    IN  /\ task[r].told = "created" => call[r] = "done"
        /\ task[r].told \in {"created", "confirmed"} =>
             lang \in made /\ (entry[lang] # "none" \/ lang \in burned)
        /\ task[r].status = "ending" => lang \in burned

(***************************************************************************)
(* `apagado` is the truth about every entry the answer lists: Meta deleted *)
(* each of them, by this call or another's, however the catalogue lagged   *)
(* and whoever deleted one language meanwhile; none of them is live.       *)
(***************************************************************************)
DeletedIsGone ==
  \A r \in Requests : task[r].told = "apagado" =>
    /\ task[r].found # {}
    /\ \A l \in task[r].found : l \in burned /\ entry[l] # "live"

(***************************************************************************)
(* Any class but unknown says that nothing happened, and nothing will: the *)
(* call was never made, or Meta refused it, or Meta itself disowned what   *)
(* it had done.  A call still on its way is never given a class.           *)
(***************************************************************************)
DoubtIsOwnedUp ==
  \A r \in Requests :
    task[r].told \in {"retryable", "permanent", "config", "ja_nao_existia"} =>
      call[r] \in {"none", "refused"} \/ r \in disowned

(***************************************************************************)
(* Every request is answered: rereading in doubt has an end, whatever the  *)
(* catalogue goes on showing.                                              *)
(***************************************************************************)
TemplateIsAnswered ==
  \A r \in Requests : task[r].pc \in {"preread", "calling"} ~> task[r].pc \in {"answered", "cut"}
=============================================================================
