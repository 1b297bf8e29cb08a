---------------------------- MODULE MetaRoutes ----------------------------
(***************************************************************************)
(* The routes that pass one request on to Meta and keep nothing but two    *)
(* counters: reads, block list, profile, templates listing, media,         *)
(* uploads, health (internal/outbound/*_handler.go and their halves in     *)
(* internal/meta).                                                         *)
(*                                                                         *)
(* They are one handler with different parameters: guards, the calls of    *)
(* the route one after the other, the answer.  What differs is which       *)
(* failures a call knows, what the consumer is told of each, and that two  *)
(* calls pass the consumer's body on while it arrives and one route passes *)
(* Meta's.                                                                 *)
(***************************************************************************)
EXTENDS MetaErrors, Sequences, FiniteSets

CONSTANTS
  Requests,   \* requests, each served once by its own goroutine
  Wanted,     \* what they may ask for: functions to Routes
  Refusals,   \* answers of Meta that refuse: pairs <<status, code>>
  Cap,        \* CategoryCap of the one category of mime
  MaxSize     \* bound: the largest file anybody sends or fetches

ASSUME RoutesAssumption ==
  /\ Cap \in Nat /\ MaxSize \in Nat
  /\ \A a \in Refusals : a[1] \in Nat /\ a[2] \in Nat /\ a[1] \notin 200..299

---------------------------------------------------------------------------
(* What the consumer is told of a call that was not made because an        *)
(* identifier has the wrong shape, of one that had no answer, and of a 2xx *)
(* that says nothing the gateway understands.                              *)

respondReadError == [unsent |-> "config", silence |-> "unknown", odd |-> {"unknown"}]
respondBlockError == [unsent |-> "config", silence |-> "unknown", odd |-> {"unknown"}]
respondProfileError == [unsent |-> "config", silence |-> "retryable", odd |-> {"retryable"}]
respondCatalogError ==
  [unsent |-> "config", silence |-> "retryable", odd |-> {"retryable", "config"}]
respondMediaError == [unsent |-> "permanent", silence |-> "unknown", odd |-> {"unknown"}]
respondUploadStepError == [unsent |-> "unknown", silence |-> "unknown", odd |-> {"unknown"}]
respondUnhealthy == [unsent |-> "config", silence |-> "unknown", odd |-> {"unknown"}]

(* A method of meta.Client: who words its failures, and whether it checks  *)
(* the shape of an identifier before it leaves, has to understand the body *)
(* of a 2xx, changes something at Meta, streams the consumer's body.       *)
Call(name, tells, traits) == [name |-> name, tells |-> tells, traits |-> traits]

MarkAsRead     == Call("MarkAsRead", respondReadError, {"checks", "changes"})
callBlockUsers == Call("callBlockUsers", respondBlockError, {"checks", "parses", "changes"})
ListBlocks     == Call("ListBlocks", respondBlockError, {"checks", "parses"})
ReadProfile    == Call("ReadProfile", respondProfileError, {"checks", "parses"})
WriteProfile   == Call("WriteProfile", respondProfileError, {"checks", "changes"})
ListTemplates  == Call("ListTemplates", respondCatalogError, {"checks", "parses"})
UploadMedia    == Call("UploadMedia", respondMediaError, {"checks", "parses", "changes", "streams"})

(* A description without a usable address is one that says nothing. *)
DescribeMedia == Call("DescribeMedia", respondMediaError, {"checks", "parses"})
OpenMedia     == Call("OpenMedia", respondMediaError, {})

AppID == Call("AppID", respondUploadStepError, {"parses"})
CreateUploadSession ==
  Call("CreateUploadSession", respondUploadStepError, {"checks", "parses", "changes"})
CompleteUpload ==
  Call("CompleteUpload", respondUploadStepError, {"checks", "parses", "changes", "streams"})

CheckCredential    == Call("CheckCredential", respondUnhealthy, {"checks"})
ObservePhoneHealth == Call("ObservePhoneHealth", respondUnhealthy, {"checks", "parses"})
ObserveWABAHealth  == Call("ObserveWABAHealth", respondUnhealthy, {"checks", "parses"})
ObserveWABAFunding == Call("ObserveWABAFunding", respondUnhealthy, {"checks"})

(* The calls of each handler, in its order. *)
mark           == <<MarkAsRead>>
process        == <<callBlockUsers>>
listBlocks     == <<ListBlocks>>
readProfile    == <<ReadProfile>>
writeProfile   == <<WriteProfile>>
listTemplates  == <<ListTemplates>>
upload         == <<UploadMedia>>
download       == <<DescribeMedia, OpenMedia>>
uploads        == <<AppID, CreateUploadSession, CompleteUpload>>
health         == <<CheckCredential>>
accountHealth  == <<ObservePhoneHealth, ObserveWABAHealth, ObserveWABAFunding>>

Routes == {mark, process, listBlocks, readProfile, writeProfile, listTemplates,
           upload, download, uploads, health, accountHealth}

ASSUME WantedAssumption == Wanted \subseteq [Requests -> Routes]

(* These two answer for an instance of another type: "not applicable". *)
Probes == {health, accountHealth}

---------------------------------------------------------------------------
VARIABLES
  task,       \* what each handler is doing
  wire,       \* its current call, at Meta
  disowned,   \* history: requests whose last call Meta did, and answered with a 5xx
  leituras_marcadas, falhas_de_leitura,  \* the counters
  unwritten   \* history: reads whose counter could not be written, only logged

vars == <<task, wire, disowned, leituras_marcadas, falhas_de_leitura, unwritten>>
counters == <<leituras_marcadas, falhas_de_leitura, unwritten>>

Told == ErrorClass \cup {"ok", "nothing"}

(* The file is the body a request streams to Meta, or Meta's to it. *)
File == [size : 0..MaxSize, passed : 0..MaxSize,
         end : {"open", "complete", "broken"}]

Task == [pc : {"idle", "calling", "copying", "counting", "answered", "cut"},
         route : Routes, at : 1..3, told : Told,
         step : {"none", "app_id", "session", "upload"},   \* the label of an error
         file : File]

TypeOK ==
  /\ task \in [Requests -> Task]
  /\ wire \in [Requests -> {"none", "sent", "done", "refused"}]
  /\ disowned \subseteq Requests
  /\ leituras_marcadas \in Nat /\ falhas_de_leitura \in Nat
  /\ unwritten \subseteq Requests

HasFile == {upload, uploads, download}

Init ==
  /\ \E w \in Wanted, size \in [Requests -> 0..MaxSize] :
       /\ \A r \in Requests : w[r] \notin HasFile => size[r] = 0
       /\ task = [r \in Requests |->
                    [pc |-> "idle", route |-> w[r], at |-> 1, told |-> "nothing", step |-> "none",
                     file |-> [size |-> size[r], passed |-> 0, end |-> "open"]]]
  /\ wire = [r \in Requests |-> "none"] /\ disowned = {}
  /\ leituras_marcadas = 0 /\ falhas_de_leitura = 0 /\ unwritten = {}

At(r, pc) == task[r].pc = pc
Current(r) == task[r].route[task[r].at]
Is(r, trait) == trait \in Current(r).traits

(* The mark of a read is counted after the answer. *)
Respond(r, told, step) ==
  task' = [task EXCEPT ![r].told = told, ![r].step = step,
                       ![r].pc = IF task[r].route = mark THEN "counting" ELSE "answered"]

---------------------------------------------------------------------------
(* The guards: nothing has left for Meta.                                  *)

(* Token and link (config, retryable if the store fails), body or query    *)
(* (permanent, retryable if it was not read to its end), instance (config) *)
(* paused or unreadable (retryable), of another type (config).  A probe    *)
(* has neither body nor query.                                             *)
Refuse(r) ==
  /\ At(r, "idle")
  /\ \E c \in {"config", "retryable", "permanent"} :
       /\ c = "permanent" => task[r].route \notin Probes
       /\ task' = [task EXCEPT ![r].pc = "answered", ![r].told = c]
  /\ UNCHANGED <<wire, disowned, counters>>

NotApplicable(r) ==
  /\ At(r, "idle") /\ task[r].route \in Probes
  /\ Respond(r, "ok", "none")
  /\ UNCHANGED <<wire, disowned, counters>>

(* uploads needs the length in advance; a multipart body may come without  *)
(* one, and then only counting the bytes can find that it is too long.     *)
LengthFits(r) == task[r].route = uploads => task[r].file.size <= Cap

Admit(r) ==
  /\ At(r, "idle") /\ LengthFits(r)
  /\ task' = [task EXCEPT ![r].pc = "calling"]
  /\ UNCHANGED <<wire, disowned, counters>>

---------------------------------------------------------------------------
(* A call and its failures.                                                *)

Send(r) ==
  /\ At(r, "calling") /\ wire[r] = "none"
  /\ wire' = [wire EXCEPT ![r] = "sent"]
  /\ UNCHANGED <<task, disowned, counters>>

(* Once its first call was answered the account's health is told, with the *)
(* queries that failed named in it.                                        *)
IsOptional(r) == task[r].route = accountHealth /\ task[r].at > 1

(* The next call, the bytes of the media, or the answer. *)
Proceed(r) ==
  \/ /\ task[r].at < Len(task[r].route)
     /\ task' = [task EXCEPT ![r].at = @ + 1]
     /\ wire' = [wire EXCEPT ![r] = "none"]
  \/ /\ task[r].at = Len(task[r].route) /\ task[r].route # download
     /\ Respond(r, "ok", "none")
     /\ UNCHANGED wire
  \/ /\ task[r].at = Len(task[r].route) /\ task[r].route = download
     /\ task' = [task EXCEPT ![r].pc = "copying", ![r].told = "ok"]
     /\ UNCHANGED wire

(* Mutant: the label of the call that found the error. *)
StepLabel_OfTheCall(call, left) ==
  CASE call = AppID               -> "app_id"
    [] call = CreateUploadSession -> "session"
    [] call = CompleteUpload      -> "upload"
    [] OTHER                      -> "none"

(* A session id of an unexpected shape is the fault of the call before. *)
StepLabel(call, left) ==
  CASE call = AppID                        -> "app_id"
    [] call = CreateUploadSession          -> "session"
    [] call = CompleteUpload /\ left       -> "upload"
    [] call = CompleteUpload /\ ~left      -> "session"
    [] OTHER                               -> "none"

(* Whatever the call says: the capped reader ran over, and that is it. *)
Overflowed(r) == Current(r) = UploadMedia /\ task[r].file.passed > Cap

Fail(r, class) ==
  IF IsOptional(r) THEN Proceed(r)
  ELSE /\ Respond(r, IF Overflowed(r) THEN "permanent" ELSE class,
                  StepLabel(Current(r), wire[r] # "none"))
       /\ UNCHANGED wire

Unsent(r) ==
  /\ At(r, "calling") /\ wire[r] = "none" /\ Is(r, "checks")
  /\ Fail(r, Current(r).tells.unsent)
  /\ UNCHANGED <<disowned, counters>>

HearSuccess(r) ==
  /\ At(r, "calling") /\ wire[r] = "done"
  /\ Proceed(r)
  /\ UNCHANGED <<disowned, counters>>

(* A 2xx that says nothing: where no body is needed there is none to lose. *)
HearOdd(r) ==
  /\ At(r, "calling") /\ wire[r] = "done" /\ Is(r, "parses")
  /\ \E c \in Current(r).tells.odd : Fail(r, c)
  /\ UNCHANGED <<disowned, counters>>

HearError(r) ==
  /\ At(r, "calling")
  /\ \E a \in Refusals :
       /\ \/ wire[r] = "refused" /\ UNCHANGED disowned
          \/ wire[r] = "done" /\ a[1] \in ServerError /\ disowned' = disowned \cup {r}
       /\ Fail(r, ClassifyResponse(a[1], a[2]))
  /\ UNCHANGED counters

(* Mutant: nobody knows, so it can be repeated, on every route. *)
SilenceClass_Retryable(call) == "retryable"

SilenceClass(call) == call.tells.silence

(* Mutant: no deadline of its own; only a broken connection ends it. *)
Silence_NoDeadline(r) ==
  /\ At(r, "calling") /\ wire[r] # "none" /\ task[r].file.end = "broken"
  /\ Fail(r, SilenceClass(Current(r)))
  /\ UNCHANGED <<disowned, counters>>

(* The deadline, a broken connection, a body that stopped; on the routes   *)
(* that only read, and the profile's, also a consumer that hung up.        *)
Silence(r) ==
  /\ At(r, "calling") /\ wire[r] # "none"
  /\ Fail(r, SilenceClass(Current(r)))
  /\ UNCHANGED <<disowned, counters>>

---------------------------------------------------------------------------
(* The consumer's body, passed on to Meta as it arrives.                   *)

(* Mutant: io.LimitReader, whose end looks like the end of the file. *)
cappedReader_Limit(f) ==
  IF f.passed = Cap THEN [f EXCEPT !.end = "complete"] ELSE [f EXCEPT !.passed = @ + 1]

(* The byte above the cap leaves and the body is never closed: Meta has an *)
(* upload without an end.                                                  *)
cappedReader(f) ==
  [f EXCEPT !.passed = @ + 1, !.end = IF f.passed = Cap THEN "broken" ELSE @]

(* A body with its length declared: net/http sends no more than that. *)
declaredBody(f) == [f EXCEPT !.passed = @ + 1]

Streaming(r) ==
  /\ At(r, "calling") /\ wire[r] = "sent" /\ Is(r, "streams")
  /\ task[r].file.end = "open"

PassOn(r) ==
  /\ Streaming(r) /\ task[r].file.passed < task[r].file.size
  /\ task' = [task EXCEPT ![r].file =
                IF Current(r) = UploadMedia THEN cappedReader(@) ELSE declaredBody(@)]
  /\ UNCHANGED <<wire, disowned, counters>>

EndBody(r) ==
  /\ Streaming(r) /\ task[r].file.passed = task[r].file.size
  /\ task' = [task EXCEPT ![r].file.end = "complete"]
  /\ UNCHANGED <<wire, disowned, counters>>

BreakBody(r) ==
  /\ Streaming(r)
  /\ task' = [task EXCEPT ![r].file.end = "broken"]
  /\ UNCHANGED <<wire, disowned, counters>>

---------------------------------------------------------------------------
(* Meta: decides on its own, also when nobody waits any more.              *)

MayBeDone(r) ==
  wire[r] = "sent" /\ (Is(r, "streams") => task[r].file.end = "complete")

MetaDoes(r) ==
  /\ MayBeDone(r)
  /\ wire' = [wire EXCEPT ![r] = "done"]
  /\ UNCHANGED <<task, disowned, counters>>

MetaRefuses(r) ==
  /\ wire[r] = "sent"
  /\ wire' = [wire EXCEPT ![r] = "refused"]
  /\ UNCHANGED <<task, disowned, counters>>

---------------------------------------------------------------------------
(* After the answer has begun.                                             *)

Copying(r) == At(r, "copying")

CopyOn(r) ==
  /\ Copying(r) /\ task[r].file.passed < task[r].file.size
  /\ task' = [task EXCEPT ![r].file.passed = @ + 1]
  /\ UNCHANGED <<wire, disowned, counters>>

(* io.Copy returns at the end of the media, or in the middle of it: an     *)
(* error is logged, and the handler returns just the same.                 *)
CopyReturns(r) ==
  /\ Copying(r)
  /\ task' = [task EXCEPT ![r].pc = "answered"]
  /\ UNCHANGED <<wire, disowned, counters>>

Count(r) ==
  /\ At(r, "counting")
  /\ task' = [task EXCEPT ![r].pc = "answered"]
  /\ IF task[r].told = "ok"
     THEN leituras_marcadas' = leituras_marcadas + 1 /\ UNCHANGED falhas_de_leitura
     ELSE falhas_de_leitura' = falhas_de_leitura + 1 /\ UNCHANGED leituras_marcadas
  /\ UNCHANGED <<wire, disowned, unwritten>>

(* Counter.Record: a write that fails is a line in the log and nothing else. *)
CountFails(r) ==
  /\ At(r, "counting")
  /\ task' = [task EXCEPT ![r].pc = "answered"]
  /\ unwritten' = unwritten \cup {r}
  /\ UNCHANGED <<wire, disowned, leituras_marcadas, falhas_de_leitura>>

Crash ==
  /\ task' = [r \in Requests |->
                IF task[r].pc \in {"idle", "answered"} THEN task[r]
                ELSE [task[r] EXCEPT !.pc = "cut"]]
  /\ UNCHANGED <<wire, disowned, counters>>

(* A failure ends the request, but for a query the answer can do without. *)
Fails(r) == Unsent(r) \/ HearOdd(r) \/ HearError(r) \/ Silence(r)

HandlerStep(r) ==
  Send(r) \/ HearSuccess(r) \/ Fails(r) \/ Count(r) \/ CountFails(r)

Next ==
  \/ \E r \in Requests : \/ Refuse(r) \/ NotApplicable(r) \/ Admit(r) \/ HandlerStep(r)
                         \/ PassOn(r) \/ EndBody(r) \/ BreakBody(r)
                         \/ MetaDoes(r) \/ MetaRefuses(r)
                         \/ CopyOn(r) \/ CopyReturns(r)
  \/ Crash

Spec == Init /\ [][Next]_vars

(***************************************************************************)
(* A call has a deadline, but a file the consumer has not sent to its end  *)
(* holds its request all the same: http.Do waits for the body it was given *)
(* (Client.CompleteUpload), part.Close reads the rest of the part before   *)
(* the answer leaves (MediaHandler.upload), and so does net/http.  Nothing *)
(* is assumed of the consumer, who may stall while it sends or receives.   *)
(***************************************************************************)
BodyIsOpen(r) == task[r].route \in {upload, uploads} /\ task[r].file.end = "open"

UnheldStep(r) ==
  Send(r) \/ HearSuccess(r) \/ (~BodyIsOpen(r) /\ Fails(r)) \/ Count(r) \/ CountFails(r)

FairSpec == Spec /\ \A r \in Requests : WF_vars(UnheldStep(r))

---------------------------------------------------------------------------
(***************************************************************************)
(* A class other than unknown is the truth about the call it is told of:   *)
(* Meta did not do it and will not, not even with what was already on its  *)
(* way, unless Meta itself disowned it.  This is what statusForClass and   *)
(* the respond...Error functions promise.  Only the profile's write calls  *)
(* silence retryable: the same fields written twice are written once.  (By *)
(* docs/CONTRATO-CONSUMIDOR.md:4898 it would be unknown there too.)        *)
(***************************************************************************)
NothingHappenedIsTrue ==
  \A r \in Requests :
    /\ task[r].told \in {"permanent", "config", "retryable"}
    /\ task[r].route # writeProfile /\ Is(r, "changes")
    => ~MayBeDone(r) /\ (wire[r] = "done" => r \in disowned)

(***************************************************************************)
(* What Meta has stored as a media or as an upload is a whole file that    *)
(* fits the cap, also when the length was not declared, the file ran over  *)
(* in the middle of the stream, or the consumer broke off.                 *)
(***************************************************************************)
MediaFitsItsCap ==
  \A r \in Requests :
    wire[r] = "done" /\ Is(r, "streams") =>
      task[r].file.passed = task[r].file.size /\ task[r].file.size <= Cap

(***************************************************************************)
(* What is left behind is told.  The step of an upload's error says how    *)
(* far it came: with app_id no session was asked for, with session no byte *)
(* has left, with upload bytes may have; without a step nothing has left   *)
(* at all.  The counters of reads have one count for each read that was    *)
(* answered to its end, by its outcome, unless the log says that it could  *)
(* not be written; never more marks than Meta made, and a refusal before   *)
(* the call (ReadsHandler.mark) counts as nothing.                         *)
(***************************************************************************)
WhatWasLeftIsTold ==
  LET counted == {r \in Requests \ unwritten :
                    task[r].route = mark /\ At(r, "answered") /\ wire[r] # "none"}
  IN  /\ \A r \in Requests : task[r].route = uploads /\ task[r].told \in ErrorClass =>
           LET left == {i \in 1..task[r].at : i < task[r].at \/ wire[r] # "none"}
           IN  CASE task[r].step = "none"    -> left = {}
                 [] task[r].step = "app_id"  -> left = {1}
                 [] task[r].step = "session" -> left \subseteq {1, 2}
                 [] task[r].step = "upload"  -> left = {1, 2, 3}
      /\ leituras_marcadas = Cardinality({r \in counted : task[r].told = "ok"})
      /\ leituras_marcadas <= Cardinality({r \in Requests : task[r].route = mark /\ wire[r] = "done"})
      /\ falhas_de_leitura >= Cardinality({r \in counted : task[r].told \in ErrorClass})
      /\ falhas_de_leitura <= Cardinality({r \in Requests : task[r].route = mark
                                                          /\ task[r].told \in ErrorClass})

(***************************************************************************)
(* Every request that reached its first call is answered to its end,       *)
(* whatever Meta does: InstanceDeadline and mediaDeadline see to it.  Only *)
(* a consumer that stops in the middle of the file it sends, or of the one *)
(* it receives, keeps its own request open.                                *)
(***************************************************************************)
HeldByConsumer(r) == (At(r, "calling") /\ BodyIsOpen(r)) \/ At(r, "copying")

EveryRequestIsAnswered ==
  \A r \in Requests :
    At(r, "calling") ~> (task[r].pc \in {"answered", "cut"} \/ [](HeldByConsumer(r)))

(***************************************************************************)
(* A consumer that reads a media to the proper end of the response has all *)
(* of it: docs/CONTRATO-CONSUMIDOR.md promises that a correct HTTP client  *)
(* reports an incomplete read when the bytes break off.                    *)
(***************************************************************************)
PartialDownloadIsNoticed ==
  \A r \in Requests :
    task[r].route = download /\ task[r].told = "ok" /\ At(r, "answered") =>
      task[r].file.passed = task[r].file.size
=============================================================================
