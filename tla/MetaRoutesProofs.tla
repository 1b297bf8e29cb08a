-------------------------- MODULE MetaRoutesProofs --------------------------
(***************************************************************************)
(* What MetaRoutes promises, for any number of requests, any files and any *)
(* cap: a class is the truth about the call, Meta stores whole files that  *)
(* fit, and what was left behind is told and counted.  The requests do not *)
(* disturb one another, so the invariant is about one request at a time,   *)
(* but for the counters', which are sizes of sets of requests.             *)
(***************************************************************************)
EXTENDS MetaRoutes, FiniteSetTheorems, TLAPS

---------------------------------------------------------------------------
(* What the table of routes is used for.                                   *)

LEMMA RouteLength ==
  ASSUME NEW route \in Routes
  PROVE  Len(route) \in 1..3 /\ 1 \in 1..Len(route)
  BY DEF Routes, mark, process, listBlocks, readProfile, writeProfile, listTemplates,
         upload, download, uploads, health, accountHealth

(* A stream is the last call of its route, and there are two. *)
LEMMA Streams ==
  ASSUME NEW route \in Routes, NEW i \in 1..Len(route), "streams" \in route[i].traits
  PROVE  i = Len(route) /\ route \in {upload, uploads}
<1>1. CASE route = mark
  BY <1>1 DEF mark, MarkAsRead, Call
<1>2. CASE route = process
  BY <1>2 DEF process, callBlockUsers, Call
<1>3. CASE route = listBlocks
  BY <1>3 DEF listBlocks, ListBlocks, Call
<1>4. CASE route = readProfile
  BY <1>4 DEF readProfile, ReadProfile, Call
<1>5. CASE route = writeProfile
  BY <1>5 DEF writeProfile, WriteProfile, Call
<1>6. CASE route = listTemplates
  BY <1>6 DEF listTemplates, ListTemplates, Call
<1>7. CASE route = upload
  BY <1>7 DEF upload, UploadMedia, Call
<1>8. CASE route = download
  BY <1>8 DEF download, DescribeMedia, OpenMedia, Call
<1>9. CASE route = uploads
  BY <1>9 DEF uploads, AppID, CreateUploadSession, CompleteUpload, Call
<1>10. CASE route = health
  BY <1>10 DEF health, CheckCredential, Call
<1>11. CASE route = accountHealth
  BY <1>11 DEF accountHealth, ObservePhoneHealth, ObserveWABAHealth,
     ObserveWABAFunding, Call
<1> QED
  BY <1>1, <1>2, <1>3, <1>4, <1>5, <1>6, <1>7, <1>8, <1>9, <1>10, <1>11 DEF Routes

(* A change that had no answer is unknown, but for the profile's. *)
LEMMA Changes ==
  ASSUME NEW route \in Routes \ {writeProfile}, NEW i \in 1..Len(route),
         "changes" \in route[i].traits
  PROVE  route[i].tells.silence = "unknown" /\ route[i].tells.odd = {"unknown"}
<1>1. CASE route = mark
  BY <1>1 DEF mark, MarkAsRead, Call, respondReadError
<1>2. CASE route = process
  BY <1>2 DEF process, callBlockUsers, Call, respondBlockError
<1>3. CASE route = listBlocks
  BY <1>3 DEF listBlocks, ListBlocks, Call, respondBlockError
<1>4. CASE route = readProfile
  BY <1>4 DEF readProfile, ReadProfile, Call, respondProfileError
<1>5. CASE route = listTemplates
  BY <1>5 DEF listTemplates, ListTemplates, Call, respondCatalogError
<1>6. CASE route = upload
  BY <1>6 DEF upload, UploadMedia, Call, respondMediaError
<1>7. CASE route = download
  BY <1>7 DEF download, DescribeMedia, OpenMedia, Call, respondMediaError
<1>8. CASE route = uploads
  BY <1>8 DEF uploads, AppID, CreateUploadSession, CompleteUpload, Call,
     respondUploadStepError
<1>9. CASE route = health
  BY <1>9 DEF health, CheckCredential, Call, respondUnhealthy
<1>10. CASE route = accountHealth
  BY <1>10 DEF accountHealth, ObservePhoneHealth, ObserveWABAHealth,
     ObserveWABAFunding, Call, respondUnhealthy
<1> QED
  BY <1>1, <1>2, <1>3, <1>4, <1>5, <1>6, <1>7, <1>8, <1>9, <1>10 DEF Routes

(* The capped reader is on the one route that may not know the length. *)
LEMMA CappedRoute ==
  ASSUME NEW route \in Routes, NEW i \in 1..Len(route)
  PROVE  /\ route[i] = UploadMedia => route = upload
         /\ route = upload => route[i] = UploadMedia
<1>1. route[i].name = "UploadMedia" => route = upload
  BY DEF Routes, mark, process, listBlocks, readProfile, writeProfile, listTemplates,
         upload, download, uploads, health, accountHealth, Call,
         MarkAsRead, callBlockUsers, ListBlocks, ReadProfile, WriteProfile, ListTemplates,
         DescribeMedia, OpenMedia, AppID, CreateUploadSession, CompleteUpload,
         CheckCredential, ObservePhoneHealth, ObserveWABAHealth, ObserveWABAFunding
<1>2. UploadMedia.name = "UploadMedia"
  BY DEF UploadMedia, Call
<1>3. route = upload => route[i] = UploadMedia
  BY DEF upload
<1> QED
  BY <1>1, <1>2, <1>3

(* The media is copied after a call that streams nothing of the consumer. *)
LEMMA DownloadEndsInOpen ==
  Len(download) = 2 /\ download[2].traits = {}
  BY DEF download, DescribeMedia, OpenMedia, Call

(* What a call tells is a class. *)
LEMMA TellsClasses ==
  ASSUME NEW route \in Routes, NEW i \in 1..Len(route)
  PROVE  /\ route[i].tells.unsent \in ErrorClass
         /\ route[i].tells.silence \in ErrorClass
         /\ route[i].tells.odd \subseteq ErrorClass
  BY DEF Routes, mark, process, listBlocks, readProfile, writeProfile, listTemplates,
     upload, download, uploads, health, accountHealth, Call, MarkAsRead,
     callBlockUsers, ListBlocks, ReadProfile, WriteProfile, ListTemplates, UploadMedia,
     DescribeMedia, OpenMedia, AppID, CreateUploadSession, CompleteUpload,
     CheckCredential, ObservePhoneHealth, ObserveWABAHealth, ObserveWABAFunding,
     respondReadError, respondBlockError, respondProfileError, respondCatalogError,
     respondMediaError, respondUploadStepError, respondUnhealthy, ErrorClass

LEMMA AnswersAreClasses ==
  ASSUME NEW status, NEW code
  PROVE  ClassifyResponse(status, code) \in ErrorClass
  BY DEF ClassifyResponse, classOfStatus, ErrorClass

---------------------------------------------------------------------------
(* The invariant, for one request.                                         *)

(* An answer is given once, and a copy begins after the last call. *)
InOrder(r) ==
  /\ task[r].at \in 1..Len(task[r].route)
  /\ task[r].told # "nothing" => task[r].pc \notin {"idle", "calling"}
  /\ At(r, "idle") => wire[r] = "none"
  /\ At(r, "copying") => task[r].route = download /\ task[r].at = 2

(* The file, and what of it has left: an end is the end of a whole file.   *)
FileFits(r) ==
  LET f == task[r].file
  IN  /\ f.passed <= f.size
      /\ task[r].route = uploads /\ At(r, "calling") => f.size <= Cap
      /\ task[r].route = upload /\ f.end # "broken" => f.passed <= Cap
      /\ f.end # "open" => Is(r, "streams")
      /\ f.end = "complete" => f.passed = f.size /\ f.size <= Cap

(* Meta stores what came to its end. *)
StoredIsComplete(r) ==
  wire[r] = "done" /\ Is(r, "streams") => task[r].file.end = "complete"

ToldIsTrue(r) ==
  /\ task[r].told \in {"permanent", "config", "retryable"}
  /\ task[r].route # writeProfile /\ Is(r, "changes")
  => ~MayBeDone(r) /\ (wire[r] = "done" => r \in disowned)

Good(r) == InOrder(r) /\ FileFits(r) /\ StoredIsComplete(r) /\ ToldIsTrue(r)

IInv == TypeOK /\ \A r \in Requests : Good(r)

---------------------------------------------------------------------------
(* What one request does changes nothing for the others. *)
LEMMA Local ==
  ASSUME IInv, NEW r \in Requests, TypeOK', Good(r)',
         \A s \in Requests \ {r} : task'[s] = task[s] /\ wire'[s] = wire[s],
         disowned \subseteq disowned'
  PROVE  IInv'
<1>1. ASSUME NEW s \in Requests, s # r
      PROVE  Good(s)'
  <2>1. task'[s] = task[s] /\ wire'[s] = wire[s] /\ (s \in disowned => s \in disowned')
    BY <1>1
  <2>2. Good(s)
    BY DEF IInv
  <2>3. InOrder(s)' /\ FileFits(s)' /\ StoredIsComplete(s)'
    BY <2>1, <2>2 DEF Good, InOrder, FileFits, StoredIsComplete, At, Is, Current
  <2>4. ToldIsTrue(s)'
    BY <2>1, <2>2 DEF Good, ToldIsTrue, Is, Current, MayBeDone
  <2> QED
    BY <2>3, <2>4 DEF Good
<1> QED
  BY <1>1 DEF IInv

LEMMA InitIInv == Init => IInv
<1> SUFFICES ASSUME Init PROVE IInv
  OBVIOUS
<1>1. PICK w \in Wanted, size \in [Requests -> 0..MaxSize] :
        task = [r \in Requests |->
                  [pc |-> "idle", route |-> w[r], at |-> 1, told |-> "nothing", step |-> "none",
                   file |-> [size |-> size[r], passed |-> 0, end |-> "open"]]]
  BY DEF Init
<1>2. ASSUME NEW r \in Requests
      PROVE  /\ task[r] \in Task
             /\ task[r].pc = "idle" /\ task[r].told = "nothing" /\ task[r].at = 1
             /\ task[r].file.passed = 0 /\ task[r].file.end = "open"
  <2>1. w[r] \in Routes
    BY WantedAssumption
  <2>2. [size |-> size[r], passed |-> 0, end |-> "open"] \in File
    BY RoutesAssumption DEF File
  <2> QED
    BY <1>1, <2>1, <2>2 DEF Task, Told
<1>3. TypeOK
  BY <1>1, <1>2 DEF Init, TypeOK
<1>4. ASSUME NEW r \in Requests
      PROVE  Good(r)
  <2>1. task[r].route \in Routes /\ task[r].file.size \in Nat /\ wire[r] = "none"
    BY <1>2 DEF Init, Task, File
  <2>2. 1 \in 1..Len(task[r].route)
    BY <2>1, RouteLength
  <2>3. InOrder(r)
    <3>1. task[r].pc = "idle" /\ task[r].told = "nothing" /\ task[r].at = 1
      BY <1>2
    <3> QED
      BY <2>1, <2>2, <3>1 DEF InOrder, At
  <2>4. FileFits(r)
    BY <1>2, <2>1, RoutesAssumption DEF FileFits, At
  <2> QED
    BY <1>2, <2>1, <2>3, <2>4 DEF Good, StoredIsComplete, ToldIsTrue
<1> QED
  BY <1>3, <1>4 DEF IInv

---------------------------------------------------------------------------
(* The kinds of steps a request takes.                                     *)

(* The end of a handler, whatever ends it. *)
LEMMA Ends ==
  ASSUME NEW r \in Requests, task[r] \in Task, Good(r), NEW pc \in {"answered", "cut"},
         task'[r] = [task[r] EXCEPT !.pc = pc], wire'[r] = wire[r], disowned' = disowned
  PROVE  task'[r] \in Task /\ Good(r)'
<1>1. /\ task'[r] \in Task /\ task'[r].pc = pc
      /\ task'[r].route = task[r].route /\ task'[r].at = task[r].at
      /\ task'[r].told = task[r].told /\ task'[r].file = task[r].file
  BY DEF Task
<1>2. InOrder(r)' /\ FileFits(r)' /\ StoredIsComplete(r)'
  BY <1>1 DEF Good, InOrder, FileFits, StoredIsComplete, At, Is, Current
<1>3. ToldIsTrue(r)'
  BY <1>1 DEF Good, ToldIsTrue, Is, Current, MayBeDone
<1> QED
  BY <1>1, <1>2, <1>3 DEF Good

(* What an answer leaves as it was. *)
Answered(r, told) ==
  /\ task' \in [Requests -> Task]
  /\ \A s \in Requests \ {r} : task'[s] = task[s]
  /\ task'[r].pc \in {"answered", "counting"} /\ task'[r].told = told
  /\ task'[r].route = task[r].route /\ task'[r].at = task[r].at /\ task'[r].file = task[r].file

LEMMA Responding ==
  ASSUME IInv, NEW r \in Requests, NEW told \in Told,
         NEW step \in {"none", "app_id", "session", "upload"}, Respond(r, told, step)
  PROVE  Answered(r, told)
<1>1. PICK pc \in {"answered", "counting"} :
        task' = [task EXCEPT ![r].told = told, ![r].step = step, ![r].pc = pc]
  BY DEF Respond
<1>2. task \in [Requests -> Task]
  BY DEF IInv, TypeOK
<1>3. [task[r] EXCEPT !.told = told, !.step = step, !.pc = pc] \in Task
  BY <1>2 DEF Task
<1>4. task' \in [Requests -> Task]
  BY <1>1, <1>2, <1>3
<1> QED
  BY <1>1, <1>2, <1>4 DEF Answered, Task

(* The answer, once it is known to be the truth. *)
LEMMA Answer ==
  ASSUME IInv, NEW r \in Requests, task[r].pc \in {"idle", "calling"},
         NEW told \in ErrorClass \cup {"ok"}, Answered(r, told),
         UNCHANGED <<wire, counters>>,
         disowned \subseteq disowned', disowned' \subseteq Requests,
         /\ told \in {"permanent", "config", "retryable"}
         /\ task[r].route # writeProfile /\ Is(r, "changes")
         => ~MayBeDone(r) /\ (wire[r] = "done" => r \in disowned')
  PROVE  IInv'
<1>1. Good(r)
  BY DEF IInv
<1>2. TypeOK'
  BY DEF Answered, IInv, TypeOK, counters
<1>3. InOrder(r)' /\ FileFits(r)' /\ StoredIsComplete(r)'
  BY <1>1 DEF Answered, Good, InOrder, FileFits, StoredIsComplete, At, Is, Current
<1>4. ToldIsTrue(r)'
  BY DEF Answered, ToldIsTrue, Is, Current, MayBeDone
<1>5. \A s \in Requests \ {r} : task'[s] = task[s] /\ wire'[s] = wire[s]
  BY DEF Answered
<1> QED
  BY <1>2, <1>3, <1>4, <1>5, Local DEF Good

(* A file that moves, before the answer or after it. *)
LEMMA FileMoves ==
  ASSUME IInv, NEW r \in Requests, NEW f \in File,
         task' = [task EXCEPT ![r].file = f], UNCHANGED <<wire, disowned, counters>>,
         (At(r, "calling") /\ wire[r] = "sent") \/ At(r, "copying"),
         FileFits(r)'
  PROVE  IInv'
<1>1. task[r] \in Task /\ Good(r)
  BY DEF IInv, TypeOK
<1>2. /\ task'[r] \in Task /\ task'[r].pc = task[r].pc
      /\ task'[r].route = task[r].route /\ task'[r].at = task[r].at
      /\ task'[r].told = task[r].told /\ task'[r].file = f
      /\ wire' = wire
  BY <1>1 DEF IInv, TypeOK, Task
<1>3. TypeOK'
  BY <1>2 DEF IInv, TypeOK, counters
<1>4. InOrder(r)'
  BY <1>1, <1>2 DEF Good, InOrder, At
<1>5. At(r, "copying") => ~Is(r, "streams") /\ ~Is(r, "changes")
  BY <1>1, DownloadEndsInOpen DEF Good, InOrder, Is, Current
<1>6. StoredIsComplete(r)'
  BY <1>2, <1>5 DEF StoredIsComplete, Is, Current
<1>7. At(r, "calling") => task[r].told = "nothing"
  BY <1>1 DEF Good, InOrder, At
<1>8. ToldIsTrue(r)'
  BY <1>2, <1>5, <1>7 DEF ToldIsTrue, Is, Current
<1>9. \A s \in Requests \ {r} : task'[s] = task[s] /\ wire'[s] = wire[s]
  BY <1>2 DEF IInv, TypeOK
<1> QED
  BY <1>3, <1>4, <1>6, <1>8, <1>9, Local DEF Good

(* A call at Meta that moves while the task stands. *)
LEMMA WireMoves ==
  ASSUME IInv, NEW r \in Requests, NEW w \in {"sent", "done", "refused"},
         wire' = [wire EXCEPT ![r] = w], UNCHANGED <<task, disowned, counters>>,
         ~At(r, "idle"), w = "sent" => At(r, "calling"), w = "done" => MayBeDone(r)
  PROVE  IInv'
<1>1. task[r] \in Task /\ Good(r) /\ wire'[r] = w
  BY DEF IInv, TypeOK
<1>2. TypeOK'
  BY DEF IInv, TypeOK, counters
<1>3. InOrder(r)' /\ FileFits(r)'
  BY <1>1 DEF Good, InOrder, FileFits, At, Is, Current
<1>4. StoredIsComplete(r)'
  BY <1>1 DEF StoredIsComplete, MayBeDone, Is, Current
<1>5. w = "sent" => task[r].told = "nothing"
  BY <1>1 DEF Good, InOrder, At
<1>6. ToldIsTrue(r)'
  BY <1>1, <1>5 DEF Good, ToldIsTrue, MayBeDone, Is, Current
<1>7. \A s \in Requests \ {r} : task'[s] = task[s] /\ wire'[s] = wire[s]
  BY DEF IInv, TypeOK
<1> QED
  BY <1>2, <1>3, <1>4, <1>6, <1>7, Local DEF Good

LEMMA OneMore ==
  ASSUME NEW i \in 1..3, NEW n \in 1..3, i < n
  PROVE  i + 1 \in 1..3 /\ i + 1 \in 1..n
  OBVIOUS

(* A call that is over, and the next one or the answer. *)
LEMMA Onward ==
  ASSUME IInv, NEW r \in Requests, At(r, "calling"), Proceed(r),
         UNCHANGED counters, disowned \subseteq disowned', disowned' \subseteq Requests
  PROVE  IInv'
<1>1. task[r] \in Task /\ Good(r) /\ task[r].told = "nothing"
  BY DEF IInv, TypeOK, Good, InOrder, At
<1>2. CASE /\ task[r].at < Len(task[r].route)
           /\ task' = [task EXCEPT ![r].at = @ + 1]
           /\ wire' = [wire EXCEPT ![r] = "none"]
  <2>1. Len(task[r].route) \in 1..3 /\ task[r].route \in Routes
    BY <1>1, RouteLength DEF Task
  <2>2. task[r].at + 1 \in 1..3 /\ task[r].at + 1 \in 1..Len(task[r].route)
    <3>1. task[r].at \in 1..3 /\ task[r].at < Len(task[r].route)
      BY <1>1, <1>2 DEF Task
    <3> QED
      BY <2>1, <3>1, OneMore
  <2>3. /\ task'[r] \in Task /\ task'[r].at = task[r].at + 1
        /\ task'[r].pc = "calling" /\ task'[r].told = "nothing"
        /\ task'[r].route = task[r].route /\ task'[r].file = task[r].file
        /\ wire'[r] = "none"
    BY <1>1, <1>2, <2>2 DEF IInv, TypeOK, Task, At
  <2>4. TypeOK'
    BY <1>2, <2>3 DEF IInv, TypeOK, counters
  <2>5. InOrder(r)'
    BY <2>2, <2>3 DEF InOrder, At
  <2>6. task[r].file.end = "open"
    <3>1. task[r].at \in 1..Len(task[r].route) /\ task[r].at # Len(task[r].route)
      BY <1>1, <1>2, <2>1 DEF Good, InOrder, Task
    <3>2. ~Is(r, "streams")
      BY <2>1, <3>1, Streams DEF Is, Current
    <3> QED
      BY <1>1, <3>2 DEF Good, FileFits
  <2>7. FileFits(r)'
    BY <1>1, <2>3, <2>6 DEF Good, FileFits, At
  <2>8. StoredIsComplete(r)' /\ ToldIsTrue(r)'
    BY <2>3 DEF StoredIsComplete, ToldIsTrue
  <2>9. \A s \in Requests \ {r} : task'[s] = task[s] /\ wire'[s] = wire[s]
    BY <1>2 DEF IInv, TypeOK
  <2> QED
    BY <2>4, <2>5, <2>7, <2>8, <2>9, Local DEF Good
<1>3. CASE Respond(r, "ok", "none") /\ UNCHANGED wire
  <2>1. Answered(r, "ok")
    BY <1>3, Responding DEF Told
  <2> QED
    BY <1>3, <2>1, Answer DEF At, IInv, TypeOK
<1>4. CASE /\ task[r].at = Len(task[r].route) /\ task[r].route = download
           /\ task' = [task EXCEPT ![r].pc = "copying", ![r].told = "ok"]
           /\ UNCHANGED wire
  <2>1. /\ task'[r] \in Task /\ task'[r].at = 2 /\ task'[r].at = task[r].at
        /\ task'[r].pc = "copying" /\ task'[r].told = "ok"
        /\ task'[r].route = download /\ task'[r].route = task[r].route
        /\ task'[r].file = task[r].file /\ wire' = wire
    BY <1>1, <1>4, DownloadEndsInOpen DEF IInv, TypeOK, Task, Told
  <2>2. TypeOK'
    BY <1>4, <2>1 DEF IInv, TypeOK, counters
  <2>3. InOrder(r)'
    BY <2>1, DownloadEndsInOpen DEF InOrder, At
  <2>4. FileFits(r)' /\ StoredIsComplete(r)' /\ ToldIsTrue(r)'
    BY <1>1, <2>1 DEF Good, FileFits, StoredIsComplete, ToldIsTrue, At, Is, Current
  <2>5. \A s \in Requests \ {r} : task'[s] = task[s] /\ wire'[s] = wire[s]
    BY <1>4 DEF IInv, TypeOK
  <2> QED
    BY <2>2, <2>3, <2>4, <2>5, Local DEF Good
<1> QED
  BY <1>2, <1>3, <1>4 DEF Proceed

(* An upload that ran over is not stored, whatever it is told of. *)
LEMMA OverflowIsNotStored ==
  ASSUME IInv, NEW r \in Requests, Overflowed(r)
  PROVE  ~MayBeDone(r) /\ wire[r] # "done"
<1>1. task[r] \in Task /\ Good(r) /\ task[r].at \in 1..Len(task[r].route)
  BY DEF IInv, TypeOK, Good, InOrder
<1>2. task[r].route = upload /\ Is(r, "streams")
  <2>1. task[r].route = upload
    BY <1>1, CappedRoute DEF Overflowed, Current, Task
  <2>2. "streams" \in UploadMedia.traits
    BY DEF UploadMedia, Call
  <2> QED
    BY <2>1, <2>2 DEF Overflowed, Is
<1>3. task[r].file.passed \in Nat /\ task[r].file.passed > Cap
  BY <1>1 DEF Overflowed, Task, File
<1>4. task[r].file.end = "broken"
  BY <1>1, <1>2, <1>3, RoutesAssumption DEF Good, FileFits
<1> QED
  BY <1>1, <1>2, <1>4 DEF Good, StoredIsComplete, MayBeDone

LEMMA Failing ==
  ASSUME IInv, NEW r \in Requests, At(r, "calling"), NEW class \in ErrorClass, Fail(r, class),
         UNCHANGED counters, disowned \subseteq disowned', disowned' \subseteq Requests,
         /\ class # "unknown"
         /\ task[r].route # writeProfile /\ Is(r, "changes")
         => ~MayBeDone(r) /\ (wire[r] = "done" => r \in disowned')
  PROVE  IInv'
<1>1. CASE IsOptional(r)
  BY <1>1, Onward DEF Fail
<1>2. CASE ~IsOptional(r)
  <2> DEFINE told == IF Overflowed(r) THEN "permanent" ELSE class
  <2> DEFINE step == StepLabel(Current(r), wire[r] # "none")
  <2>1. told \in ErrorClass /\ step \in {"none", "app_id", "session", "upload"}
    BY DEF ErrorClass, StepLabel
  <2>2. Respond(r, told, step) /\ UNCHANGED wire
    BY <1>2 DEF Fail
  <2>3. Answered(r, told)
    BY <2>1, <2>2, Responding DEF Told
  <2>4. /\ told \in {"permanent", "config", "retryable"}
        /\ task[r].route # writeProfile /\ Is(r, "changes")
        => ~MayBeDone(r) /\ (wire[r] = "done" => r \in disowned')
    BY OverflowIsNotStored
  <2> QED
    BY <2>1, <2>2, <2>3, <2>4, Answer DEF At
<1> QED
  BY <1>1, <1>2

---------------------------------------------------------------------------
(* Every action, in the order of MetaRoutes.                               *)

LEMMA RefuseStep ==
  ASSUME IInv, NEW r \in Requests, Refuse(r)
  PROVE  IInv'
<1>1. PICK c \in {"config", "retryable", "permanent"} :
        task' = [task EXCEPT ![r].pc = "answered", ![r].told = c]
  BY DEF Refuse
<1>2. c \in ErrorClass
  BY DEF ErrorClass
<1>3. Answered(r, c)
  <2>1. task[r] \in Task /\ c \in Told /\ task \in [Requests -> Task]
    BY <1>2 DEF IInv, TypeOK, Told
  <2>2. [task[r] EXCEPT !.pc = "answered", !.told = c] \in Task
    BY <2>1 DEF Task
  <2>3. task' \in [Requests -> Task]
    BY <1>1, <2>1, <2>2
  <2> QED
    BY <1>1, <2>1, <2>3 DEF Answered, Task
<1>4. wire[r] = "none" /\ task[r].pc = "idle"
  BY DEF Refuse, At, IInv, Good, InOrder
<1>5. UNCHANGED <<wire, counters>> /\ disowned \subseteq disowned' /\ disowned' \subseteq Requests
  BY DEF Refuse, IInv, TypeOK
<1> QED
  BY <1>2, <1>3, <1>4, <1>5, Answer DEF MayBeDone

LEMMA NotApplicableStep ==
  ASSUME IInv, NEW r \in Requests, NotApplicable(r)
  PROVE  IInv'
<1>1. Answered(r, "ok")
  BY Responding DEF NotApplicable, Told
<1> QED
  BY <1>1, Answer DEF NotApplicable, At, IInv, TypeOK

LEMMA AdmitStep ==
  ASSUME IInv, NEW r \in Requests, Admit(r)
  PROVE  IInv'
<1>1. task[r] \in Task /\ Good(r)
  BY DEF IInv, TypeOK
<1>2. /\ task'[r] \in Task /\ task'[r].pc = "calling"
      /\ task'[r].route = task[r].route /\ task'[r].at = task[r].at
      /\ task'[r].told = task[r].told /\ task'[r].file = task[r].file
      /\ wire' = wire /\ disowned' = disowned
  BY <1>1 DEF Admit, IInv, TypeOK, Task
<1>3. TypeOK'
  BY <1>2 DEF Admit, IInv, TypeOK, counters
<1>4. task[r].told = "nothing" /\ wire[r] = "none"
  BY <1>1 DEF Admit, Good, InOrder, At
<1>5. InOrder(r)'
  BY <1>1, <1>2, <1>4 DEF Good, InOrder, At
<1>6. FileFits(r)'
  BY <1>1, <1>2 DEF Admit, LengthFits, Good, FileFits, At, Is, Current
<1>7. StoredIsComplete(r)' /\ ToldIsTrue(r)'
  BY <1>2, <1>4 DEF StoredIsComplete, ToldIsTrue
<1>8. \A s \in Requests \ {r} : task'[s] = task[s] /\ wire'[s] = wire[s]
  BY <1>2 DEF Admit, IInv, TypeOK
<1> QED
  BY <1>2, <1>3, <1>5, <1>6, <1>7, <1>8, Local DEF Good

LEMMA SendStep ==
  ASSUME IInv, NEW r \in Requests, Send(r)
  PROVE  IInv'
  BY WireMoves DEF Send, At

(* A call that was not made: nothing is at Meta. *)
LEMMA UnsentStep ==
  ASSUME IInv, NEW r \in Requests, Unsent(r)
  PROVE  IInv'
<1>1. task[r].route \in Routes /\ task[r].at \in 1..Len(task[r].route)
  BY DEF IInv, TypeOK, Task, Good, InOrder
<1>2. Current(r).tells.unsent \in ErrorClass
  BY <1>1, TellsClasses DEF Current
<1>3. UNCHANGED counters /\ disowned \subseteq disowned' /\ disowned' \subseteq Requests
  BY DEF Unsent, IInv, TypeOK
<1>4. ~MayBeDone(r) /\ wire[r] # "done"
  BY DEF Unsent, MayBeDone
<1> QED
  BY <1>2, <1>3, <1>4, Failing DEF Unsent

LEMMA HearSuccessStep ==
  ASSUME IInv, NEW r \in Requests, HearSuccess(r)
  PROVE  IInv'
  BY Onward DEF HearSuccess, IInv, TypeOK

(* A body nobody understands, of a call that changes something: unknown.   *)
LEMMA HearOddStep ==
  ASSUME IInv, NEW r \in Requests, HearOdd(r)
  PROVE  IInv'
<1>1. task[r].route \in Routes /\ task[r].at \in 1..Len(task[r].route)
  BY DEF IInv, TypeOK, Task, Good, InOrder
<1>2. PICK c \in Current(r).tells.odd : Fail(r, c)
  BY DEF HearOdd
<1>3. c \in ErrorClass
  BY <1>1, <1>2, TellsClasses DEF Current
<1>4. task[r].route # writeProfile /\ Is(r, "changes") => c = "unknown"
  BY <1>1, <1>2, Changes DEF Current, Is
<1>5. UNCHANGED counters /\ disowned \subseteq disowned' /\ disowned' \subseteq Requests
  BY DEF HearOdd, IInv, TypeOK
<1> QED
  BY <1>2, <1>3, <1>4, <1>5, Failing DEF HearOdd

(* An error is Meta's own word: not done, or disowned. *)
LEMMA HearErrorStep ==
  ASSUME IInv, NEW r \in Requests, HearError(r)
  PROVE  IInv'
<1>1. PICK a \in Refusals :
        /\ \/ wire[r] = "refused" /\ UNCHANGED disowned
           \/ wire[r] = "done" /\ a[1] \in ServerError /\ disowned' = disowned \cup {r}
        /\ Fail(r, ClassifyResponse(a[1], a[2]))
  BY DEF HearError
<1>2. ClassifyResponse(a[1], a[2]) \in ErrorClass
  BY AnswersAreClasses
<1>3. disowned \subseteq disowned' /\ disowned' \subseteq Requests
  BY <1>1 DEF IInv, TypeOK
<1>4. ~MayBeDone(r) /\ (wire[r] = "done" => r \in disowned')
  BY <1>1 DEF MayBeDone
<1> QED
  BY <1>1, <1>2, <1>3, <1>4, Failing DEF HearError

LEMMA SilenceStep ==
  ASSUME IInv, NEW r \in Requests, Silence(r)
  PROVE  IInv'
<1>1. task[r].route \in Routes /\ task[r].at \in 1..Len(task[r].route)
  BY DEF IInv, TypeOK, Task, Good, InOrder
<1>2. SilenceClass(Current(r)) \in ErrorClass
  BY <1>1, TellsClasses DEF Current, SilenceClass
<1>3. task[r].route # writeProfile /\ Is(r, "changes") => SilenceClass(Current(r)) = "unknown"
  BY <1>1, Changes DEF Current, Is, SilenceClass
<1>4. UNCHANGED counters /\ disowned \subseteq disowned' /\ disowned' \subseteq Requests
  BY DEF Silence, IInv, TypeOK
<1> QED
  BY <1>2, <1>3, <1>4, Failing DEF Silence

(* Only the bytes of a file that is not too long can be all of it. *)
LEMMA PassOnStep ==
  ASSUME IInv, NEW r \in Requests, PassOn(r)
  PROVE  IInv'
<1> DEFINE f == task[r].file
<1> DEFINE g == IF Current(r) = UploadMedia THEN cappedReader(f) ELSE declaredBody(f)
<1>1. /\ task[r] \in Task /\ f \in File /\ Good(r)
      /\ task[r].route \in Routes /\ task[r].at \in 1..Len(task[r].route)
  BY DEF IInv, TypeOK, Task, Good, InOrder
<1>2. /\ f.passed \in Nat /\ f.size \in 0..MaxSize /\ f.passed < f.size /\ f.end = "open"
      /\ MaxSize \in Nat /\ Cap \in Nat /\ f.passed + 1 \in 0..MaxSize
  BY <1>1, RoutesAssumption DEF PassOn, Streaming, File
<1>3. /\ g \in File /\ g.size = f.size /\ g.passed = f.passed + 1
      /\ g.end = IF Current(r) = UploadMedia /\ f.passed = Cap THEN "broken" ELSE "open"
  BY <1>1, <1>2 DEF File, cappedReader, declaredBody
<1>4. task' = [task EXCEPT ![r].file = g] /\ task'[r].file = g
  BY <1>1 DEF PassOn, IInv, TypeOK
<1>5. /\ task'[r].pc = task[r].pc /\ task'[r].route = task[r].route /\ task'[r].at = task[r].at
  BY <1>1, <1>4 DEF IInv, TypeOK, Task
<1>6. task[r].route = upload <=> Current(r) = UploadMedia
  BY <1>1, CappedRoute DEF Current
<1>7. FileFits(r)'
  <2>1. g.passed <= g.size
    BY <1>2, <1>3
  <2>2. task[r].route = uploads /\ At(r, "calling") => g.size <= Cap
    BY <1>1, <1>3 DEF Good, FileFits
  <2>3. task[r].route = upload /\ g.end # "broken" => g.passed <= Cap
    BY <1>1, <1>2, <1>3, <1>6 DEF Good, FileFits
  <2>4. Is(r, "streams") /\ g.end # "complete"
    BY <1>3 DEF PassOn, Streaming
  <2> QED
    BY <1>4, <1>5, <2>1, <2>2, <2>3, <2>4 DEF FileFits, At, Is, Current
<1> QED
  BY <1>3, <1>4, <1>7, FileMoves DEF PassOn, Streaming

LEMMA EndBodyStep ==
  ASSUME IInv, NEW r \in Requests, EndBody(r)
  PROVE  IInv'
<1> DEFINE f == task[r].file
<1> DEFINE g == [f EXCEPT !.end = "complete"]
<1>1. /\ task[r] \in Task /\ f \in File /\ Good(r)
      /\ task[r].route \in Routes /\ task[r].at \in 1..Len(task[r].route)
  BY DEF IInv, TypeOK, Task, Good, InOrder
<1>2. f.passed = f.size /\ f.end = "open" /\ At(r, "calling") /\ Is(r, "streams")
  BY DEF EndBody, Streaming
<1>3. g \in File /\ g.size = f.size /\ g.passed = f.passed /\ g.end = "complete"
  BY <1>1 DEF File
<1>4. task' = [task EXCEPT ![r].file = g] /\ task'[r].file = g
  BY <1>1 DEF EndBody, IInv, TypeOK, Task
<1>5. /\ task'[r].pc = task[r].pc /\ task'[r].route = task[r].route /\ task'[r].at = task[r].at
  BY <1>1, <1>4 DEF IInv, TypeOK, Task
<1>6. task[r].route \in {upload, uploads}
  BY <1>1, <1>2, Streams DEF Is, Current
<1>7. FileFits(r)
  BY <1>1 DEF Good
<1>8. f.size <= Cap /\ f.passed <= f.size
  BY <1>2, <1>6, <1>7 DEF FileFits
<1>9. FileFits(r)'
  BY <1>2, <1>3, <1>4, <1>5, <1>8 DEF FileFits, At, Is, Current
<1> QED
  BY <1>3, <1>4, <1>9, FileMoves DEF EndBody, Streaming

LEMMA BreakBodyStep ==
  ASSUME IInv, NEW r \in Requests, BreakBody(r)
  PROVE  IInv'
<1> DEFINE f == task[r].file
<1> DEFINE g == [f EXCEPT !.end = "broken"]
<1>1. task[r] \in Task /\ f \in File /\ Good(r)
  BY DEF IInv, TypeOK, Task
<1>2. g \in File /\ g.size = f.size /\ g.passed = f.passed /\ g.end = "broken"
  BY <1>1 DEF File
<1>3. task' = [task EXCEPT ![r].file = g] /\ task'[r].file = g
  BY <1>1 DEF BreakBody, IInv, TypeOK, Task
<1>4. /\ task'[r].pc = task[r].pc /\ task'[r].route = task[r].route /\ task'[r].at = task[r].at
  BY <1>1, <1>3 DEF IInv, TypeOK, Task
<1>5. FileFits(r)'
  <2>1. FileFits(r) /\ Is(r, "streams")
    BY <1>1 DEF BreakBody, Streaming, Good
  <2> QED
    BY <1>2, <1>3, <1>4, <2>1 DEF FileFits, At, Is, Current
<1> QED
  BY <1>2, <1>3, <1>5, FileMoves DEF BreakBody, Streaming

LEMMA MetaDoesStep ==
  ASSUME IInv, NEW r \in Requests, MetaDoes(r)
  PROVE  IInv'
<1>1. ~At(r, "idle")
  BY DEF MetaDoes, MayBeDone, IInv, Good, InOrder
<1> QED
  BY <1>1, WireMoves DEF MetaDoes

LEMMA MetaRefusesStep ==
  ASSUME IInv, NEW r \in Requests, MetaRefuses(r)
  PROVE  IInv'
<1>1. ~At(r, "idle")
  BY DEF MetaRefuses, IInv, Good, InOrder
<1> QED
  BY <1>1, WireMoves DEF MetaRefuses

LEMMA CopyOnStep ==
  ASSUME IInv, NEW r \in Requests, CopyOn(r)
  PROVE  IInv'
<1> DEFINE f == task[r].file
<1> DEFINE g == [f EXCEPT !.passed = @ + 1]
<1>1. task[r] \in Task /\ f \in File /\ Good(r)
  BY DEF IInv, TypeOK, Task
<1>2. /\ f.passed \in Nat /\ f.size \in 0..MaxSize /\ f.passed < f.size
      /\ MaxSize \in Nat /\ f.passed + 1 \in 0..MaxSize
  BY <1>1, RoutesAssumption DEF CopyOn, File
<1>3. g \in File /\ g.size = f.size /\ g.passed = f.passed + 1 /\ g.end = f.end
  BY <1>1, <1>2 DEF File
<1>4. task' = [task EXCEPT ![r].file = g] /\ task'[r].file = g
  BY <1>1 DEF CopyOn, IInv, TypeOK, Task
<1>5. /\ task'[r].pc = task[r].pc /\ task'[r].route = task[r].route /\ task'[r].at = task[r].at
  BY <1>1, <1>4 DEF IInv, TypeOK, Task
<1>6. task[r].route = download /\ At(r, "copying") /\ ~Is(r, "streams")
  BY <1>1, DownloadEndsInOpen DEF CopyOn, Copying, Good, InOrder, At, Is, Current
<1>7. FileFits(r)'
  <2>1. g.passed <= g.size
    BY <1>2, <1>3
  <2>2. g.end = "open" /\ download # upload
    BY <1>1, <1>3, <1>6 DEF Good, FileFits, download, upload
  <2> QED
    BY <1>4, <1>5, <1>6, <2>1, <2>2 DEF FileFits, At, Is, Current
<1> QED
  BY <1>3, <1>4, <1>6, <1>7, FileMoves DEF CopyOn

(* One handler is at its end, the others go on. *)
LEMMA EndOfOne ==
  ASSUME IInv, NEW r \in Requests, task' = [task EXCEPT ![r].pc = "answered"],
         UNCHANGED <<wire, disowned>>, leituras_marcadas' \in Nat, falhas_de_leitura' \in Nat,
         unwritten' \subseteq Requests
  PROVE  IInv'
<1>1. task[r] \in Task /\ Good(r)
  BY DEF IInv, TypeOK
<1>2. task'[r] = [task[r] EXCEPT !.pc = "answered"]
  BY DEF IInv, TypeOK
<1>3. task'[r] \in Task /\ Good(r)'
  BY <1>1, <1>2, Ends
<1>4. TypeOK'
  BY <1>2, <1>3 DEF IInv, TypeOK
<1>5. \A s \in Requests \ {r} : task'[s] = task[s] /\ wire'[s] = wire[s]
  BY DEF IInv, TypeOK
<1> QED
  BY <1>3, <1>4, <1>5, Local

LEMMA CopyReturnsStep ==
  ASSUME IInv, NEW r \in Requests, CopyReturns(r)
  PROVE  IInv'
<1>1. /\ leituras_marcadas' \in Nat /\ falhas_de_leitura' \in Nat
      /\ unwritten' \subseteq Requests
  BY DEF CopyReturns, counters, IInv, TypeOK
<1> QED
  BY <1>1, EndOfOne DEF CopyReturns

LEMMA CountStep ==
  ASSUME IInv, NEW r \in Requests, Count(r)
  PROVE  IInv'
<1>1. /\ leituras_marcadas' \in Nat /\ falhas_de_leitura' \in Nat
      /\ unwritten' \subseteq Requests
  BY DEF Count, IInv, TypeOK
<1> QED
  BY <1>1, EndOfOne DEF Count

LEMMA CountFailsStep ==
  ASSUME IInv, NEW r \in Requests, CountFails(r)
  PROVE  IInv'
<1>1. /\ leituras_marcadas' \in Nat /\ falhas_de_leitura' \in Nat
      /\ unwritten' \subseteq Requests
  BY DEF CountFails, IInv, TypeOK
<1> QED
  BY <1>1, EndOfOne DEF CountFails

LEMMA CrashStep ==
  ASSUME IInv, Crash
  PROVE  IInv'
<1>1. ASSUME NEW r \in Requests
      PROVE  task'[r] \in Task /\ Good(r)'
  <2>1. task[r] \in Task /\ Good(r) /\ wire'[r] = wire[r] /\ disowned' = disowned
    BY DEF Crash, IInv, TypeOK
  <2>2. CASE task[r].pc \in {"idle", "answered"}
    <3>1. task'[r] = task[r]
      BY <2>2 DEF Crash
    <3>2. InOrder(r)' /\ FileFits(r)' /\ StoredIsComplete(r)'
      BY <2>1, <3>1 DEF Good, InOrder, FileFits, StoredIsComplete, At, Is, Current
    <3>3. ToldIsTrue(r)'
      BY <2>1, <3>1 DEF Good, ToldIsTrue, Is, Current, MayBeDone
    <3> QED
      BY <2>1, <3>1, <3>2, <3>3 DEF Good
  <2>3. CASE task[r].pc \notin {"idle", "answered"}
    <3>1. task'[r] = [task[r] EXCEPT !.pc = "cut"]
      BY <2>3 DEF Crash
    <3> QED
      BY <2>1, <3>1, Ends
  <2> QED
    BY <2>2, <2>3
<1>2. TypeOK'
  BY <1>1 DEF Crash, IInv, TypeOK, counters
<1> QED
  BY <1>1, <1>2 DEF IInv

---------------------------------------------------------------------------
LEMMA Invariance == Spec => []IInv
<1>1. IInv /\ [Next]_vars => IInv'
  <2> SUFFICES ASSUME IInv, [Next]_vars PROVE IInv'
    OBVIOUS
  <2>1. CASE UNCHANGED vars
    <3>1. UNCHANGED <<task, wire, disowned, leituras_marcadas, falhas_de_leitura, unwritten>>
      BY <2>1 DEF vars
    <3> QED
      BY <3>1 DEF IInv, TypeOK, Good, InOrder, FileFits, StoredIsComplete, ToldIsTrue,
                  At, Is, Current, MayBeDone
  <2>2. ASSUME NEW r \in Requests,
               Refuse(r) \/ NotApplicable(r) \/ Admit(r)
        PROVE  IInv'
    BY <2>2, RefuseStep, NotApplicableStep, AdmitStep
  <2>3. ASSUME NEW r \in Requests, HandlerStep(r)
        PROVE  IInv'
    BY <2>3, SendStep, UnsentStep, HearSuccessStep, HearOddStep, HearErrorStep,
       SilenceStep, CountStep, CountFailsStep DEF HandlerStep, Fails
  <2>4. ASSUME NEW r \in Requests,
               PassOn(r) \/ EndBody(r) \/ BreakBody(r) \/ MetaDoes(r) \/ MetaRefuses(r)
        PROVE  IInv'
    BY <2>4, PassOnStep, EndBodyStep, BreakBodyStep, MetaDoesStep, MetaRefusesStep
  <2>5. ASSUME NEW r \in Requests, CopyOn(r) \/ CopyReturns(r)
        PROVE  IInv'
    BY <2>5, CopyOnStep, CopyReturnsStep
  <2>6. CASE Crash
    BY <2>6, CrashStep
  <2> QED
    BY <2>1, <2>2, <2>3, <2>4, <2>5, <2>6 DEF Next
<1> QED
  BY <1>1, InitIInv, PTL DEF Spec

(***************************************************************************)
(* Every reachable state of the pass-through routes has the declared       *)
(* shape: no handler past the last call of its route, no file with more    *)
(* bytes passed than anybody has.                                          *)
(***************************************************************************)
THEOREM TypeCorrect == Spec => []TypeOK
<1>1. IInv => TypeOK
  BY DEF IInv
<1> QED
  BY <1>1, Invariance, PTL

(***************************************************************************)
(* The class a route answers with (respondReadError, respondBlockError,    *)
(* respondMediaError, respondUploadStepError and their like) is the truth  *)
(* about the call, for any number of requests at once, any files, any cap  *)
(* and any refusals of Meta.                                               *)
(***************************************************************************)
THEOREM ClassIsTheTruth == Spec => []NothingHappenedIsTrue
<1>1. IInv => NothingHappenedIsTrue
  BY DEF IInv, Good, ToldIsTrue, NothingHappenedIsTrue
<1> QED
  BY <1>1, Invariance, PTL

(***************************************************************************)
(* What Meta has stored of a streamed body is a whole file within the cap, *)
(* whatever the consumer declares, sends or breaks off (cappedReader.Read, *)
(* the declared length in UploadsHandler).                                 *)
(***************************************************************************)
THEOREM StoredFilesFit == Spec => []MediaFitsItsCap
<1>1. IInv => MediaFitsItsCap
  BY DEF IInv, Good, StoredIsComplete, FileFits, MediaFitsItsCap
<1> QED
  BY <1>1, Invariance, PTL

---------------------------------------------------------------------------
(* What is left behind, and what is counted.                               *)

(* The step of an upload's error, by the call it stands at. *)
StepIsTrue(r) ==
  task[r].route = uploads /\ task[r].told \in ErrorClass =>
    \/ task[r].step = "none" /\ task[r].at = 1 /\ wire[r] = "none"
    \/ task[r].step = "app_id" /\ task[r].at = 1 /\ wire[r] # "none"
    \/ task[r].step = "session" /\ (task[r].at = 2 \/ (task[r].at = 3 /\ wire[r] = "none"))
    \/ task[r].step = "upload" /\ task[r].at = 3 /\ wire[r] # "none"

(* Only a read is counted, once it is told, and one that was marked was    *)
(* marked by Meta.                                                         *)
ReadIsTrue(r) ==
  /\ r \in unwritten => At(r, "answered") /\ task[r].told # "nothing"
  /\ At(r, "counting") => task[r].route = mark /\ task[r].told \in ErrorClass \cup {"ok"}
  /\ task[r].route = mark /\ task[r].told = "ok" => wire[r] = "done"

Behind(r) ==
  /\ At(r, "idle") => task[r].at = 1 /\ task[r].step = "none"
  /\ StepIsTrue(r) /\ ReadIsTrue(r)

LEMMA MarkIsAlone ==
  mark \notin Probes /\ mark \notin {download, uploads, accountHealth} /\ Len(mark) = 1
<1>1. Len(mark) = 1 /\ Len(download) = 2 /\ Len(uploads) = 3 /\ Len(accountHealth) = 3
  BY DEF mark, download, uploads, accountHealth
<1>2. mark[1].name = "MarkAsRead" /\ health[1].name = "CheckCredential"
  BY DEF mark, health, MarkAsRead, CheckCredential, Call
<1> QED
  BY <1>1, <1>2 DEF Probes

LEMMA UploadsAreThreeCalls ==
  /\ Len(uploads) = 3 /\ uploads # accountHealth
  /\ uploads[1] = AppID /\ uploads[2] = CreateUploadSession /\ uploads[3] = CompleteUpload
  /\ AppID # CreateUploadSession /\ AppID # CompleteUpload
  /\ CreateUploadSession # CompleteUpload
  /\ "checks" \notin AppID.traits
<1>1. /\ Len(uploads) = 3 /\ uploads[1] = AppID
      /\ uploads[2] = CreateUploadSession /\ uploads[3] = CompleteUpload
  BY DEF uploads
<1>2. /\ AppID.name = "AppID" /\ CreateUploadSession.name = "CreateUploadSession"
      /\ CompleteUpload.name = "CompleteUpload" /\ AppID.traits = {"parses"}
  BY DEF AppID, CreateUploadSession, CompleteUpload, Call
<1>3. accountHealth[1].name = "ObservePhoneHealth"
  BY DEF accountHealth, ObservePhoneHealth, Call
<1> QED
  BY <1>1, <1>2, <1>3

LEMMA StepsOfUploads ==
  ASSUME NEW left \in BOOLEAN
  PROVE  /\ StepLabel(AppID, left) = "app_id"
         /\ StepLabel(CreateUploadSession, left) = "session"
         /\ StepLabel(CompleteUpload, left) = IF left THEN "upload" ELSE "session"
<1>1. /\ AppID # CreateUploadSession /\ AppID # CompleteUpload
      /\ CreateUploadSession # CompleteUpload
  BY UploadsAreThreeCalls
<1> QED
  BY <1>1 DEF StepLabel

---------------------------------------------------------------------------
(* The shapes a request's step can have. *)

(* Its call or its file moves, its first call begins, its copy is over.    *)
GoesOn(r) ==
  /\ task'[r].told = task[r].told /\ task'[r].step = task[r].step /\ task'[r].at = task[r].at
  /\ \/ task'[r].pc = task[r].pc
     \/ task[r].pc = "idle" /\ task'[r].pc = "calling"
     \/ task[r].pc = "copying" /\ task'[r].pc = "answered"
  /\ wire[r] = "done" => wire'[r] = "done"
  /\ At(r, "calling") \/ (wire[r] = "none" <=> wire'[r] = "none")
  /\ UNCHANGED counters

NextCall(r) ==
  /\ At(r, "calling") /\ task'[r].pc = "calling" /\ task'[r].told = "nothing"
  /\ UNCHANGED counters

(* It is told that it succeeded, of its call's failure, or why it has none. *)
IsTold(r) ==
  /\ task[r].told = "nothing" /\ wire'[r] = wire[r] /\ task'[r].at = task[r].at
  /\ UNCHANGED counters
  /\ \/ /\ task'[r].told = "ok" /\ (task[r].route = mark => wire[r] = "done")
        /\ task[r].route = mark <=> task'[r].pc = "counting"
        /\ task'[r].pc \in {"counting", "copying", "answered"}
     \/ /\ At(r, "calling") /\ task'[r].told \in ErrorClass
        /\ task'[r].step = StepLabel(Current(r), wire[r] # "none")
        /\ task[r].route = uploads /\ wire[r] = "none" => task[r].at > 1
        /\ task'[r].pc = IF task[r].route = mark THEN "counting" ELSE "answered"
     \/ /\ At(r, "idle") /\ task'[r].told \in ErrorClass
        /\ task'[r].step = task[r].step /\ task'[r].pc = "answered"

IsCounted(r) ==
  /\ At(r, "counting") /\ task'[r].pc = "answered" /\ wire'[r] = wire[r]
  /\ task'[r].told = task[r].told /\ task'[r].step = task[r].step /\ task'[r].at = task[r].at
  /\ IF task[r].told = "ok"
     THEN leituras_marcadas' = leituras_marcadas + 1 /\ UNCHANGED falhas_de_leitura
     ELSE falhas_de_leitura' = falhas_de_leitura + 1 /\ UNCHANGED leituras_marcadas
  /\ UNCHANGED unwritten

(* Its counter could not be written. *)
IsUncounted(r) ==
  /\ At(r, "counting") /\ task'[r].pc = "answered" /\ wire'[r] = wire[r]
  /\ task'[r].told = task[r].told /\ task'[r].step = task[r].step /\ task'[r].at = task[r].at
  /\ unwritten' = unwritten \cup {r} /\ UNCHANGED <<leituras_marcadas, falhas_de_leitura>>

Alone(r) ==
  /\ task'[r].route = task[r].route
  /\ \A s \in Requests \ {r} : task'[s] = task[s] /\ wire'[s] = wire[s]

Shaped(r) ==
  Alone(r) /\ (GoesOn(r) \/ NextCall(r) \/ IsTold(r) \/ IsCounted(r) \/ IsUncounted(r))

LEMMA RespondShape ==
  ASSUME IInv, NEW r \in Requests, NEW told, NEW step, Respond(r, told, step)
  PROVE  /\ task'[r].route = task[r].route /\ task'[r].at = task[r].at
         /\ task'[r].told = told /\ task'[r].step = step
         /\ task'[r].pc = IF task[r].route = mark THEN "counting" ELSE "answered"
         /\ \A s \in Requests \ {r} : task'[s] = task[s]
<1>1. task \in [Requests -> Task] /\ task[r] \in Task
  BY DEF IInv, TypeOK
<1> QED
  BY <1>1 DEF Respond, Task

LEMMA ProceedShape ==
  ASSUME IInv, NEW r \in Requests, At(r, "calling"), Proceed(r), UNCHANGED counters,
         task[r].route = mark => wire[r] = "done"
  PROVE  Shaped(r)
<1>1. /\ task \in [Requests -> Task] /\ task[r] \in Task
      /\ wire \in [Requests -> {"none", "sent", "done", "refused"}]
  BY DEF IInv, TypeOK
<1>2. task[r].told = "nothing"
  BY DEF IInv, Good, InOrder, At
<1>3. CASE /\ task' = [task EXCEPT ![r].at = @ + 1]
           /\ wire' = [wire EXCEPT ![r] = "none"]
  <2>1. Alone(r)
    BY <1>1, <1>3 DEF Alone, Task
  <2>2. NextCall(r)
    BY <1>1, <1>2, <1>3 DEF NextCall, Task, At
  <2> QED
    BY <2>1, <2>2 DEF Shaped
<1>4. CASE Respond(r, "ok", "none") /\ UNCHANGED wire
  <2>1. Alone(r)
    BY <1>4, RespondShape DEF Alone
  <2>2. IsTold(r)
    BY <1>2, <1>4, RespondShape DEF IsTold
  <2> QED
    BY <2>1, <2>2 DEF Shaped
<1>5. CASE /\ task[r].route = download
           /\ task' = [task EXCEPT ![r].pc = "copying", ![r].told = "ok"]
           /\ UNCHANGED wire
  <2>1. Alone(r)
    BY <1>1, <1>5 DEF Alone, Task
  <2>2. task'[r].told = "ok" /\ task'[r].pc = "copying" /\ task'[r].at = task[r].at
    BY <1>1, <1>5 DEF Task
  <2>3. IsTold(r)
    BY <1>2, <1>5, <2>2, MarkIsAlone DEF IsTold
  <2> QED
    BY <2>1, <2>3 DEF Shaped
<1> QED
  BY <1>3, <1>4, <1>5 DEF Proceed

LEMMA FailShape ==
  ASSUME IInv, NEW r \in Requests, At(r, "calling"), NEW class \in ErrorClass, Fail(r, class),
         UNCHANGED counters, task[r].route = uploads /\ wire[r] = "none" => task[r].at > 1
  PROVE  Shaped(r)
<1>1. CASE IsOptional(r)
  BY <1>1, ProceedShape, MarkIsAlone DEF Fail, IsOptional
<1>2. CASE ~IsOptional(r)
  <2> DEFINE told == IF Overflowed(r) THEN "permanent" ELSE class
             step == StepLabel(Current(r), wire[r] # "none")
  <2>1. Respond(r, told, step) /\ UNCHANGED wire /\ told \in ErrorClass
    BY <1>2 DEF Fail, ErrorClass
  <2> HIDE DEF told
  <2>2. task[r].told = "nothing"
    BY DEF IInv, Good, InOrder, At
  <2>3. Alone(r)
    BY <2>1, RespondShape DEF Alone
  <2>4. IsTold(r)
    BY <2>1, <2>2, RespondShape DEF IsTold
  <2> QED
    BY <2>3, <2>4 DEF Shaped
<1> QED
  BY <1>1, <1>2

(* A step that leaves the answer alone. *)
LEMMA StandShape ==
  ASSUME IInv, NEW r \in Requests, UNCHANGED counters, NEW t,
         task' = [task EXCEPT ![r] = t],
         t.route = task[r].route, t.told = task[r].told, t.step = task[r].step, t.at = task[r].at,
         \/ t.pc = task[r].pc
         \/ task[r].pc = "idle" /\ t.pc = "calling"
         \/ task[r].pc = "copying" /\ t.pc = "answered",
         UNCHANGED wire
  PROVE  Shaped(r)
<1>1. task'[r] = t /\ \A s \in Requests \ {r} : task'[s] = task[s]
  BY DEF IInv, TypeOK
<1>2. Alone(r) /\ GoesOn(r)
  BY <1>1 DEF Alone, GoesOn
<1> QED
  BY <1>2 DEF Shaped

LEMMA FileShape ==
  ASSUME IInv, NEW r \in Requests, NEW f, task' = [task EXCEPT ![r].file = f],
         UNCHANGED <<wire, counters>>
  PROVE  Shaped(r)
<1> DEFINE t == [task[r] EXCEPT !.file = f]
<1>1. task' = [task EXCEPT ![r] = t]
  BY DEF IInv, TypeOK
<1>2. /\ t.route = task[r].route /\ t.told = task[r].told /\ t.step = task[r].step
      /\ t.at = task[r].at /\ t.pc = task[r].pc
  BY DEF IInv, TypeOK, Task
<1> HIDE DEF t
<1> QED
  BY <1>1, <1>2, StandShape

LEMMA WireShape ==
  ASSUME IInv, NEW r \in Requests, NEW w, wire' = [wire EXCEPT ![r] = w],
         UNCHANGED <<task, counters>>,
         wire[r] # "done", w # "none", At(r, "calling") \/ wire[r] # "none"
  PROVE  Shaped(r)
<1>1. wire'[r] = w /\ \A s \in Requests \ {r} : wire'[s] = wire[s]
  BY DEF IInv, TypeOK
<1>2. Alone(r) /\ GoesOn(r)
  BY <1>1 DEF Alone, GoesOn, counters
<1> QED
  BY <1>2 DEF Shaped

(* The steps of a call's failures. *)
LEMMA CallShape ==
  ASSUME IInv, NEW r \in Requests,
         Unsent(r) \/ HearSuccess(r) \/ HearOdd(r) \/ HearError(r) \/ Silence(r)
  PROVE  Shaped(r)
<1>1. /\ task[r].route \in Routes /\ task[r].at \in 1..Len(task[r].route)
      /\ task[r] \in Task
  BY DEF IInv, TypeOK, Task, Good, InOrder
<1>2. /\ Current(r).tells.unsent \in ErrorClass /\ SilenceClass(Current(r)) \in ErrorClass
      /\ Current(r).tells.odd \subseteq ErrorClass
  BY <1>1, TellsClasses DEF Current, SilenceClass
<1>3. CASE Unsent(r)
  <2>1. task[r].route = uploads => task[r].at > 1
    <3>1. CASE task[r].route = uploads /\ task[r].at = 1
      <4>1. Current(r) = AppID
        BY <3>1, UploadsAreThreeCalls DEF Current
      <4> QED
        BY <1>3, <4>1, UploadsAreThreeCalls DEF Unsent, Is
    <3> QED
      BY <1>1, <3>1 DEF Task
  <2> QED
    BY <1>2, <1>3, <2>1, FailShape DEF Unsent
<1>4. CASE HearSuccess(r)
  BY <1>4, ProceedShape DEF HearSuccess
<1>5. CASE HearOdd(r)
  BY <1>2, <1>5, FailShape DEF HearOdd
<1>6. CASE HearError(r)
  BY <1>6, AnswersAreClasses, FailShape DEF HearError
<1>7. CASE Silence(r)
  BY <1>2, <1>7, FailShape DEF Silence
<1> QED
  BY <1>3, <1>4, <1>5, <1>6, <1>7

LEMMA GuardShape ==
  ASSUME IInv, NEW r \in Requests, Refuse(r) \/ NotApplicable(r) \/ Admit(r)
  PROVE  Shaped(r)
<1>1. task \in [Requests -> Task] /\ task[r] \in Task
  BY DEF IInv, TypeOK
<1>2. At(r, "idle") /\ task[r].told = "nothing"
  BY DEF Refuse, NotApplicable, Admit, IInv, Good, InOrder, At
<1>3. CASE Refuse(r)
  <2>1. PICK c \in {"config", "retryable", "permanent"} :
          task' = [task EXCEPT ![r].pc = "answered", ![r].told = c]
    BY <1>3 DEF Refuse
  <2>2. Alone(r)
    BY <1>1, <1>3, <2>1 DEF Alone, Refuse, Task
  <2>3. /\ task'[r].told = c /\ task'[r].pc = "answered" /\ c \in ErrorClass
        /\ task'[r].step = task[r].step /\ task'[r].at = task[r].at
    BY <1>1, <2>1 DEF Task, ErrorClass
  <2>4. wire'[r] = wire[r] /\ UNCHANGED counters
    BY <1>3 DEF Refuse
  <2>5. IsTold(r)
    BY <1>2, <2>3, <2>4 DEF IsTold
  <2> QED
    BY <2>2, <2>5 DEF Shaped
<1>4. CASE NotApplicable(r)
  <2>1. Alone(r)
    BY <1>4, RespondShape DEF Alone, NotApplicable
  <2>2. IsTold(r)
    BY <1>2, <1>4, RespondShape, MarkIsAlone DEF IsTold, NotApplicable
  <2> QED
    BY <2>1, <2>2 DEF Shaped
<1>5. CASE Admit(r)
  <2> DEFINE t == [task[r] EXCEPT !.pc = "calling"]
  <2>1. task' = [task EXCEPT ![r] = t] /\ UNCHANGED <<wire, counters>>
    BY <1>1, <1>5 DEF Admit
  <2>2. /\ t.route = task[r].route /\ t.told = task[r].told /\ t.step = task[r].step
        /\ t.at = task[r].at /\ t.pc = "calling" /\ task[r].pc = "idle"
    BY <1>1, <1>2 DEF Task, At
  <2> HIDE DEF t
  <2> QED
    BY <2>1, <2>2, StandShape
<1> QED
  BY <1>3, <1>4, <1>5

LEMMA StepsHaveShapes ==
  ASSUME IInv, NEW r \in Requests,
         \/ Refuse(r) \/ NotApplicable(r) \/ Admit(r) \/ HandlerStep(r)
         \/ PassOn(r) \/ EndBody(r) \/ BreakBody(r)
         \/ MetaDoes(r) \/ MetaRefuses(r)
         \/ CopyOn(r) \/ CopyReturns(r)
  PROVE  Shaped(r)
<1>1. task \in [Requests -> Task] /\ task[r] \in Task
  BY DEF IInv, TypeOK
<1>2. CASE Refuse(r) \/ NotApplicable(r) \/ Admit(r)
  BY <1>2, GuardShape
<1>3. CASE Unsent(r) \/ HearSuccess(r) \/ HearOdd(r) \/ HearError(r) \/ Silence(r)
  BY <1>3, CallShape
<1>4. CASE Send(r) \/ MetaDoes(r) \/ MetaRefuses(r)
  <2>1. /\ wire[r] # "done" /\ (At(r, "calling") \/ wire[r] # "none")
        /\ UNCHANGED <<task, counters>>
        /\ \E w \in {"sent", "done", "refused"} : wire' = [wire EXCEPT ![r] = w]
    BY <1>4 DEF Send, MetaDoes, MetaRefuses, MayBeDone
  <2> QED
    BY <1>4, <2>1, WireShape DEF Send, MetaDoes, MetaRefuses, MayBeDone
<1>5. CASE PassOn(r)
  <2> DEFINE f == IF Current(r) = UploadMedia THEN cappedReader(task[r].file)
                  ELSE declaredBody(task[r].file)
  <2>1. task' = [task EXCEPT ![r].file = f] /\ UNCHANGED <<wire, counters>>
    BY <1>1, <1>5 DEF PassOn
  <2> HIDE DEF f
  <2> QED
    BY <2>1, FileShape
<1>6. CASE EndBody(r) \/ BreakBody(r) \/ CopyOn(r)
  <2>1. PICK f : task' = [task EXCEPT ![r].file = f]
    <3>1. CASE EndBody(r)
      <4> DEFINE g == [task[r].file EXCEPT !.end = "complete"]
      <4>1. task' = [task EXCEPT ![r].file = g]
        BY <1>1, <3>1 DEF EndBody
      <4> QED
        BY <4>1
    <3>2. CASE BreakBody(r)
      <4> DEFINE g == [task[r].file EXCEPT !.end = "broken"]
      <4>1. task' = [task EXCEPT ![r].file = g]
        BY <1>1, <3>2 DEF BreakBody
      <4> QED
        BY <4>1
    <3>3. CASE CopyOn(r)
      <4> DEFINE g == [task[r].file EXCEPT !.passed = @ + 1]
      <4>1. task' = [task EXCEPT ![r].file = g]
        BY <1>1, <3>3 DEF CopyOn
      <4> QED
        BY <4>1
    <3> QED
      BY <1>6, <3>1, <3>2, <3>3
  <2>2. UNCHANGED <<wire, counters>>
    BY <1>6 DEF EndBody, BreakBody, CopyOn
  <2> QED
    BY <2>1, <2>2, FileShape
<1>7. CASE CopyReturns(r)
  <2> DEFINE t == [task[r] EXCEPT !.pc = "answered"]
  <2>1. task' = [task EXCEPT ![r] = t] /\ UNCHANGED <<wire, counters>>
    BY <1>1, <1>7 DEF CopyReturns
  <2>2. /\ t.route = task[r].route /\ t.told = task[r].told /\ t.step = task[r].step
        /\ t.at = task[r].at /\ t.pc = "answered" /\ task[r].pc = "copying"
    BY <1>1, <1>7 DEF CopyReturns, Copying, Task, At
  <2> HIDE DEF t
  <2> QED
    BY <2>1, <2>2, StandShape
<1>8. CASE Count(r)
  <2>1. Alone(r)
    BY <1>1, <1>8 DEF Alone, Count, Task
  <2>2. /\ task'[r].told = task[r].told /\ task'[r].step = task[r].step
        /\ task'[r].at = task[r].at /\ task'[r].pc = "answered"
    BY <1>1, <1>8 DEF Count, Task
  <2>3. IsCounted(r)
    BY <1>8, <2>2 DEF IsCounted, Count
  <2> QED
    BY <2>1, <2>3 DEF Shaped
<1>9. CASE CountFails(r)
  <2>1. Alone(r)
    BY <1>1, <1>9 DEF Alone, CountFails, Task
  <2>2. /\ task'[r].told = task[r].told /\ task'[r].step = task[r].step
        /\ task'[r].at = task[r].at /\ task'[r].pc = "answered"
    BY <1>1, <1>9 DEF CountFails, Task
  <2>3. IsUncounted(r)
    BY <1>9, <2>2 DEF IsUncounted, CountFails
  <2> QED
    BY <2>1, <2>3 DEF Shaped
<1> QED
  BY <1>2, <1>3, <1>4, <1>5, <1>6, <1>7, <1>8, <1>9 DEF HandlerStep, Fails

---------------------------------------------------------------------------
(* What every shape keeps. *)

BehindInv == \A r \in Requests : Behind(r)

(* A counter that could not be written is that of the request itself. *)
LEMMA OnlyItsOwn ==
  ASSUME NEW r \in Requests, Shaped(r), NEW s \in Requests, s # r
  PROVE  s \in unwritten' <=> s \in unwritten
BY DEF Shaped, GoesOn, NextCall, IsTold, IsCounted, IsUncounted, counters

LEMMA ShapeKeepsBehind ==
  ASSUME IInv, IInv', BehindInv, NEW r \in Requests, Shaped(r)
  PROVE  BehindInv'
<1>1. ASSUME NEW s \in Requests, s # r
      PROVE  Behind(s)'
  <2>1. task'[s] = task[s] /\ wire'[s] = wire[s] /\ Behind(s)
    BY <1>1 DEF Shaped, Alone, BehindInv
  <2>2. s \in unwritten' => s \in unwritten
    BY <1>1, OnlyItsOwn
  <2> QED
    BY <2>1, <2>2 DEF Behind, StepIsTrue, ReadIsTrue, At
<1>2. /\ Behind(r) /\ task[r] \in Task /\ task'[r] \in Task /\ task'[r].route = task[r].route
      /\ task[r].at \in 1..3 /\ InOrder(r) /\ InOrder(r)'
  BY DEF BehindInv, IInv, TypeOK, Task, Shaped, Alone, Good
<1>3. "nothing" \notin ErrorClass \cup {"ok"} /\ "ok" \notin ErrorClass
  BY DEF ErrorClass
<1>4. ASSUME GoesOn(r)
      PROVE  Behind(r)'
  <2>1. At(r, "calling") => task[r].told = "nothing"
    BY <1>2 DEF InOrder, At
  <2>2. At(r, "idle")' => task'[r].at = 1 /\ task'[r].step = "none"
    BY <1>2, <1>4 DEF GoesOn, Behind, At
  <2>3. StepIsTrue(r)'
    BY <1>2, <1>3, <1>4, <2>1 DEF GoesOn, Behind, StepIsTrue
  <2>4. ReadIsTrue(r)'
    BY <1>2, <1>3, <1>4 DEF GoesOn, counters, Behind, ReadIsTrue, At
  <2> QED
    BY <2>2, <2>3, <2>4 DEF Behind
<1>5. ASSUME NextCall(r)
      PROVE  Behind(r)'
  BY <1>2, <1>3, <1>5 DEF NextCall, counters, Behind, StepIsTrue, ReadIsTrue, At
<1>6. ASSUME IsTold(r)
      PROVE  Behind(r)'
  <2>1. ~At(r, "idle")'
    BY <1>2, <1>3, <1>6 DEF IsTold, InOrder, At
  <2>2. ReadIsTrue(r)'
    BY <1>2, <1>3, <1>6 DEF IsTold, counters, Behind, ReadIsTrue, At
  <2>3. StepIsTrue(r)'
    <3> SUFFICES ASSUME task[r].route = uploads, task'[r].told \in ErrorClass
                 PROVE  \/ task'[r].step = "none" /\ task[r].at = 1 /\ wire[r] = "none"
                        \/ task'[r].step = "app_id" /\ task[r].at = 1 /\ wire[r] # "none"
                        \/ /\ task'[r].step = "session"
                           /\ task[r].at = 2 \/ (task[r].at = 3 /\ wire[r] = "none")
                        \/ task'[r].step = "upload" /\ task[r].at = 3 /\ wire[r] # "none"
      BY <1>2, <1>6 DEF StepIsTrue, IsTold
    <3>1. CASE At(r, "idle") /\ task'[r].step = task[r].step
      BY <1>2, <3>1 DEF Behind, InOrder
    <3>2. CASE /\ task'[r].step = StepLabel(Current(r), wire[r] # "none")
               /\ wire[r] = "none" => task[r].at > 1
      <4> DEFINE left == wire[r] # "none"
      <4>1. /\ StepLabel(AppID, left) = "app_id" /\ StepLabel(CreateUploadSession, left) = "session"
            /\ StepLabel(CompleteUpload, left) = IF left THEN "upload" ELSE "session"
        BY StepsOfUploads
      <4>2. /\ task[r].at = 1 => Current(r) = AppID
            /\ task[r].at = 2 => Current(r) = CreateUploadSession
            /\ task[r].at = 3 => Current(r) = CompleteUpload
        BY UploadsAreThreeCalls DEF Current
      <4>3. task[r].at = 1 \/ task[r].at = 2 \/ task[r].at = 3
        BY <1>2
      <4>4. task[r].at = 1 => wire[r] # "none"
        BY <3>2
      <4> QED
        BY <3>2, <4>1, <4>2, <4>3, <4>4
    <3> QED
      BY <1>3, <1>6, <3>1, <3>2 DEF IsTold
  <2> QED
    BY <2>1, <2>2, <2>3 DEF Behind
<1>7. ASSUME IsCounted(r) \/ IsUncounted(r)
      PROVE  Behind(r)'
  <2>1. StepIsTrue(r)'
    BY <1>2, <1>7 DEF IsCounted, IsUncounted, Behind, StepIsTrue
  <2>2. ReadIsTrue(r)' /\ ~At(r, "idle")'
    BY <1>2, <1>3, <1>7 DEF IsCounted, IsUncounted, Behind, ReadIsTrue, At
  <2> QED
    BY <2>1, <2>2 DEF Behind
<1>8. Behind(r)'
  BY <1>4, <1>5, <1>6, <1>7 DEF Shaped
<1> QED
  BY <1>1, <1>8 DEF BehindInv

---------------------------------------------------------------------------
(* The reads Meta marked, those answered to their end by their outcome and *)
(* not lost to a write, those that failed, and the failures to be counted. *)
Marked == {r \in Requests : task[r].route = mark /\ wire[r] = "done"}
Ended == {r \in Requests \ unwritten :
            task[r].route = mark /\ At(r, "answered") /\ wire[r] # "none"}
Succeeded == {r \in Ended : task[r].told = "ok"}
Failed == {r \in Ended : task[r].told \in ErrorClass}
Erred == {r \in Requests : task[r].route = mark /\ task[r].told \in ErrorClass}
DueFailures == {r \in Erred : At(r, "counting")}

CountInv ==
  /\ IsFiniteSet(Marked) /\ IsFiniteSet(Erred)
  /\ leituras_marcadas = Cardinality(Succeeded)
  /\ falhas_de_leitura >= Cardinality(Failed)
  /\ falhas_de_leitura + Cardinality(DueFailures) <= Cardinality(Erred)

LEMMA Parts ==
  ASSUME BehindInv, CountInv
  PROVE  /\ Succeeded \subseteq Marked /\ Failed \subseteq Erred /\ DueFailures \subseteq Erred
         /\ IsFiniteSet(Succeeded) /\ IsFiniteSet(Failed) /\ IsFiniteSet(DueFailures)
         /\ Cardinality(Succeeded) \in Nat /\ Cardinality(Failed) \in Nat
         /\ Cardinality(DueFailures) \in Nat /\ Cardinality(Erred) \in Nat
         /\ Cardinality(Marked) \in Nat /\ Cardinality(Succeeded) <= Cardinality(Marked)
<1>1. Succeeded \subseteq Marked
  BY DEF Ended, Succeeded, Marked, BehindInv, Behind, ReadIsTrue
<1>2. Failed \subseteq Erred /\ DueFailures \subseteq Erred
  BY DEF Ended, Failed, Erred, DueFailures
<1>3. IsFiniteSet(Marked) /\ IsFiniteSet(Erred)
  BY DEF CountInv
<1> QED
  BY <1>1, <1>2, <1>3, FS_Subset, FS_CardinalityType

(* A set of which one element may come or go. *)
LEMMA OneMoves ==
  ASSUME NEW A, NEW B, NEW x, IsFiniteSet(A), B \ {x} = A \ {x}
  PROVE  /\ IsFiniteSet(B) /\ Cardinality(A) \in Nat /\ Cardinality(B) \in Nat
         /\ x \in A <=> x \in B => Cardinality(B) = Cardinality(A)
         /\ x \notin A /\ x \in B => Cardinality(B) = Cardinality(A) + 1
         /\ x \in A /\ x \notin B => Cardinality(A) = Cardinality(B) + 1
<1>1. CASE x \in A <=> x \in B
  <2>1. B = A
    BY <1>1
  <2> QED
    BY <1>1, <2>1, FS_CardinalityType
<1>2. CASE x \notin A /\ x \in B
  <2>1. B = A \cup {x}
    BY <1>2
  <2> QED
    BY <1>2, <2>1, FS_AddElement, FS_CardinalityType
<1>3. CASE x \in A /\ x \notin B
  <2>1. A = B \cup {x} /\ B \subseteq A
    BY <1>3
  <2>2. IsFiniteSet(B)
    BY <2>1, FS_Subset
  <2> QED
    BY <1>3, <2>1, <2>2, FS_AddElement, FS_CardinalityType
<1> QED
  BY <1>1, <1>2, <1>3

LEMMA ShapeKeepsCounts ==
  ASSUME IInv, IInv', BehindInv, BehindInv', CountInv, NEW r \in Requests, Shaped(r)
  PROVE  CountInv'
<1>1. /\ Marked' \ {r} = Marked \ {r} /\ Succeeded' \ {r} = Succeeded \ {r}
      /\ Failed' \ {r} = Failed \ {r} /\ Erred' \ {r} = Erred \ {r}
      /\ DueFailures' \ {r} = DueFailures \ {r}
  BY OnlyItsOwn DEF Shaped, Alone, Marked, Ended, Succeeded, Failed, Erred, DueFailures, At
<1>2. /\ IsFiniteSet(Marked) /\ IsFiniteSet(Erred) /\ IsFiniteSet(Succeeded)
      /\ IsFiniteSet(Failed) /\ IsFiniteSet(DueFailures)
  BY Parts DEF CountInv
<1>3. /\ IsFiniteSet(Marked') /\ IsFiniteSet(Erred')
  BY <1>1, <1>2, OneMoves
<1>4. leituras_marcadas \in Nat /\ falhas_de_leitura \in Nat /\ task'[r].route = task[r].route
  BY DEF IInv, TypeOK, Shaped, Alone
<1>5. "nothing" \notin ErrorClass \cup {"ok"} /\ "ok" \notin ErrorClass
  BY DEF ErrorClass
<1>6. At(r, "calling") \/ At(r, "idle") => task[r].told = "nothing"
  BY DEF IInv, Good, InOrder, At
<1>7. At(r, "idle") => wire[r] = "none"
  BY DEF IInv, Good, InOrder
<1> DEFINE same == /\ r \in Succeeded <=> r \in Succeeded'
                   /\ r \in Failed' => r \in Failed
                   /\ r \in Erred => r \in Erred'
                   /\ r \in DueFailures' /\ r \notin DueFailures => r \in Erred' /\ r \notin Erred
<1>8. ASSUME same, UNCHANGED counters
      PROVE  CountInv'
  <2>1. /\ Cardinality(Succeeded') = Cardinality(Succeeded)
        /\ Cardinality(Failed') <= Cardinality(Failed)
        /\ Cardinality(DueFailures') - Cardinality(DueFailures)
             <= Cardinality(Erred') - Cardinality(Erred)
        /\ Cardinality(Failed) \in Nat /\ Cardinality(Failed') \in Nat
        /\ Cardinality(Erred) \in Nat /\ Cardinality(Erred') \in Nat
        /\ Cardinality(DueFailures) \in Nat /\ Cardinality(DueFailures') \in Nat
    BY <1>1, <1>2, <1>8, OneMoves
  <2> QED
    BY <1>3, <1>4, <1>8, <2>1 DEF CountInv, counters
<1>9. CASE task[r].route # mark
  <2>1. /\ r \notin Succeeded /\ r \notin Succeeded' /\ r \notin Failed' /\ r \notin Erred
        /\ r \notin DueFailures'
    BY <1>4, <1>9 DEF Ended, Succeeded, Failed, Erred, DueFailures
  <2>2. ~IsCounted(r) /\ ~IsUncounted(r)
    BY <1>9 DEF IsCounted, IsUncounted, BehindInv, Behind, ReadIsTrue
  <2>3. UNCHANGED counters
    BY <2>2 DEF Shaped, GoesOn, NextCall, IsTold
  <2> QED
    BY <1>8, <2>1, <2>3
<1>10. CASE task[r].route = mark /\ GoesOn(r)
  <2>1. ~At(r, "copying")
    BY <1>10, MarkIsAlone DEF IInv, Good, InOrder
  <2>2. same
    BY <1>4, <1>5, <1>6, <1>10, <2>1 DEF GoesOn, counters, Ended, Succeeded, Failed, Erred, DueFailures, At
  <2> QED
    BY <1>8, <1>10, <2>2 DEF GoesOn
<1>11. CASE NextCall(r)
  <2>1. same
    BY <1>5, <1>6, <1>11 DEF NextCall, counters, Ended, Succeeded, Failed, Erred, DueFailures, At
  <2> QED
    BY <1>8, <1>11, <2>1 DEF NextCall
<1>12. CASE task[r].route = mark /\ IsTold(r)
  <2>1. same
    BY <1>4, <1>5, <1>7, <1>12 DEF IsTold, counters, Ended, Succeeded, Failed, Erred, DueFailures, At
  <2> QED
    BY <1>8, <1>12, <2>1 DEF IsTold
<1>13. CASE IsCounted(r)
  <2>1. /\ task[r].route = mark /\ task[r].told \in ErrorClass \cup {"ok"}
        /\ task[r].told = "ok" => wire[r] = "done"
        /\ r \notin unwritten /\ r \notin unwritten'
    BY <1>13 DEF IsCounted, BehindInv, Behind, ReadIsTrue, At
  <2>2. CASE task[r].told = "ok"
    <3>1. /\ r \notin Succeeded /\ r \in Succeeded' /\ r \notin Failed /\ r \notin Failed'
          /\ r \notin Erred /\ r \notin Erred' /\ r \notin DueFailures /\ r \notin DueFailures'
      BY <1>4, <1>5, <1>13, <2>1, <2>2 DEF IsCounted, Ended, Succeeded, Failed, Erred,
         DueFailures, At
    <3>2. /\ Cardinality(Succeeded') = Cardinality(Succeeded) + 1
          /\ Cardinality(Failed') = Cardinality(Failed)
          /\ Cardinality(DueFailures') = Cardinality(DueFailures)
          /\ Cardinality(Erred') = Cardinality(Erred)
      BY <1>1, <1>2, <3>1, OneMoves
    <3> QED
      BY <1>3, <1>13, <2>2, <3>2 DEF IsCounted, CountInv
  <2>3. CASE task[r].told # "ok"
    <3>1. /\ r \notin Succeeded /\ r \notin Succeeded' /\ r \notin Failed
          /\ r \in Erred /\ r \in Erred' /\ r \in DueFailures /\ r \notin DueFailures'
      BY <1>4, <1>5, <1>13, <2>1, <2>3 DEF IsCounted, Ended, Succeeded, Failed, Erred,
         DueFailures, At
    <3>2. /\ Cardinality(Succeeded') = Cardinality(Succeeded)
          /\ Cardinality(Failed') <= Cardinality(Failed) + 1
          /\ Cardinality(DueFailures) = Cardinality(DueFailures') + 1
          /\ Cardinality(Erred') = Cardinality(Erred)
          /\ Cardinality(Failed) \in Nat /\ Cardinality(Failed') \in Nat
          /\ Cardinality(DueFailures') \in Nat /\ Cardinality(Erred) \in Nat
      BY <1>1, <1>2, <3>1, OneMoves
    <3>3. /\ falhas_de_leitura' = falhas_de_leitura + 1
          /\ leituras_marcadas' = leituras_marcadas
      BY <1>13, <2>3 DEF IsCounted
    <3> QED
      BY <1>3, <1>4, <3>2, <3>3 DEF CountInv
  <2> QED
    BY <2>2, <2>3
<1>14. CASE IsUncounted(r)
  <2>1. /\ r \notin Succeeded /\ r \notin Succeeded' /\ r \notin Failed /\ r \notin Failed'
        /\ r \in Erred <=> r \in Erred'
        /\ r \notin DueFailures'
    BY <1>4, <1>14 DEF IsUncounted, Ended, Succeeded, Failed, Erred, DueFailures, At
  <2>2. /\ Cardinality(Succeeded') = Cardinality(Succeeded)
        /\ Cardinality(Failed') = Cardinality(Failed)
        /\ Cardinality(DueFailures') <= Cardinality(DueFailures)
        /\ Cardinality(Erred') = Cardinality(Erred)
        /\ Cardinality(Erred) \in Nat
        /\ Cardinality(DueFailures) \in Nat /\ Cardinality(DueFailures') \in Nat
    BY <1>1, <1>2, <2>1, OneMoves
  <2>3. UNCHANGED <<leituras_marcadas, falhas_de_leitura>>
    BY <1>14 DEF IsUncounted
  <2> QED
    BY <1>3, <1>4, <2>2, <2>3 DEF CountInv
<1> QED
  BY <1>9, <1>10, <1>11, <1>12, <1>13, <1>14 DEF Shaped

LEMMA CrashKeepsBoth ==
  ASSUME IInv, BehindInv, CountInv, Crash
  PROVE  BehindInv' /\ CountInv'
<1>1. ASSUME NEW s \in Requests
      PROVE  /\ task'[s].route = task[s].route /\ task'[s].told = task[s].told
             /\ task'[s].step = task[s].step /\ task'[s].at = task[s].at
             /\ task'[s].pc = IF task[s].pc \in {"idle", "answered"} THEN task[s].pc ELSE "cut"
             /\ wire'[s] = wire[s] /\ unwritten' = unwritten
  <2>1. task[s] \in Task
    BY DEF IInv, TypeOK
  <2> QED
    BY <2>1 DEF Crash, counters, Task
<1>2. BehindInv'
  BY <1>1 DEF BehindInv, Behind, StepIsTrue, ReadIsTrue, At
<1>3. /\ Marked' = Marked /\ Succeeded' = Succeeded /\ Failed' = Failed /\ Erred' = Erred
      /\ DueFailures' = {}
  BY <1>1 DEF Marked, Ended, Succeeded, Failed, Erred, DueFailures, At
<1>4. Cardinality({}) = 0
  BY FS_EmptySet
<1>5. /\ Cardinality(DueFailures) \in Nat /\ Cardinality(Erred) \in Nat
      /\ falhas_de_leitura \in Nat /\ UNCHANGED counters
  BY Parts DEF IInv, TypeOK, Crash
<1>6. CountInv'
  BY <1>3, <1>4, <1>5 DEF CountInv, counters
<1> QED
  BY <1>2, <1>6

LEMMA NothingIsLeftAtFirst ==
  ASSUME Init
  PROVE  BehindInv /\ CountInv
<1>1. PICK w \in Wanted, size \in [Requests -> 0..MaxSize] :
        task = [r \in Requests |->
                  [pc |-> "idle", route |-> w[r], at |-> 1, told |-> "nothing", step |-> "none",
                   file |-> [size |-> size[r], passed |-> 0, end |-> "open"]]]
  BY DEF Init
<1>2. ASSUME NEW r \in Requests
      PROVE  /\ task[r].pc = "idle" /\ task[r].at = 1 /\ task[r].told = "nothing"
             /\ task[r].step = "none" /\ wire[r] = "none" /\ unwritten = {}
  BY <1>1 DEF Init
<1>3. "nothing" \notin ErrorClass \cup {"ok"}
  BY DEF ErrorClass
<1>4. BehindInv
  BY <1>2, <1>3 DEF BehindInv, Behind, StepIsTrue, ReadIsTrue, At
<1>5. Marked = {} /\ Succeeded = {} /\ Failed = {} /\ Erred = {} /\ DueFailures = {}
  BY <1>2, <1>3 DEF Marked, Ended, Succeeded, Failed, Erred, DueFailures, At
<1>6. leituras_marcadas = 0 /\ falhas_de_leitura = 0
  BY DEF Init
<1>7. CountInv
  BY <1>5, <1>6, FS_EmptySet DEF CountInv
<1> QED
  BY <1>4, <1>7

LEMMA CountInvariance == Spec => [](BehindInv /\ CountInv)
<1>1. IInv /\ IInv' /\ BehindInv /\ CountInv /\ [Next]_vars => BehindInv' /\ CountInv'
  <2> SUFFICES ASSUME IInv, IInv', BehindInv, CountInv, [Next]_vars
               PROVE  BehindInv' /\ CountInv'
    OBVIOUS
  <2>1. CASE UNCHANGED vars
    <3>1. UNCHANGED <<task, wire, leituras_marcadas, falhas_de_leitura, unwritten>>
      BY <2>1 DEF vars
    <3>2. BehindInv'
      BY <3>1 DEF BehindInv, Behind, StepIsTrue, ReadIsTrue, At
    <3>3. CountInv'
      BY <3>1 DEF CountInv, Marked, Ended, Succeeded, Failed, Erred, DueFailures, At
    <3> QED
      BY <3>2, <3>3
  <2>2. CASE Crash
    BY <2>2, CrashKeepsBoth
  <2>3. CASE Next /\ ~Crash
    <3>1. PICK r \in Requests : Shaped(r)
      BY <2>3, StepsHaveShapes DEF Next
    <3>2. BehindInv'
      BY <3>1, ShapeKeepsBehind
    <3> QED
      BY <3>1, <3>2, ShapeKeepsCounts
  <2> QED
    BY <2>1, <2>2, <2>3
<1> QED
  BY <1>1, NothingIsLeftAtFirst, Invariance, PTL DEF Spec

(***************************************************************************)
(* The step of an upload's error says how far it came, and the counters of *)
(* reads have one count for each read that was answered to its end, by its *)
(* outcome, but for those whose write failed (Counter.Record); a mark      *)
(* counted is one Meta made, and a failure counted is one the consumer was *)
(* told of (UploadsHandler.upload, ReadsHandler.mark).                     *)
(***************************************************************************)
THEOREM LeftIsTold == Spec => []WhatWasLeftIsTold
<1>1. IInv /\ BehindInv /\ CountInv => WhatWasLeftIsTold
  <2> SUFFICES ASSUME IInv, BehindInv, CountInv
               PROVE  WhatWasLeftIsTold
    OBVIOUS
  <2> DEFINE counted == {r \in Requests \ unwritten :
                           task[r].route = mark /\ At(r, "answered") /\ wire[r] # "none"}
             left(r) == {i \in 1..task[r].at : i < task[r].at \/ wire[r] # "none"}
  <2>1. ASSUME NEW r \in Requests, task[r].route = uploads, task[r].told \in ErrorClass
        PROVE  CASE task[r].step = "none"    -> left(r) = {}
                 [] task[r].step = "app_id"  -> left(r) = {1}
                 [] task[r].step = "session" -> left(r) \subseteq {1, 2}
                 [] task[r].step = "upload"  -> left(r) = {1, 2, 3}
    <3>1. StepIsTrue(r)
      BY DEF BehindInv, Behind
    <3>2. /\ task[r].at = 1 /\ wire[r] = "none" => left(r) = {}
          /\ task[r].at = 1 /\ wire[r] # "none" => left(r) = {1}
          /\ task[r].at = 2 => left(r) \subseteq {1, 2}
          /\ task[r].at = 3 /\ wire[r] = "none" => left(r) \subseteq {1, 2}
          /\ task[r].at = 3 /\ wire[r] # "none" => left(r) = {1, 2, 3}
      OBVIOUS
    <3> HIDE DEF left
    <3> QED
      BY <2>1, <3>1, <3>2 DEF StepIsTrue
  <2>2. /\ {r \in counted : task[r].told = "ok"} = Succeeded
        /\ {r \in counted : task[r].told \in ErrorClass} = Failed
    BY DEF Ended, Succeeded, Failed
  <2>3. /\ leituras_marcadas = Cardinality(Succeeded)
        /\ leituras_marcadas <= Cardinality(Marked)
        /\ falhas_de_leitura >= Cardinality(Failed)
        /\ falhas_de_leitura <= Cardinality(Erred)
    BY Parts DEF CountInv, IInv, TypeOK
  <2>4. /\ leituras_marcadas = Cardinality({r \in counted : task[r].told = "ok"})
        /\ leituras_marcadas <=
             Cardinality({r \in Requests : task[r].route = mark /\ wire[r] = "done"})
        /\ falhas_de_leitura >= Cardinality({r \in counted : task[r].told \in ErrorClass})
        /\ falhas_de_leitura <=
             Cardinality({r \in Requests : task[r].route = mark /\ task[r].told \in ErrorClass})
    BY <2>2, <2>3 DEF Marked, Erred
  <2> HIDE DEF left
  <2>5. \A r \in Requests : task[r].route = uploads /\ task[r].told \in ErrorClass =>
          CASE task[r].step = "none"    -> left(r) = {}
            [] task[r].step = "app_id"  -> left(r) = {1}
            [] task[r].step = "session" -> left(r) \subseteq {1, 2}
            [] task[r].step = "upload"  -> left(r) = {1, 2, 3}
    BY <2>1
  <2> USE DEF left
  <2> QED
    BY <2>4, <2>5 DEF WhatWasLeftIsTold
<1> QED
  BY <1>1, Invariance, CountInvariance, PTL
=============================================================================
