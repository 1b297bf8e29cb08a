-------------------------- MODULE InboundDelivery --------------------------
(***************************************************************************)
(* POST /v1/inbound/{slug}: one instance's webhooks, from Meta to the      *)
(* consumer's callback, and the answer back to Meta.                       *)
(*                                                                         *)
(* Handler.receive (internal/inbound/handler.go) keeps no message: what    *)
(* Meta is told decides whether it sends the batch again, and what it is   *)
(* told is the mirror (mirror.go) of what the consumer answered the        *)
(* delivery (deliver.go).  Counters, alerts, billing and the transit log   *)
(* come after the answer.  Around it: Meta sends a batch again, to another *)
(* goroutine, while an earlier attempt is still at work; an administrator  *)
(* changes the instance meanwhile; the consumer is slow, down, refuses, or *)
(* stores the batch after the gateway stopped waiting; the process dies.   *)
(***************************************************************************)
EXTENDS Integers, Sequences, FiniteSets
LOCAL INSTANCE FiniteSetsExt

CONSTANTS
  Handlers,   \* goroutines a webhook may be served by
  Batches,    \* the webhooks Meta has to hand over
  Nobody,     \* the caller of a delivery nobody listens to any more
  Ids,        \* phone_number_ids, WABA ids and IGIDs
  NoId,       \* an id that is missing or cannot be read
  Batch,      \* what each batch carries
  Registered, \* the instance as it is first registered
  Statuses,   \* HTTP statuses the callback may answer
  AtOnce,     \* bound: webhooks Meta has in one behaviour
  MaxPosts,   \* bound: times Meta sends one batch
  MaxChanges, \* bound: changes an administrator makes
  MaxLapses   \* bound: writes that fail after the answers to one batch

Instance == [state : {"active", "paused", "removed"},
             number : Ids, account : Ids, secretIsMetas : BOOLEAN]

ASSUME InboundAssumption ==
  /\ Nobody \notin Handlers /\ NoId \notin Ids
  /\ Batch \in [Batches -> [numbers : SUBSET (Ids \cup {NoId}),
                            accounts : SUBSET (Ids \cup {NoId}),
                            large : BOOLEAN]]
  /\ Registered \in Instance
  /\ Statuses \subseteq 100..599
  /\ AtOnce \in Nat /\ MaxPosts \in Nat /\ MaxChanges \in Nat /\ MaxLapses \in Nat

VARIABLES
  meta,      \* what Meta holds of each batch
  posts,     \* times Meta has sent each batch
  instance,  \* the row of the table `instancia`
  changes,   \* changes made to it so far
  task,      \* what each handler is doing
  calls,     \* deliveries on their way to the callback
  stored,    \* batches the consumer has stored
  refused,   \* batches the callback answered neither 2xx, 404 nor 5xx
  redirected, \* batches it answered with a redirect the client followed
  alarms,    \* batches a line ALARME was logged for
  answered,  \* 2xx answers written per batch
  done,      \* what was counted, observed and recorded per batch
  unwritten, \* what was not, because the write failed: a line in the log
  crashed    \* has the process died at least once?

vars == <<meta, posts, instance, changes, task, calls, stored, refused,
          redirected, alarms, answered, done, unwritten, crashed>>

consumer == <<stored, refused, redirected>>
counters == <<done, unwritten>>

(* What comes after the answer, in the order of the code; the number observed
   and the transit line are one, "records". *)
Effects == {"too_large", "discarded", "received", "delivered", "refused", "loss",
            "alerts", "billing", "records"}

(* The observation of alert.Monitor is kept in memory, the rest is written. *)
Written == Effects \ {"alerts"}

NoError == "none"

(* Errors a person has to fix: the certificate, the CA bundle. *)
CertificateErrors == {"certificate", "bundle"}

Errors == CertificateErrors \cup {"unreachable", "deadline"}

Idle == [pc |-> "idle"]

Busy == {"find", "read", "guards", "deliver", "waiting", "verdict"}

(* A handler before it has answered, and one that has. *)
Working ==
  [pc : Busy, batch : Batches, inst : Instance, status : 0..599,
   error : Errors \cup {NoError}]

Finishing == [pc : {"after"}, batch : Batches, todo : Seq(Effects) \ {<<>>}]

Task == {Idle} \cup Working \cup Finishing

TypeOK ==
  /\ meta \in [Batches -> {"absent", "pending", "accepted"}]
  /\ posts \in [Batches -> Nat]
  /\ instance \in Instance /\ changes \in Nat
  /\ task \in [Handlers -> Task]
  /\ calls \subseteq [handler : Handlers \cup {Nobody}, batch : Batches]
  /\ stored \subseteq Batches /\ refused \subseteq Batches /\ alarms \subseteq Batches
  /\ redirected \subseteq refused
  /\ answered \in [Batches -> Nat]
  /\ done \in [Batches -> [Effects -> Nat]]
  /\ unwritten \in [Batches -> [Effects -> Nat]]
  /\ crashed \in BOOLEAN

Init ==
  /\ \E here \in SUBSET Batches :
       /\ Cardinality(here) = AtOnce
       /\ meta = [b \in Batches |-> IF b \in here THEN "pending" ELSE "absent"]
  /\ posts = [b \in Batches |-> 0]
  /\ instance = Registered /\ changes = 0
  /\ task = [h \in Handlers |-> Idle]
  /\ calls = {} /\ stored = {} /\ refused = {} /\ redirected = {} /\ alarms = {}
  /\ answered = [b \in Batches |-> 0]
  /\ done = [b \in Batches |-> [e \in Effects |-> 0]]
  /\ unwritten = done
  /\ crashed = FALSE

At(h, pc) == task[h].pc = pc

---------------------------------------------------------------------------
(* mirror.go: from the callback's answer to the answer Meta gets.          *)

(* Mutant: a redirect of the callback counts as stored. *)
ConsumerVerdict_Below400IsStored(status, error) ==
  IF error # NoError THEN [meta |-> 504, alarm |-> error \in CertificateErrors]
  ELSE CASE status < 400        -> [meta |-> 200, alarm |-> FALSE]
         [] status \in 500..599 -> [meta |-> 502, alarm |-> FALSE]
         [] status = 404        -> [meta |-> 502, alarm |-> FALSE]
         [] OTHER               -> [meta |-> 200, alarm |-> TRUE]

ConsumerVerdict(status, error) ==
  IF error # NoError THEN [meta |-> 504, alarm |-> error \in CertificateErrors]
  ELSE CASE status \in 200..299 -> [meta |-> 200, alarm |-> FALSE]
         [] status \in 500..599 -> [meta |-> 502, alarm |-> FALSE]
         [] status = 404        -> [meta |-> 502, alarm |-> FALSE]
         [] OTHER               -> [meta |-> 200, alarm |-> TRUE]

Verdict(h) == ConsumerVerdict(task[h].status, task[h].error)

(* The counters of an outcome: CounterKeys. *)
CounterKeys(status, error, v) ==
  (IF error # NoError THEN <<>>
   ELSE CASE status \in 200..299 -> <<"delivered">>
          [] status \in 400..499 \ {404} -> <<"refused">>
          [] OTHER               -> <<>>)
  \o (IF v.alarm /\ v.meta = 200 THEN <<"loss">> ELSE <<>>)

(* Mutant: the billing of a batch is counted at every attempt. *)
AfterAnswer_BillsAttempts(h) ==
  <<"received">> \o CounterKeys(task[h].status, task[h].error, Verdict(h))
  \o <<"alerts", "billing", "records">>

(* Everything receive does once the answer is written. *)
AfterAnswer(h) ==
  <<"received">> \o CounterKeys(task[h].status, task[h].error, Verdict(h))
  \o <<"alerts">>
  \o (IF Verdict(h).meta \in 200..299 THEN <<"billing">> ELSE <<>>)
  \o <<"records">>

---------------------------------------------------------------------------
(* Meta.                                                                   *)

(* Meta sends a batch it has no 2xx for, also while an attempt is at work;
   how often it does before it gives up is the bound. *)
Post(h, b) ==
  /\ At(h, "idle")
  /\ meta[b] = "pending" /\ posts[b] < MaxPosts
  /\ posts' = [posts EXCEPT ![b] = @ + 1]
  /\ task' = [task EXCEPT ![h] =
                [pc |-> "find", batch |-> b, inst |-> instance,
                 status |-> 0, error |-> NoError]]
  /\ UNCHANGED <<meta, instance, changes, calls, consumer, alarms, answered, counters, crashed>>

(* What is left to do once the answer is written. *)
ToDo(b, todo) == IF todo = <<>> THEN Idle ELSE [pc |-> "after", batch |-> b, todo |-> todo]

(* A status is written; Meta may be gone by then, or never get it. *)
Tell(b, status, heard) ==
  /\ answered' = IF status \in 200..299 THEN [answered EXCEPT ![b] = @ + 1] ELSE answered
  /\ meta' = IF status \in 200..299 /\ heard /\ meta[b] = "pending"
             THEN [meta EXCEPT ![b] = "accepted"] ELSE meta

---------------------------------------------------------------------------
(* Handler.receive, up to the delivery.                                    *)

(* 503 or 403 or 413 or 404: Meta will send it again. *)
TurnAway(h) ==
  /\ task' = [task EXCEPT ![h] = Idle]
  /\ UNCHANGED <<meta, posts, instance, changes, calls, consumer, alarms, answered, counters,
                 crashed>>

(* FindInstance fails: 503.  It finds nothing: 404; a paused instance: 503. *)
InstanceUnavailable(h) == At(h, "find") /\ TurnAway(h)

(* FindInstance: the handler works with this row from here on. *)
FindInstance(h) ==
  /\ At(h, "find") /\ instance.state = "active"
  /\ task' = [task EXCEPT ![h].pc = "read", ![h].inst = instance]
  /\ UNCHANGED <<meta, posts, instance, changes, calls, consumer, alarms, answered, counters,
                 crashed>>

(* ReadRaw: to the end of the body or past the cap, as it comes in; the     *)
(* server has no deadline for it.                                          *)
ReadBody(h) ==
  /\ At(h, "read")
  /\ task' = [task EXCEPT ![h].pc = "guards"]
  /\ UNCHANGED <<meta, posts, instance, changes, calls, consumer, alarms, answered, counters,
                 crashed>>

(* The body cannot be read to its end: the connection broke. *)
ReadFails(h) == At(h, "read") /\ TurnAway(h)

Content(h) == Batch[task[h].batch]

(* 5a: the number of a message or status; 5b, Instagram: the account.      *)
ForeignNumber(h) ==
  \E n \in Content(h).numbers : n # NoId /\ n # task[h].inst.number

ForeignAccount(h) ==
  \E a \in Content(h).accounts : a = NoId \/ a # task[h].inst.account

Foreign(h) == ForeignNumber(h) \/ ForeignAccount(h)

(* Too large (413), wrong signature (403). *)
Refusable(h) == Content(h).large \/ ~task[h].inst.secretIsMetas

(* The signature is not of the instance's app_secret. *)
Refuse(h) ==
  /\ At(h, "guards") /\ ~Content(h).large /\ ~task[h].inst.secretIsMetas
  /\ TurnAway(h)

(* A body above the cap is counted, for the alarm of OperatorAlerts. *)
RefuseTooLarge(h) ==
  /\ At(h, "guards") /\ Content(h).large
  /\ done' = [done EXCEPT ![task[h].batch]["too_large"] = @ + 1]
  /\ task' = [task EXCEPT ![h] = Idle]
  /\ UNCHANGED <<meta, posts, instance, changes, calls, consumer, alarms, answered, unwritten,
                 crashed>>

(* The isolation guard: ALARME in the log, 200, one counter. *)
Discard(h, heard) ==
  /\ At(h, "guards") /\ ~Refusable(h) /\ Foreign(h)
  /\ alarms' = alarms \cup {task[h].batch}
  /\ Tell(task[h].batch, 200, heard)
  /\ task' = [task EXCEPT ![h] = ToDo(task[h].batch, <<"discarded">>)]
  /\ UNCHANGED <<posts, instance, changes, calls, consumer, counters, crashed>>

(* Mutant: the isolation guard looks at the first check only. *)
Admit_NumbersOnly(h) ==
  /\ At(h, "guards") /\ ~Refusable(h) /\ ~ForeignNumber(h)
  /\ task' = [task EXCEPT ![h].pc = "deliver"]
  /\ UNCHANGED <<meta, posts, instance, changes, calls, consumer, alarms, answered, counters,
                 crashed>>

Admit(h) ==
  /\ At(h, "guards") /\ ~Refusable(h) /\ ~Foreign(h)
  /\ task' = [task EXCEPT ![h].pc = "deliver"]
  /\ UNCHANGED <<meta, posts, instance, changes, calls, consumer, alarms, answered, counters,
                 crashed>>

---------------------------------------------------------------------------
(* Deliverer.Deliver and the callback.                                     *)

Deliver(h) ==
  /\ At(h, "deliver")
  /\ calls' = calls \cup {[handler |-> h, batch |-> task[h].batch]}
  /\ task' = [task EXCEPT ![h].pc = "waiting"]
  /\ UNCHANGED <<meta, posts, instance, changes, consumer, alarms, answered, counters, crashed>>

(* The call never leaves: no route, bad certificate, empty CA bundle. *)
DeliverFails(h, e) ==
  /\ At(h, "deliver")
  /\ task' = [task EXCEPT ![h].pc = "verdict", ![h].error = e]
  /\ UNCHANGED <<meta, posts, instance, changes, calls, consumer, alarms, answered, counters,
                 crashed>>

Abandoned(hs) ==
  {IF c.handler \in hs THEN [c EXCEPT !.handler = Nobody] ELSE c : c \in calls}

(* Mutant: without a deadline the handler waits for the connection to break. *)
Expire_NoDeadline(h) ==
  /\ At(h, "waiting")
  /\ \E c \in calls : c.handler = h
  /\ calls' = Abandoned({h})
  /\ task' = [task EXCEPT ![h].pc = "verdict", ![h].error = "deadline"]
  /\ UNCHANGED <<meta, posts, instance, changes, consumer, alarms, answered, counters, crashed>>

(* The deadline, or Meta hanging up: the delivery goes on unheard. *)
Expire(h) ==
  /\ At(h, "waiting")
  /\ calls' = Abandoned({h})
  /\ task' = [task EXCEPT ![h].pc = "verdict", ![h].error = "deadline"]
  /\ UNCHANGED <<meta, posts, instance, changes, consumer, alarms, answered, counters, crashed>>

(* The handler hears the status, if somebody waits and it is not lost. *)
Hear(c, status, heard) ==
  /\ calls' = calls \ {c}
  /\ task' = IF heard /\ c.handler # Nobody
             THEN [task EXCEPT ![c.handler].pc = "verdict", ![c.handler].status = status]
             ELSE task

(* The consumer stores the batch; it may still answer an error. *)
ConsumerStores(c, status, heard) ==
  /\ status \in 200..299 \cup 500..599
  /\ stored' = stored \cup {c.batch}
  /\ Hear(c, status, heard)
  /\ UNCHANGED <<meta, posts, instance, changes, refused, redirected, alarms, answered, counters,
                 crashed>>

(* It does not: it is down, refuses, or is not what listens there.  A 3xx
   that is heard is one the client does not follow: 304, or no Location. *)
ConsumerDoesNotStore(c, status, heard) ==
  /\ status \notin 200..299
  /\ refused' = IF status = 404 \/ status \in 500..599 THEN refused
                ELSE refused \cup {c.batch}
  /\ Hear(c, status, heard)
  /\ UNCHANGED <<meta, posts, instance, changes, stored, redirected, alarms, answered, counters,
                 crashed>>

(***************************************************************************)
(* The callback answers 301, 302 or 303: the http.Client of the delivery   *)
(* keeps net/http's policy, so it GETs the Location without the envelope   *)
(* and the status the handler hears is that page's.                        *)
(***************************************************************************)
CallbackRedirects(c, status, heard) ==
  /\ refused' = refused \cup {c.batch}
  /\ redirected' = redirected \cup {c.batch}
  /\ Hear(c, status, heard)
  /\ UNCHANGED <<meta, posts, instance, changes, stored, alarms, answered, counters, crashed>>

---------------------------------------------------------------------------
(* The answer to Meta and what follows.                                    *)

Respond(h, heard) ==
  LET b == task[h].batch IN
  /\ At(h, "verdict")
  /\ alarms' = IF Verdict(h).alarm THEN alarms \cup {b} ELSE alarms
  /\ Tell(b, Verdict(h).meta, heard)
  /\ task' = [task EXCEPT ![h] = ToDo(b, AfterAnswer(h))]
  /\ UNCHANGED <<posts, instance, changes, calls, consumer, counters, crashed>>

(* Everything but what is kept in memory is written, and may fail to be. *)
MayFail(b, e) ==
  e \in Written /\ MapThenSumSet(LAMBDA x : unwritten[b][x], Effects) < MaxLapses

(* Mutant: a write that fails ends what the handler had left to do. *)
FollowUp_FailureEndsIt(h, written) ==
  LET b == task[h].batch e == Head(task[h].todo) rest == Tail(task[h].todo) IN
  /\ At(h, "after") /\ (written \/ MayFail(b, e))
  /\ done' = IF written THEN [done EXCEPT ![b][e] = @ + 1] ELSE done
  /\ unwritten' = IF written THEN unwritten ELSE [unwritten EXCEPT ![b][e] = @ + 1]
  /\ task' = [task EXCEPT ![h] = ToDo(b, IF written THEN rest ELSE <<>>)]
  /\ UNCHANGED <<meta, posts, instance, changes, calls, consumer, alarms, answered, crashed>>

(***************************************************************************)
(* One counter, observation or record; each is a statement of its own, and *)
(* one that cannot be written (database down, disk full) leaves a line in  *)
(* the log and nothing else: Counter.Record returns no error.              *)
(***************************************************************************)
FollowUp(h, written) ==
  LET b == task[h].batch e == Head(task[h].todo) rest == Tail(task[h].todo) IN
  /\ At(h, "after") /\ (written \/ MayFail(b, e))
  /\ done' = IF written THEN [done EXCEPT ![b][e] = @ + 1] ELSE done
  /\ unwritten' = IF written THEN unwritten ELSE [unwritten EXCEPT ![b][e] = @ + 1]
  /\ task' = [task EXCEPT ![h] = ToDo(b, rest)]
  /\ UNCHANGED <<meta, posts, instance, changes, calls, consumer, alarms, answered, crashed>>

(* The process dies; deliveries on their way still arrive. *)
Crash ==
  /\ task # [h \in Handlers |-> Idle]
  /\ task' = [h \in Handlers |-> Idle]
  /\ calls' = Abandoned(Handlers)
  /\ crashed' = TRUE
  /\ UNCHANGED <<meta, posts, instance, changes, consumer, alarms, answered, counters>>

(* Pause, activate, remove; or register again, rotate the secret: ativo is not
   among the columns these write. *)
Administer(i) ==
  /\ changes < MaxChanges /\ instance.state # "removed"
  /\ i # instance
  /\ i.state # instance.state => i = [instance EXCEPT !.state = i.state]
  /\ i.state = "removed" => instance.state = "paused"
  /\ instance' = i
  /\ changes' = changes + 1
  /\ UNCHANGED <<meta, posts, task, calls, consumer, alarms, answered, counters, crashed>>

(* What waits for Meta to send the body, and what waits for nobody but the
   delivery's deadline. *)
Reading(h) == ReadBody(h) \/ ReadFails(h)

Work(h) ==
  \/ InstanceUnavailable(h) \/ FindInstance(h)
  \/ Refuse(h) \/ RefuseTooLarge(h) \/ Admit(h) \/ Deliver(h) \/ Expire(h)
  \/ \E e \in Errors \ {"deadline"} : DeliverFails(h, e)
  \/ \E heard \in BOOLEAN : Discard(h, heard) \/ Respond(h, heard)
  \/ \E written \in BOOLEAN : FollowUp(h, written)

Step(h) == Reading(h) \/ Work(h)

Next ==
  \/ \E h \in Handlers : Step(h)
  \/ \E h \in Handlers, b \in Batches : Post(h, b)
  \/ \E c \in calls, s \in Statuses, heard \in BOOLEAN :
       ConsumerStores(c, s, heard) \/ ConsumerDoesNotStore(c, s, heard)
         \/ CallbackRedirects(c, s, heard)
  \/ \E i \in Instance : Administer(i)
  \/ Crash

Spec == Init /\ [][Next]_vars

(* Every delivery has a deadline and every statement returns; of the sender of
   the body nothing is assumed. *)
FairSpec == Spec /\ \A h \in Handlers : WF_vars(Work(h))

---------------------------------------------------------------------------
(***************************************************************************)
(* Nothing is lost in silence: once Meta has its 2xx and will not send the *)
(* batch again, the consumer has it or the log has an ALARME line for it,  *)
(* whatever was redelivered meanwhile, lost, late or cut by a crash.  Only *)
(* a redirect the client followed makes an exception.                      *)
(***************************************************************************)
SeenToBy(b) == b \in stored \/ b \in alarms

NoSilentLoss ==
  \A b \in Batches \ redirected : meta[b] = "accepted" => SeenToBy(b)

(***************************************************************************)
(* What mirror.go and its test say of 3xx: a callback that redirects is a  *)
(* misconfiguration, the loss it causes "HAS to alarm".                    *)
(***************************************************************************)
RedirectAlarms ==
  \A b \in redirected : meta[b] = "accepted" => SeenToBy(b)

(***************************************************************************)
(* Isolation: a batch that is nobody's, or names an account of another,    *)
(* never leaves for the callback, whichever goroutine handles it and       *)
(* whatever an administrator changed while it did.                         *)
(***************************************************************************)
OnlyTheirsLeaves ==
  \A c \in calls : c.handler # Nobody =>
    LET i == task[c.handler].inst IN
      /\ Batch[c.batch].numbers \subseteq {NoId, i.number}
      /\ Batch[c.batch].accounts \subseteq {i.account}
      /\ i.state = "active"

(***************************************************************************)
(* The counters and the money: what is counted never runs ahead of the 2xx *)
(* answers and attempts Meta will repeat are not billed.  Without a crash  *)
(* everything that was answered is in the end counted or named in the log  *)
(* as a write that failed: one that fails takes no other with it.          *)
(***************************************************************************)
Tried(b, e) == done[b][e] + unwritten[b][e]

Accepted(b) == Tried(b, "delivered") + Tried(b, "loss") + Tried(b, "discarded")

CountersFollowAnswers ==
  \A b \in Batches :
    /\ Accepted(b) <= answered[b]
    /\ Tried(b, "billing") <= answered[b] - Tried(b, "discarded")
    /\ (~crashed /\ \A h \in Handlers : ~At(h, "after")) =>
         /\ Accepted(b) = answered[b]
         /\ Tried(b, "billing") = Tried(b, "delivered") + Tried(b, "loss")
         /\ done[b]["alerts"] = Tried(b, "received")

(***************************************************************************)
(* A webhook is answered: a consumer that hangs holds no handler for ever. *)
(* What can hold one is a sender that never finishes its body (ReadRaw).   *)
(***************************************************************************)
WebhookIsAnswered ==
  \A h \in Handlers : ~At(h, "idle") ~> (At(h, "idle") \/ [](At(h, "read")))
=============================================================================
