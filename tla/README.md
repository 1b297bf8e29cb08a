# zapgw in TLA+

zapgw is a gateway, written in Go, between applications ("consumers") and the Graph API of
Meta (WhatsApp Business and Instagram). A consumer posts a message and the gateway sends it;
Meta posts webhooks and the gateway delivers them to the consumer's callback. It keeps one
SQLite database and **no message**: what it owes to either side is decided by one row of an
idempotency table and by the status codes it answers. This directory holds TLA+ models of the
parts where that is hard, the configurations TLC checks them with, and proofs for TLAPS.

    tlc -workers 2 -config OutboundSend_one_key.cfg MCOutboundSend.tla
    tlapm OutboundSendProofs.tla       (and InboundDeliveryProofs, MetaRoutesProofs,
                                        TemplatesProofs, InstanceLifecycleProofs, FailoverProofs,
                                        ControlPlaneProofs, TranslationsProofs)

Contents: [inventory](#inventory) · [plan](#plan) · [modules](#modules) · [runs](#runs) ·
[fairness](#fairness) · [proofs](#proofs) · [disagreements](#where-the-code-and-its-documents-disagree) ·
[not modelled](#what-is-not-modelled).

## Inventory

Paths are relative to `src/`. "Hard" names what a unit test would hardly reach.

| Component | State | Operations | Hard | What makes it correct |
|---|---|---|---|---|
| Send, `internal/outbound/handler.go`, `internal/meta/client.go` | table `idempotencia` (`internal/config/store.go`), counters | reserve, call Meta, confirm or release, count, purge | concurrent retries of one key, lost or late answers, a crash between two statements, the purge | one message per key and retention; a 200 names the message of this very request; a key is never lost for good |
| Body of a send, `message.go`, `input_aliases.go`, `body.go` | none | validate, normalise aliases, hash the request | one request in two spellings; a field that belongs to another type | however it is written it is one request with one hash and one body for Meta, or is refused; nothing is left out in silence; an Instagram contact's id is not taken for a phone number |
| Inbound webhook, `internal/inbound/handler.go`, `deliver.go`, `mirror.go`, `billing.go` | cache of HTTP clients, rejection counter | check, isolate, deliver, mirror, count | Meta's redelivery to another goroutine, a slow or dead consumer, the instance changing meanwhile | nothing is lost in silence, nothing foreign is delivered, an alarm needs a person, counters follow the answers even if some of them cannot be written |
| Parsing of batches, `internal/meta/parse.go`, `instagram.go` | none | JSON to events, and the accounts it names | unreadable parts anywhere | an item is read whatever its neighbours are, a loss is told, nothing unproved is delivered |
| Alerts, `internal/alert/tracker.go`; `rejectionCounter` of `internal/inbound/handler.go` | windows and series per instance, in memory | Observe | several windows at once, no timer, restart | every loss is told, bursts are aggregated, recoveries make sense |
| Instances, `internal/config/store.go`, `smoke*.go`, `registration_handler.go`, `pause_handler.go`, `cmd/zapgw/provision.go` | table `instancia` and the tables keyed by slug | create, register, rotate, reopen, smoke test, pause, remove | a smoke test that lasts seconds beside everything else, transactions of two statements | only what was proved becomes active, numbers die with the instance, one registration window |
| Leadership, `leadership.go` | lease file written by a supervisor | Holder, Require | a request let in and served late, lagging replication | one machine acts at a time; only what was not replicated can go out twice |
| Post-mortem, `internal/config/forensics.go`, `cmd/zapgw/lost.go` | two databases, read only | compare | the successor goes on writing | what is at risk is listed |
| Instagram tokens, `instagram_renewer.go`, `internal/meta/instagram.go` | `token_definido_em`, `token_renovado_em`, map of failures | hourly round, renew, store | rotation and removal during a call, a call that hangs, a failed write | the stored date never promises too much; failures are told; a token does not expire in silence |
| Monitors, `watchdog.go`, `ingress.go`, `external_probe.go`, `internal/config/number.go`, `certificate.go` | last measurements, in memory and in tables | tick, measure, read | two measurements out of order, verdicts that age | a verdict describes now or says unknown |
| State and health, `state.go`, `health_handler.go`, `account_health_handler.go`, `cmd/zapgw/state.go`, `diagnostics.go` | none | read, format | reads that race writers | what is shown is what was stored |
| Counters, `internal/config/counter.go` | one serialised writer, table `counter` | record, purge, report | midnight and the purge between two reads, a removed instance | counts follow events, and a report shows of each day what was counted on it |
| Transit log, `internal/config/transit.go`, `cmd/zapgw/log.go`, `transit.go` | table `transito` | write, purge, follow by rowid | rowids SQLite reuses | the follow is never blind, and shows each line once as long as nothing is deleted |
| Templates, `templates_handler.go`, `internal/meta/templates.go` | counter `templates_apagados` | create, delete, list, reread | answers that get lost, a catalogue that lags, other people at the same name | after a 201 nothing is lost by not creating again, `apagado` is true, a doubt is called a doubt, rereading ends |
| Pass-through routes, `media_handler.go`, `uploads_handler.go`, `reads_handler.go`, `block_handler.go`, `profile_handler.go` and their `internal/meta` halves | two counters of reads | guards, one to three calls, one answer; streams in both directions | calls done after nobody waits, streams that break, the cap met in the middle of one | a class is the truth about the call, only whole files within the cap are stored, nothing but its own consumer holds a request |
| Storage, `store.go`, `crypto.go` | schema, migrations, encrypted columns | open, migrate, encrypt | a migration cut short | a migration runs once, wholly |
| Start-up and commands, `cmd/zapgw/*.go` | environment, flags | serve, purge hourly, print | — | — |
| Fake Graph API, `cmd/fakegraph` | test double | — | — | — |

How they interact. Every handler is a goroutine of `net/http`; the goroutines share the
database (each statement is atomic, transactions are optimistic: one that has read may write
only if nobody committed since) and a few mutex-protected maps. Send and inbound talk to
Meta and to callbacks, which may answer anything, late, or not at all. The timers (renewer,
watchdog, probes, purges) are one goroutine each. Inbound feeds the alert tracker, the
counters, the transit log and the certificate observer *after* it has answered. The smoke
test is the only path to `ativo = 1`. Leadership wraps the outbound route only.

## Plan

In the order of what matters most. All but the eleventh are done.

1. **OutboundSend** with the abstract **SendContract** it implements: the one place where a
   mistake puts a second message on somebody's phone. *Done, with proofs.*
2. **InboundDelivery**: the one place where a message is lost. **RejectionCounter**: its ALARME
   about bodies above the cap. *Done.*
3. **AlertTracker**: what the operator is told. *Done, with proofs.*
4. **InstanceLifecycle**: what may become active. *Done, with proofs, but for consumers
   and links.*
5. **Failover**: two machines and the post-mortem. *Done, with proofs.*
6. **InstagramRenewal**. *Done, with proofs.*
7. **Templates** and **MetaRoutes** over **MetaErrors**: every other route to Meta, checked
   against "what the consumer is told is what Meta did". *Done, with proofs.*
8. Monitors: **Watchdog**, **NumberAtMeta**, **CallbackCertificate**, **Probe**. *Done,
   with proofs.*
9. Translations: **MessageBody** (over **MessageRequest**, **MessageAliases**, **Phone**),
   **WebhookBatch** and **InstagramBatch** (over **WebhookParts**). *Done; the two batches
   with proofs.*
10. **TransitLog** with its follow, **CounterState** with its reports. *Done, with proofs.*
11. Consumers, their tokens and links (each operation is one statement or one transaction that
    only writes), and the migrations (one transaction each). Left.
12. Proofs of the safety properties of every module above but those of a send's body: *done*.

Abstract specifications worth stating: SendContract (done); for inbound, a contract of
"batch held by Meta, by the consumer, or by an alarm"; for the monitors, "a verdict and its age".

## Modules

Every constant that only bounds the exploration is called `Max...` and commented as a bound.
Definitions named `X_Something` just before `X` are deliberate mistakes, used to see that a
property can fail; the specifications never use them.

**OutboundSend** — `Handler.send` once per request. `idempotencia` is the table (an id of 0 is
the empty column), `task` what each goroutine is doing, `wire` the calls on their way, and
`messages`, `acked`, `counted` what happened. One action per statement or call:
`ReserveInsert` and `ReserveLookup` are the two statements of `ReserveIdempotency`, so another
request, a release or the purge fits between them. Meta decides a call on its own
(`MetaCreates`, `MetaDoesNotCreate`), also after the handler timed out or died
(`Abandoned`). `Tick` lets no held reservation grow older than `Deadline`: that is
`InstanceDeadline`, and `Deadline < TTL` is the assumption the code makes without stating it
(30 s against 72 h). A row left by a binary that stored no hash is in `Legacy`.

**SendContract** — the promise without the mechanism: taking a free key grants one attempt; an
attempt creates one message or comes to nothing; the key returns only if nothing was sent, or
Meta disowned what it created. `OutboundSend!KeepsTheContract` maps rows to keys and calls
(about to leave, or on their way) to attempts.

**InboundDelivery** — `Handler.receive`: find the instance, its guards, the isolation checks
5a/5b, the delivery and its HTTP client, `ConsumerVerdict` (mirror.go), then the answer to Meta,
then each effect in the order of the code. A batch is what the guards can tell apart: the
numbers and accounts in it, `NoId` for one that is unreadable, and whether it is above the cap.
`Administer` changes the instance at any time. Reading the body (`ReadBody`, `ReadFails`) is a step
of its own, which waits for Meta. `done` has what was recorded, `unwritten` the records whose write
failed: `Counter.Record` leaves a line in the log and nothing else (`internal/config/counter.go:797`),
and so do the billing and the transit log.

**RejectionCounter** — `rejectionCounter.record`, one action, as it holds its mutex throughout.

**AlertTracker** — the in-memory bookkeeping an alarm depends on; each `Observe` runs under a
mutex and is one action. Times are ticks.

**InstanceLifecycle** — one slug over several lives. `RegisterMeta` and `RemoveInstance` are
transactions of two statements; `tx[w].fresh` is SQLite's rule that a transaction which read
may write only if nothing was committed in between. The smoke test is five steps with
everything else in between. A consumer's send is two: it reads an active row (`ConsumerAsks`) and
counts `enviadas` when Meta has answered (`ConsumerIsAnswered`), by when the instance may be paused,
removed and created again. `sending` has the lives with a send under way, `outlived` the lives of
which a send or a test was under way when they were removed.

**Failover** — two machines, the lease in the consensus store, the lease *file* the gateway
reads, the replication of the table, a request let in by `Require` and served later, and the
comparison of `zapgw lost`. The supervisor, etcd and litestream are external: they do what
leadership.go's comments require of them. `takeovers` counts the failovers; a message remembers
the `term` of its database, which is the takeover the database stems from, and `restored` the rows
a takeover found replicated. With them the two properties can be said of any number of takeovers:
a key goes out once from each database, never from one that restored it, and the post-mortem is
about the database of the machine that fell *last*, not about what the same machine sent before it
fell another time.

**InstagramRenewal** — the round of `Check`, `checkOne` split at its call to Meta and at its
write, the failure map, and the verdict of `GET /v1/estado`. A tick is a day. A token the owner sets
may be of any age in `Ages` (`spent`): nobody asks Meta, the row is dated the day it is set.
(`RegisterMeta` refuses an Instagram instance, so its tokens come from the creation and the rotation.)

**Watchdog** — `checkOne` from the row it reads to the verdict it records, with its two calls
(with `fields=`, and without, when the first is refused) under one deadline, and `Read`, which
lets a verdict age. The owner rotates, pauses, removes and creates; Meta refuses a token or
retires a field at any time. `last` says when each thing was last so.

**NumberAtMeta** — the row of a number and its three writers: the check of the server, the check
`zapgw state` makes in its own process, and the webhook of a new limit. Each stamps first and
writes later.

**CallbackCertificate** — deliveries, each dated at its start, over connections that are kept; the
row is always overwritten by the one that finishes last.

**Probe** — the connector's and the external probe as one memory that ages: what was measured,
since when attempts fail, and how long either is believed.

**TransitLog** — the table with the rowids SQLite gives, the three ways its rows are deleted, and
the follow, which reads the highest rowid and then the new lines, in two statements.

**CounterState** — the table of counters by day, the mutex around the clock and the write, the
purge, and the four statements an answer of `GET /v1/estado` reads. A total is the number of
`Units` of its rows, one for each time a row was counted up, so that it can be reasoned about
without a sum over a set.

**MessageRequest**, **MessageAliases**, **Phone**, **MessageBody** — one request on its way from the
consumer's JSON to Meta's: `translateRequestBody` position by position, decoding, `Validate` with
what it normalises and what it refuses of each type, `RequestHash`, `MetaBody`. A text is its
length, its kind and the spaces around it. What the consumer *means* is the normal form; the
spelling it chooses is the environment's. The type of the instance is looked up after the validation
and the hash (`OnInstagram`): an Instagram instance refuses all but text, and gets a body of its own
(`InstagramBody`) with the text and the address as it was written, trimmed and not canonical.

**WebhookParts**, **WebhookBatch**, **InstagramBatch** — one batch on its way from Meta's JSON to
events. Each part of a payload was read, is absent or is unreadable. `ParseWebhook` adds up, in
turn, results that carry their events and their losses; `ParseInstagramWebhook` gives one outcome
per item. `BatchAssumption` is the shape of what the decoder leaves, whatever arrives. The actions
are the questions the handler asks before it delivers.

**MetaErrors** — the class of a status and a code of Meta.

**Templates** — one template name in several languages. `entry` is Meta's truth, `shown` what
its catalogue lists, which follows by `CatchUp` at any time and one language at a time, and
never goes back. `task` holds what the handler remembers between its calls: the entries the
pre-read found, the attempts of `spacedRereadsOf` and the status of the entry a 201 lists;
`confirmed` is the 201 that rests on a reread. Meta does or refuses a call on its own
(`MetaCreates`, `MetaDeletes`, `MetaRefuses`), also after nobody waits; a deletion burns the
name in every language, may leave entries pending (`ending`), and somebody at the WhatsApp
Manager works on the same name. The guards in front of the call change nothing and are one
action (`Refuse`).

**MetaRoutes** — eleven routes as data: a route is the sequence of its calls, a call is the
method of `meta.Client` with what it checks, parses, changes and streams, and with the function
that words its failures (`tells`). The actions are those of any handler: guards, a call that
leaves or not, its answer or the lack of one, the next call. `PassOn`, `EndBody` and `BreakBody`
are the consumer's body on its way through the pipe of `UploadMedia` and the `cappedReader`;
`CopyOn` and `CopyReturns` are `io.Copy` of a download. A file is its number of chunks. `CountFails`
is the counter of a read that cannot be written; `unwritten` has the reads it happened to.

**OutboundSendProofs** (and its refinement of SendContract), **InboundDeliveryProofs**,
**MetaRoutesProofs**, **TemplatesProofs**, **InstanceLifecycleProofs**, **FailoverProofs**,
**ControlPlaneProofs**, **TranslationsProofs** — theorems; see [proofs](#proofs).

**MC...** — values of constants that a .cfg cannot write. Two of them are unions: **MCTranslations**
has the sides `send`, `webhook` and `instagram`, **MCControlPlane** one side for each component that
runs beside the messages. The sides share no state that any of them decides on; a behaviour takes
one side and keeps it, and each property of the union speaks of the side it is about. The sides
take their constants from those of MCControlPlane, which a .cfg gives values to and
ControlPlaneProofs does not.

## Runs

| Run | What it asks | Instance, and why it is enough |
|---|---|---|
| `send_one_key` | one message per key, honest acknowledgement, safe release, contract kept, every request answered, every key freed | Two handlers, one key, two requests, three reservations, four ticks with a retention of two: a retry can meet its rival before, during and after the retention, a release can meet a later reservation, a row of an older binary is met. Keys are independent rows, so one is enough; a third handler adds no pair of statements that two cannot form. 125 thousand states. |
| `inbound_webhooks` | no silent loss, counters behind answers, only theirs leaves, no webhook is held but by its sender | An account event, one nobody can name and a body above the cap, each posted up to twice to two goroutines (one attempt at a time), one administrative change, one failed write per batch (`MaxLapses`: the next effect of the same handler, or another attempt's, comes after it), statuses of the classes 2xx, 3xx and 5xx. The 404 and the other 4xx are met in the next run. 277 thousand states. |
| `inbound_redirect` | *violated*: a 3xx alarms | see below |
| `templates_doubt` | after a 201 nothing is lost by not creating again, `apagado` is true, doubts are owned up, rereading ends | a deletion beside a creation or another deletion, two languages, three rereads (the code has four; the loop is first, middle, last), one change made by hand, one refusal, one limit and one server error. 357 thousand states. |
| `routes` | a class is the truth, whole files within the cap, what was left and counted is told, nothing but its consumer holds a request | any of the eleven routes beside a read; a cap of one chunk and files of up to three, so that each file is below, at, just above or far above it. Requests meet in the counters only, so two are enough. 35 thousand states. |
| `routes_download` | *violated*: a partial download is noticed | see below |
| `translations` | one request and one body for Meta whatever its spelling, old names counted, nothing vanishes; items read alone, losses told, only the proven delivered | a good request of each of the thirteen types, and a text to an Instagram contact whose id looks like a phone number, with one or two fields said otherwise (left out, blank, too long, misplaced, out of its enumeration), in Portuguese, English, both mixed, with spaces, with a key said twice; batches of two items, changes or entries, of which any part is missing or unreadable. Fields are checked one by one or in pairs, and items one after the other, so two of a kind meet every rule. 59 thousand states. |
| `control_plane` | everything beside the messages, side by side | see the next table. 2.9 million states in all. |
| `failover_at_risk`, `renewal_hang`, `watchdog_fields`, `log_follow` | *violated* | see below |

| Side of `control_plane` | What it asks | Bounds |
|---|---|---|
| alerts | losses told, series and recoveries make sense | five deliveries, five ticks, one restart; every window is two ticks, so each can be open, at its border and expired |
| rejections | a burst is told, and not for every body | a threshold of two in a window of two, seven bodies in five ticks, one restart: three windows with an alarm each |
| lifecycle | only what was proved is active, one window, removal, numbers die with the instance | one smoke test, consumers' sends of any life, two concurrent transactions, two lives of the slug, three ticks around a window of one |
| pair | who may act, what can go out twice, what is listed | two machines, two requests, one key, a lease of two, three takeovers, lag and crash: with a third one a machine that fell comes back, and a message can be older than the last failover |
| renewal | dates, failures, the owner's token, announced expiry | one instance (instances share only the goroutine), six days with a validity of four, renewal from two, three tokens, new or a day old when they are set (`Ages`: so old that the date is wrong, so young that it is not expired yet), one restart |
| watchdog | a verdict describes now | validity and deadline of one, three ticks, two tokens: a verdict can be fresh, at its end and too old |
| number | the newest observation stays | two checks and a webhook, three updates, two limits |
| certificate | how old what is shown can be | two deliveries, a timeout of two, connections kept for one tick, two swaps of the certificate |
| probe | a value shown describes now | a validity of two, a deadline of one, six ticks, one restart |
| counters | a number of a day is what was counted on it | days of two ticks, a retention of three days, a short window of two, two writers, two events, eight ticks: the purge and midnight can fall between any two reads |
| log | the follow is not blind | two slugs, three lines, two deletions |

What they show. With the exceptions below, the code keeps each property in every interleaving
of these instances. Some properties state what the code keeps rather than what one might
wish, and the difference is in their comments: `OneMessagePerKey` excepts a message Meta
disowned by a 5xx; `NoLossIsForgotten` holds within one life of the process, and promises the
ALARME for twice the threshold less one; `ExpiryWasAnnounced` holds as long as the goroutine did
not hang for days; `ObservationsAreRecent` lets an older certificate come back within a delivery's
timeout; `OnlyUnguardedFieldsVanish` names, per type, the fields `Validate` has no guard for;
`CountersFollowAnswers` and `WhatWasLeftIsTold` except the writes that failed, of which the log has
a line; `UnexpiredIsAccepted` allows the date of a token that was old when it was set to be wrong by
that age; `NumbersDieWithTheInstance` excepts a life of which a send was under way when it was
removed; `CreatedIsThere` is what a 201 is good for, not what it says; and
`FollowIsNotBlind` is what the follow keeps of "no line is lost".

`CHECK_DEADLOCK FALSE` is set where the bounds really end the system (all requests answered, all
batches delivered or posted as often as the bound allows, the clock at its last instant, all tokens issued, the one request
or batch translated).

## Fairness

Only where a property needs it. Send: weak fairness of each handler's own steps — statements return,
and the call has a deadline (`InstanceDeadline`), so `TransportFailure` is always possible while a
handler waits; the model begins when the body has been read, and nothing is assumed of Meta or of the
consumer. Inbound: the same for what comes after the body (`Work`; the delivery's context sees to
`Expire`). Reading the body is not under fairness: `ReadRaw` waits for the sender and the server has
no read timeout (`cmd/zapgw/main.go:644`), so `WebhookIsAnswered` says that a handler is answered or
is reading a body for ever, and nothing is assumed of Meta. Templates: a call and a wait always end
by their deadlines (`InstanceDeadline`, `RereadWaits`); nothing is assumed of Meta's catalogue.
MetaRoutes: a call ends by `InstanceDeadline` or `mediaDeadline`, but not while the consumer's file is
open (`BodyIsOpen`): `http.Do` waits for the body it was given (`meta/upload.go:195`), and
`part.Close` reads the rest of a part before the answer leaves (`media_handler.go:226`). `UnheldStep`
leaves these out, the consumer's steps have no fairness, and `EveryRequestIsAnswered` says that a
request is answered or held for ever by its own consumer, which sends or receives a file.
The purge runs hourly from a timer, and the clock advances. The
violations are safety violations and need no fairness.

## Proofs

The theorems of **OutboundSendProofs** are about `OutboundSend` for every number of handlers, consumers, keys, requests,
every retention and deadline, from `SendAssumption` alone (the deadline is shorter than the
retention; the markers `NoHash`, `Nobody` are no values). `MaxNow` and `MaxReservations` are any
naturals; `Handlers` need not be finite.

`OneMessagePerKey` is not inductive. The strengthening `IInv` of OutboundSendProofs says how a
message, a call and a row of one key exclude one another in time:

- `TypeOK`, `IsFiniteSet(messages)` (ids are counted), `PrimaryKey` (one row per key), `Past`
  (nothing was reserved later than now), `InTime` (a held reservation is younger than
  `Deadline`, therefore never old enough to be purged);
- `HolderOwnsItsRow` and `SoleHolder`: a handler that may confirm or release finds its own row,
  and no two handlers hold one;
- `WireOwner`, `ClaimsApart`: calls and attempts of one key belong to reservations that are more
  than the retention apart;
- `CleanReservation`: a handler about to release has no call on its way and no message that was
  not disowned; `RowIsKept`: the row of a message or of a call stays until the retention passed;
- `IdsAreReal`: an id in a row or in a task is that of a message of this key and request.

`Init => IInv` and one lemma per action give `Invariance`; the theorems follow. `KeyIsFreedSafely`
is an action property proved from `IInv` before and after the step. `HandlersKeepTheContract`
proves `Spec => Contract!Spec` with the mapping given in OutboundSend: one lemma per action shows
it is a step of SendContract or a stutter.

The theorems of **MetaRoutesProofs** are about `MetaRoutes` for every set of requests, any files,
cap and refusals, from `RoutesAssumption` (the bounds are naturals, a refusal is no 2xx) and
`WantedAssumption` (requests ask for routes there are): `ClassIsTheTruth`
(`NothingHappenedIsTrue`), `StoredFilesFit` (`MediaFitsItsCap`), `LeftIsTold`
(`WhatWasLeftIsTold`) and `TypeCorrect`. The requests share nothing but counters, so the
invariant is `Good(r)` for one request and the lemma `Local` carries it over to the others.
`Good` is:

- `InOrder`: an answer is given once, a handler is at a call of its route, and only a download
  copies, after its last call;
- `FileFits`: an end is the end of a whole file within the cap. Why it is: an upload has passed at
  most the cap unless it is broken (`cappedReader`), and `uploads` was admitted by its length;
- `StoredIsComplete`: Meta stores a body only when it has its end. This is why the 413 of an
  overflow, which overrules whatever the call says, is the truth (`OverflowIsNotStored`);
- `ToldIsTrue`: the property for one request.

The lemmas `Streams`, `Changes`, `CappedRoute`, `TellsClasses` are what the argument needs of the
table of routes: a stream is the last call of its route, and a change without an answer is
unknown on every route but the profile's.

`LeftIsTold` has an argument of its own, over `Good`. `StepsHaveShapes` reduces the actions to five
shapes: a request goes on, makes its next call, is told, is counted, or its counter could not be
written. `BehindInv` says of one request
which call its step names and that only a read Meta marked is told ok; `CountInv` says of all of
them that the counters are sizes of sets of requests. There may be infinitely many requests:
that the sets are finite (`IsFiniteSet`) is part of the invariant, as a step moves one element
(`OneMoves`) and a crash only takes away. The failures counted lie between those answered to their
end and those told, less the ones still due, because a refusal before the call counts as nothing.

The theorems of **InboundDeliveryProofs** are about `InboundDelivery` for every set of goroutines
and batches, whatever the batches carry, any callback statuses, any number of posts and changes,
from `InboundAssumption` alone: `LossIsNeverSilent` (`NoSilentLoss`), `IsolationHolds`
(`OnlyTheirsLeaves`), `CountersFollow` (`CountersFollowAnswers`) and `TypeCorrect`. Neither of the
first two is inductive: what a handler answers
is decided from what it remembers, while the instance changes, calls are abandoned and the process
dies. The invariant adds:

- `TaskIsTrue`: a handler past the lookup read an active instance, one with a call
  ahead or under way passed both isolation guards for an active instance (`AdmittedIsTheirs`), and
  a 2xx it remembers is one its batch was stored with, or that of a page it was led to;
- `CallIsTheirs`: a call that names a handler is the one it waits for, with its batch, so an
  answer is heard by its own handler only. An abandoned call names nobody (`Abandoned`).

`MirrorIsTrue` is the heart of the argument: a verdict of 2xx without an alarm comes from a 2xx
heard (`ConsumerVerdict`). The exception of followed redirects is in the property itself; without
it the property is false (`inbound_redirect`).

`CountersFollow` needs a sum. `CountInv` says for each batch that what was counted, plus the
handlers that have it still to count (`Due`, finite sets) and the writes that failed (`unwritten`), is
what was answered, and no more than that after a crash; for outcomes, for money (a bill or a discard) and for alerts. A step moves one
handler into such a set or out of it, because what an answer leaves to count has one effect of each kind
(`AfterAnswerLeaves`, `OnceEach`): this is where `CounterKeys` and `ConsumerVerdict` have to agree.

The theorems of **TemplatesProofs** are about `Templates` for every set of requests and languages,
any statuses and codes of Meta, any lag, any rereads and whatever people do by hand, from
`TemplatesAssumption`: `CreatedIsTrue` (`CreatedIsThere`), `DeletedIsTrue` (`DeletedIsGone`) and
`DoubtIsTold` (`DoubtIsOwnedUp`). What a handler knows of Meta is old when it answers, so the
invariant keeps what cannot be undone: an entry shown was made (`CatalogueIsPast`), an entry made
and not live was burned (`EntryIsTrue`), an entry the pre-read listed ceases to be listed as live
only by being burned (`FoundIsTrue`), and a call that was performed left its mark (`CallIsTrue`), and
stays performed. That the name is taken after a 201 is `EntryIsTrue` of an entry that was made.
`WorldMoves` shows once for Meta, its catalogue and people that no step takes a mark back.

**InstanceLifecycleProofs** is about `InstanceLifecycle` for any number of smoke tests and
connections, any credentials, window, clock and lives: `ActiveWasProved`,
`RegistrationsFitOneWindow`, `SentIsOwnedUp`, `NumbersDieWithTheInstance` and the action property
`RemovalFindsItPaused`. Everything between two steps of a test or of a transaction may touch the row. The
invariant says what survives it: a transaction that is still fresh sees what it read (`TxIsTrue`),
hence the window it checked is the one it writes into; a test nobody touched stands before the life
and credentials it read (`SmokeIsTrue`); an active row has an activator whose message Meta accepted
(`ActivatorIsTrue`). Of the numbers it says that a life with a send or a test under way is the current
one or is in `outlived` (`NumbersAreTrue`), so that what is counted late is excepted.

**FailoverProofs** is about `Failover` for any number of machines, requests, keys and takeovers, any
lease and any validity of the file below it (`Validity < LeaseTTL`, which leadership.go requires):
`PairActsAsOne` and `PostMortemIsRight`. The invariant joins three arguments. `FileIsTrue`: the
file of a machine that is not the holder is too old already, so `HolderHoldsTheLease`. `TermsAreTrue`
and `RestoredStays`: the holder's database stems from the last takeover, the fallen machine's from
the one before, and a restored row comes through every later failover. `RowsAreTrue`,
`MessagesAreTrue`, `SentOnce`, `TaskIsTrue`, `Exclusive`: within one term a key is reserved by one
request, a restored key by none, a row that was not restored has the id of its message, and a
message its row. Two messages of one key are therefore of different terms, and the earlier one was
not in what the later began with.

**ControlPlaneProofs** is about `MCControlPlane` for every value of its constants, from
`ControlPlaneAssumption`. A behaviour keeps its side, so the invariant is one invariant per side:
the two above, and

- `NumberInv`: a check at work is within its deadline, and the limit it was told has been Meta's
  since it began, hence a limit in the row was seen at Meta at most a deadline before its stamp
  (`InTime`); the columns of the limit are those of the newest update that has one, the time of the
  check is that of the newest measurement (`NewestValue`, `NewestCheck`). One statement writes both,
  each under a condition of its own (`number.go`).
- `CertificateInv`: a delivery at work began at most a timeout ago and sees what was served at most
  `KeepAlive` before; so what is written last is never much older than what it overwrites.
- `ProbeInv`: what was answered was so since it was asked, what is kept was so at most a question
  before it was written, and `failingSince` is set whenever the last attempt failed.
- `WatchdogInv`: with a history of when each token, and each token with the fields, was last
  accepted or refused; a check remembers only what was noted since it began (`CheckIsTrue`), a
  verdict only what a check was told (`VerdictIsTrue`).
- `LogInv`: rowids grow with the lines that are left (`InOrder`), and the cursor is not beyond the
  last line followed unless a deletion put it there (`Reached`). `RepeatedRarely`, `Sighted` and
  `ShownOnce` then count how often a line was shown after how many deletions.
- `AlertInv`: the counter of a series is the number of the failures since the last accepted
  delivery, and its start the first of them (`SeriesInv`), and a series that was alerted has its
  message and knows the last one (`Alerted`); with them a reminder and a recovery are earned.
- `RejectionInv`: every refusal is numbered from the one that anchored its window, which is younger
  than a window (`Anchored`); in one life a window opens only when the one before is over
  (`OpenedAfter`). A burst therefore has its ALARME, and of three the outer two are a window apart.
- `RenewalInv`: the renewal stamps a token with the day its round began and the owner's with the day it
  is set, hence a stored date promises no more than Meta gave and the age the owner's token had
  (`InstanceIsTrue`, `RenewerIsTrue`). `DueIsTried` is why no token expires
  untried: a token as old as `RenewAge` was tried, is being tried, or is still ahead of a round of
  this day, which does not end before a whole round did. It is needed because a round can be cut
  short by a restart, or miss an instance that could not be read. `MinAge > 0` is assumed: the 24 h
  of `instagram_renewer.go` are one tick. (With an age of zero to renew at, an instance created
  behind the round would be due and not tried.)
- `CounterInv`: one goroutine at a time holds a clock reading, and it is later than all that is
  counted (`OneHolds`); each day has one row, of its last event (`RowsAreDays`); the days the purge
  has spared are counted in full (`DaysAreKept`); and each statement of a report is bracketed by
  what was counted when it was asked for and what is counted now (`ReportInv`). It holds through
  midnight and the purge because the purge spares one day more than a report can ask for, and a
  report takes less than a day (`Patience`).

Lemmas that several sections use: `LeastNumber` and `GreatestNumber` (a set of naturals has a least
element, a bounded one a greatest), from the well-foundedness of finite subsets, since the
induction theorems take an operator; the division lemmas of the counters' days; and
`SameCardinality`, as an instance has a `Cardinality` of its own.

**TranslationsProofs** is about `MCTranslations` for any payloads of WhatsApp and Instagram:
`ItemsAlwaysReadAlone` (`ItemsAreReadAlone`), `LossAlwaysTold` (`LossIsTold`) and
`DeliveredAlwaysProven` (`DeliveredIsProven`), from `TranslationsAssumption`, which says of a payload
only that it has the shape the decoder leaves: of each part that was read, the lists are sequences
and the blocks have their fields; any part may be missing or unreadable. The run takes two items,
changes or entries at a time; the theorems take any number, which is where `ParseWebhook` could go
wrong: what an entry loses must not depend on the ones around it.

The invariant `WhatWasRead` is small: once a batch was parsed, the events and the losses are those
that `ParseWebhook` or `ParseInstagramWebhook` finds in it, and one that was delivered passed the
questions of isolation. The work is in what those functions find.
Reading in turn (`InTurn`) and flattening are recursive functions of an index, so each fact about
them is an induction on it: the elements of a flattened sequence are those of its members, its
length is their sum, and a sum of losses is positive exactly if one of them is. The library's
induction theorems take an operator, hence `LeastNumber`: the set of the indices where a fact fails
would have a least one. From there `ItemResult`, `VisitResult`, `EntryWalk` and `ParsedBatch`
follow the items up to their payload, and `OnlyItemComesTo`, `OneItemParsed` say that the payload
which holds one item alone comes to the same for it. For Instagram, where each item has one outcome, the two counts of
losses are sizes of sets of items (`DisjointSum`).

The proof found a mistake of the model: `LossIsTold` counted a broken `messages` list as a loss in a
change of the account as well, where the code never looks at it and rightly tells nothing. No payload
of the run had one; now one has (`AlertBesideBrokenList`), and the property says what is a loss where.

Model-checked only:

- liveness (`RequestIsAnswered`, `KeyIsFreedInTheEnd`, `WebhookIsAnswered`,
  `EveryRequestIsAnswered`, `TemplateIsAnswered`), which the prover cannot do;
- `SpellingDoesNotMatter` and `OldNamesAreCounted`: a request's second name for a key is added
  with `@@` and `:>`, and a number's digits are read with SelectSeq, neither of which the prover
  expands. A proof would need both rewritten, and a lemma for each of the levels a request nests
  to; it has not been made;
- `OnlyUnguardedFieldsVanish`: MetaBody's objects are built with `@@` and `:>` as well, and a button's
  index is written as a string (ToString).

These last three hold on the spellings and fields the runs enumerate, and nothing more is claimed
for them.

The modules that MCControlPlane instantiates have their constants constrained by plain definitions
(`AlertAssumption`, ...), since an ASSUME does not come through INSTANCE; `ControlPlaneAssumption`
asserts all of them, TLC evaluates it on the run, and the theorems rest on it.

## Where the code and its documents disagree

With a run:

1. `inbound_redirect`. The delivery's `http.Client` (`internal/inbound/deliver.go:126`) follows
   301/302/303 with a GET without the envelope; the page's 200 is mirrored as delivered.
   `mirror.go:155` and `mirror_test.go:154` want a 3xx to alarm.
2. `failover_at_risk`. `CompareFailover` (`internal/config/forensics.go:144`) compares keys with a
   database the successor has gone on writing; a retry made before the post-mortem hides the
   duplicate and `zapgw lost` prints "NOTHING AT RISK".
3. `renewal_hang`. The renewer's call to Meta has no deadline (`instagram_renewer.go:308`, client
   built in `cmd/zapgw/main.go:499`), and one goroutine renews all instances.
4. `routes_download`. When `io.Copy` fails in the middle of a media (`media_handler.go:405`) the
   handler returns normally and `net/http` ends the chunked response properly: the consumer sees a
   whole 200. `docs/CONTRATO-CONSUMIDOR.md:4714`: "a correct HTTP client reports an incomplete read".
5. `watchdog_fields`. When Meta refuses the call with `fields=` and the confirmation without them
   does not get through, the first error stays (`watchdog.go:312`) and the credential is shown as
   refused; `watchdog.go:288`: "`recusado` NEVER comes out of a call that used `fields=`".
6. `log_follow`. The follow notices a deletion by a highest rowid below its cursor (`log.go:241`).
   Rows deleted and written again between two turns bring the rowid back to the cursor, and the new
   line is never shown; `log.go:230`: "Silently losing a row is the defect this log cannot have".

Met while modelling, without a run:

- `ActivateInstance` (`outbound/smoke.go:244`) is unconditional: a smoke test in flight overrules
  a pause (`CONTRATO-CONSUMIDOR.md:351`: "Coming back requires a new smoke test").
- The profile's routes call the lack of an answer `retryable` with 503
  (`outbound/profile_handler.go:307`); `CONTRATO-CONSUMIDOR.md:4898` has 502 and `unknown`.
- An app id of a wrong shape is answered with the step `session` although no session was asked for
  (`outbound/uploads_handler.go:176`, `meta/upload.go:123`); `CONTRATO-CONSUMIDOR.md:4802`: the step
  "only ever names a Meta call that was actually attempted".
- An invalid `phone_number_id` of the instance is `config` and an ALARME on every route but
  `POST /v1/media`, where it is `permanent` (`outbound/media_handler.go:418`).
- The length of the whole multipart body is compared with the cap of the file
  (`outbound/media_handler.go:262`): a file a few bytes below its cap is refused with 413.
- A consumer that stops reading a download holds its goroutine beyond `mediaDeadline`
  (`media_handler.go:56` says the deadline is there so that this cannot happen); the server has no
  write timeout.
- A template found by the reread of a creation is reported as created (201; "the template exists",
  "the creation HAD happened", `templates_handler.go:1199, 1203`; "ele FOI criado", line 64) whatever
  its status, PENDING_DELETION included (line 1380). It may have been there before, or be another's, or be deleted
  by now while the catalogue lags: the call itself may never have been performed. `CreatedIsThere` says
  what is left: the name is taken, so that obeying "NAO tente criar de novo" loses nothing.
- Each of up to four rereads has a deadline of its own (`templates_handler.go:1402`); the comments
  (lines 858, 1169) and `CONTRATO-CONSUMIDOR.md:4445` count two deadlines in all.
- `templates_apagados` counts a deletion the reread accepted although another request or a person
  may have done it (`templates_handler.go:700`).
- If `ConfirmIdempotency` fails, a retry inside the retention is answered 409, not with the same
  id (`CONTRATO-CONSUMIDOR.md:1658`, `outbound/handler.go:626-637`, which logs it as an ALARME).
- A 5xx of Meta after it created the message frees the key (`CONTRATO-CONSUMIDOR.md:2669`,
  `outbound/handler.go:596`); docs/ARMADILHAS.md:1436 accepts it. The model has it as `disowned`.
- The sum of `last_7_days_series` and `last_7_days` are read by two statements (`counter.go:699, 709`)
  and differ by the events in between; `CONTRATO-CONSUMIDOR.md:3519` says they match exactly.
  (`CounterState!NumbersAreOfTheirDays` has "at most", and fails with "equal".)
- With a retention below seven days (`ZAPGW_TTL_COUNTERS_DAYS`) the seven-day numbers show zeros
  for days that were purged, although `state_handler.go:163` has a window larger than the retention
  refused, "never a silently shortened series".
- `name` and `address` inside `cabecalho.localizacao` are not translated and vanish with a 200
  (`input_aliases.go:361`); `CONTRATO-CONSUMIDOR.md:1914` calls it "the same object as
  the `localizacao` message type", whose English names are translated (`input_aliases.go:279`).
- "The latest observation is the only one that describes NOW" (`certificate.go:59`), but a slower,
  older delivery overwrites a newer one, and a connection that is kept shows the certificate of its
  handshake.
- Losses waiting in an open window vanish with the process (`alert/tracker.go:35` says never
  silently).
- The ALARME window is anchored at its first refusal (`inbound/handler.go:873`), so three refusals
  within an hour may fall in two windows and stay untold, and two ALARMEs may come minutes apart;
  `CONTRATO-CONSUMIDOR.md:5425` has "from 3 refusals ... within 1 h" and "at most one per hour".
- `ativa_desde` is the last event `enviadas`, not the activation (`smoke_handler.go:132, 222`).
- An instance removed during its smoke test: the 404 hides that the message was sent
  (`smoke_handler.go:252`).
- Two smoke tests at once both send a message; credentials registered during one are activated
  unproved (`smoke.go:124, 244`).
- The registration answer says PAUSED also for an active instance (`registration_handler.go:320`).
- The condition `V + A < T` (`leadership.go:83`) leaves out the time between `Require` and the
  action, which the server does not bound (no read timeout); the smoke route is not guarded.
- A removal deletes the counters so that a slug used again shows none "from another life"
  (`config/store.go:1569`), but a send or a smoke test under way counts `enviadas` after it, up to a
  deadline later, in a table without a foreign key (`outbound/handler.go:473, 641`).
- A token the owner sets is dated the day it is set, however old it is (`config/store.go:1431-1439`):
  its expiry is told too late by that age, and Meta may refuse it before. Setting the same token again
  restarts its date; `store.go:1200-1203` says that this "at worst ... moves the next renewal check up a
  little, never delays it".
- Two Instagram contacts whose ids have one canonical form as phone numbers have one `RequestHash`
  (`outbound/handler.go:440, 458`): a send to the second under the key of the first is answered with the
  first one's id, and not with 422.
- `responder_a` is accepted for a text of an Instagram instance and vanishes with a 200
  (`outbound/handler.go:574`; `Validate` does not know the type of the instance).
- A consumer or a sender that stalls in the middle of its body holds its goroutine as long as it likes
  (`inbound/handler.go:230`, `meta/upload.go:195`, `media_handler.go:226`); no deadline covers it.
- The renewer's map of failures survives a rotation or a removal and is lost at a restart.
- A token the owner sets while a renewal is at work is overwritten by it (`OwnersTokenIsKept`
  names this case `overtaken`).

## What is not modelled

Consumers, their tokens and links: each operation is one statement, or one transaction that only
writes. The migrations: each is one transaction, so nothing can be seen of one that was cut short.
The registration of a number at Meta, which the command line calls once and which leaves nothing
in the gateway. How the state and the account's health are put together from what was read.
Encryption, signatures and TLS, which are taken as fields that match or do not; the command line,
menus and formatting; the fake Graph API. For each, PROJECT.json says why.

Simplifications inside the models: SQLite statements are atomic and serialised (WAL, one writer);
the clock does not go backwards; Meta's catalogue lags but does not go
back; a crash loses nothing that was committed, except on the other
machine in Failover; times are ticks, so "younger than" is exact only to a tick.

Of the translations: JSON `null` and keys in another case are not written by the consumer, and an item
`null` of a webhook's list, which the decoder leaves as an empty struct, is a block with every field
absent; the
trimming of enumeration values is left out; the `variaveis` of a body and the inner fields of a
contact are not trimmed, as in the code; what a text says is its length and its kind; of a block of
a webhook's message only whether it was read is kept. In CounterState a write that fails leaves
nothing and is not a step, and a read is assumed to take less than a day (`Patience`), of which the
code's extra day of retention is the reason it is enough.
