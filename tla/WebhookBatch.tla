---------------------------- MODULE WebhookBatch ----------------------------
(***************************************************************************)
(* How a batch of Meta's webhook becomes events (internal/meta/parse.go),  *)
(* and the two questions asked before it is delivered: is it this          *)
(* instance's number, is it this instance's account (internal/inbound/     *)
(* handler.go, steps 5a and 5b).                                           *)
(*                                                                         *)
(* What the blocks of a message say is left out; kept is which of them     *)
(* were read.  A key made of pieces is a sequence.                         *)
(***************************************************************************)
EXTENDS WebhookParts

CONSTANTS
  Payloads,    \* the bodies that may arrive
  Own          \* the waba_id and the phone_number_id of the instance

VARIABLES
  payload,     \* the body received
  evs,         \* the events read from it
  ignored,     \* items that did not become an event
  answer       \* what became of the batch

vars == <<payload, evs, ignored, answer>>

-----------------------------------------------------------------------------
(* Events: none, or one. *)

messageEvent(m, waba, number) ==
  LET id == messageBlock(m.id, "")
      kind == messageBlock(m.type, "")
      noTarget == /\ kind = "reaction" /\ m.reaction.state # "unreadable"
                  /\ messageBlock(m.reaction, "") = ""
      noPlace == kind = "location" /\ m.location.state = "absent"
      told == {b \in {"text", "reaction", "location"} : m[b].state = "read"}
  IN IF id = "" \/ noTarget \/ noPlace THEN <<>>
     ELSE <<[id |-> <<"msg", id>>, number |-> number, waba |-> waba, told |-> told]>>

statusEvent(s, waba, number) ==
  LET id == messageBlock(s.id, "")
      told == {b \in {"pricing"} : s[b].state = "read"}
  IN IF id = "" THEN <<>>
     ELSE <<[id |-> <<"status", id, messageBlock(s.status, "")>>,
             number |-> number, waba |-> waba, told |-> told]>>

(* Two of the keys have an id that must be there; the others have none, and *)
(* must only tell the event from its neighbours.  The time is the batch's.  *)
Required == [template_status |-> {"id", "event"}, template_category |-> {"id", "new"}]

keyDistinguishesSomething(said) == \E k \in DOMAIN said : said[k] # ""

accountEvent(field, value, waba, when) ==
  LET said == [k \in ToSet(Pieces[field]) |-> textFromNumberOrString(value.is[k])]
      keyed == IF field \in DOMAIN Required THEN \A k \in Required[field] : said[k] # ""
               ELSE keyDistinguishesSomething(said)
  IN IF value.state # "read" THEN <<>>
     ELSE IF ~keyed THEN <<>>
     ELSE <<[id |-> <<field>> \o [i \in DOMAIN Pieces[field] |-> said[Pieces[field][i]]] \o <<when>>,
             number |-> "", waba |-> waba, told |-> {}]>>

-----------------------------------------------------------------------------
(* Reading one thing after the other: each gives its events and counts what *)
(* it lost, whatever became of its neighbours.                              *)

Nothing == [events |-> <<>>, ignored |-> 0]
Lost == [events |-> <<>>, ignored |-> 1]

(* Mutant: what gives no event is not counted. *)
Became_Uncounted(e) == [events |-> e, ignored |-> 0]

Became(e) == IF e = <<>> THEN Lost ELSE [events |-> e, ignored |-> 0]
Both(a, b) == [events |-> a.events \o b.events, ignored |-> a.ignored + b.ignored]
InTurn(results) ==
  LET upTo[i \in 0..Len(results)] == IF i = 0 THEN Nothing ELSE Both(upTo[i - 1], results[i])
  IN upTo[Len(results)]

itemEvent(list, item, ent, number) ==
  IF list = "messages" THEN messageEvent(item, ent.waba, number)
  ELSE statusEvent(item, ent.waba, number)

(* Mutant: the list is read in one piece, and lost with any of its items. *)
readItems_AtOnce(value, list, ent, number) ==
  LET items == messageBlock(value[list], <<>>)
  IN IF Broken(value[list]) \/ \E i \in DOMAIN items : items[i].state # "read"
     THEN Lost
     ELSE InTurn([i \in DOMAIN items |-> Became(itemEvent(list, items[i].is, ent, number))])

(* An item that is not a JSON object is lost alone. *)
readItems(value, list, ent, number) ==
  LET items == messageBlock(value[list], <<>>)
  IN IF Broken(value[list]) THEN Lost
     ELSE InTurn([i \in DOMAIN items |->
                    IF items[i].state = "read"
                    THEN Became(itemEvent(list, items[i].is, ent, number)) ELSE Lost])

(* Messages and statuses; the metadata, which names the number, may be lost *)
(* without losing them.                                                     *)
readValue(ent, value) ==
  IF value.state = "unreadable" THEN Lost
  ELSE IF value.state = "absent" THEN Nothing
  ELSE LET number == messageBlock(value.is.metadata, "")
       IN Both(readItems(value.is, "messages", ent, number),
               readItems(value.is, "statuses", ent, number))

visit(ent, field, value) ==
  IF field \in DOMAIN Pieces THEN Became(accountEvent(field, value, ent.waba, ent.when))
  ELSE readValue(ent, value)

-----------------------------------------------------------------------------
(* The walk over entries and changes, shared by the two readers of a body: *)
(* what was read of each change, and a loss for what could not be read.    *)

entriesOf(p) == messageBlock(p.entry, <<>>)
changesOf(entry) == messageBlock(entry.is.changes, <<>>)

entryRead(entry) ==
  [waba |-> messageBlock(entry.is.id, ""), when |-> toUnix(entry.is.time)]

Unread == [read |-> FALSE]
UnreadIf(part) == IF Broken(part) THEN <<Unread>> ELSE <<>>

walkChange(ent, change) ==
  IF change.state # "read" THEN <<Unread>>
  ELSE UnreadIf(change.is.field) \o
       <<[read |-> TRUE, ent |-> ent, field |-> messageBlock(change.is.field, ""),
          value |-> change.is.value]>>

walkEntry(entry) ==
  IF entry.state # "read" THEN <<Unread>>
  ELSE LET changes == changesOf(entry)
       IN UnreadIf(entry.is.changes) \o
          FlattenSeq([c \in DOMAIN changes |-> walkChange(entryRead(entry), changes[c])])

forEachChange(p) ==
  LET entries == entriesOf(p)
  IN IF p.object
     THEN UnreadIf(p.entry) \o FlattenSeq([e \in DOMAIN entries |-> walkEntry(entries[e])])
     ELSE <<>>

ParseWebhook(p) ==
  LET walk == forEachChange(p)
  IN InTurn([i \in DOMAIN walk |->
               IF walk[i].read THEN visit(walk[i].ent, walk[i].field, walk[i].value)
               ELSE Lost])

(* The account of every change that is not of messages: "" when unreadable. *)
AccountWabaIDsInPayload(p) ==
  LET walk == forEachChange(p)
  IN {walk[i].ent.waba : i \in {j \in DOMAIN walk : walk[j].read /\ walk[j].field # "messages"}}

Lists == {"messages", "statuses"}

(* A payload as it arrives: whatever part of it may be missing or broken. *)
IsValue(value, field) ==
  /\ IsBlock(value, Lists \cup {"metadata"}
                    \cup (IF field \in DOMAIN Pieces THEN ToSet(Pieces[field]) ELSE {}))
  /\ value.state = "read" => \A list \in Lists : IsList(value.is[list])

IsChange(change) ==
  /\ IsBlock(change, {"field", "value"})
  /\ change.state = "read" => IsValue(change.is.value, messageBlock(change.is.field, ""))

IsEntry(entry) ==
  /\ IsBlock(entry, {"id", "time", "changes"})
  /\ entry.state = "read" =>
       IsList(entry.is.changes) /\ \A c \in DOMAIN changesOf(entry) : IsChange(changesOf(entry)[c])

IsPayload(p) ==
  \/ p = [object |-> FALSE]
  \/ /\ p = [object |-> TRUE, entry |-> p.entry]
     /\ IsList(p.entry) /\ \A e \in DOMAIN entriesOf(p) : IsEntry(entriesOf(p)[e])

BatchAssumption == \A p \in Payloads : IsPayload(p)

-----------------------------------------------------------------------------
(* The handler. *)

Init ==
  /\ payload \in Payloads
  /\ evs = <<>>
  /\ ignored = 0
  /\ answer = "none"

(* A body that is not an object is delivered with its parse_error alone. *)
Parse ==
  /\ answer = "none"
  /\ answer' = "parsed"
  /\ evs' = ParseWebhook(payload).events
  /\ ignored' = ParseWebhook(payload).ignored
  /\ UNCHANGED payload

ForeignNumber == \E i \in DOMAIN evs : evs[i].number \notin {"", Own.number}

(* Mutant: an account that cannot be read passes. *)
ForeignAccount_UnreadablePasses ==
  \E waba \in AccountWabaIDsInPayload(payload) : waba # "" /\ waba # Own.waba

(* What cannot be read cannot be proved to be the instance's. *)
ForeignAccount == \E waba \in AccountWabaIDsInPayload(payload) : waba = "" \/ waba # Own.waba

DiscardNumber ==
  /\ answer = "parsed"
  /\ ForeignNumber
  /\ answer' = "number_discarded"
  /\ UNCHANGED <<payload, evs, ignored>>

DiscardAccount ==
  /\ answer = "parsed"
  /\ ~ForeignNumber
  /\ ForeignAccount
  /\ answer' = "account_discarded"
  /\ UNCHANGED <<payload, evs, ignored>>

(* The raw body goes along, with what was read of it. *)
Deliver ==
  /\ answer = "parsed"
  /\ ~ForeignNumber /\ ~ForeignAccount
  /\ answer' = "delivered"
  /\ UNCHANGED <<payload, evs, ignored>>

Next == Parse \/ DiscardNumber \/ DiscardAccount \/ Deliver

Spec == Init /\ [][Next]_vars

-----------------------------------------------------------------------------
(* Properties. *)

Changes ==
  UNION {{<<e, c>> : c \in DOMAIN changesOf(entriesOf(payload)[e])} :
           e \in {e \in DOMAIN entriesOf(payload) : entriesOf(payload)[e].state = "read"}}

(* The payload with one entry, that entry with one change. *)
Only(e, change) ==
  [payload EXCEPT !.entry =
     Read(<<[entriesOf(payload)[e] EXCEPT !.is.changes = Read(<<change>>)]>>)]

(* The change with one item of one of its lists. *)
Items(change) ==
  IF change.state = "read" /\ change.is.value.state = "read"
  THEN UNION {{<<list, i>> : i \in DOMAIN messageBlock(change.is.value.is[list], <<>>)} : list \in Lists}
  ELSE {}

OnlyItem(change, list, i) ==
  [change EXCEPT !.is.value.is =
     [k \in DOMAIN @ |-> IF k = list THEN Read(<<@[k].is[i]>>)
                         ELSE IF k \in Lists THEN Absent ELSE @[k]]]

Alone(e, c) ==
  LET change == changesOf(entriesOf(payload)[e])[c]
  IN IF Items(change) = {} THEN {Only(e, change)}
     ELSE {Only(e, OnlyItem(change, x[1], x[2])) : x \in Items(change)}

(* "An event we don't know how to read cannot discard the ones after it"     *)
(* (parse.go): the events of a batch are those its items give when each of   *)
(* them is read alone, with nothing but what contains it.                    *)
ItemsAreReadAlone ==
  answer # "none" /\ payload.object =>
    ToSet(evs) = UNION {UNION {ToSet(ParseWebhook(q).events) : q \in Alone(x[1], x[2])} : x \in Changes}

(* "Counted, never silently discarded" (parse.go): the delivery says that    *)
(* something was lost exactly when some part has a shape that is not read,   *)
(* or an item that is there gives no event.                                  *)
BrokenChange(e, c) ==
  LET change == changesOf(entriesOf(payload)[e])[c]
  IN \/ change.state # "read"
     \/ /\ change.state = "read"
        /\ \/ Broken(change.is.field)
           \/ Broken(change.is.value)
           \/ \E x \in Items(change) :
                ParseWebhook(Only(e, OnlyItem(change, x[1], x[2]))).events = <<>>
           \/ messageBlock(change.is.field, "") \in DOMAIN Pieces
                /\ ParseWebhook(Only(e, change)).events = <<>>
           \/ /\ messageBlock(change.is.field, "") \notin DOMAIN Pieces
              /\ change.is.value.state = "read"
              /\ \E list \in Lists : Broken(change.is.value.is[list])

LossIsTold ==
  answer # "none" /\ payload.object =>
    (ignored > 0 <=>
       \/ Broken(payload.entry)
       \/ \E e \in DOMAIN entriesOf(payload) :
            LET entry == entriesOf(payload)[e]
            IN entry.state # "read" \/ (entry.state = "read" /\ Broken(entry.is.changes))
       \/ \E x \in Changes : BrokenChange(x[1], x[2]))

(* Isolation, of the events and of the raw body that goes along (handler.go, *)
(* steps 5a and 5b): in a delivered batch every event names the instance's   *)
(* number, or comes from a change whose account was compared; only a         *)
(* messages change whose metadata cannot be read goes by its path alone.     *)
(* Nothing of another account's changes is delivered, read or not.           *)
NamesNoNumber(e, c) ==
  LET change == changesOf(entriesOf(payload)[e])[c]
  IN /\ messageBlock(change.is.field, "") = "messages"
     /\ change.is.value.state = "read"
     /\ messageBlock(change.is.value.is.metadata, "") = ""

DeliveredIsProven ==
  answer = "delivered" /\ payload.object =>
    \A x \in Changes :
      LET entry == entriesOf(payload)[x[1]]
          change == changesOf(entry)[x[2]]
      IN change.state = "read" /\ ParseWebhook(Only(x[1], change)).events # <<>> =>
           \/ messageBlock(entry.is.id, "") = Own.waba
           \/ /\ messageBlock(change.is.field, "") = "messages"
              /\ messageBlock(change.is.value.is.metadata, "") = Own.number
           \/ NamesNoNumber(x[1], x[2])
=============================================================================
