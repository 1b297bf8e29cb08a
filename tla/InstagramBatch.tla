--------------------------- MODULE InstagramBatch ---------------------------
(***************************************************************************)
(* How a batch of Instagram's webhook becomes events (internal/meta/       *)
(* instagram.go), and the question asked before it is delivered: is every  *)
(* entry this instance's account (internal/inbound/handler.go, step 5).    *)
(* The entry's id is the only proof there is, and the raw body goes along  *)
(* with the events: one entry that is not proved stops the whole batch.    *)
(***************************************************************************)
EXTENDS WebhookParts, FiniteSets

CONSTANTS
  Payloads,    \* the bodies that may arrive
  OwnIgId      \* the ig_id of the instance

VARIABLES
  payload,     \* the body received
  evs,         \* the events read from it
  unreadable,  \* what could not be read
  unmodeled,   \* items that were read and are none of what is modelled
  answer       \* what became of the batch

vars == <<payload, evs, unreadable, unmodeled, answer>>

-----------------------------------------------------------------------------
(* What each item comes to, in the order of the batch. *)

Event(mid, from, igID, when) == [is |-> "event", id |-> mid, from |-> from, account |-> igID, at |-> when]
Is(kind) == [is |-> kind]

(* An echo is left out in silence: it is no loss. *)
instagramMessageEvent(m, igID) ==
  LET msg == messageBlock(m.message, [echo |-> FALSE, mid |-> "", text |-> ""])
  IN IF Broken(m.message) THEN Is("unreadable")
     ELSE IF msg.echo THEN Is("echo")
     ELSE IF msg.mid = "" \/ msg.text = "" THEN Is("unmodeled")
     ELSE Event(msg.mid, messageBlock(m.sender, ""), igID, toUnix(m.timestamp))

IfBroken(part) == IF Broken(part) THEN <<Is("unreadable")>> ELSE <<>>

readEntry(entry) ==
  LET igID == messageBlock(entry.is.id, "")
      items == messageBlock(entry.is.messaging, <<>>)
  IN IF entry.state # "read" THEN <<Is("unreadable")>>
     ELSE IfBroken(entry.is.messaging)
          \o [i \in DOMAIN items |->
                IF items[i].state = "read" THEN instagramMessageEvent(items[i].is, igID)
                ELSE Is("unreadable")]

entriesOf(p) == messageBlock(p.entry, <<>>)

ParseInstagramWebhook(p) ==
  IF p.object
  THEN IfBroken(p.entry) \o FlattenSeq([e \in DOMAIN entriesOf(p) |-> readEntry(entriesOf(p)[e])])
  ELSE <<>>

Those(results, kind) ==
  FlattenSeq([i \in DOMAIN results |-> IF results[i].is = kind THEN <<results[i]>> ELSE <<>>])

(* The account of every entry: "" when unreadable. *)
IgIDsInPayload(p) ==
  IF p.object
  THEN {IF entry.state = "read" THEN messageBlock(entry.is.id, "") ELSE "" : entry \in ToSet(entriesOf(p))}
  ELSE {}

(* A payload as it arrives: whatever part of it may be missing or broken. *)
IsEntry(entry) ==
  /\ IsBlock(entry, {"id", "messaging"})
  /\ entry.state = "read" => IsList(entry.is.messaging)

IsPayload(p) ==
  \/ p = [object |-> FALSE]
  \/ /\ p = [object |-> TRUE, entry |-> p.entry]
     /\ IsList(p.entry) /\ \A e \in DOMAIN entriesOf(p) : IsEntry(entriesOf(p)[e])

BatchAssumption == \A p \in Payloads : IsPayload(p)

-----------------------------------------------------------------------------
(* The handler. *)

Init ==
  /\ payload \in Payloads
  /\ evs = <<>> /\ unreadable = 0 /\ unmodeled = 0
  /\ answer = "none"

(* A body that is not an object is delivered with its parse_error alone. *)
Parse ==
  LET results == ParseInstagramWebhook(payload) IN
  /\ answer = "none"
  /\ answer' = "parsed"
  /\ evs' = Those(results, "event")
  /\ unreadable' = Len(Those(results, "unreadable"))
  /\ unmodeled' = Len(Those(results, "unmodeled"))
  /\ UNCHANGED payload

Foreign == \E igID \in IgIDsInPayload(payload) : igID = "" \/ igID # OwnIgId

Discard ==
  /\ answer = "parsed" /\ Foreign
  /\ answer' = "account_discarded"
  /\ UNCHANGED <<payload, evs, unreadable, unmodeled>>

Deliver ==
  /\ answer = "parsed" /\ ~Foreign
  /\ answer' = "delivered"
  /\ UNCHANGED <<payload, evs, unreadable, unmodeled>>

Next == Parse \/ Discard \/ Deliver

Spec == Init /\ [][Next]_vars

-----------------------------------------------------------------------------
(* Properties. *)

Items ==
  UNION {{<<e, i>> : i \in DOMAIN messageBlock(entriesOf(payload)[e].is.messaging, <<>>)} :
           e \in {e \in DOMAIN entriesOf(payload) : entriesOf(payload)[e].state = "read"}}

Item(e, i) == entriesOf(payload)[e].is.messaging.is[i]

(* The payload with one entry, that entry with one item. *)
OnlyItem(e, i) ==
  [payload EXCEPT !.entry =
     Read(<<[entriesOf(payload)[e] EXCEPT !.is.messaging = Read(<<Item(e, i)>>)]>>)]

ReadAlone(e, i) == Those(ParseInstagramWebhook(OnlyItem(e, i)), "event")

Echo(e, i) ==
  /\ Item(e, i).state = "read"
  /\ messageBlock(Item(e, i).is.message, [echo |-> FALSE]).echo

(* The events of a batch are those its items give when each is read alone,  *)
(* each with the account of the entry it came in; no echo is among them.    *)
ItemsAreReadAlone ==
  answer # "none" /\ payload.object =>
    /\ \A x \in Items : Echo(x[1], x[2]) => ReadAlone(x[1], x[2]) = <<>>
    /\ ToSet(evs) = UNION {ToSet(ReadAlone(x[1], x[2])) : x \in Items}
    /\ Len(evs) = Cardinality({x \in Items : ReadAlone(x[1], x[2]) # <<>>})

(* "Part of the payload could not be read" is said exactly when that is so, *)
(* and never of an item that was read and is not modelled, which is counted *)
(* apart (ErrPartialParse, ErrUnmodeledItems).  An echo is neither: its     *)
(* message is the consumer's own, and nothing is lost with it.              *)
LossIsTold ==
  answer # "none" /\ payload.object =>
    /\ unreadable > 0 <=>
         \/ Broken(payload.entry)
         \/ \E e \in DOMAIN entriesOf(payload) :
              LET entry == entriesOf(payload)[e]
              IN entry.state # "read" \/ (entry.state = "read" /\ Broken(entry.is.messaging))
         \/ \E x \in Items : \/ Item(x[1], x[2]).state # "read"
                             \/ /\ Item(x[1], x[2]).state = "read"
                                /\ Broken(Item(x[1], x[2]).is.message)
    /\ unreadable + unmodeled + Len(evs) >=
         Cardinality({x \in Items : ~Echo(x[1], x[2])})
    /\ unmodeled > 0 <=>
         \E x \in Items : /\ Item(x[1], x[2]).state = "read"
                          /\ ~Broken(Item(x[1], x[2]).is.message)
                          /\ ~Echo(x[1], x[2]) /\ ReadAlone(x[1], x[2]) = <<>>

(* Isolation: nothing of another account leaves, neither as an event nor in *)
(* the raw body that goes along (handler.go, step 5).                       *)
DeliveredIsProven ==
  answer = "delivered" /\ payload.object =>
    /\ \A i \in DOMAIN evs : evs[i].account = OwnIgId
    /\ \A e \in DOMAIN entriesOf(payload) :
         /\ entriesOf(payload)[e].state = "read"
         /\ messageBlock(entriesOf(payload)[e].is.id, "") = OwnIgId
=============================================================================
