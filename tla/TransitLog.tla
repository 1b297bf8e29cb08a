----------------------------- MODULE TransitLog -----------------------------
(***************************************************************************)
(* The transit log and its follow: table transito                          *)
(* (internal/config/transit.go), written by every handler and emptied by   *)
(* `zapgw log clear` and by the hourly purge, and `zapgw log`              *)
(* (cmd/zapgw/log.go), another process, which shows new lines at each tick *)
(* of its own timer.                                                       *)
(*                                                                         *)
(* A line is known by its rowid, and SQLite gives a new row the highest    *)
(* rowid there is plus one: a rowid that was deleted comes back.           *)
(***************************************************************************)
EXTENDS Integers, FiniteSets, FiniteSetsExt

CONSTANTS
  Slugs,        \* instances
  Numbers,      \* counterparties
  Everyone,     \* the follow without --instancia
  FirstLines,   \* lines the follow shows as it starts
  MaxLines,     \* bound: lines written
  MaxDeletions  \* bound: deletions that found a line

LogAssumption ==
  /\ Everyone \notin Slugs
  /\ FirstLines \in Nat /\ MaxLines \in Nat /\ MaxDeletions \in Nat

VARIABLES
  transito,   \* the table
  lines,      \* lines written so far, which are numbered
  follow,     \* whose lines the follow asks for, and where it is
  lastRowid,  \* its cursor
  shown,      \* how often it has shown each line
  deletions,
  started,    \* the lines written when the follow started
  begun,      \* the lines written when the last whole turn began
  calm        \* nothing was deleted since then

vars == <<transito, lines, follow, lastRowid, shown, deletions, started, begun, calm>>
log == <<transito, lines, deletions>>

Rowids(rows) == {r.rowid : r \in rows}

(* SELECT MAX(rowid), 0 of an empty table. *)
Highest(rows) == Max({0} \cup Rowids(rows))

Of(slug) == IF slug = Everyone THEN transito ELSE {r \in transito : r.slug = slug}

Init ==
  /\ transito = {} /\ lines = 0 /\ deletions = 0
  /\ follow \in [pc : {"start"}, slug : Slugs \cup {Everyone}]
  /\ lastRowid = 0 /\ shown = [l \in 1..MaxLines |-> 0]
  /\ started = 0 /\ begun = 0 /\ calm = TRUE

---------------------------------------------------------------------------
(* The table.                                                              *)

WriteTransit(slug, number) ==
  /\ lines < MaxLines /\ lines' = lines + 1
  /\ transito' = transito \cup
       {[rowid |-> Highest(transito) + 1, line |-> lines', slug |-> slug, number |-> number]}
  /\ UNCHANGED <<follow, lastRowid, shown, deletions, started, begun, calm>>

Delete(rows) ==
  /\ rows # {} /\ deletions < MaxDeletions /\ deletions' = deletions + 1
  /\ transito' = transito \ rows
  /\ calm' = FALSE
  /\ UNCHANGED <<lines, follow, lastRowid, shown, started, begun>>

(* `zapgw log clear --instancia`; RemoveInstance deletes the same lines. *)
ClearInstanceTransit(slug) == Delete({r \in transito : r.slug = slug})

ClearTransitByPhone(number) == Delete({r \in transito : r.number = number})

(* The stamps are those of the lines, and the retention is months: what is *)
(* old enough was there when the last turn began.                          *)
PurgeTransit(before) == before <= begun /\ Delete({r \in transito : r.line <= before})

---------------------------------------------------------------------------
(* runLog.                                                                 *)

Show(rows) ==
  shown' = [l \in DOMAIN shown |-> shown[l] + (IF \E r \in rows : r.line = l THEN 1 ELSE 0)]

(* LastLogLines: the last ones, and the cursor behind them. *)
LastLogLines(n) ==
  {r \in Of(follow.slug) : Cardinality({q \in Of(follow.slug) : q.rowid > r.rowid}) < n}

Start ==
  /\ follow.pc = "start"
  /\ follow' = [follow EXCEPT !.pc = "wait"]
  /\ Show(LastLogLines(FirstLines))
  /\ lastRowid' = Highest(LastLogLines(FirstLines))
  /\ started' = lines /\ begun' = lines /\ calm' = TRUE
  /\ UNCHANGED log

(* Mutant: the cursor is never set back. *)
Cursor_Kept(highest) == lastRowid

Cursor(highest) == IF highest < lastRowid THEN highest - 1 ELSE lastRowid

(* A tick: HighestLogRowid, and after it, in a statement of its own, ...   *)
HighestLogRowid ==
  /\ follow.pc = "wait"
  /\ follow' = [follow EXCEPT !.pc = "read"]
  /\ lastRowid' = Cursor(Highest(Of(follow.slug)))
  /\ begun' = lines /\ calm' = TRUE
  /\ UNCHANGED <<log, shown, started>>

(* ... LogLinesSince, whose lines are shown. *)
LogLinesSince ==
  LET new == {r \in Of(follow.slug) : r.rowid > lastRowid} IN
  /\ follow.pc = "read"
  /\ follow' = [follow EXCEPT !.pc = "wait"]
  /\ Show(new)
  /\ lastRowid' = IF new = {} THEN lastRowid ELSE Highest(new)
  /\ UNCHANGED <<log, started, begun, calm>>

Next ==
  \/ \E s \in Slugs, n \in Numbers : WriteTransit(s, n)
  \/ \E s \in Slugs : ClearInstanceTransit(s)
  \/ \E n \in Numbers : ClearTransitByPhone(n)
  \/ \E before \in 1..MaxLines : PurgeTransit(before)
  \/ Start \/ HighestLogRowid \/ LogLinesSince

Spec == Init /\ [][Next]_vars

---------------------------------------------------------------------------
(* Properties.                                                             *)

Followed == Of(follow.slug)

(***************************************************************************)
(* What the follow keeps, whatever is deleted and reused: after a turn in  *)
(* which nothing was deleted it is not blind, for every line written since *)
(* that turn began is shown or beyond the cursor; a deletion repeats a     *)
(* line at most once; and without any, each new line is shown exactly once.*)
(***************************************************************************)
FollowIsNotBlind ==
  follow.pc = "wait" =>
    /\ calm => \A r \in Followed : r.line > begun => shown[r.line] > 0 \/ r.rowid > lastRowid
    /\ \A l \in DOMAIN shown : shown[l] <= 1 + deletions
    /\ deletions = 0 => \A r \in Followed :
         r.line > started => shown[r.line] = IF r.rowid <= lastRowid THEN 1 ELSE 0

(***************************************************************************)
(* "Silently losing a row is the defect this log cannot have" (log.go):    *)
(* as a turn ends, whatever was written since the follow started and is    *)
(* still in the table was shown.                                           *)
(***************************************************************************)
NoLineIsLost ==
  follow.pc = "wait" =>
    \A r \in Followed : started < r.line /\ r.line <= begun => shown[r.line] > 0
=============================================================================
