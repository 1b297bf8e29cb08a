---------------------------- MODULE CounterState ----------------------------
(***************************************************************************)
(* The counters of one instance and one key (internal/config/counter.go),  *)
(* the hourly purge of old days (cmd/zapgw/main.go), and what GET          *)
(* /v1/estado says of them (internal/outbound/state_handler.go).           *)
(*                                                                         *)
(* A row per day holds the count and the time of the last event.  Four     *)
(* statements outside a transaction read it for an answer that speaks of   *)
(* the instant the request came in: an event, midnight and the purge fall  *)
(* between any two of them.  A write that fails is logged and leaves       *)
(* nothing.  A tick is a part of a day.                                    *)
(***************************************************************************)
EXTENDS Integers, FiniteSets, FiniteSetsExt

CONSTANTS
  Writers,        \* the goroutines that count
  Day,            \* ticks in a day
  RetentionDays,  \* ZAPGW_TTL_COUNTERS_DAYS: 90
  ShortDays,      \* ShortSeriesDays: 7
  Patience,       \* the longest that answering takes, less than a day
  MaxNow,         \* bound: last instant of the clock
  MaxEvents       \* bound: events

CounterAssumption ==
  /\ Day \in Nat \ {0} /\ RetentionDays \in Nat \ {0} /\ ShortDays \in Nat \ {0}
  /\ Patience \in Nat /\ Patience <= Day
  /\ MaxNow \in Nat /\ MaxEvents \in Nat

VARIABLES
  now,
  contador,   \* the table: the rows [dia, n, ultimo]
  writer,     \* the time each writer read while it holds the mutex, or Idle
  answer,     \* the request for the state and what its statements have read
  counted     \* what was ever counted: the time and the day of each event, in any order

vars == <<now, contador, writer, answer, counted>>

Idle == -1
Never == -1

NoAnswer ==
  [step |-> "none", now |-> 0, days |-> 0, today |-> 0, short |-> 0,
   perDay |-> {}, last |-> Never, before |-> {}]

TypeOK ==
  /\ now \in Nat
  /\ \A row \in contador : row.dia \in Nat /\ row.n \in Nat \ {0} /\ row.ultimo \in Nat
  /\ writer \in [Writers -> Nat \cup {Idle}]
  /\ answer.step \in {"none", "today", "short", "series", "last", "told", "refused"}

dayOf(t) == t \div Day

Init ==
  /\ now = 0 /\ contador = {} /\ counted = {}
  /\ writer = [w \in Writers |-> Idle]
  /\ answer = NoAnswer

---------------------------------------------------------------------------
(* Counting: Counter.Record and IncrementCounter.                          *)

(* The mutex is free, and then the clock is read. *)
Record(w) ==
  /\ \A v \in Writers : writer[v] = Idle
  /\ Cardinality(counted) < MaxEvents
  /\ writer' = [writer EXCEPT ![w] = now]
  /\ UNCHANGED <<now, contador, answer, counted>>

RowsOf(dia) == {row \in contador : row.dia = dia}

IncrementCounter(w) ==
  LET at == writer[w]
      rows == RowsOf(dayOf(at))
      n == IF rows = {} THEN 1 ELSE (CHOOSE row \in rows : TRUE).n + 1
  IN /\ at # Idle
     /\ contador' = (contador \ rows) \cup {[dia |-> dayOf(at), n |-> n, ultimo |-> at]}
     /\ counted' = counted \cup {[n |-> Cardinality(counted) + 1, at |-> at, dia |-> dayOf(at)]}
     /\ writer' = [writer EXCEPT ![w] = Idle]
     /\ UNCHANGED <<now, answer>>

PurgeCounters ==
  /\ contador' = {row \in contador : row.dia >= dayOf(now - RetentionDays * Day)}
  /\ UNCHANGED <<now, writer, answer, counted>>

---------------------------------------------------------------------------
(* Reading: StateHandler.state and SummarizeCountersWithSeries.            *)

Read(changes) ==
  /\ answer' = changes
  /\ UNCHANGED <<now, contador, writer, counted>>

(* A window larger than the retention is refused, "never silently shortened". *)
seriesWindow(days) ==
  /\ answer.step = "none"
  /\ Read([NoAnswer EXCEPT !.step = IF days > RetentionDays THEN "refused" ELSE "today",
                           !.days = days, !.now = now, !.before = counted])

(* SUM(n) of some rows: their units, each day's its own. *)
Units(rows) == UNION {{row.dia} \X (1 .. row.n) : row \in rows}
Total(rows) == Cardinality(Units(rows))
Between(since, until) == Total({row \in contador : row.dia \in since..until})

Today == dayOf(answer.now)
Longest == IF answer.days > ShortDays THEN answer.days ELSE ShortDays

ReadToday ==
  /\ answer.step = "today"
  /\ Read([answer EXCEPT !.step = "short", !.today = Between(Today, Today)])

ReadShort ==
  /\ answer.step = "short"
  /\ Read([answer EXCEPT !.step = "series", !.short = Between(Today - (ShortDays - 1), Today)])

(* Both series are suffixes of one read. *)
ReadSeries ==
  /\ answer.step = "series"
  /\ Read([answer EXCEPT !.step = "last",
                         !.perDay = {row \in contador : row.dia \in (Today - (Longest - 1)) .. Today}])

LastEventPerKey ==
  /\ answer.step = "last"
  /\ Read([answer EXCEPT !.step = "told",
                         !.last = IF contador = {} THEN Never ELSE Max({row.ultimo : row \in contador})])

(* The clock.  A statement and an answer take far less than a day. *)
Tick ==
  /\ now < MaxNow
  /\ answer.step \in {"today", "short", "series", "last"} => now - answer.now < Patience
  /\ \A w \in Writers : writer[w] # Idle => now - writer[w] < Patience
  /\ now' = now + 1
  /\ UNCHANGED <<contador, writer, answer, counted>>

Next ==
  \/ \E w \in Writers : Record(w) \/ IncrementCounter(w)
  \/ PurgeCounters
  \/ \E days \in 1 .. RetentionDays + 1 : seriesWindow(days)
  \/ ReadToday \/ ReadShort \/ ReadSeries \/ LastEventPerKey
  \/ Tick

Spec == Init /\ [][Next]_vars

---------------------------------------------------------------------------
(* Events of the day, among those of a history. *)
OfDay(history, dia) == Cardinality({e \in history : e.dia = dia})
Since(history, first) == Cardinality({e \in history : e.dia \in first..Today})

Shown(dia) == LET rows == {row \in answer.perDay : row.dia = dia}
              IN IF rows = {} THEN 0 ELSE (CHOOSE row \in rows : TRUE).n

(* The days the answer has to know: those asked for, and the short window,  *)
(* which is always shown, when the retention is no shorter.                 *)
Known ==
  {dia \in (Today - (Longest - 1)) .. Today :
     \/ dia > Today - answer.days
     \/ RetentionDays >= ShortDays /\ dia > Today - ShortDays}

(***************************************************************************)
(* What GET /v1/estado says of a day is what was counted on it, no less    *)
(* than when the request came in and no more than when it was answered:    *)
(* no day it has to know comes out as a zero that was not measured,        *)
(* though the purge runs and midnight passes meanwhile.  The numbers read  *)
(* first are at most the ones read later.  (They need not be equal: the    *)
(* events between two statements are in the second only.)                  *)
(* The last event is one of those days', the latest one or a later one,    *)
(* and there is one whenever a number is not zero.                         *)
(***************************************************************************)
NumbersAreOfTheirDays ==
  answer.step = "told" =>
    /\ \A dia \in Known :
         OfDay(answer.before, dia) <= Shown(dia) /\ Shown(dia) <= OfDay(counted, dia)
    /\ OfDay(answer.before, Today) <= answer.today /\ answer.today <= Shown(Today)
    /\ RetentionDays >= ShortDays =>
         /\ Since(answer.before, Today - (ShortDays - 1)) <= answer.short
         /\ answer.short <= Total({row \in answer.perDay : row.dia > Today - ShortDays})
    /\ answer.last \in {Never} \cup {e.at : e \in counted}
    /\ \A e \in answer.before : e.dia \in Known => answer.last >= e.at
    /\ (\E dia \in Known : Shown(dia) > 0) => answer.last # Never
=============================================================================
