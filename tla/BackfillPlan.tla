---------------------------- MODULE BackfillPlan ----------------------------
(***************************************************************************)
(* The work queue of the backfill crawler (ingest/backfill.py and          *)
(* order_windows of ingest/crawler.py): which instrument-sessions are      *)
(* short, how they are grouped into requests and in which order the        *)
(* requests are offered.  The queue has no state of its own: every         *)
(* definition here is a function of `held', the bars the corpus holds.     *)
(*                                                                         *)
(* Calendar days are numbers.  The session of day d opens at Open(d) on a  *)
(* tick axis shared by all days and runs for SessionTicks[d] ticks.        *)
(***************************************************************************)
EXTENDS Integers, FiniteSets

CONSTANTS
    Symbols,        \* the instruments of the universe
    Rank,           \* position of an instrument in the universe's own order
    Days,           \* the calendar days between --start and --end
    Trades,         \* Trades[s]: the days the venue of s holds a session
    SessionTicks,   \* SessionTicks[d]: length of the session of day d
    DayTicks,       \* ticks from one day's open to the next day's
    Interval,       \* ticks one bar spans
    WindowDays,     \* most calendar days one request may span
    Limit,          \* most windows offered in a pass, or NoLimit
    NoLimit

ASSUME PlanAssumption ==
    /\ IsFiniteSet(Symbols) /\ Symbols # {}
    /\ Rank \in [Symbols -> Nat]
    /\ \A s, t \in Symbols : Rank[s] = Rank[t] => s = t
    /\ Days \subseteq Nat /\ IsFiniteSet(Days)
    /\ Trades \in [Symbols -> SUBSET Days]
    /\ SessionTicks \in [Days -> Nat \ {0}]
    /\ DayTicks \in Nat /\ \A d \in Days : SessionTicks[d] < DayTicks
    /\ Interval \in Nat \ {0}
    /\ WindowDays \in Nat \ {0}
    /\ Limit \in (Nat \ {0}) \cup {NoLimit}

-----------------------------------------------------------------------------
(* Sessions (core/calendar.py). *)

Open(d)  == d * DayTicks
Close(d) == Open(d) + SessionTicks[d]

(* Likely mistake: [open, close] instead of (open, close].                 *)
HoldsBarClosedAtOpen(d, ts) == Open(d) <= ts /\ ts <= Close(d)

(* A bar is stamped at its close, so a session's bars lie in (open, close].*)
HoldsBar(d, ts) == Open(d) < ts /\ ts <= Close(d)

(* Bars a complete session holds: one when the bar is the whole session.   *)
ExpectedBars(d) ==
    IF Interval >= SessionTicks[d] THEN 1 ELSE SessionTicks[d] \div Interval

(* Where a complete session's bars close.                                  *)
Grid(d) ==
    IF Interval >= SessionTicks[d] THEN {Close(d)}
    ELSE {Open(d) + i * Interval : i \in 1..ExpectedBars(d)}

-----------------------------------------------------------------------------
(* plan_backfill: the sessions holding fewer bars than they should.        *)

(* Likely mistake: a session that holds something is taken for complete.   *)
ShortPresence(held, s) == {d \in Trades[s] : held[s][d] = 0}

Short(held, s) == {d \in Trades[s] : held[s][d] < ExpectedBars(d)}

Cells(held) == {c \in Symbols \X Days : c[2] \in Short(held, c[1])}
ShortDays(held) == UNION {Short(held, s) : s \in Symbols}

Newest(S) == CHOOSE d \in S : \A e \in S : e <= d
Oldest(S) == CHOOSE d \in S : \A e \in S : d <= e

-----------------------------------------------------------------------------
(* plan_windows.  The dates missing anywhere are cut into spans, each      *)
(* anchored on its newest date and grown backwards.                        *)

(* Likely mistake: a window of WindowDays + 1 days.                        *)
SpanOfInclusive(D) ==
    LET anchor[d \in D] ==
            LET newer == {e \in D : e > d}
            IN  IF newer # {} /\ anchor[Oldest(newer)] - d <= WindowDays
                THEN anchor[Oldest(newer)] ELSE d
    IN  anchor

(* SpanOf(D)[d] is the anchor of the span that day d of D falls in.        *)
SpanOf(D) ==
    LET anchor[d \in D] ==
            LET newer == {e \in D : e > d}
            IN  IF newer # {} /\ anchor[Oldest(newer)] - d < WindowDays
                THEN anchor[Oldest(newer)] ELSE d
    IN  anchor

(* One request: the short sessions of one instrument inside one span.      *)
Window == [symbol : Symbols, span : Days, days : SUBSET Days, untouched : BOOLEAN]

WindowsOfSpans(held, span) ==
    {[symbol    |-> c[1],
      span      |-> span[c[2]],
      days      |-> {d \in Short(held, c[1]) : span[d] = span[c[2]]},
      untouched |-> \E d \in Short(held, c[1]) : span[d] = span[c[2]] /\ held[c[1]][d] = 0]
        : c \in Cells(held)}

PlanWindows(held) == WindowsOfSpans(held, SpanOf(ShortDays(held)))

(* The bounds of the request: the port's range is [start + 1, end + 1), so *)
(* a bar closing exactly at the first open is not asked for.               *)
InRange(w, ts) == Open(Oldest(w.days)) + 1 <= ts /\ ts < Close(Newest(w.days)) + 1

(* Instruments within a span come in the order the plan first names them:  *)
(* newest short session first, then the universe's own order.              *)
FirstSeenBefore(held, s, t) ==
    LET newestS == Newest(Short(held, s))
        newestT == Newest(Short(held, t))
    IN  newestS > newestT \/ (newestS = newestT /\ Rank[s] < Rank[t])

PlannedBefore(held, v, w) ==
    \/ v.span > w.span
    \/ v.span = w.span /\ FirstSeenBefore(held, v.symbol, w.symbol)

(* order_windows: a stable sort that puts windows with a never-fetched     *)
(* session ahead of windows of only short ones.                            *)
OfferedBefore(held, v, w) ==
    \/ v.untouched /\ ~w.untouched
    \/ v.untouched = w.untouched /\ PlannedBefore(held, v, w)

(* The pass's list of windows: windows[:limit] of the ordered plan.        *)
Offered(held) ==
    LET windows == PlanWindows(held)
    IN  {w \in windows :
            \/ Limit = NoLimit
            \/ Cardinality({v \in windows : OfferedBefore(held, v, w)}) < Limit}

=============================================================================
