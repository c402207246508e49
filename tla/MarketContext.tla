--------------------------- MODULE MarketContext ---------------------------
(***************************************************************************)
(* What a backtest lets a strategy know: strategies/context.py over        *)
(* features/resolver.py (the window each feature reads), features/levels.py *)
(* (the session's anchors) and features/cross_section.py (the universe one *)
(* tick ago).  Time is in minutes.  A bar's numbers are abstracted to the  *)
(* instant of its close, so that a return or a feature names the bars it   *)
(* was computed from: what may be looked at, not what it is worth.         *)
(***************************************************************************)
EXTENDS Integers, Sequences, SequencesExt, FiniteSets, FiniteSetsExt

CONSTANTS
  Symbols,      \* the universe, in the order symbols sort
  Sessions,     \* Sessions[d] = [open, close] of day d
  Lookbacks,    \* bars each declared feature needs
  Trailing,     \* _trailing_minutes
  BetaMemory,   \* BETA_MEMORY
  Benchmark,    \* Benchmark[s][d]: what s is regressed on at day d, or "none"
  WantSection   \* the strategies with needs_cross_section

(* A universe is a list of symbols; a calendar, of days one after another.  *)
ASSUME ContextAssumption ==
  /\ Symbols \in Seq(Range(Symbols))
  /\ Sessions \in Seq([open : Nat, close : Nat])
  /\ \A c, d \in DOMAIN Sessions : c < d => Sessions[c].close <= Sessions[d].open
  /\ Lookbacks \in SUBSET Nat /\ IsFiniteSet(Lookbacks)
  /\ Trailing \in Nat /\ Trailing > 0

VARIABLES
  key,          \* the bar observed last
  history,      \* FeatureResolver._history, by symbol
  levels,       \* SessionLevelTracker._levels: day and last print, by symbol
  tick,         \* the tick being assembled; 0 before the first
  pending,      \* _pending: a partial function from symbols to rows
  closed,       \* _closed, the section of the last closed tick, or NoSection
  day,          \* _sessions: the day each symbol is in; 0 before its first
  profile,      \* _trailing: by symbol, minute of session |-> print
  returns       \* _returns: by symbol, completed day |-> last print

contextVars == <<key, history, levels, tick, pending, closed, day, profile, returns>>

Universe == Range(Symbols)
Days == DOMAIN Sessions
NoLevels == [day |-> 0, print |-> 0]
NoSection == [as_of |-> 0, rows |-> <<>>]

Empty == [x \in {} |-> 0]
Put(f, x, v) == [y \in DOMAIN f \cup {x} |-> IF y = x THEN v ELSE f[y]]

ContextInit ==
  /\ key = <<>>
  /\ history = [s \in Universe |-> <<>>]
  /\ levels = [s \in Universe |-> NoLevels]
  /\ tick = 0 /\ pending = Empty /\ closed = NoSection
  /\ day = [s \in Universe |-> 0]
  /\ profile = [s \in Universe |-> Empty]
  /\ returns = [s \in Universe |-> Empty]
-----------------------------------------------------------------------------
(* A bar is stamped with its close: open-exclusive, close-inclusive. *)
Holding(ts) == {d \in Days : Sessions[d].open < ts /\ ts <= Sessions[d].close}

Lookback == IF Lookbacks = {} THEN 0 ELSE Max(Lookbacks)

LastOf(seq, n) == SubSeq(seq, Len(seq) - n + 1, Len(seq))

(* Trimmed in batches: only past twice the lookback, back to the lookback. *)
Trimmed(bars) == IF Len(bars) > 2 * Lookback THEN LastOf(bars, Lookback) ELSE bars

Remember(bars, ts) == IF Lookback = 0 THEN bars ELSE Trimmed(Append(bars, ts))

(* FeatureSpec.evaluate: nothing until warm, then the last n bars. *)
Window(bars, n) == IF Len(bars) < n THEN <<>> ELSE LastOf(bars, n)
-----------------------------------------------------------------------------
Newest(days, n) == {d \in days : Cardinality({e \in days : e > d}) < n}

Keep(f, days) == [d \in days |-> f[d]]

(* _roll_session: the finished day's return is that of its last minute. *)
ReturnOf(prints) == prints[Max(DOMAIN prints)]

Rolled(s, l) ==
  IF day[s] \in {0, l.day} \/ profile[s] = Empty
    THEN returns[s]
    ELSE LET longer == Put(returns[s], day[s], ReturnOf(profile[s]))
         IN Keep(longer, Newest(DOMAIN longer, 2 * BetaMemory))

Profile(s, l) == IF day[s] = l.day THEN profile[s] ELSE Empty

MinuteOf(l, ts) == ts - Sessions[l.day].open

(* _trailing_return: measured from the print exactly Trailing minutes ago. *)
TrailingSince(prints, minute) ==
  {prints[m] : m \in DOMAIN prints \cap {minute - Trailing}}

(* _beta: the newest days that both have completed, when there are enough. *)
BetaByPosition(own, market) ==
  LET back(days, d) == Cardinality({e \in days : e > d})
      paired == {pair \in Newest(DOMAIN own, BetaMemory) \X DOMAIN market :
                   back(DOMAIN own, pair[1]) = back(DOMAIN market, pair[2])}
  IN {[day |-> pair[1], own |-> own[pair[1]], market |-> market[pair[2]]] : pair \in paired}
Beta(own, market) ==
  LET shared == Newest(DOMAIN own \cap DOMAIN market, BetaMemory)
  IN IF Cardinality(shared) < BetaMemory THEN {}
     ELSE {[day |-> d, own |-> own[d], market |-> market[d]] : d \in shared}

BenchmarkAt(s, d) == Benchmark[s][d]

(* The row of s that observe assembles from its levels at ts. *)
Row(s, l, ts, since, beta) ==
  [ts |-> ts, day |-> l.day, print |-> l.print, since |-> since, beta |-> beta]

(* _residual_of: filled when the tick closes, against the benchmark's row. *)
Against(s) ==
  LET market == BenchmarkAt(s, day[s])
  IN IF market \notin DOMAIN pending \/ pending[s].beta = {} THEN {}
     ELSE {[day |-> pending[market].day, print |-> pending[market].print]}

ClosedTick ==
  [as_of |-> tick,
   rows |-> [s \in DOMAIN pending |->
             LET row == pending[s]
             IN [ts |-> row.ts, day |-> row.day, print |-> row.print, since |-> row.since,
                 beta |-> row.beta, against |-> Against(s)]]]

CloseIfPast(ts) == IF tick # 0 /\ ts > tick THEN ClosedTick ELSE closed

(* CrossSectionTracker.observe, called with the symbol's levels at ts. *)
Fold(s, l, ts) ==
  LET minute == MinuteOf(l, ts)
      prints == Put(Profile(s, l), minute, l.print)
      history_of == [returns EXCEPT ![s] = Rolled(s, l)]
      market == BenchmarkAt(s, l.day)
      beta == IF market \notin Universe THEN {} ELSE Beta(history_of[s], history_of[market])
  IN /\ closed' = CloseIfPast(ts)
     /\ tick' = ts
     /\ day' = [day EXCEPT ![s] = l.day]
     /\ profile' = [profile EXCEPT ![s] = prints]
     /\ returns' = history_of
     /\ pending' = Put(pending, s, Row(s, l, ts, TrailingSince(prints, minute), beta))

(* SessionLevelTracker.update leaves a symbol alone outside every session. *)
LevelsAfter(s, ts) ==
  IF Holding(ts) = {} THEN levels[s]
  ELSE [day |-> CHOOSE d \in Holding(ts) : TRUE, print |-> ts]

(* MarketContext.observe; the key makes a repeated bar a no-op. *)
AlreadyObserved(bar) == key = <<bar.symbol, bar.ts>>

Observe(bar) ==
  LET s == bar.symbol
      l == LevelsAfter(s, bar.ts)
  IN IF AlreadyObserved(bar) THEN UNCHANGED contextVars
     ELSE /\ key' = <<s, bar.ts>>
          /\ history' = [history EXCEPT ![s] = Remember(@, bar.ts)]
          /\ levels' = [levels EXCEPT ![s] = l]
          /\ IF l = NoLevels \/ WantSection = {}
               THEN UNCHANGED <<tick, pending, closed, day, profile, returns>>
               ELSE Fold(s, l, bar.ts)

(* MarketContext.__call__, for a strategy that declares every feature. *)
SectionOf(wants) == IF wants THEN closed ELSE NoSection

View(bar, wants) ==
  [symbol |-> bar.symbol, as_of |-> bar.ts,
   windows |-> [n \in Lookbacks |-> Window(history[bar.symbol], n)],
   levels |-> levels[bar.symbol],
   section |-> SectionOf(wants)]
=============================================================================
