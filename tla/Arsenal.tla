------------------------------ MODULE Arsenal ------------------------------
(***************************************************************************)
(* strategies/: what each strategy does with one bar.  A handler takes the *)
(* bar, the strategy's view of it and what it remembers of that symbol     *)
(* (its memo), and returns the new memo with at most one intent.           *)
(* Thresholds are read from Rules under the names the strategies give      *)
(* them.  A multiple of a dispersion is counted in halves.                 *)
(***************************************************************************)
EXTENDS SessionLevels

CONSTANTS
  Rules,        \* the declared parameters of the strategies
  Universe,     \* the symbols, in the order they sort
  Overnight     \* OVERNIGHT_INSTRUMENTS

Sides == {"BUY", "SELL"}
Opposite(side) == IF side = "BUY" THEN "SELL" ELSE "BUY"

(* a lies on the side of b where a position on that side makes money. *)
Beyond(side, a, b) == IF side = "BUY" THEN a > b ELSE a < b

NoExcursion == [day |-> 0, side |-> "none", extreme |-> 0]
NewMemo == [day |-> 0, side |-> "none", excursion |-> NoExcursion]

(* What a strategy class declares: the regimes it may fire in, the features *)
(* and the cross-section it is shown, and how many variants it sweeps over. *)
Trends == {"TREND_UP", "TREND_DOWN", "HIGH_VOLATILITY"}
Reversions == {"CHOP", "REVERSAL"}
Class(regimes, features, needs_cross_section, holds_overnight, variants) ==
  [regimes |-> regimes, features |-> features, needs_cross_section |-> needs_cross_section,
   holds_overnight |-> holds_overnight, variants |-> variants]
GapContinuationClass == Class(Trends, {}, FALSE, FALSE, 3)
OpeningRangeBreakoutClass == Class(Trends, {}, TRUE, FALSE, 3)
OrbFadeClass == Class(Reversions, {}, FALSE, FALSE, 3)
IntradayMomentumClass == Class(Trends, {}, FALSE, FALSE, 2)
VwapBandReversionClass == Class(Reversions, {}, FALSE, FALSE, 3)
PriorCloseReversalClass == Class(Reversions, {}, FALSE, TRUE, 3)
MomentumIgnitionClass == Class(Trends, {"rvol", "atr"}, FALSE, FALSE, 3)
RelativeStrengthClass == Class(Trends, {}, TRUE, FALSE, 3)
ResidualReversionClass == Class(Reversions, {}, TRUE, FALSE, 3)
IntradayReversalClass == Class(Reversions, {}, TRUE, FALSE, 3)

Decline(memo) == [memo |-> memo, intents |-> {}]

(* An intent at the bar's close; target_r is reward over risk. *)
Intent(strategy, bar, l, side, stop, target_r, expires) ==
  [strategy |-> strategy, symbol |-> bar.symbol, ts |-> bar.ts, entry |-> bar.close, day |-> l.day,
   side |-> side, invalidation |-> stop, target_r |-> target_r, expires |-> expires]

ProposeStamped(memo, l, intent) ==
  [memo |-> [memo EXCEPT !.day = intent.ts, !.side = intent.side], intents |-> {intent}]
Propose(memo, l, intent) ==
  [memo |-> [memo EXCEPT !.day = l.day, !.side = intent.side], intents |-> {intent}]

(* The guard every strategy begins with: in a session, before its bell. *)
BeforeTheBell(bar, view) ==
  view.levels # NoLevels /\ view.phase = "REGULAR" /\ bar.ts < view.levels.close_at

TradedToday(memo, l) == memo.day = l.day
SameSideToday(memo, l, side) == memo.day = l.day /\ memo.side = side
-----------------------------------------------------------------------------
(* CrossSection.rank_by: largest first, ties on the symbol, cold rows left  *)
(* out.  A column is what one field of the section's rows holds, or nothing. *)
Place(symbol) == CHOOSE i \in DOMAIN Universe : Universe[i] = symbol
Ranked(column) == {s \in DOMAIN column : column[s] # {}}
Score(column, s) == CHOOSE v \in column[s] : TRUE
Ahead(column, a, b) ==
  a # b /\ (Score(column, a) > Score(column, b)
             \/ (Score(column, a) = Score(column, b) /\ Place(a) < Place(b)))

(* The first so many of a ranking, and the last. *)
Top(column, n) == {s \in Ranked(column) : Cardinality({r \in Ranked(column) : Ahead(column, r, s)}) < n}
Bottom(column, n) == {s \in Ranked(column) : Cardinality({r \in Ranked(column) : Ahead(column, s, r)}) < n}

StocksInPlay(section) ==
  Top([s \in DOMAIN section |-> {v \in section[s].relative_volume : v >= Rules.selection_floor}],
      Rules.selection_size)
-----------------------------------------------------------------------------
(* gap_continuation: a wide gap whose open still holds. *)
GapContinuation(bar, view, memo) ==
  LET l == view.levels
      side == IF Gap(l) > 0 THEN "BUY" ELSE "SELL"
  IN IF /\ BeforeTheBell(bar, view) /\ ~TradedToday(memo, l)
        /\ l.bar_count <= Rules.entry_window_bars
        /\ GapReaches(l, Rules.min_gap_ranges)
        /\ Beyond(side, bar.close, l.session_open)
     THEN Propose(memo, l, Intent("gap_continuation", bar, l, side, l.session_open, <<2, 1>>, l.close_at))
     ELSE Decline(memo)
-----------------------------------------------------------------------------
(* The opening range a strategy trades, once it has filled and has a width. *)
Opening(l) == IF Rules.opening_minutes \in DOMAIN l.ranges THEN l.ranges[Rules.opening_minutes] ELSE Nowhere
HasOpening(l) == Opening(l) # Nowhere /\ Width(Opening(l)) > 0

(* opening_range_breakout: a selected name closing outside its opening range. *)
OpeningRangeBreakout(bar, view, memo) ==
  LET l == view.levels
      range == Opening(l)
      up == BreaksUp(range, bar.close)
      side == IF up THEN "BUY" ELSE "SELL"
  IN IF /\ BeforeTheBell(bar, view) /\ ~TradedToday(memo, l) /\ HasOpening(l)
        /\ bar.symbol \in StocksInPlay(view.section)
        /\ up \/ BreaksDown(range, bar.close)
     THEN Propose(memo, l, Intent("opening_range_breakout", bar, l, side,
                                  IF up THEN range.low ELSE range.high, <<2, 1>>, l.close_at))
     ELSE Decline(memo)

(* OrbFade._record: a bar that breaks both ways says nothing. *)
Extended(held, side, price) ==
  IF held.side = side /\ ~Beyond(side, price, held.extreme) THEN held.extreme ELSE price

Recorded(bar, range, held, day) ==
  LET up == BreaksUp(range, bar.high)
      down == BreaksDown(range, bar.low)
  IN IF up = down THEN held
     ELSE IF up THEN [day |-> day, side |-> "BUY", extreme |-> Extended(held, "BUY", bar.high)]
     ELSE [day |-> day, side |-> "SELL", extreme |-> Extended(held, "SELL", bar.low)]

(* An excursion of an earlier session is no evidence. *)
HeldEver(excursion, l) == excursion
HeldToday(excursion, l) == IF excursion.day = l.day THEN excursion ELSE NoExcursion

TravelledFarEnough(held, range) ==
  LET edge == IF held.side = "BUY" THEN range.high ELSE range.low
  IN Rules.excursion_parts * Magnitude(held.extreme - edge) >= Width(range)

(* orb_fade: back inside the range after a real excursion. *)
OrbFade(bar, view, memo) ==
  LET l == view.levels
      range == Opening(l)
      held == Recorded(bar, range, HeldToday(memo.excursion, l), l.day)
      kept == [memo EXCEPT !.excursion = held]
      side == Opposite(held.side)
      target == IF side = "SELL" THEN range.low ELSE range.high
      risk == Magnitude(bar.close - held.extreme)
      reward == Magnitude(bar.close - target)
  IN IF ~BeforeTheBell(bar, view) \/ ~HasOpening(l) THEN Decline(memo)
     ELSE IF /\ held # NoExcursion
             /\ ~BreaksUp(range, bar.close) /\ ~BreaksDown(range, bar.close)
             /\ TravelledFarEnough(held, range) /\ ~TradedToday(memo, l)
             /\ risk > 0 /\ reward > 0
          THEN Propose(kept, l, Intent("orb_fade", bar, l, side, held.extreme, <<reward, risk>>, l.close_at))
     ELSE Decline(kept)
-----------------------------------------------------------------------------
(* noise_bounds: the anchors widened by the usual move at this minute. *)
NoiseArea(l) ==
  LET half == Rules.volatility_multiplier * l.mean_move
      anchors == {l.session_open} \cup ({l.prior_close} \ {None})
  IN IF half \notin 1 .. Scale - 1 THEN Nowhere
     ELSE [high |-> (Max(anchors) * (Scale + half)) \div Scale,
           low |-> (Min(anchors) * (Scale - half)) \div Scale]

(* intraday_momentum: at a checkpoint, outside the noise area. *)
IntradayMomentum(bar, view, memo) ==
  LET l == view.levels
      minute == bar.ts - l.open
      area == NoiseArea(l)
      up == BreaksUp(area, bar.close)
      side == IF up THEN "BUY" ELSE "SELL"
  IN IF /\ BeforeTheBell(bar, view)
        /\ minute > 0 /\ minute % Rules.checkpoint_minutes = 0
        /\ area # Nowhere
        /\ up \/ BreaksDown(area, bar.close)
        /\ ~SameSideToday(memo, l, side)
     THEN Propose(memo, l, Intent("intraday_momentum", bar, l, side,
                                  IF up THEN area.low ELSE area.high, <<10, 1>>, l.close_at))
     ELSE Decline(memo)
-----------------------------------------------------------------------------
(* Whether the close is k halves of a dispersion from the VWAP, on that side. *)
Stretched(price, paid, k, side) ==
  LET d == Distance(price, paid)
  IN Beyond(side, d, 0) /\ 4 * d * d >= k * k * Variance(paid)

Root(n) == CHOOSE r \in 0..n : r * r <= n /\ n < (r + 1) * (r + 1)

(* _scaled: the level k halves of a dispersion away from the VWAP. *)
BandLevel(paid, k, side) ==
  LET way == IF side = "BUY" THEN 1 ELSE -1
  IN (2 * paid.value + way * k * Root(Variance(paid))) \div (6 * paid.volume)

(* vwap_band_reversion: fade a stretch, early or late in the session. *)
VwapBandReversion(bar, view, memo) ==
  LET l == view.levels
      up == Stretched(bar.close, l.paid, Rules.band_halves, "BUY")
      side == IF up THEN "SELL" ELSE "BUY"
  IN IF /\ BeforeTheBell(bar, view)
        /\ l.paid.volume > 0 /\ Variance(l.paid) > 0
        /\ l.bar_count >= Rules.min_dispersion_bars
        /\ (Rules.band_halves + 2) * Root(Variance(l.paid)) < 2 * l.paid.value
        /\ bar.ts - l.open <= Rules.opening_window \/ l.close_at - bar.ts <= Rules.closing_window
        /\ up \/ Stretched(bar.close, l.paid, Rules.band_halves, "SELL")
        /\ ~SameSideToday(memo, l, side)
     THEN Propose(memo, l, Intent("vwap_band_reversion", bar, l, side,
                                  BandLevel(l.paid, Rules.band_halves + 2, Opposite(side)),
                                  <<Rules.band_halves, 2>>, l.close_at))
     ELSE Decline(memo)

(* prior_close_reversal: near the bell, held to the next open and beyond. *)
PriorCloseReversal(bar, view, memo) ==
  LET l == view.levels
      up == Stretched(bar.close, l.paid, Rules.reversal_halves, "BUY")
      side == IF up THEN "SELL" ELSE "BUY"
      reach == (bar.close * Rules.stop_halves * Root(Variance(l.paid))) \div (2 * l.paid.value)
      stop == IF side = "BUY" THEN bar.close - reach ELSE bar.close + reach
  IN IF /\ BeforeTheBell(bar, view) /\ bar.symbol \in Overnight
        /\ l.next_open # None /\ l.next_open > bar.ts
        /\ l.paid.volume > 0 /\ Variance(l.paid) > 0
        /\ l.bar_count >= Rules.min_dispersion_bars /\ ~TradedToday(memo, l)
        /\ l.close_at - bar.ts <= Rules.entry_minutes_before_close
        /\ up \/ Stretched(bar.close, l.paid, Rules.reversal_halves, "SELL")
        /\ stop # bar.close
     THEN Propose(memo, l, Intent("prior_close_reversal", bar, l, side, stop, <<3, 1>>,
                                  l.next_open + Rules.exit_minutes_after_open))
     ELSE Decline(memo)
-----------------------------------------------------------------------------
(* momentum_ignition: a bar heavy and wide at once, in the way of its body. *)
MomentumIgnition(bar, view, memo) ==
  LET l == view.levels
      side == IF bar.close > bar.open THEN "BUY" ELSE "SELL"
  IN IF /\ BeforeTheBell(bar, view) /\ l.bar_count >= Rules.min_session_bars /\ ~TradedToday(memo, l)
        /\ view.values["rvol"] # None /\ view.values["atr"] # None
        /\ view.values["rvol"] >= Rules.min_rvol /\ view.values["atr"] > 0
        /\ bar.high - bar.low >= Rules.min_range_atrs * view.values["atr"]
        /\ bar.close # bar.open
     THEN Propose(memo, l, Intent("momentum_ignition", bar, l, side,
                                  IF side = "BUY" THEN bar.low ELSE bar.high, <<2, 1>>, l.close_at))
     ELSE Decline(memo)
-----------------------------------------------------------------------------
(* cross_sectional_intent: an end of a ranking that is long enough, the    *)
(* top looked at first (_placing).                                         *)
CrossSectional(strategy, bar, view, memo, column, long_end_is_top, target_r) ==
  LET l == view.levels
      at_top == bar.symbol \in Top(column, Rules.extreme_names)
      side == IF at_top = long_end_is_top THEN "BUY" ELSE "SELL"
      reach == (bar.close * Magnitude(Score(column, bar.symbol))) \div (2 * Scale)
      stop == IF side = "BUY" THEN bar.close - reach ELSE bar.close + reach
  IN IF /\ BeforeTheBell(bar, view) /\ ~TradedToday(memo, l)
        /\ Cardinality(Ranked(column)) >= Rules.min_ranked
        /\ at_top \/ bar.symbol \in Bottom(column, Rules.extreme_names)
        /\ stop # bar.close
     THEN Propose(memo, l, Intent(strategy, bar, l, side, stop, target_r, l.close_at))
     ELSE Decline(memo)

Residuals(section) == [s \in DOMAIN section |-> section[s].residual]
TrailingReturns(section) == [s \in DOMAIN section |-> section[s].trailing]
RelativeStrength(bar, view, memo) ==
  CrossSectional("relative_strength", bar, view, memo, Residuals(view.section), TRUE, <<2, 1>>)
ResidualReversion(bar, view, memo) ==
  CrossSectional("residual_reversion", bar, view, memo, Residuals(view.section), FALSE, <<1, 1>>)
IntradayReversal(bar, view, memo) ==
  CrossSectional("intraday_reversal", bar, view, memo, TrailingReturns(view.section), FALSE, <<1, 1>>)
-----------------------------------------------------------------------------
Arsenal ==
  [gap_continuation |-> GapContinuationClass, opening_range_breakout |-> OpeningRangeBreakoutClass,
   orb_fade |-> OrbFadeClass, intraday_momentum |-> IntradayMomentumClass,
   vwap_band_reversion |-> VwapBandReversionClass, prior_close_reversal |-> PriorCloseReversalClass,
   momentum_ignition |-> MomentumIgnitionClass, relative_strength |-> RelativeStrengthClass,
   residual_reversion |-> ResidualReversionClass, intraday_reversal |-> IntradayReversalClass]
Names == DOMAIN Arsenal

(* A run hosts the day strategies or the overnight ones, never both. *)
Hosted(overnight) == {n \in Names : Arsenal[n].holds_overnight = overnight}

(* _permits: ungated, an unknown regime is no obstacle. *)
Permits(name, regime, ungated) ==
  regime \in Arsenal[name].regimes \/ (ungated /\ regime = "UNKNOWN")

OnBar(name, bar, view, memo) ==
  CASE name = "gap_continuation" -> GapContinuation(bar, view, memo)
    [] name = "opening_range_breakout" -> OpeningRangeBreakout(bar, view, memo)
    [] name = "orb_fade" -> OrbFade(bar, view, memo)
    [] name = "intraday_momentum" -> IntradayMomentum(bar, view, memo)
    [] name = "vwap_band_reversion" -> VwapBandReversion(bar, view, memo)
    [] name = "prior_close_reversal" -> PriorCloseReversal(bar, view, memo)
    [] name = "momentum_ignition" -> MomentumIgnition(bar, view, memo)
    [] name = "relative_strength" -> RelativeStrength(bar, view, memo)
    [] name = "residual_reversion" -> ResidualReversion(bar, view, memo)
    [] name = "intraday_reversal" -> IntradayReversal(bar, view, memo)
=============================================================================
