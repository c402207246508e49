----------------------------- MODULE Adjustment -----------------------------
(***************************************************************************)
(* core/actions.py: prices on another day's basis.  An action is the day   *)
(* it takes effect on, new shares per old share as a fraction, and cash    *)
(* per share.  Prices, volumes and factors are whole numbers of the        *)
(* corpus's last decimal place; One of them make 1.  A bar is its open,    *)
(* its close and its volume: high, low and vwap take the open's path.      *)
(***************************************************************************)
EXTENDS Integers, Sequences, FiniteSets, FiniteSetsExt

CONSTANTS
  One,        \* 10^CORPUS_PLACES
  Threshold   \* the overnight move past which a gap is reported, as a fraction

IsSplit(action) == action.split[1] # action.split[2]
IsDividend(action) == action.dividend # 0

(* Decimal.quantize: to the nearest, and from half way to the even one. *)
HalfEven(n, d) ==
  LET down == n \div d
      twice == 2 * (n % d)
  IN IF twice > d \/ (twice = d /\ down % 2 = 1) THEN down + 1 ELSE down

-----------------------------------------------------------------------------
(* AdjustmentSeries._between: after the bar's session, up to the basis. *)
FromTheBar(actions, observed, as_of) == {a \in actions : observed <= a.on /\ a.on <= as_of}
AllKnown(actions, observed, as_of) == {a \in actions : observed < a.on}
Between(actions, observed, as_of) == {a \in actions : observed < a.on /\ a.on <= as_of}

(* The splits' part of a factor, not rounded. *)
OverSplits(actions) ==
  FoldSet(LAMBDA a, f : <<f[1] * a.split[2], f[2] * a.split[1]>>, <<1, 1>>, actions)

PriceFactor(actions, observed, as_of) ==
  LET f == OverSplits(Between(actions, observed, as_of)) IN HalfEven(f[1] * One, f[2])

(* A dividend is a share of the close before it; one whose close is not    *)
(* known (0) is left out, one that is not below it is refused.             *)
Discounts(actions, prior_close) == {a \in actions : IsDividend(a) /\ prior_close[a.on] # 0}
BadDividend(actions, observed, as_of, prior_close) ==
  \E a \in Discounts(Between(actions, observed, as_of), prior_close) : a.dividend >= prior_close[a.on]

TotalReturnFactor(actions, observed, as_of, prior_close) ==
  LET applied == Between(actions, observed, as_of)
      f == FoldSet(LAMBDA a, g : <<g[1] * (prior_close[a.on] - a.dividend), g[2] * prior_close[a.on]>>,
                   OverSplits(applied), Discounts(applied, prior_close))
  IN HalfEven(f[1] * One, f[2])
-----------------------------------------------------------------------------
(* adjust_stream, one bar.  Volume goes by the splits alone. *)
AdjustVolume(volume, split_factor) == HalfEven(volume * One, split_factor)

AdjustBar(bar, factor, split_factor) ==
  IF factor = One THEN bar
  ELSE [day |-> bar.day,
        open |-> HalfEven(bar.open * factor, One),
        close |-> HalfEven(bar.close * factor, One),
        volume |-> AdjustVolume(bar.volume, split_factor)]

AdjustBars(bars, actions, as_of, total_return, prior_close) ==
  [i \in DOMAIN bars |->
     LET observed == bars[i].day
         split_factor == PriceFactor(actions, observed, as_of)
     IN AdjustBar(bars[i],
                  IF total_return THEN TotalReturnFactor(actions, observed, as_of, prior_close) ELSE split_factor,
                  split_factor)]

(* unexplained_gaps: the sessions that open far from the close before. *)
FarAbove(open, close) == (open - close) * Threshold[2] >= Threshold[1] * close
FarFrom(open, close) ==
  (IF open < close THEN close - open ELSE open - close) * Threshold[2] >= Threshold[1] * close

UnexplainedGaps(bars, actions, as_of) ==
  LET adjusted == AdjustBars(bars, actions, as_of, FALSE, <<>>)
  IN {adjusted[i].day : i \in {j \in 2 .. Len(adjusted) : FarFrom(adjusted[j].open, adjusted[j - 1].close)}}
=============================================================================
