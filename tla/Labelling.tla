----------------------------- MODULE Labelling -----------------------------
(***************************************************************************)
(* lab/labelling.py and core/costs.py: what one decision earned.  A bar is *)
(* held from the close it was decided at until the first later bar that    *)
(* reaches a barrier, or the last one it may be held for.  Prices count in *)
(* Tick, the sub-dollar tick; a barrier is its distance from the entry, in *)
(* price; a return is rounded to ReturnPlaces parts of the entry.          *)
(***************************************************************************)
EXTENDS Integers, Sequences, SequencesExt, FiniteSets, FiniteSetsExt

CONSTANTS
  ReturnPlaces,  \* _RETURN_PLACES, as a denominator
  Tick, Cent,    \* _SUB_DOLLAR_TICK and _CENT
  Dollar,        \* the price where one gives way to the other
  Quantity       \* the shares every fill is charged at

ASSUME LabellingAssumption ==
  /\ {ReturnPlaces, Quantity} \subseteq Nat \ {0}
  /\ {Tick, Cent, Dollar} \subseteq Nat

Sign(side) == IF side = "BUY" THEN 1 ELSE -1
OtherSide(side) == IF side = "BUY" THEN "SELL" ELSE "BUY"
SumOf(seq) == FoldLeft(LAMBDA sum, n : sum + n, 0, seq)
LeastOf(a, b) == IF a < b THEN a ELSE b

(* Decimal.quantize: to the nearest, and from half way to the even one. *)
Nearest(n, d) ==
  LET down == n \div d
      twice == 2 * (n % d)
  IN IF twice > d \/ (twice = d /\ down % 2 = 1) THEN down + 1 ELSE down
-----------------------------------------------------------------------------
TickSize(price) == IF price < Dollar THEN Tick ELSE Cent

(* FlooredSpread.spread; the labeller never passes a volatility. *)
Spread(model, price) ==
  Max({(price * model.fraction[1]) \div model.fraction[2], TickSize(price), model.min_spread})

(* FeeSchedule.commission: a floor per order, and a cap over the floor. *)
Commission(model, price) ==
  LET raw == Max({model.per_share * Quantity, model.min_fee})
      cap == (price * Quantity * model.max_fraction[1]) \div model.max_fraction[2]
  IN LeastOf(raw, cap)

(* CostModel.cost of one fill: half the spread on every share, and the fee. *)
Cost(model, price) == (Spread(model, price) * Quantity) \div 2 + Commission(model, price)
-----------------------------------------------------------------------------
(* triple_barrier. *)
Favourable(side, bar, entry) == IF side = "BUY" THEN bar.high - entry ELSE entry - bar.low
Adverse(side, bar, entry) == IF side = "BUY" THEN entry - bar.low ELSE bar.high - entry

NoTouch == [label |-> "none"]

Forward(bars, index, max_bars) == SubSeq(bars, index + 1, LeastOf(index + max_bars, Len(bars)))

(* The bars whose excursions count: those held, the one it closed on included. *)
EveryForwardBar(forward, last) == DOMAIN forward
HeldBars(forward, last) == 1 .. last

(* Where a barrier is reached, and the bar it closes on: the first of them, *)
(* or the last bar of the walk.                                            *)
HitProfit(forward, signal, entry) ==
  {i \in DOMAIN forward : Favourable(signal.side, forward[i], entry) >= signal.profit_target}
HitStop(forward, signal, entry) ==
  {i \in DOMAIN forward : Adverse(signal.side, forward[i], entry) >= signal.stop_loss}
ClosedOn(forward, signal, entry) ==
  LET hits == HitProfit(forward, signal, entry) \cup HitStop(forward, signal, entry)
  IN IF hits = {} THEN Len(forward) ELSE Min(hits)

(* _touch.  On a bar that reaches both, the stop was first. *)
Touch(forward, signal, entry, last, model) ==
  LET stopped == last \in HitStop(forward, signal, entry)
      taken == last \in HitProfit(forward, signal, entry)
      exit == IF stopped THEN entry - Sign(signal.side) * signal.stop_loss
              ELSE IF taken THEN entry + Sign(signal.side) * signal.profit_target
              ELSE forward[last].close
      gross == (exit - entry) * Sign(signal.side)
      net == gross * Quantity - Cost(model, entry) - Cost(model, exit)
      favours == {Favourable(signal.side, forward[i], entry) : i \in HeldBars(forward, last)}
      harms == {Adverse(signal.side, forward[i], entry) : i \in HeldBars(forward, last)}
  IN [label |-> IF stopped THEN "STOP" ELSE IF taken THEN "PROFIT" ELSE "TIMEOUT",
      touched_at |-> forward[last].ts,
      bars_held |-> last,
      ambiguous |-> stopped /\ taken,
      mfe |-> Nearest(Max(favours \cup {0}) * ReturnPlaces, entry),
      mae |-> Nearest(Max(harms \cup {0}) * ReturnPlaces, entry),
      gross_return |-> Nearest(gross * ReturnPlaces, entry),
      realised_return |-> Nearest(net * ReturnPlaces, entry * Quantity)]

TripleBarrier(bars, index, signal, model) ==
  LET entry == bars[index].close
      forward == Forward(bars, index, signal.max_bars)
  IN IF forward = <<>> THEN NoTouch
     ELSE Touch(forward, signal, entry, ClosedOn(forward, signal, entry), model)
=============================================================================
