------------------------------ MODULE Position ------------------------------
(***************************************************************************)
(* core/position.py: what a sequence of fills adds up to.  A position is a *)
(* value; Apply returns the one that results from a fill.  Prices, money   *)
(* and fees are integers, in units of the last decimal place the code's    *)
(* Decimal context keeps: products and sums of them are exact, and the one *)
(* division, in Increased, rounds to the nearest unit, half to even.       *)
(***************************************************************************)
EXTENDS Integers

(* Price refuses zero (core/types.py), so zero stands for "no average". *)
NoPrice == 0

Sign(side) == CASE side = "BUY" -> 1 [] side = "SELL" -> -1 [] OTHER -> 0

Flat == [side |-> "NONE", quantity |-> 0, average |-> NoPrice,
         realised |-> 0, fees |-> 0, fills |-> 0]

SignedQuantity(p) == Sign(p.side) * p.quantity

(* Decimal division, ROUND_HALF_EVEN. *)
Quotient(n, d) ==
  LET whole == n \div d
      left  == n % d
  IN  IF 2 * left < d \/ (2 * left = d /\ whole % 2 = 0) THEN whole ELSE whole + 1

Weighted(p, f) == p.average * p.quantity + f.price * f.quantity

(* The position after a fill: what the case in hand decides, the fees and *)
(* the count that every fill adds to.                                     *)
After(p, f, side, quantity, average, realised) ==
  [side |-> side, quantity |-> quantity, average |-> average, realised |-> realised,
   fees |-> p.fees + f.commission, fills |-> p.fills + 1]

Opened(p, f) == After(p, f, f.side, f.quantity, f.price, p.realised)

Increased(p, f) ==
  LET total == p.quantity + f.quantity
  IN  After(p, f, p.side, total, Quotient(Weighted(p, f), total), p.realised)

Closing(p, f) == IF p.quantity < f.quantity THEN p.quantity ELSE f.quantity

Realised(p, f) == p.realised + (f.price - p.average) * Sign(p.side) * Closing(p, f)

Reduced(p, f) ==
  After(p, f, p.side, p.quantity - Closing(p, f), p.average, Realised(p, f))

Closed(p, f) == After(p, f, "NONE", 0, NoPrice, Realised(p, f))

(* Two bugs, for comparison: the leg a reversal opens keeps the old average; *)
(* it is the size of the whole fill.                                         *)
ReversedAtOldAverage(p, f) ==
  After(p, f, f.side, f.quantity - Closing(p, f), p.average, Realised(p, f))

ReversedInFull(p, f) == After(p, f, f.side, f.quantity, f.price, Realised(p, f))

Reversed(p, f) ==
  After(p, f, f.side, f.quantity - Closing(p, f), f.price, Realised(p, f))

ReducedOrReversed(p, f) ==
  IF p.quantity > Closing(p, f) THEN Reduced(p, f)
  ELSE IF f.quantity = Closing(p, f) THEN Closed(p, f)
  ELSE Reversed(p, f)

Apply(p, f) ==
  IF p.side = "NONE" THEN Opened(p, f)
  ELSE IF f.side = p.side THEN Increased(p, f)
  ELSE ReducedOrReversed(p, f)

UnrealisedPnl(p, mark) ==
  IF p.side = "NONE" THEN 0 ELSE (mark - p.average) * Sign(p.side) * p.quantity

TotalPnl(p, mark) == p.realised - p.fees + UnrealisedPnl(p, mark)

(* What __post_init__ insists on; it raises on anything else. *)
Consistent(p) ==
  /\ p.quantity = 0 <=> p.side = "NONE"
  /\ p.quantity = 0 <=> p.average = NoPrice
=============================================================================
