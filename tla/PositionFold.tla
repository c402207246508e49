---------------------------- MODULE PositionFold ----------------------------
(***************************************************************************)
(* The fold of core/position.py over any sequence of fills, kept next to   *)
(* an account that only counts: the shares and the cash that changed       *)
(* hands.  The two must tell the same story however the fills open, add    *)
(* to, reduce, close or reverse the position.                              *)
(***************************************************************************)
EXTENDS Position

CONSTANTS
  Prices,      \* the prices fills trade at
  Sizes,       \* the share counts of fills
  Fees,        \* the commissions a fill may carry
  Marks,       \* the prices a position is valued at
  MaxFills     \* bound: the fills of one history

ASSUME PricesArePositive == Prices \subseteq Nat \ {0}
ASSUME SizesArePositive == Sizes \subseteq Nat \ {0}
ASSUME FeesAreNumbers == Fees \subseteq Int
ASSUME MarksArePositive == Marks \subseteq Nat \ {0}
ASSUME MaxFillsIsNatural == MaxFills \in Nat

VARIABLES
  position,    \* the folded position
  held,        \* shares bought less shares sold
  cash,        \* received for sales less paid for purchases, before fees
  paid,        \* commissions paid
  slack,       \* twice the most that rounding may have cost so far
  entries      \* the lowest and highest price paid since the position opened

bookVars == <<position, held, cash, paid, slack, entries>>

Fill == [side : {"BUY", "SELL"}, quantity : Sizes, price : Prices, commission : Fees]

BookInit ==
  /\ position = Flat
  /\ held = 0 /\ cash = 0 /\ paid = 0 /\ slack = 0
  /\ entries = [low |-> 0, high |-> 0]

Adding(f) == position.side = f.side

(* A fill that opens, or that reverses what was held, starts a new cost basis. *)
StartsAfresh(f) ==
  \/ position.side = "NONE"
  \/ position.side # f.side /\ f.quantity > position.quantity

(* An average of total shares is off by at most half a unit for each of them, *)
(* and by nothing when the division comes out even.                           *)
RoundingLoss(f) ==
  LET total == position.quantity + f.quantity
  IN  IF Adding(f) /\ Weighted(position, f) % total # 0 THEN total ELSE 0

Book(f) ==
  /\ position.fills < MaxFills
  /\ position' = Apply(position, f)
  /\ held' = held + Sign(f.side) * f.quantity
  /\ cash' = cash - Sign(f.side) * f.quantity * f.price
  /\ paid' = paid + f.commission
  /\ slack' = slack + RoundingLoss(f)
  /\ entries' =
       IF StartsAfresh(f) THEN [low |-> f.price, high |-> f.price]
       ELSE IF ~Adding(f) THEN entries
       ELSE [low  |-> IF f.price < entries.low THEN f.price ELSE entries.low,
             high |-> IF f.price > entries.high THEN f.price ELSE entries.high]

BookNext == \E f \in Fill : Book(f)

BookSpec == BookInit /\ [][BookNext]_bookVars
-----------------------------------------------------------------------------
BookTypeOK ==
  /\ position \in [side : {"BUY", "SELL", "NONE"}, quantity : Nat, average : Nat,
                   realised : Int, fees : Int, fills : 0 .. MaxFills]
  /\ held \in Int /\ cash \in Int /\ paid \in Int /\ slack \in Nat
  /\ entries \in [low : Nat, high : Nat]

(* The position is what the fills add up to: its signed quantity is the    *)
(* shares bought less the shares sold, and no fold makes a position that   *)
(* __post_init__ would refuse.                                             *)
HeldIsWhatWasTraded == SignedQuantity(position) = held /\ Consistent(position)

(* Profit is conserved: valued at any mark, realised plus unrealised less  *)
(* fees is the cash that changed hands plus what the shares held would     *)
(* fetch, but for what the rounding of an average may have cost.  A leg    *)
(* realised twice on a reversal, or a close that moves the average, breaks *)
(* this.                                                                   *)
ProfitIsConserved ==
  \A mark \in Marks :
    LET error == TotalPnl(position, mark) - (cash - paid + held * mark)
    IN  2 * error <= slack /\ -2 * error <= slack

(* The average price is a price somebody could have paid: it lies between  *)
(* the lowest and the highest fill that built the position, whatever was   *)
(* closed in between, and a reversal takes nothing over from the old leg.  *)
CostBasisWithinEntries ==
  position.side # "NONE" => position.average \in entries.low .. entries.high

(* The books balance: shares and cash both come out as what changed hands.  *)
BooksBalance == HeldIsWhatWasTraded /\ ProfitIsConserved

=============================================================================
