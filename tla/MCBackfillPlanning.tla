------------------------- MODULE MCBackfillPlanning -------------------------
(* Two instruments on two venues: the second venue has a holiday on day 3, *)
(* a half day on the first; nobody trades on day 4; windows span two days, *)
(* fewer than the four days, and the limit is two of up to six windows.    *)
EXTENDS BackfillPlanning

CONSTANTS aapl, msft

MCSymbols == {aapl, msft}
MCRank == [s \in MCSymbols |-> IF s = aapl THEN 0 ELSE 1]
MCDays == {1, 2, 3, 5}
MCTrades == [s \in MCSymbols |-> IF s = aapl THEN MCDays ELSE MCDays \ {3}]
MCSessionTicks == [d \in MCDays |-> IF d = 3 THEN 1 ELSE 2]
=============================================================================
