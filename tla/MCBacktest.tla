----------------------------- MODULE MCBacktest -----------------------------
EXTENDS Backtest

(* Three short sessions, the first of three minutes. *)
ThreeDays == <<[open |-> 0, close |-> 3], [open |-> 3, close |-> 4], [open |-> 4, close |-> 5]>>

StockAndIndex == <<"AAA", "SPY">>
AgainstIndex == [s \in Range(StockAndIndex) |-> [d \in DOMAIN ThreeDays |-> IF s = "AAA" THEN "SPY" ELSE "none"]]

Two == <<"breakout", "reversal">>
=============================================================================
