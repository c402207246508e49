------------------------------ MODULE MCCrawler -----------------------------
(* Three small worlds for the crawler.  `gone' is a symbol that cannot be  *)
(* resolved.                                                               *)
EXTENDS Crawler

CONSTANTS aapl, msft, gone, v1, v2

MCRank == [s \in Symbols |-> IF s = aapl THEN 0 ELSE IF s = msft THEN 1 ELSE 2]

(* One instrument trades on a half day on which the others do not.         *)
HostileTrades == [s \in Symbols |-> IF s = aapl THEN {1, 2} ELSE {1}]
EveryDay == [s \in Symbols |-> Days]

(* Bars of one tick, days of four.  Day 1 opens at 4 and its session is    *)
(* ticks 5 and 6; day 2 opens at 8 and is a half day of one tick, 9.  The  *)
(* feed also has a bar at the open of day 1 and one after its close.       *)
HostileTicks == [d \in Days |-> IF d = 2 THEN 1 ELSE 2]
HostileAvailable == [s \in Symbols |-> IF s = aapl THEN {4, 5, 6, 7, 9} ELSE {5, 6}]

(* The same with bars of two ticks and days of eight: the session of day 1 *)
(* opens at 8 and holds bars at 10 and 12; the half day opens at 16 and is *)
(* as long as one bar.                                                     *)
CoarseTicks == [d \in Days |-> IF d = 2 THEN 2 ELSE 4]
CoarseAvailable == [s \in Symbols |-> IF s = aapl THEN {8, 10, 12, 14, 18} ELSE {10, 12}]

(* One instrument is halted all day 2, the other on the first bar of day 1. *)
HaltedDay == [s \in Symbols |-> IF s = msft THEN {6, 9} ELSE {5, 6}]
=============================================================================
