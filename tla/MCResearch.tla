----------------------------- MODULE MCResearch -----------------------------
EXTENDS Research

Bar(ts, high, low, close) == [ts |-> ts, high |-> high, low |-> low, close |-> close]

(* Four short days; the second instrument misses minutes and one day. *)
Rising ==
  <<Bar(0, 10100, 9950, 10000), Bar(1, 10700, 9900, 10600), Bar(2, 10900, 10300, 10800),
    Bar(4, 11500, 10500, 10600), Bar(5, 11300, 10400, 11200), Bar(6, 11200, 10000, 10200),
    Bar(8, 10400, 10100, 10300), Bar(9, 11400, 9300, 10900), Bar(10, 11000, 10800, 10900)>>
Gappy ==
  <<Bar(0, 9600, 9400, 9500), Bar(2, 9900, 9000, 9800), Bar(5, 10300, 9700, 10200),
    Bar(8, 10500, 10000, 10100), Bar(10, 10200, 9400, 9500)>>

TheSymbols == <<"AAA", "BBB">>
TheCorpora == {"AAA" :> Rising @@ "BBB" :> Gappy, "AAA" :> Rising @@ "BBB" :> <<>>}

Intent(symbol, ts, side, stop, target_r, horizon) ==
  [symbol |-> symbol, ts |-> ts, side |-> side, invalidation |-> stop, target_r |-> target_r,
   horizon |-> horizon]

OnA ==
  {{Intent("AAA", 0, "BUY", 9500, <<2, 1>>, 3), Intent("AAA", 2, "SELL", 11300, <<1, 1>>, 3),
    Intent("AAA", 6, "BUY", 9600, <<3, 2>>, 4)},
   {Intent("AAA", 0, "BUY", 9900, <<1, 1>>, 2), Intent("AAA", 4, "BUY", 10000, <<1, 1>>, 6),
    Intent("AAA", 6, "SELL", 10900, <<1, 1>>, 2)},
   {Intent("AAA", 1, "SELL", 11000, <<1, 1>>, 2), Intent("AAA", 4, "SELL", 11600, <<1, 2>>, 1),
    Intent("AAA", 8, "BUY", 9800, <<1, 1>>, 2), Intent("AAA", 10, "BUY", 10000, <<1, 1>>, 4)}}
OnB ==
  {{Intent("BBB", 0, "BUY", 9100, <<1, 1>>, 5), Intent("BBB", 5, "SELL", 10600, <<1, 1>>, 4)},
   {Intent("BBB", 2, "SELL", 10100, <<1, 1>>, 4), Intent("BBB", 8, "SELL", 10800, <<1, 1>>, 2)},
   {Intent("BBB", 1, "BUY", 9000, <<1, 1>>, 4), Intent("BBB", 5, "BUY", 10200, <<1, 1>>, 4)}}
Decisions == {a \cup b : a \in OnA, b \in OnB}

Sweep(family, decisions) ==
  [family |-> family,
   variants |-> [v \in DOMAIN decisions |-> [label |-> <<"tight", "wide", "late">>[v], intents |-> decisions[v]]]]

FirstA == CHOOSE d \in Decisions : Cardinality(d) = 5
(* A trade that just pays its costs, and a sweep of one. *)
Even == {Intent("AAA", 0, "BUY", 9700, <<1, 1>>, 3)}
AnySweep ==
  {Sweep("gap", <<a, b>>) : a, b \in Decisions} \cup {Sweep("gap", <<FirstA, Even>>), Sweep("gap", <<FirstA>>)}
NextSweep == {Sweep(family, <<CHOOSE d \in Decisions : Intent("BBB", 2, "SELL", 10100, <<1, 1>>, 4) \in d,
                              FirstA>>) : family \in {"gap", "fade"}}
JustOne == <<NextSweep>>
TheRequests == <<AnySweep, NextSweep>>

(* Levels in halves of the reference; the cap on a fee is not scaled. *)
Model(scale) ==
  [scale |-> scale, fraction |-> <<5 * scale, 20000>>, min_spread |-> 50 * scale, per_share |-> 25 * scale,
   min_fee |-> 100 * scale, max_fraction |-> <<1, 100>>]
TheModels == <<Model(2), Model(4), Model(1)>>

TheCV == [n_groups |-> 4, n_test_groups |-> 2, embargo |-> 1]
=============================================================================
