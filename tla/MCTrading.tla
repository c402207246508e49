----------------------------- MODULE MCTrading -----------------------------
EXTENDS Trading

(* Three short days, the last cut; a minute before the third is outside of all. *)
ThreeDays ==
  <<[day |-> 1, open |-> 0, close |-> 2, next_open |-> 2],
    [day |-> 2, open |-> 2, close |-> 5, next_open |-> 6],
    [day |-> 3, open |-> 6, close |-> 8, next_open |-> None]>>

Bar(o, h, l, c, v) == [open |-> o, high |-> h, low |-> l, close |-> c, volume |-> v,
                       vwap |-> None, features |-> [rvol |-> v, atr |-> 2]]
Calm == Bar(100, 102, 98, 100, 4)
Up == [Bar(102, 115, 102, 115, 1) EXCEPT !.features["rvol"] = 4, !.vwap = 110]
Poke == Bar(100, 110, 99, 101, 1)
Down == Bar(98, 98, 85, 85, 1)
Outside == Bar(100, 120, 80, 100, 1)

TheShapes == "AAA" :> {Calm, Up, Poke, Down, Outside}
TheStrays == {Up}
OneSymbol == <<"AAA">>

Row(trailing, residual, volume) ==
  [trailing |-> {trailing}, residual |-> {residual}, relative_volume |-> {volume}]
OnTop == ("AAA" :> Row(4, 4, 20)) @@ ("BBB" :> Row(1, 1, 15))
AtBottom == ("AAA" :> Row(0 - 4, 0 - 4, 5)) @@ ("BBB" :> Row(1, 1, 1))

TheMarkets ==
  {[regime |-> "UNKNOWN", ungated |-> TRUE, overnight |-> FALSE, section |-> OnTop],
   [regime |-> "CHOP", ungated |-> FALSE, overnight |-> TRUE, section |-> AtBottom]}

TheRules ==
  [min_gap_ranges |-> 100, entry_window_bars |-> 3, opening_minutes |-> 1, excursion_parts |-> 4,
   selection_size |-> 1, selection_floor |-> 10, volatility_multiplier |-> 1, checkpoint_minutes |-> 1,
   band_halves |-> 2, min_dispersion_bars |-> 2, opening_window |-> 2, closing_window |-> 1,
   reversal_halves |-> 1, stop_halves |-> 12, entry_minutes_before_close |-> 2,
   exit_minutes_after_open |-> 2, min_session_bars |-> 2, min_rvol |-> 4, min_range_atrs |-> 2,
   extreme_names |-> 1, min_ranked |-> 2]
=============================================================================
