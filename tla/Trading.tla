------------------------------ MODULE Trading ------------------------------
(***************************************************************************)
(* The arsenal over the session levels, bar by bar: MarketContext keeps    *)
(* one book of levels per symbol, each permitted strategy sees the bar, and *)
(* a minute may bring a bar of any shape, in a session or outside of all,  *)
(* or none.  Shapes are bars without a symbol and a time.                  *)
(***************************************************************************)
EXTENDS Arsenal

CONSTANTS
  Days,        \* Days[d] = [day, open, close, next_open], in order
  Shapes,      \* what a bar inside a session may look like
  StrayShapes, \* and outside of all
  Markets,     \* [regime, ungated, overnight, section]: what else a strategy is shown
  Horizon      \* the last minute

(* The calendar gives sessions in order that do not overlap, each knowing   *)
(* when the next one opens, and an overnight position is held into it.     *)
ASSUME HorizonAssumption == Horizon \in Nat
ASSUME DaysAssumption ==
  /\ Days \in Seq([day : Nat \ {0}, open : Nat, close : Nat, next_open : Nat])
  /\ \A d, e \in DOMAIN Days : d < e => Days[d].close <= Days[e].open /\ Days[d].day # Days[e].day
  /\ \A d \in DOMAIN Days : Days[d].next_open = IF d < Len(Days) THEN Days[d + 1].open ELSE None
ASSUME WindowsAssumption == IsFiniteSet(OpeningWindows) /\ OpeningWindows \subseteq Nat \ {0} /\ OpeningWindows # {}
ASSUME MemoryAssumption == RangeMemory \in Nat \ {0} /\ MoveMemory \in Nat \ {0} /\ VolumeMemory \in Nat \ {0}
ASSUME ScaleAssumption == Scale \in Nat \ {0} /\ Rules.stop_halves \in Nat

(* A bar is possible (Bar.__post_init__), its prices positive, its volume   *)
(* no less than nothing; what a section ranks on is numbers.               *)
IsShape(shape) ==
  /\ {"open", "high", "low", "close", "volume", "vwap"} \subseteq DOMAIN shape
  /\ \A f \in {"open", "high", "low", "close"} : shape[f] \in Nat \ {0}
  /\ \A f \in {"open", "close"} : shape["low"] <= shape[f] /\ shape[f] <= shape["high"]
  /\ shape["volume"] \in Nat /\ shape["vwap"] \in Nat
ASSUME ShapesAssumption ==
  /\ \A shape \in StrayShapes : IsShape(shape)
  /\ \A s \in {Universe[i] : i \in DOMAIN Universe} : \A shape \in Shapes[s] : IsShape(shape)
ASSUME MarketsAssumption ==
  \A m \in Markets : \A s \in DOMAIN m.section : m.section[s].trailing \subseteq Int /\ m.section[s].residual \subseteq Int
ASSUME OvernightAssumption ==
  Rules.exit_minutes_after_open \in Nat /\ Rules.exit_minutes_after_open > 1

VARIABLES
  now,     \* the minute observed last
  market,  \* one of Markets
  books,   \* SessionLevelTracker, by symbol
  memos,   \* what each strategy remembers of each symbol
  tape,    \* history: the bars seen, by symbol
  intents  \* history: the intents published

vars == <<now, market, books, memos, tape, intents>>

Symbols == Range(Universe)
NoSession == Nowhere
Unseen == <<>>

(* _session_for: a bar is stamped with its close. *)
HeldBetween(s, ts) == s.open < ts /\ ts <= s.close
SessionFor(ts) ==
  IF \E d \in DOMAIN Days : HeldBetween(Days[d], ts)
  THEN Days[CHOOSE d \in DOMAIN Days : HeldBetween(Days[d], ts)]
  ELSE NoSession

(* market_phase; a view outside every session still carries the last levels. *)
MarketPhase(ts) == IF SessionFor(ts) = NoSession THEN "CLOSED" ELSE "REGULAR"

(* __call__: a strategy is shown the features and the section it declared. *)
ViewOf(name, bar, book) ==
  [levels |-> book.levels, phase |-> MarketPhase(bar.ts),
   values |-> [f \in Arsenal[name].features |-> bar.features[f]],
   section |-> IF Arsenal[name].needs_cross_section THEN market.section ELSE Unseen]

Init ==
  /\ now = 0 /\ market \in Markets
  /\ books = [s \in Symbols |-> NewBook]
  /\ memos = [n \in Names |-> [s \in Symbols |-> NewMemo]]
  /\ tape = [s \in Symbols |-> <<>>]
  /\ intents = <<>>

(* The bar is folded into the levels before any strategy is called with it. *)
Dispatch(bar) ==
  LET s == bar.symbol
      book == Update(books[s], bar, SessionFor(bar.ts))
      called == {n \in Hosted(market.overnight) : Permits(n, market.regime, market.ungated)}
      result == [n \in called |-> OnBar(n, bar, ViewOf(n, bar, book), memos[n][s])]
  IN /\ books' = [books EXCEPT ![s] = book]
     /\ memos' = [n \in Names |-> IF n \in called THEN [memos[n] EXCEPT ![s] = result[n].memo]
                                  ELSE memos[n]]
     /\ intents' = intents \o SetToSeq(UNION {result[n].intents : n \in called})
     /\ tape' = [tape EXCEPT ![s] = Append(@, bar)]

Shown(shape, s, ts) ==
  [f \in DOMAIN shape \cup {"symbol", "ts"} |->
     IF f = "symbol" THEN s ELSE IF f = "ts" THEN ts ELSE shape[f]]

(* A minute passes, with one bar of one symbol or with none. *)
Bring(s, shape) ==
  /\ now < Horizon
  /\ shape \in IF SessionFor(now + 1) = NoSession THEN StrayShapes ELSE Shapes[s]
  /\ now' = now + 1
  /\ Dispatch(Shown(shape, s, now + 1))
  /\ UNCHANGED market

Quiet ==
  /\ now < Horizon /\ now' = now + 1
  /\ UNCHANGED <<market, books, memos, tape, intents>>

Next == Quiet \/ \E s \in Symbols : \E shape \in Shapes[s] \cup StrayShapes : Bring(s, shape)
Spec == Init /\ [][Next]_vars
-----------------------------------------------------------------------------
TypeOK ==
  /\ now \in 0..Horizon /\ market \in Markets
  /\ \A s \in Symbols : books[s].levels = NoLevels \/ DOMAIN books[s].levels = LevelFields
  /\ \A n \in Names, s \in Symbols : memos[n][s].day \in {0} \cup {Days[d].day : d \in DOMAIN Days}
  /\ \A i \in DOMAIN intents : intents[i].strategy \in Names /\ intents[i].side \in Sides

BarsOf(s, d) == Kept(tape[s], {k \in DOMAIN tape[s] : HeldBetween(Days[d], tape[s][k].ts)})

(* The days before day d on which s printed, newest last, and those of the *)
(* newest among them, as many as are remembered, that reached a minute.    *)
TradedBefore(s, d) == Listed({e \in DOMAIN Days : BarsOf(s, e) # <<>>}, d - 1)
IsAtMinute(bar, d, minute) == bar.ts - Days[d].open = minute
Reaching(s, d, memory, minute) ==
  LET last == Newest(TradedBefore(s, d), memory)
  IN Kept(last, {i \in DOMAIN last :
            \E j \in DOMAIN BarsOf(s, last[i]) : IsAtMinute(BarsOf(s, last[i])[j], last[i], minute)})

SpanOf(bars) == HighestOf(bars) - LowestOf(bars)
MoveBy(bars, d, minute) ==
  LET at == CHOOSE j \in DOMAIN bars : IsAtMinute(bars[j], d, minute)
  IN MoveFrom(bars[1].open, bars[at].close)
PaidBy(bars, d, minute) == SessionPaid(bars, Days[d].open + minute)

(* What a book says of day d, read off the tape instead. *)
AsTheTapeSays(s, d) ==
  LET l == books[s].levels
      bars == BarsOf(s, d)
      before == TradedBefore(s, d)
      minute == Last(bars).ts - Days[d].open
      spans == Newest([i \in DOMAIN before |-> SpanOf(BarsOf(s, before[i]))], RangeMemory)
      moved == Reaching(s, d, MoveMemory, minute)
      moves == [i \in DOMAIN moved |-> MoveBy(BarsOf(s, moved[i]), moved[i], minute)]
      sold == Reaching(s, d, VolumeMemory, minute)
      volumes == [i \in DOMAIN sold |-> PaidBy(BarsOf(s, sold[i]), sold[i], minute).volume]
  IN /\ \A e \in DOMAIN Days : BarsOf(s, e) # <<>> => e <= d
     /\ l.bar_count = Len(bars) /\ l.session_open = bars[1].open /\ l.close = Last(bars).close
     /\ l.high = HighestOf(bars) /\ l.low = LowestOf(bars)
     /\ l.paid = SessionPaid(bars, now)
     /\ DOMAIN l.ranges = {w \in OpeningWindows : w <= Len(bars)}
     /\ \A w \in DOMAIN l.ranges : l.ranges[w] = OpeningRange(bars, w)
     /\ l.prior_close = IF before = <<>> THEN None ELSE Last(BarsOf(s, Last(before))).close
     /\ l.prior_range_mean = IF Len(before) < RangeMemory THEN None ELSE Total(spans) \div Len(spans)
     /\ l.mean_move = IF Len(before) < MoveMemory \/ moves = <<>> THEN None
                      ELSE Total(moves) \div Len(moves)
     /\ l.relative_volume = IF Len(before) < VolumeMemory \/ Total(volumes) <= 0 THEN None
          ELSE (l.paid.volume * Len(volumes) * Scale) \div Total(volumes)

(* The levels a symbol has are those of the session it printed in last, and *)
(* are what the bars of that session and of the days before it say: the     *)
(* streaming tracker agrees with a reading of the whole tape, whichever     *)
(* minutes are missing (levels.py:597-683).                                 *)
LevelsAreTheSession ==
  \A s \in Symbols : books[s].levels # NoLevels =>
    AsTheTapeSays(s, CHOOSE d \in DOMAIN Days : Days[d].day = books[s].levels.day)

TwoSided == {"intraday_momentum", "vwap_band_reversion"}

(* A strategy proposes once per symbol and session; those that follow a     *)
(* crossing may propose again, but only on the other side.                  *)
OncePerSession ==
  \A i, j \in DOMAIN intents :
    LET a == intents[i]
        b == intents[j]
    IN (i < j /\ a.strategy = b.strategy /\ a.symbol = b.symbol /\ a.day = b.day) =>
         /\ a.strategy \in TwoSided
         /\ a.side = b.side => \E k \in i..j : intents[k].strategy = a.strategy
              /\ intents[k].symbol = a.symbol /\ intents[k].side # a.side

(* Nobody trades a bar outside the session its levels are of, although a    *)
(* view out of hours still shows the levels of the last session             *)
(* (context.py:332): an intent is made inside its day, before the bell, and *)
(* expires at the bell or, overnight, once the next session has printed.    *)
TradedInItsSession ==
  \A i \in DOMAIN intents :
    LET t == intents[i]
        d == CHOOSE e \in DOMAIN Days : Days[e].day = t.day
    IN /\ Days[d].open < t.ts /\ t.ts < Days[d].close
       /\ IF t.strategy = "prior_close_reversal"
          THEN d < Len(Days) /\ t.expires > Days[d + 1].open + 1
          ELSE t.expires = Days[d].close

(* The stop of a proposal stands where the position loses, and its target   *)
(* where it gains, so that R means what the sizing takes it to mean; the    *)
(* VWAP fade, whose proposal carries no entry price, is the exception.       *)
StopsStandBehindTheEntry ==
  \A i \in DOMAIN intents :
    LET t == intents[i]
    IN t.strategy # "vwap_band_reversion" =>
         Beyond(t.side, t.entry, t.invalidation) /\ t.target_r[1] > 0 /\ t.target_r[2] > 0

(* A bar that left a range on one side alone, who fades it, and how far it went. *)
Leaves(range, bar) == BreaksUp(range, bar.high) # BreaksDown(range, bar.low)
FadedBy(range, bar) == IF BreaksUp(range, bar.high) THEN "SELL" ELSE "BUY"
Tip(range, bar) == IF BreaksUp(range, bar.high) THEN bar.high ELSE bar.low

(* The price is the tip of one of those bars, and none since went further, *)
(* nor left the range on the other side.                                   *)
IsTheTip(price, side, bars, left, range) ==
  \E k \in left :
    /\ FadedBy(range, bars[k]) = side /\ Tip(range, bars[k]) = price
    /\ \A m \in left : m > k => FadedBy(range, bars[m]) = side /\ ~Beyond(side, price, Tip(range, bars[m]))

(* A fade is of an excursion of the same session: its stop is the extreme   *)
(* of a bar that left the filled range on that side alone, no such bar      *)
(* since went further, and none since left it on the other.                 *)
FadeIsOfToday(t, bars) ==
  LET d == CHOOSE e \in DOMAIN Days : Days[e].day = t.day
      today == {k \in DOMAIN bars : HeldBetween(Days[d], bars[k].ts) /\ bars[k].ts <= t.ts}
      window == Min(today) .. Min(today) + Rules.opening_minutes - 1
      range == [high |-> Max({bars[k].high : k \in window}), low |-> Min({bars[k].low : k \in window})]
      left == {k \in today \ window : Leaves(range, bars[k])}
  IN window \subseteq today /\ IsTheTip(t.invalidation, t.side, bars, left, range)

FadesAreOfToday ==
  \A i \in DOMAIN intents :
    intents[i].strategy = "orb_fade" => FadeIsOfToday(intents[i], tape[intents[i].symbol])

(* What is proposed is well formed and belongs to one session: made in it,  *)
(* and once.                                                               *)
ProposalsAreOfTheirSession == TypeOK /\ OncePerSession /\ TradedInItsSession

(* Every stop is behind its entry, and the stop of a fade is a price of the *)
(* same session.                                                           *)
StopsAreOfTheirTrade == StopsStandBehindTheEntry /\ FadesAreOfToday
=============================================================================
