--------------------------- MODULE TradingProofs ---------------------------
(***************************************************************************)
(* Whatever the calendar, the bars and the parameters of the rules: no     *)
(* strategy proposes outside the session its levels are of, nor twice on   *)
(* one side of it; every stop stands behind the entry, the fade's at the   *)
(* extreme of an excursion of its own session; and the levels that a       *)
(* tracker keeps bar by bar are what the whole tape says of the session.   *)
(***************************************************************************)
EXTENDS Trading, FiniteSetTheorems, SequenceTheorems, WellFoundedInduction, TLAPS

MemoFields == {"day", "side", "excursion"}

(* What a handler may do: nothing a later bar could take for a proposal, or *)
(* one proposal of the session it was shown, which its memo then is of.    *)
Expiry(n, l) == IF n = "prior_close_reversal" THEN l.next_open + Rules.exit_minutes_after_open
                ELSE l.close_at
Proposes(n, bar, view, memo, result, t) ==
  /\ result.intents = {t}
  /\ t.strategy = n /\ t.symbol = bar.symbol /\ t.ts = bar.ts /\ t.day = view.levels.day
  /\ t.side \in Sides /\ t.expires = Expiry(n, view.levels)
  /\ result.memo.day = t.day /\ result.memo.side = t.side
  /\ BeforeTheBell(bar, view)
  /\ n = "prior_close_reversal" => view.levels.next_open # None
  /\ memo.day = view.levels.day => n \in TwoSided /\ memo.side # t.side
Declines(memo, result) ==
  result.intents = {} /\ result.memo.day = memo.day /\ result.memo.side = memo.side
Handled(n, bar, view, memo, result) ==
  /\ DOMAIN result.memo = MemoFields
  /\ Declines(memo, result) \/ \E t : Proposes(n, bar, view, memo, result, t)
-----------------------------------------------------------------------------
(* A memo stays a memo, and a proposal stamps it. *)
LEMMA StampedMemo ==
  ASSUME NEW memo, DOMAIN memo = MemoFields, NEW l, NEW t
  PROVE  LET stamped == Propose(memo, l, t).memo
         IN DOMAIN stamped = MemoFields /\ stamped.day = l.day /\ stamped.side = t.side
<1> DEFINE dated == [memo EXCEPT !.day = l.day]
           stamped == [dated EXCEPT !.side = t.side]
<1>1. DOMAIN dated = MemoFields /\ dated["day"] = l.day
  BY DEF MemoFields
<1> HIDE DEF dated
<1>2. DOMAIN stamped = MemoFields /\ stamped["day"] = dated["day"] /\ stamped["side"] = t.side
  BY <1>1 DEF MemoFields
<1> HIDE DEF stamped
<1>3. Propose(memo, l, t).memo = stamped
  BY DEF Propose, dated, stamped
<1> QED
  BY <1>1, <1>2, <1>3

LEMMA DecliningIsHandled ==
  ASSUME NEW n, NEW bar, NEW view, NEW memo, NEW kept,
         DOMAIN kept = MemoFields, kept.day = memo.day, kept.side = memo.side
  PROVE  Handled(n, bar, view, memo, Decline(kept))
BY DEF Handled, Declines, Decline

LEMMA ProposingIsHandled ==
  ASSUME NEW n, NEW bar, NEW view, NEW memo, NEW kept, NEW side \in Sides, NEW stop, NEW target, NEW expires,
         DOMAIN kept = MemoFields, BeforeTheBell(bar, view),
         expires = Expiry(n, view.levels),
         n = "prior_close_reversal" => view.levels.next_open # None,
         memo.day = view.levels.day => n \in TwoSided /\ memo.side # side
  PROVE  Handled(n, bar, view, memo,
           Propose(kept, view.levels, Intent(n, bar, view.levels, side, stop, target, expires)))
<1> DEFINE t == Intent(n, bar, view.levels, side, stop, target, expires)
           result == Propose(kept, view.levels, t)
<1>1. /\ t.strategy = n /\ t.symbol = bar.symbol /\ t.ts = bar.ts /\ t.day = view.levels.day
      /\ t.side = side /\ t.expires = expires
  BY DEF Intent
<1> HIDE DEF t
<1>2. DOMAIN result.memo = MemoFields /\ result.memo.day = view.levels.day /\ result.memo.side = t.side
  BY StampedMemo
<1>3. result.intents = {t}
  BY DEF Propose
<1> HIDE DEF result
<1>4. Proposes(n, bar, view, memo, result, t)
  BY <1>1, <1>2, <1>3 DEF Proposes
<1>5. Handled(n, bar, view, memo, result)
  BY <1>2, <1>4 DEF Handled
<1> QED
  BY <1>5 DEF t, result
-----------------------------------------------------------------------------
(* The ten handlers, one by one. *)
LEMMA GapContinuationHandles ==
  ASSUME NEW bar, NEW view, NEW memo, DOMAIN memo = MemoFields
  PROVE  Handled("gap_continuation", bar, view, memo, GapContinuation(bar, view, memo))
BY DecliningIsHandled, ProposingIsHandled DEF GapContinuation, TradedToday, SameSideToday, Sides, TwoSided, Expiry

LEMMA OpeningRangeBreakoutHandles ==
  ASSUME NEW bar, NEW view, NEW memo, DOMAIN memo = MemoFields
  PROVE  Handled("opening_range_breakout", bar, view, memo, OpeningRangeBreakout(bar, view, memo))
BY DecliningIsHandled, ProposingIsHandled DEF OpeningRangeBreakout, TradedToday, SameSideToday, Sides, TwoSided, Expiry

LEMMA IntradayMomentumHandles ==
  ASSUME NEW bar, NEW view, NEW memo, DOMAIN memo = MemoFields
  PROVE  Handled("intraday_momentum", bar, view, memo, IntradayMomentum(bar, view, memo))
BY DecliningIsHandled, ProposingIsHandled DEF IntradayMomentum, TradedToday, SameSideToday, Sides, TwoSided, Expiry

LEMMA VwapBandReversionHandles ==
  ASSUME NEW bar, NEW view, NEW memo, DOMAIN memo = MemoFields
  PROVE  Handled("vwap_band_reversion", bar, view, memo, VwapBandReversion(bar, view, memo))
BY DecliningIsHandled, ProposingIsHandled DEF VwapBandReversion, TradedToday, SameSideToday, Sides, TwoSided, Expiry

LEMMA PriorCloseReversalHandles ==
  ASSUME NEW bar, NEW view, NEW memo, DOMAIN memo = MemoFields
  PROVE  Handled("prior_close_reversal", bar, view, memo, PriorCloseReversal(bar, view, memo))
BY DecliningIsHandled, ProposingIsHandled DEF PriorCloseReversal, TradedToday, SameSideToday, Sides, TwoSided, Expiry

LEMMA MomentumIgnitionHandles ==
  ASSUME NEW bar, NEW view, NEW memo, DOMAIN memo = MemoFields
  PROVE  Handled("momentum_ignition", bar, view, memo, MomentumIgnition(bar, view, memo))
BY DecliningIsHandled, ProposingIsHandled DEF MomentumIgnition, TradedToday, SameSideToday, Sides, TwoSided, Expiry

LEMMA OrbFadeHandles ==
  ASSUME NEW bar, NEW view, NEW memo, DOMAIN memo = MemoFields
  PROVE  Handled("orb_fade", bar, view, memo, OrbFade(bar, view, memo))
<1> DEFINE l == view.levels
           held == Recorded(bar, Opening(l), HeldToday(memo.excursion, l), l.day)
           kept == [memo EXCEPT !.excursion = held]
<1>1. DOMAIN kept = MemoFields /\ kept.day = memo.day /\ kept.side = memo.side
  BY DEF MemoFields
<1> HIDE DEF kept, held
<1>2. Opposite(held.side) \in Sides
  BY DEF Opposite, Sides
<1>3. Handled("orb_fade", bar, view, memo, Decline(kept))
  BY <1>1, DecliningIsHandled
<1>4. Handled("orb_fade", bar, view, memo, Decline(memo))
  BY DecliningIsHandled
<1>5. ASSUME BeforeTheBell(bar, view), ~TradedToday(memo, l), NEW stop, NEW target
      PROVE  Handled("orb_fade", bar, view, memo,
               Propose(kept, l, Intent("orb_fade", bar, l, Opposite(held.side), stop, target, l.close_at)))
  BY <1>1, <1>2, <1>5, ProposingIsHandled DEF TradedToday, Expiry
<1> QED
  BY <1>3, <1>4, <1>5 DEF OrbFade, kept, held

(* The three that read a ranking. *)
LEMMA CrossSectionalHandles ==
  ASSUME NEW n, n # "prior_close_reversal", NEW bar, NEW view, NEW memo, DOMAIN memo = MemoFields,
         NEW column, NEW long_end_is_top, NEW target_r
  PROVE  Handled(n, bar, view, memo,
           CrossSectional(n, bar, view, memo, column, long_end_is_top, target_r))
BY DecliningIsHandled, ProposingIsHandled DEF CrossSectional, TradedToday, Sides, Expiry

LEMMA EveryHandler ==
  ASSUME NEW n \in Names, NEW bar, NEW view, NEW memo, DOMAIN memo = MemoFields
  PROVE  Handled(n, bar, view, memo, OnBar(n, bar, view, memo))
<1>1. Names = {"gap_continuation", "opening_range_breakout", "orb_fade", "intraday_momentum",
               "vwap_band_reversion", "prior_close_reversal", "momentum_ignition", "relative_strength",
               "residual_reversion", "intraday_reversal"}
  BY DEF Names, Arsenal
<1>2. CASE n = "relative_strength"
  BY <1>2, CrossSectionalHandles DEF OnBar, RelativeStrength
<1>3. CASE n = "residual_reversion"
  BY <1>3, CrossSectionalHandles DEF OnBar, ResidualReversion
<1>4. CASE n = "intraday_reversal"
  BY <1>4, CrossSectionalHandles DEF OnBar, IntradayReversal
<1>5. CASE n \notin {"relative_strength", "residual_reversion", "intraday_reversal"}
  BY <1>1, <1>5, GapContinuationHandles, OpeningRangeBreakoutHandles, OrbFadeHandles,
     IntradayMomentumHandles, VwapBandReversionHandles, PriorCloseReversalHandles,
     MomentumIgnitionHandles DEF OnBar
<1> QED
  BY <1>2, <1>3, <1>4, <1>5
-----------------------------------------------------------------------------
LEMMA DayFields ==
  ASSUME NEW d \in DOMAIN Days
  PROVE  /\ Days[d].day \in Nat \ {0} /\ Days[d].open \in Nat /\ Days[d].close \in Nat
         /\ d \in Nat /\ Days[d] # NoSession
<1>1. DOMAIN Days = 1..Len(Days) /\ Len(Days) \in Nat
  BY DaysAssumption, LenProperties
<1>2. Days[d] \in [day : Nat \ {0}, open : Nat, close : Nat, next_open : Nat]
  BY <1>1, DaysAssumption, ElementOfSeq
<1>3. DOMAIN Days[d] = {"day", "open", "close", "next_open"}
  BY <1>2
<1>4. DOMAIN NoSession = {}
  BY DEF NoSession, Nowhere
<1>5. Days[d].day \in Nat \ {0} /\ Days[d].open \in Nat /\ Days[d].close \in Nat
  BY <1>2
<1>6. Days[d] # NoSession
  BY <1>3, <1>4
<1> QED
  BY <1>1, <1>5, <1>6

(* Sessions do not overlap: one minute is in one of them. *)
LEMMA OneSession ==
  ASSUME NEW d \in DOMAIN Days, NEW e \in DOMAIN Days, NEW ts \in Nat, NEW us \in Nat,
         Days[d].open < ts, us <= Days[d].close, Days[e].open < us, ts <= Days[e].close,
         Days[d].open < us, ts <= Days[d].close, Days[e].open < ts, us <= Days[e].close
  PROVE  d = e
<1>1. DOMAIN Days \subseteq Nat /\ \A f \in DOMAIN Days : Days[f].open \in Nat /\ Days[f].close \in Nat
  BY DayFields
<1>2. ASSUME NEW f \in DOMAIN Days, NEW g \in DOMAIN Days, f < g PROVE Days[f].close <= Days[g].open
  BY <1>2, DaysAssumption
<1>3. ~(d < e)
  BY <1>1, <1>2
<1>4. ~(e < d)
  BY <1>1, <1>2
<1> QED
  BY <1>1, <1>3, <1>4

LEMMA SessionOfADay ==
  ASSUME NEW ts \in Nat
  PROVE  \/ SessionFor(ts) = NoSession
         \/ \E d \in DOMAIN Days : SessionFor(ts) = Days[d] /\ Days[d].open < ts /\ ts <= Days[d].close
BY DEF SessionFor, HeldBetween

BookFields ==
  {"levels", "session", "prior_close", "ranges", "moves", "session_moves", "volumes",
   "session_volumes", "paid", "opening"}

(* Once a bar of a session is folded in, the levels are of that session. *)
LEMMA LevelsOfTheSession ==
  ASSUME NEW book, DOMAIN book = BookFields, NEW bar, NEW d \in DOMAIN Days
  PROVE  LET after == Update(book, bar, Days[d])
         IN /\ DOMAIN after = BookFields /\ DOMAIN after.levels = LevelFields
            /\ after.levels.day = Days[d].day /\ after.levels.close_at = Days[d].close
            /\ after.levels.next_open = Days[d].next_open
<1> DEFINE s == Days[d]
           after == Update(book, bar, s)
           today == IF book.session = s.open THEN book ELSE Roll(book, s)
           minute == bar.ts - s.open
           start == IF today.levels = NoLevels THEN bar.open ELSE today.levels.session_open
           paid == AndPaid(today.paid, bar)
           folded == [today EXCEPT
             !.paid = paid,
             !.opening = IF Len(@) < Max(OpeningWindows) THEN Append(@, bar) ELSE @,
             !.session_moves = With(@, minute, MoveFrom(start, bar.close)),
             !.session_volumes = With(@, minute, paid.volume)]
           levels == LevelsAfterBar(folded, today.levels, bar, s)
<1>1. DOMAIN today = BookFields
  <2>1. DOMAIN Roll(book, s) = BookFields
    BY DEF Roll, Cleared, NewBook, BookFields
  <2> QED
    BY <2>1
<1>2. after = [folded EXCEPT !.levels = levels]
  BY DayFields DEF Update, NoSession
<1> HIDE DEF today, after
<1>3. DOMAIN folded = BookFields
  BY <1>1
<1> HIDE DEF folded
<1>4. /\ DOMAIN levels = LevelFields /\ levels.day = s.day /\ levels.close_at = s.close
      /\ levels.next_open = s.next_open
  BY DEF LevelsAfterBar, LevelFields
<1> HIDE DEF levels
<1>5. DOMAIN after = BookFields /\ after.levels = levels
  BY <1>2, <1>3 DEF BookFields
<1> QED
  BY <1>4, <1>5 DEF after
-----------------------------------------------------------------------------
(* The order in which one bar's proposals are published is any order of     *)
(* them, each once: there are at most ten.                                 *)
LEMMA NamesAreFew == IsFiniteSet(Names)
<1> DEFINE list ==
      <<"gap_continuation", "opening_range_breakout", "orb_fade", "intraday_momentum",
        "vwap_band_reversion", "prior_close_reversal", "momentum_ignition", "relative_strength",
        "residual_reversion", "intraday_reversal">>
<1>1. list \in Surjection(1..10, Names)
  BY DEF Surjection, Names, Arsenal
<1>2. \A n \in Nat : IsFiniteSet(1..n)
  BY FS_Interval
<1>3. IsFiniteSet(1..10)
  BY <1>2
<1> HIDE DEF list
<1> QED
  BY <1>1, <1>3, FS_Surjection

LEMMA SequenceOfASet ==
  ASSUME NEW S, IsFiniteSet(S)
  PROVE  /\ SetToSeq(S) \in Seq(S) /\ IsInjective(SetToSeq(S))
         /\ \A x \in S : \E i \in DOMAIN SetToSeq(S) : SetToSeq(S)[i] = x
<1> DEFINE D == 1..Cardinality(S)
           list == SetToSeq(S)
<1>1. PICK f : f \in Bijection(D, S)
  BY FS_CardinalityType DEF ExistsBijection
<1>2. f \in [D -> S] /\ IsInjective(f)
  BY <1>1 DEF Bijection, Injection
<1>3. list \in [D -> S] /\ IsInjective(list)
  BY <1>2 DEF SetToSeq
<1> HIDE DEF list
<1>4. Cardinality(S) \in Nat /\ IsFiniteSet(D) /\ Cardinality(D) = Cardinality(S)
  BY FS_CardinalityType, FS_Interval
<1>5. list \in Injection(D, S)
  BY <1>3 DEF Injection
<1>6. list \in Surjection(D, S)
  BY <1>4, <1>5, FS_Injection
<1>7. list \in Seq(S)
  BY <1>3, <1>4, SeqDef
<1> QED
  BY <1>3, <1>6, <1>7 DEF Surjection, list

(* What a bar makes the strategies propose: at most one each. *)
LEMMA FewProposals ==
  ASSUME NEW P, \A t \in P : t.strategy \in Names,
         \A t, u \in P : t.strategy = u.strategy => t = u
  PROVE  IsFiniteSet(P)
<1> DEFINE by == [t \in P |-> t.strategy]
<1>1. by \in Injection(P, Names)
  BY DEF Injection, IsInjective
<1> HIDE DEF by
<1> QED
  BY <1>1, NamesAreFew, FS_Injection
-----------------------------------------------------------------------------
(* Every proposal was made in its session, before its bell and until now.  *)
MadeIn(t, d) ==
  /\ t.day = Days[d].day /\ Days[d].open < t.ts /\ t.ts < Days[d].close
  /\ IF t.strategy = "prior_close_reversal"
     THEN Days[d].next_open # None /\ t.expires = Days[d].next_open + Rules.exit_minutes_after_open
     ELSE t.expires = Days[d].close
Made(t, until) ==
  /\ t.strategy \in Names /\ t.symbol \in Symbols /\ t.side \in Sides
  /\ t.ts \in Nat /\ t.ts <= until
  /\ \E d \in DOMAIN Days : MadeIn(t, d)

Of(n, s) == {i \in DOMAIN intents : intents[i].strategy = n /\ intents[i].symbol = s}

(* A memo is of the latest proposal of its strategy and symbol. *)
MemoIsOfTheLatest ==
  \A n \in Names, s \in Symbols : Of(n, s) # {} =>
    \E k \in Of(n, s) :
      /\ \A i \in Of(n, s) : i <= k
      /\ memos[n][s].day = intents[k].day /\ memos[n][s].side = intents[k].side

Shaped ==
  /\ now \in 0..Horizon /\ market \in Markets
  /\ books = [s \in Symbols |-> books[s]]
  /\ \A s \in Symbols : DOMAIN books[s] = BookFields
       /\ (books[s].levels = NoLevels \/ DOMAIN books[s].levels = LevelFields)
  /\ memos = [n \in Names |-> [s \in Symbols |-> memos[n][s]]]
  /\ \A n \in Names, s \in Symbols : DOMAIN memos[n][s] = MemoFields
       /\ memos[n][s].day \in {0} \cup {Days[d].day : d \in DOMAIN Days}
  /\ \E S : intents \in Seq(S)

InOrderOfTime == \A i, j \in DOMAIN intents : i < j => intents[i].ts <= intents[j].ts

IInv ==
  /\ Shaped
  /\ \A i \in DOMAIN intents : Made(intents[i], now)
  /\ MemoIsOfTheLatest
  /\ InOrderOfTime
  /\ OncePerSession

LEMMA InitIInv == Init => IInv
<1> SUFFICES ASSUME Init PROVE IInv
  OBVIOUS
<1>1. Shaped
  <2>1. now \in 0..Horizon /\ market \in Markets
    BY HorizonAssumption DEF Init
  <2>2. books = [s \in Symbols |-> books[s]] /\ \A s \in Symbols : DOMAIN books[s] = BookFields /\ books[s].levels = NoLevels
    BY DEF Init, NewBook, BookFields
  <2>3. memos = [n \in Names |-> [s \in Symbols |-> memos[n][s]]]
    BY DEF Init
  <2>4. \A n \in Names, s \in Symbols : DOMAIN memos[n][s] = MemoFields /\ memos[n][s].day = 0
    BY DEF Init, NewMemo, MemoFields
  <2>5. intents \in Seq({})
    BY EmptySeq DEF Init
  <2> QED
    BY <2>1, <2>2, <2>3, <2>4, <2>5 DEF Shaped
<1>2. DOMAIN intents = {}
  BY DEF Init
<1> QED
  BY <1>1, <1>2 DEF IInv, MemoIsOfTheLatest, Of, InOrderOfTime, OncePerSession
-----------------------------------------------------------------------------
(* A bar: what every strategy called with it returns. *)
LEMMA BringKeepsIInv ==
  ASSUME IInv, NEW s \in Symbols, NEW shape, Bring(s, shape)
  PROVE  IInv'
<1> DEFINE ts == now + 1
           bar == Shown(shape, s, ts)
           book == Update(books[s], bar, SessionFor(ts))
           called == {n \in Hosted(market.overnight) : Permits(n, market.regime, market.ungated)}
           result == [n \in called |-> OnBar(n, bar, ViewOf(n, bar, book), memos[n][s])]
           P == UNION {result[n].intents : n \in called}
           batch == SetToSeq(P)
           old == Len(intents)
<1>1. /\ now \in Nat /\ ts \in 0..Horizon /\ now' = ts /\ market' = market /\ ts \in Nat /\ now < ts
  BY HorizonAssumption DEF Bring, IInv, Shaped
<1>2. bar.symbol = s /\ bar.ts = ts
  BY DEF Shown
<1> HIDE DEF bar
<1>3. called \subseteq Names
  BY DEF Hosted
<1>4. /\ books' = [books EXCEPT ![s] = book]
      /\ memos' = [n \in Names |-> IF n \in called THEN [memos[n] EXCEPT ![s] = result[n].memo] ELSE memos[n]]
      /\ intents' = intents \o batch
  BY <1>2 DEF Bring, Dispatch, bar
<1>5. /\ DOMAIN book = BookFields
      /\ book.levels = NoLevels \/ DOMAIN book.levels = LevelFields
      /\ SessionFor(ts) # NoSession =>
           \E d \in DOMAIN Days :
             /\ Days[d].open < ts /\ ts <= Days[d].close
             /\ book.levels.day = Days[d].day /\ book.levels.close_at = Days[d].close
             /\ book.levels.next_open = Days[d].next_open
  <2>1. DOMAIN books[s] = BookFields /\ (books[s].levels = NoLevels \/ DOMAIN books[s].levels = LevelFields)
    BY DEF IInv, Shaped
  <2>2. CASE SessionFor(ts) = NoSession
    <3>1. book = books[s]
      BY <2>2 DEF Update, NoSession
    <3> QED
      BY <2>1, <2>2, <3>1
  <2>3. CASE SessionFor(ts) # NoSession
    <3>1. PICK d \in DOMAIN Days : SessionFor(ts) = Days[d] /\ Days[d].open < ts /\ ts <= Days[d].close
      BY <1>1, <2>3, SessionOfADay
    <3>2. /\ DOMAIN book = BookFields /\ DOMAIN book.levels = LevelFields
          /\ book.levels.day = Days[d].day /\ book.levels.close_at = Days[d].close
          /\ book.levels.next_open = Days[d].next_open
      BY <2>1, <3>1, LevelsOfTheSession
    <3> QED
      BY <3>1, <3>2
  <2> QED
    BY <2>2, <2>3
<1> HIDE DEF book
<1>6. ASSUME NEW n \in called
      PROVE  /\ DOMAIN result[n].memo = MemoFields
             /\ \/ Declines(memos[n][s], result[n])
                \/ \E t : /\ Proposes(n, bar, ViewOf(n, bar, book), memos[n][s], result[n], t)
                         /\ t.ts = ts /\ t.symbol = s
                         /\ \E d \in DOMAIN Days : MadeIn(t, d)
  <2>1. Handled(n, bar, ViewOf(n, bar, book), memos[n][s], result[n])
    BY <1>3, EveryHandler DEF IInv, Shaped
  <2>2. ASSUME NEW t, Proposes(n, bar, ViewOf(n, bar, book), memos[n][s], result[n], t)
        PROVE  t.ts = ts /\ t.symbol = s /\ \E d \in DOMAIN Days : MadeIn(t, d)
    <3>1. SessionFor(ts) # NoSession /\ ts < book.levels.close_at
      BY <1>2, <2>2 DEF Proposes, BeforeTheBell, ViewOf, MarketPhase
    <3>2. PICK d \in DOMAIN Days :
            /\ Days[d].open < ts /\ ts <= Days[d].close
            /\ book.levels.day = Days[d].day /\ book.levels.close_at = Days[d].close
            /\ book.levels.next_open = Days[d].next_open
      BY <1>5, <3>1
    <3>3. /\ t.strategy = n /\ t.ts = ts /\ t.symbol = s /\ t.day = book.levels.day
          /\ t.expires = Expiry(n, book.levels)
          /\ n = "prior_close_reversal" => book.levels.next_open # None
      BY <1>2, <2>2 DEF Proposes, ViewOf
    <3>4. MadeIn(t, d)
      BY <3>1, <3>2, <3>3 DEF MadeIn, Expiry
    <3> QED
      BY <3>3, <3>4
  <2> QED
    BY <2>1, <2>2 DEF Handled
<1> HIDE DEF result
<1>7. ASSUME NEW t \in P
      PROVE  /\ t.strategy \in called
             /\ Proposes(t.strategy, bar, ViewOf(t.strategy, bar, book), memos[t.strategy][s], result[t.strategy], t)
             /\ t.ts = ts /\ t.symbol = s /\ \E d \in DOMAIN Days : MadeIn(t, d)
             /\ result[t.strategy].intents = {t}
  <2>1. PICK n \in called : t \in result[n].intents
    OBVIOUS
  <2>2. PICK u : /\ Proposes(n, bar, ViewOf(n, bar, book), memos[n][s], result[n], u)
                 /\ u.ts = ts /\ u.symbol = s /\ \E d \in DOMAIN Days : MadeIn(u, d)
    BY <1>6, <2>1 DEF Declines
  <2>3. u = t /\ u.strategy = n
    BY <2>1, <2>2 DEF Proposes
  <2> QED
    BY <2>2, <2>3 DEF Proposes
<1>8. batch \in Seq(P) /\ IsInjective(batch) /\ \A t \in P : \E i \in DOMAIN batch : batch[i] = t
  <2> HIDE DEF P, called
  <2>1. \A t, u \in P : t.strategy = u.strategy => t = u
    BY <1>7
  <2>2. IsFiniteSet(P)
    BY <1>3, <1>7, <2>1, FewProposals
  <2> QED
    BY <2>2, SequenceOfASet
<1> HIDE DEF P, batch, called
<1>9. PICK S : intents \in Seq(S)
  BY DEF IInv, Shaped
<1>10. /\ old \in Nat /\ DOMAIN intents = 1..old /\ Len(batch) \in Nat /\ DOMAIN batch = 1..Len(batch)
       /\ intents' \in Seq(S \cup P) /\ DOMAIN intents' = 1..(old + Len(batch))
       /\ \A i \in 1..old : intents'[i] = intents[i]
       /\ \A i \in (old + 1)..(old + Len(batch)) : intents'[i] = batch[i - old]
  <2>1. intents \in Seq(S \cup P) /\ batch \in Seq(S \cup P)
    BY <1>8, <1>9, SeqMonotonic
  <2>2. /\ old \in Nat /\ DOMAIN intents = 1..old /\ Len(batch) \in Nat /\ DOMAIN batch = 1..Len(batch)
    BY <2>1, LenProperties
  <2>3. /\ intents' \in Seq(S \cup P) /\ Len(intents') = old + Len(batch)
        /\ \A i \in 1..(old + Len(batch)) :
             intents'[i] = IF i <= old THEN intents[i] ELSE batch[i - old]
    BY <1>4, <2>1, ConcatProperties
  <2> HIDE DEF old
  <2>4. DOMAIN intents' = 1..(old + Len(batch))
    BY <2>3, LenProperties
  <2> QED
    BY <2>2, <2>3, <2>4
<1> HIDE DEF old
<1>11. ASSUME NEW i \in DOMAIN intents', i \notin DOMAIN intents
       PROVE  i > old /\ i - old \in DOMAIN batch /\ intents'[i] = batch[i - old] /\ intents'[i] \in P
  <2>1. i > old /\ i - old \in 1..Len(batch) /\ intents'[i] = batch[i - old]
    BY <1>10, <1>11
  <2> QED
    BY <1>8, <1>10, <2>1, ElementOfSeq
<1>12. ASSUME NEW n \in Names, NEW u \in Symbols
       PROVE  /\ memos'[n][u] = IF n \in called /\ u = s THEN result[n].memo ELSE memos[n][u]
              /\ DOMAIN memos'[n] = Symbols
  BY <1>4 DEF IInv, Shaped
<1>13. Shaped'
  <2>1. now' \in 0..Horizon /\ market' \in Markets
    BY <1>1 DEF IInv, Shaped
  <2>2. books' = [u \in Symbols |-> books'[u]] /\ \A u \in Symbols : books'[u] = IF u = s THEN book ELSE books[u]
    BY <1>4 DEF IInv, Shaped
  <2>3. \A u \in Symbols : DOMAIN books'[u] = BookFields
          /\ (books'[u].levels = NoLevels \/ DOMAIN books'[u].levels = LevelFields)
    BY <1>5, <2>2 DEF IInv, Shaped
  <2>4. memos' = [n \in Names |-> [u \in Symbols |-> memos'[n][u]]]
    BY <1>4 DEF IInv, Shaped
  <2>5. ASSUME NEW n \in Names, NEW u \in Symbols
        PROVE  DOMAIN memos'[n][u] = MemoFields
                 /\ memos'[n][u].day \in {0} \cup {Days[d].day : d \in DOMAIN Days}
    <3>1. DOMAIN memos[n][u] = MemoFields /\ memos[n][u].day \in {0} \cup {Days[d].day : d \in DOMAIN Days}
      BY DEF IInv, Shaped
    <3>2. CASE n \in called /\ u = s
      BY <1>6, <1>12, <3>1, <3>2 DEF Declines, Proposes, MadeIn
    <3> QED
      BY <1>12, <3>1, <3>2
  <2>6. \E T : intents' \in Seq(T)
    BY <1>10
  <2> QED
    BY <2>1, <2>2, <2>3, <2>4, <2>5, <2>6 DEF Shaped
<1>14. ASSUME NEW i \in DOMAIN intents' PROVE Made(intents'[i], now')
  <2>1. CASE i \in DOMAIN intents
    BY <1>1, <1>10, <2>1 DEF IInv, Made
  <2>2. CASE i \notin DOMAIN intents
    BY <1>1, <1>3, <1>7, <1>11, <2>2 DEF Made, Proposes
  <2> QED
    BY <2>1, <2>2
<1>15. MemoIsOfTheLatest'
  <2> SUFFICES ASSUME NEW n \in Names, NEW u \in Symbols, Of(n, u)' # {}
               PROVE  \E k \in Of(n, u)' :
                        /\ \A i \in Of(n, u)' : i <= k
                        /\ memos'[n][u].day = intents'[k].day /\ memos'[n][u].side = intents'[k].side
    BY DEF MemoIsOfTheLatest
  <2>1. CASE u = s /\ \E t \in P : t.strategy = n
    <3>1. PICK t \in P : t.strategy = n
      BY <2>1
    <3>2. PICK m \in DOMAIN batch : batch[m] = t
      BY <1>8
    <3> DEFINE k == old + m
    <3>3. k \in DOMAIN intents' /\ k > old /\ intents'[k] = t /\ m \in 1..Len(batch)
      BY <1>10, <3>2
    <3>4. k \in Of(n, u)'
      BY <1>7, <2>1, <3>1, <3>3 DEF Of
    <3>5. ASSUME NEW i \in Of(n, u)' PROVE i <= k
      <4>1. i \in DOMAIN intents' /\ intents'[i].strategy = n
        BY DEF Of
      <4>2. CASE i \in DOMAIN intents
        BY <1>10, <3>3, <4>2
      <4>3. CASE i \notin DOMAIN intents
        <5>1. i - old \in DOMAIN batch /\ intents'[i] = batch[i - old] /\ intents'[i] \in P
          BY <1>11, <4>1, <4>3
        <5>2. intents'[i] = t
          BY <1>7, <3>1, <4>1, <5>1
        <5>3. i - old = m
          BY <1>8, <3>2, <5>1, <5>2 DEF IsInjective
        <5> QED
          BY <1>10, <4>1, <5>3
      <4> QED
        BY <4>2, <4>3
    <3>6. memos'[n][u].day = t.day /\ memos'[n][u].side = t.side
      BY <1>7, <1>12, <2>1, <3>1 DEF Proposes
    <3> QED
      BY <3>3, <3>4, <3>5, <3>6
  <2>2. CASE ~(u = s /\ \E t \in P : t.strategy = n)
    <3>1. ASSUME NEW i \in Of(n, u)' PROVE i \in Of(n, u) /\ intents'[i] = intents[i]
      <4>1. i \in DOMAIN intents' /\ intents'[i].strategy = n /\ intents'[i].symbol = u
        BY DEF Of
      <4>2. i \in DOMAIN intents
        BY <1>7, <1>11, <2>2, <4>1
      <4> QED
        BY <1>10, <4>1, <4>2 DEF Of
    <3>2. ASSUME NEW i \in Of(n, u) PROVE i \in Of(n, u)' /\ intents'[i] = intents[i]
      BY <1>10 DEF Of
    <3>3. memos'[n][u].day = memos[n][u].day /\ memos'[n][u].side = memos[n][u].side
      <4>1. CASE n \in called /\ u = s
        <5>1. Declines(memos[n][s], result[n])
          <6> SUFFICES ASSUME NEW t, Proposes(n, bar, ViewOf(n, bar, book), memos[n][s], result[n], t)
                       PROVE FALSE
            BY <1>6, <4>1
          <6>1. t \in P /\ t.strategy = n
            BY <4>1 DEF P, Proposes
          <6> QED
            BY <2>2, <4>1, <6>1
        <5> QED
          BY <1>12, <4>1, <5>1 DEF Declines
      <4> QED
        BY <1>12, <4>1
    <3>4. PICK k \in Of(n, u) :
            /\ \A i \in Of(n, u) : i <= k
            /\ memos[n][u].day = intents[k].day /\ memos[n][u].side = intents[k].side
      BY <3>1 DEF IInv, MemoIsOfTheLatest
    <3> QED
      BY <3>1, <3>2, <3>3, <3>4
  <2> QED
    BY <2>1, <2>2
<1>16. ASSUME NEW i \in DOMAIN intents', i \notin DOMAIN intents PROVE intents'[i].ts = ts
  BY <1>7, <1>11, <1>16
<1>17. ASSUME NEW i \in DOMAIN intents PROVE intents'[i] = intents[i] /\ intents[i].ts \in Nat /\ intents[i].ts <= now
  BY <1>10 DEF IInv, Made
<1>18. InOrderOfTime'
  <2> SUFFICES ASSUME NEW i \in DOMAIN intents', NEW j \in DOMAIN intents', i < j
               PROVE  intents'[i].ts <= intents'[j].ts
    BY DEF InOrderOfTime
  <2>1. CASE j \in DOMAIN intents
    <3>1. i \in DOMAIN intents
      BY <1>10, <2>1
    <3> QED
      BY <1>17, <2>1, <3>1 DEF IInv, InOrderOfTime
  <2>2. CASE j \notin DOMAIN intents
    BY <1>1, <1>16, <1>17, <2>2
  <2> QED
    BY <2>1, <2>2
<1>19. OncePerSession'
  <2> SUFFICES ASSUME NEW i \in DOMAIN intents', NEW j \in DOMAIN intents', i < j,
                      intents'[i].strategy = intents'[j].strategy, intents'[i].symbol = intents'[j].symbol,
                      intents'[i].day = intents'[j].day
               PROVE  /\ intents'[i].strategy \in TwoSided
                      /\ intents'[i].side = intents'[j].side =>
                           \E k \in i..j : intents'[k].strategy = intents'[i].strategy
                             /\ intents'[k].symbol = intents'[i].symbol /\ intents'[k].side # intents'[i].side
    BY DEF OncePerSession
  <2>1. CASE j \in DOMAIN intents
    <3>1. i \in DOMAIN intents /\ \A k \in i..j : k \in DOMAIN intents
      BY <1>10, <2>1
    <3>2. intents'[i] = intents[i] /\ intents'[j] = intents[j] /\ \A k \in i..j : intents'[k] = intents[k]
      BY <1>17, <2>1, <3>1
    <3>3. /\ intents[i].strategy \in TwoSided
          /\ intents[i].side = intents[j].side =>
               \E k \in i..j : intents[k].strategy = intents[i].strategy
                 /\ intents[k].symbol = intents[i].symbol /\ intents[k].side # intents[i].side
      BY <2>1, <3>1, <3>2 DEF IInv, OncePerSession
    <3> QED
      BY <3>2, <3>3
  <2>2. CASE j \notin DOMAIN intents /\ i \notin DOMAIN intents
    <3>1. /\ i - old \in DOMAIN batch /\ intents'[i] = batch[i - old] /\ intents'[i] \in P
          /\ j - old \in DOMAIN batch /\ intents'[j] = batch[j - old] /\ intents'[j] \in P
      BY <1>11, <2>2
    <3>2. intents'[i] = intents'[j]
      BY <1>7, <3>1
    <3>3. i - old = j - old
      BY <1>8, <3>1, <3>2 DEF IsInjective
    <3> QED
      BY <1>10, <3>3
  <2>3. CASE j \notin DOMAIN intents /\ i \in DOMAIN intents
    <3> DEFINE b == intents'[j]
               n == b.strategy
    <3>1. b \in P /\ n \in Names /\ b.ts = ts /\ b.symbol = s
      BY <1>3, <1>7, <1>11, <2>3
    <3>2. PICK d \in DOMAIN Days : MadeIn(b, d)
      BY <1>7, <3>1
    <3>3. i \in Of(n, s) /\ intents'[i] = intents[i]
      BY <1>17, <2>3, <3>1 DEF Of
    <3>4. PICK k \in Of(n, s) :
            /\ \A m \in Of(n, s) : m <= k
            /\ memos[n][s].day = intents[k].day /\ memos[n][s].side = intents[k].side
      BY <3>1, <3>3 DEF IInv, MemoIsOfTheLatest
    <3>5. /\ k \in DOMAIN intents /\ i <= k /\ intents[k].strategy = n /\ intents[k].symbol = s
          /\ intents[i].ts <= intents[k].ts /\ intents[i].ts \in Nat /\ intents[k].ts \in Nat
          /\ intents[k].ts <= now
      <4>1. k \in DOMAIN intents /\ i <= k /\ intents[k].strategy = n /\ intents[k].symbol = s
        BY <3>3, <3>4 DEF Of
      <4>2. i = k \/ i < k
        BY <1>10, <2>3, <4>1
      <4> QED
        BY <1>17, <2>3, <4>1, <4>2 DEF IInv, InOrderOfTime
    <3>6. PICK e \in DOMAIN Days : MadeIn(intents[i], e)
      BY <2>3 DEF IInv, Made
    <3>7. e = d
      BY <3>2, <3>3, <3>6, DayFields, DaysAssumption DEF MadeIn
    <3>8. PICK f \in DOMAIN Days : MadeIn(intents[k], f)
      BY <3>5 DEF IInv, Made
    <3>9. f = d
      BY <1>1, <3>1, <3>2, <3>5, <3>6, <3>7, <3>8, OneSession, DayFields DEF MadeIn
    <3>10. memos[n][s].day = b.day
      BY <3>2, <3>4, <3>8, <3>9 DEF MadeIn
    <3>11. n \in TwoSided /\ intents[k].side # b.side
      BY <1>7, <3>1, <3>4, <3>10 DEF Proposes
    <3>12. k \in i..j /\ intents'[k] = intents[k]
      BY <1>10, <1>11, <1>17, <2>3, <3>5
    <3> QED
      BY <3>1, <3>5, <3>11, <3>12
  <2> QED
    BY <2>1, <2>2, <2>3
<1> QED
  BY <1>13, <1>14, <1>15, <1>18, <1>19 DEF IInv

LEMMA StepIInv == IInv /\ [Next]_vars => IInv'
<1> SUFFICES ASSUME IInv, [Next]_vars PROVE IInv'
  OBVIOUS
<1>1. CASE \E s \in Symbols : \E shape \in Shapes[s] \cup StrayShapes : Bring(s, shape)
  BY <1>1, BringKeepsIInv
<1>2. CASE Quiet \/ UNCHANGED vars
  <2>1. /\ UNCHANGED <<market, books, memos, intents>>
        /\ now' \in 0..Horizon /\ now \in 0..Horizon /\ now <= now'
    BY <1>2, HorizonAssumption DEF Quiet, vars, IInv, Shaped
  <2>2. Shaped' /\ InOrderOfTime' /\ OncePerSession'
    BY <2>1 DEF IInv, Shaped, InOrderOfTime, OncePerSession
  <2>3. MemoIsOfTheLatest'
    BY <2>1 DEF IInv, MemoIsOfTheLatest, Of
  <2>4. \A i \in DOMAIN intents' : Made(intents'[i], now')
    BY <2>1 DEF IInv, Made
  <2> QED
    BY <2>2, <2>3, <2>4 DEF IInv
<1> QED
  BY <1>1, <1>2 DEF Next

LEMMA Invariance == Spec => []IInv
BY InitIInv, StepIInv, PTL DEF Spec

-----------------------------------------------------------------------------
(* For every calendar of sessions in order, every bar and every threshold:  *)
(* an intent is of the session its bar is in, before its bell, and expires  *)
(* at the bell or, overnight, once the next session has printed; a strategy *)
(* proposes once per symbol and session, the two-sided ones once per turn.  *)
THEOREM ProposalsKeepToTheirSession == Spec => []ProposalsAreOfTheirSession
<1>1. IInv => ProposalsAreOfTheirSession
  <2> SUFFICES ASSUME IInv PROVE ProposalsAreOfTheirSession
    OBVIOUS
  <2>1. TypeOK
    BY DEF TypeOK, IInv, Shaped, Made
  <2>2. TradedInItsSession
    <3> SUFFICES ASSUME NEW i \in DOMAIN intents
                 PROVE  LET t == intents[i]
                            d == CHOOSE e \in DOMAIN Days : Days[e].day = t.day
                        IN /\ Days[d].open < t.ts /\ t.ts < Days[d].close
                           /\ IF t.strategy = "prior_close_reversal"
                              THEN d < Len(Days) /\ t.expires > Days[d + 1].open + 1
                              ELSE t.expires = Days[d].close
      BY DEF TradedInItsSession
    <3> DEFINE t == intents[i]
               d == CHOOSE e \in DOMAIN Days : Days[e].day = t.day
    <3>1. PICK e \in DOMAIN Days : MadeIn(t, e)
      BY DEF IInv, Made
    <3>2. d \in DOMAIN Days /\ Days[d].day = Days[e].day
      BY <3>1 DEF MadeIn
    <3> HIDE DEF d
    <3>3. d = e
      BY <3>2, DayFields, DaysAssumption
    <3>4. ASSUME Days[d].next_open # None
          PROVE  d < Len(Days) /\ Days[d].next_open = Days[d + 1].open /\ d + 1 \in DOMAIN Days
      <4>1. DOMAIN Days = 1..Len(Days) /\ Len(Days) \in Nat
        BY DaysAssumption, LenProperties
      <4>2. Days[d].next_open = IF d < Len(Days) THEN Days[d + 1].open ELSE None
        BY <3>2, DaysAssumption
      <4> QED
        BY <3>2, <3>4, <4>1, <4>2
    <3>5. MadeIn(t, d)
      BY <3>1, <3>3
    <3>6. t.strategy = "prior_close_reversal" => d < Len(Days) /\ t.expires > Days[d + 1].open + 1
      <4> SUFFICES ASSUME t.strategy = "prior_close_reversal" PROVE d < Len(Days) /\ t.expires > Days[d + 1].open + 1
        OBVIOUS
      <4>1. Days[d].next_open # None /\ t.expires = Days[d].next_open + Rules.exit_minutes_after_open
        BY <3>5 DEF MadeIn
      <4>2. d < Len(Days) /\ Days[d].next_open = Days[d + 1].open /\ Days[d + 1].open \in Nat
        BY <3>4, <4>1, DayFields
      <4> QED
        BY <4>1, <4>2, OvernightAssumption
    <3>7. /\ Days[d].open < t.ts /\ t.ts < Days[d].close
          /\ IF t.strategy = "prior_close_reversal"
             THEN d < Len(Days) /\ t.expires > Days[d + 1].open + 1
             ELSE t.expires = Days[d].close
      BY <3>5, <3>6 DEF MadeIn
    <3> QED
      BY <3>7 DEF d
  <2> QED
    BY <2>1, <2>2 DEF ProposalsAreOfTheirSession, IInv
<1> QED
  BY <1>1, Invariance, PTL
-----------------------------------------------------------------------------
(* The stops.  A set of minutes or of prices has a least member and, finite, *)
(* a greatest: intervals of naturals are minimal among the finite sets.     *)
LEMMA LeastExists ==
  ASSUME NEW S \in SUBSET Nat, S # {}
  PROVE  Min(S) \in S /\ \A d \in S : Min(S) <= d
<1> DEFINE Below == {1..d : d \in S}
<1>1. Below \in SUBSET FiniteSubsetsOf(Nat) /\ Below # {}
  <2>1. \A d \in S : IsFiniteSet(1..d) /\ 1..d \in SUBSET Nat
    BY FS_Interval
  <2> QED
    BY <2>1 DEF FiniteSubsetsOf
<1>2. PICK D \in Below : \A E \in Below : ~(<<E, D>> \in StrictSubsetOrdering(Nat))
  BY <1>1, WFMin, FS_StrictSubsetOrderingWellFounded
<1>3. PICK d \in S : D = 1..d
  OBVIOUS
<1>4. \A e \in S : d <= e
  <2> SUFFICES ASSUME NEW e \in S, e < d PROVE FALSE
    OBVIOUS
  <2>1. 1..e \subseteq 1..d /\ d \in 1..d /\ d \notin 1..e
    OBVIOUS
  <2>2. <<1..e, D>> \in StrictSubsetOrdering(Nat)
    BY <1>3, <2>1 DEF StrictSubsetOrdering
  <2> QED
    BY <1>2, <2>2
<1>5. d \in S /\ \A e \in S : d <= e
  BY <1>4
<1> HIDE DEF Below
<1> QED
  BY <1>5, Zenon DEF Min

LEMMA GreatestExists ==
  ASSUME NEW S \in SUBSET Nat, IsFiniteSet(S), S # {}
  PROVE  Max(S) \in S /\ \A d \in S : d <= Max(S)
<1> DEFINE Over(d) == {e \in S : e > d}
           Above == {Over(d) : d \in S}
<1>0. \A d \in S : d \in Nat
  OBVIOUS
<1>1. Above \in SUBSET FiniteSubsetsOf(Nat) /\ Above # {}
  <2>1. \A d \in S : IsFiniteSet(Over(d)) /\ Over(d) \in SUBSET Nat
    BY FS_Subset
  <2> QED
    BY <2>1 DEF FiniteSubsetsOf
<1>2. PICK D \in Above : \A E \in Above : ~(<<E, D>> \in StrictSubsetOrdering(Nat))
  BY <1>1, WFMin, FS_StrictSubsetOrderingWellFounded
<1>3. PICK d \in S : D = Over(d)
  OBVIOUS
<1>4. \A e \in S : e <= d
  <2> SUFFICES ASSUME NEW e \in S, e > d PROVE FALSE
    OBVIOUS
  <2>1. (\A c \in Over(e) : c \in Over(d)) /\ e \in Over(d) /\ e \notin Over(e)
    BY <1>0
  <2>2. <<Over(e), D>> \in StrictSubsetOrdering(Nat)
    BY <1>3, <2>1 DEF StrictSubsetOrdering
  <2> QED
    BY <1>2, <2>2
<1>5. d \in S /\ \A e \in S : d >= e
  BY <1>0, <1>4
<1> HIDE DEF Above
<1>6. Max(S) \in S /\ \A e \in S : Max(S) >= e
  BY <1>5, Zenon DEF Max
<1> QED
  BY <1>0, <1>6

LEMMA MaxOfTwo ==
  ASSUME NEW a \in Int, NEW b \in Int
  PROVE  Max({a, b}) \in {a, b} /\ Max({a, b}) >= a /\ Max({a, b}) >= b
<1>1. \E x \in {a, b} : \A y \in {a, b} : x >= y
  OBVIOUS
<1> QED
  BY <1>1 DEF Max

LEMMA MinOfTwo ==
  ASSUME NEW a \in Int, NEW b \in Int
  PROVE  Min({a, b}) \in {a, b} /\ Min({a, b}) <= a /\ Min({a, b}) <= b
<1>1. \E x \in {a, b} : \A y \in {a, b} : x <= y
  OBVIOUS
<1> QED
  BY <1>1 DEF Min

(* The integer square root is a natural. *)
LEMMA RootExists ==
  ASSUME NEW n \in Nat
  PROVE  Root(n) \in Nat
<1> DEFINE S == {r \in 0..n : r * r <= n}
<1>1. S \in SUBSET Nat /\ IsFiniteSet(S) /\ 0 \in S
  <2>1. IsFiniteSet(0..n)
    BY FS_Interval
  <2> QED
    BY <2>1, FS_Subset
<1>2. Max(S) \in S /\ \A d \in S : d <= Max(S)
  BY <1>1, GreatestExists
<1> DEFINE m == Max(S)
<1>3. m \in 0..n /\ m * m <= n
  BY <1>2
<1>4. n < (m + 1) * (m + 1)
  <2> SUFFICES ASSUME ~(n < (m + 1) * (m + 1)) PROVE FALSE
    OBVIOUS
  <2> HIDE DEF m
  <2> DEFINE p == (m + 1) * (m + 1)
  <2>1. m + 1 \in Nat /\ p \in Int /\ p <= n /\ m + 1 <= p
    <3>1. m \in Nat /\ \A j \in Nat : (j + 1) * (j + 1) \in Int /\ j + 1 <= (j + 1) * (j + 1)
      BY <1>3
    <3> QED
      BY <1>3, <3>1
  <2>2. m + 1 \in S
    BY <2>1
  <2> QED
    BY <1>2, <1>3, <2>2 DEF m
<1> HIDE DEF m
<1>5. \E r \in 0..n : r * r <= n /\ n < (r + 1) * (r + 1)
  BY <1>3, <1>4
<1>6. Root(n) \in 0..n
  BY <1>5, Zenon DEF Root
<1> QED
  BY <1>6
-----------------------------------------------------------------------------
(* Arithmetic of fractions over Scale. *)
LEMMA QuotientIsNatural ==
  ASSUME NEW a \in Nat, NEW b \in Nat \ {0}
  PROVE  a \div b \in Nat
OBVIOUS

LEMMA WholeQuotient ==
  ASSUME NEW a \in Nat, NEW b \in Nat \ {0}
  PROVE  (a * b) \div b = a
OBVIOUS

LEMMA QuotientGrows ==
  ASSUME NEW x \in Nat, NEW y \in Nat, x <= y, NEW b \in Nat \ {0}
  PROVE  x \div b <= y \div b
<1> DEFINE p == x \div b
           q == y \div b
<1>1. p \in Nat /\ q \in Nat /\ x = b * p + (x % b) /\ y = b * q + (y % b)
      /\ x % b \in 0..(b - 1) /\ y % b \in 0..(b - 1)
  OBVIOUS
<1> HIDE DEF p, q
<1>2. \A i, j \in Nat : i < j => b * i + b <= b * j
  OBVIOUS
<1>3. ~(q < p)
  <2> SUFFICES ASSUME q < p PROVE FALSE
    OBVIOUS
  <2> DEFINE bp == b * p
             bq == b * q
  <2>1. bp \in Int /\ bq \in Int /\ bq + b <= bp
    BY <1>1, <1>2
  <2>2. x = bp + (x % b) /\ y = bq + (y % b)
    BY <1>1
  <2> HIDE DEF bp, bq
  <2> QED
    BY <1>1, <2>1, <2>2
<1> QED
  BY <1>1, <1>3 DEF p, q

(* A price widened by a fraction is no lower, and narrowed no higher. *)
LEMMA WidenedAndNarrowed ==
  ASSUME NEW a \in Nat, NEW half \in 1 .. Scale - 1
  PROVE  /\ (a * (Scale + half)) \div Scale \in Nat /\ (a * (Scale + half)) \div Scale >= a
         /\ (a * (Scale - half)) \div Scale \in Nat /\ (a * (Scale - half)) \div Scale <= a
<1>0. Scale \in Nat \ {0} /\ half \in Nat /\ Scale - half \in Nat
  BY ScaleAssumption
<1> DEFINE m == a * Scale
           u == a * (Scale + half)
           v == a * (Scale - half)
<1>1. m \in Nat /\ u \in Nat /\ v \in Nat /\ m <= u /\ v <= m
  <2>1. \A i, j, k \in Nat : i * j \in Nat /\ (j <= k => i * j <= i * k)
    OBVIOUS
  <2>2. Scale <= Scale + half /\ Scale - half <= Scale /\ Scale + half \in Nat
    BY <1>0
  <2> QED
    BY <1>0, <2>1, <2>2
<1>2. m \div Scale = a
  BY <1>0, WholeQuotient
<1> HIDE DEF m, u, v
<1>3. a <= u \div Scale /\ v \div Scale <= a
  BY <1>0, <1>1, <1>2, QuotientGrows
<1>4. u \div Scale \in Nat /\ v \div Scale \in Nat
  BY <1>0, <1>1, QuotientIsNatural
<1> QED
  BY <1>3, <1>4 DEF u, v
-----------------------------------------------------------------------------
(* What is known of levels that bars of a session made, and of a section.  *)
SoundPaid(paid) ==
  /\ DOMAIN paid = {"value", "volume", "square"}
  /\ paid.value \in Nat /\ paid.volume \in Nat /\ paid.square \in Nat
  /\ paid.volume > 0 => paid.value > 0
SoundLevels(l) ==
  /\ l.session_open \in Nat \ {0} /\ l.close \in Nat \ {0} /\ l.prior_close \in Nat
  /\ SoundPaid(l.paid)
  /\ \A w \in DOMAIN l.ranges : l.ranges[w].high \in Int /\ l.ranges[w].low \in Int
SoundSection(section) ==
  \A s \in DOMAIN section : section[s].trailing \subseteq Int /\ section[s].residual \subseteq Int
SoundView(view) == (view.levels # NoLevels => SoundLevels(view.levels)) /\ SoundSection(view.section)

Backed(t) ==
  t.strategy # "vwap_band_reversion" =>
    Beyond(t.side, t.entry, t.invalidation) /\ t.target_r[1] > 0 /\ t.target_r[2] > 0
Backs(result) == \A t \in result.intents : Backed(t)

LEMMA IntentFields ==
  ASSUME NEW strategy, NEW bar, NEW l, NEW side, NEW stop, NEW target_r, NEW expires
  PROVE  LET t == Intent(strategy, bar, l, side, stop, target_r, expires)
         IN /\ t.strategy = strategy /\ t.entry = bar.close /\ t.side = side /\ t.invalidation = stop
            /\ t.target_r = target_r /\ t.day = l.day /\ t.ts = bar.ts /\ t.symbol = bar.symbol
BY DEF Intent

LEMMA BackedIntent ==
  ASSUME NEW strategy, NEW bar, NEW l, NEW memo, NEW side, NEW stop, NEW expires,
         NEW target_r, target_r[1] > 0, target_r[2] > 0, Beyond(side, bar.close, stop)
  PROVE  Backs(Propose(memo, l, Intent(strategy, bar, l, side, stop, target_r, expires)))
<1> DEFINE t == Intent(strategy, bar, l, side, stop, target_r, expires)
<1>1. t.strategy = strategy /\ t.entry = bar.close /\ t.side = side /\ t.invalidation = stop
      /\ t.target_r = target_r
  BY DEF Intent
<1> HIDE DEF t
<1>2. Backed(t)
  BY <1>1 DEF Backed
<1>3. Propose(memo, l, t).intents = {t}
  BY DEF Propose
<1> QED
  BY <1>2, <1>3 DEF t, Backs

LEMMA DeclinedIsBacked ==
  ASSUME NEW memo
  PROVE  Backs(Decline(memo))
BY DEF Decline, Backs
-----------------------------------------------------------------------------
(* Eight handlers put the stop behind the close whatever they remember. *)
LEMMA GapContinuationBacks ==
  ASSUME NEW bar, NEW view, NEW memo, IsShape(bar), SoundView(view)
  PROVE  Backs(GapContinuation(bar, view, memo))
BY DeclinedIsBacked, BackedIntent DEF GapContinuation

LEMMA OpeningRangeBreakoutBacks ==
  ASSUME NEW bar, NEW view, NEW memo, IsShape(bar), SoundView(view)
  PROVE  Backs(OpeningRangeBreakout(bar, view, memo))
<1> DEFINE l == view.levels
           range == Opening(l)
           up == BreaksUp(range, bar.close)
           side == IF up THEN "BUY" ELSE "SELL"
           stop == IF up THEN range.low ELSE range.high
<1>1. ASSUME BeforeTheBell(bar, view), HasOpening(l), up \/ BreaksDown(range, bar.close)
      PROVE  Beyond(side, bar.close, stop)
  <2>1. SoundLevels(l)
    BY <1>1 DEF BeforeTheBell, SoundView
  <2>2. range.high \in Int /\ range.low \in Int /\ range.high > range.low
    BY <1>1, <2>1 DEF HasOpening, Opening, SoundLevels, Width
  <2>3. bar.close \in Int
    BY DEF IsShape
  <2> HIDE DEF range
  <2> QED
    BY <1>1, <2>2, <2>3 DEF BreaksUp, BreaksDown, Beyond
<1> QED
  BY <1>1, DeclinedIsBacked, BackedIntent DEF OpeningRangeBreakout

LEMMA IntradayMomentumBacks ==
  ASSUME NEW bar, NEW view, NEW memo, IsShape(bar), SoundView(view)
  PROVE  Backs(IntradayMomentum(bar, view, memo))
<1> DEFINE l == view.levels
           area == NoiseArea(l)
           up == BreaksUp(area, bar.close)
           side == IF up THEN "BUY" ELSE "SELL"
           stop == IF up THEN area.low ELSE area.high
<1>1. ASSUME BeforeTheBell(bar, view), area # Nowhere, up \/ BreaksDown(area, bar.close)
      PROVE  Beyond(side, bar.close, stop)
  <2> DEFINE anchors == {l.session_open} \cup ({l.prior_close} \ {None})
             half == Rules.volatility_multiplier * l.mean_move
  <2>1. l.session_open \in Nat \ {0} /\ l.prior_close \in Nat
    BY <1>1 DEF BeforeTheBell, SoundView, SoundLevels
  <2>2. half \in 1 .. Scale - 1 /\ area.high = (Max(anchors) * (Scale + half)) \div Scale
        /\ area.low = (Min(anchors) * (Scale - half)) \div Scale
    BY <1>1 DEF NoiseArea
  <2> HIDE DEF half
  <2> DEFINE first == l.session_open
             other == IF l.prior_close = None THEN first ELSE l.prior_close
  <2>6. anchors = {first, other} /\ first \in Nat /\ other \in Nat
    BY <2>1
  <2> HIDE DEF first, other, anchors, area
  <2>7. /\ Max({first, other}) \in {first, other} /\ Max({first, other}) >= first
        /\ Min({first, other}) \in {first, other} /\ Min({first, other}) <= first
    BY <2>6, MaxOfTwo, MinOfTwo
  <2>3. Max(anchors) \in Nat /\ Min(anchors) \in Nat /\ Min(anchors) <= Max(anchors)
    BY <2>6, <2>7
  <2>4. area.high \in Nat /\ area.low \in Nat /\ area.high >= Max(anchors) /\ area.low <= Min(anchors)
    BY <2>2, <2>3, WidenedAndNarrowed
  <2>5. bar.close \in Int
    BY DEF IsShape
  <2> QED
    BY <1>1, <2>3, <2>4, <2>5 DEF BreaksUp, BreaksDown, Beyond
<1> QED
  BY <1>1, DeclinedIsBacked, BackedIntent DEF IntradayMomentum

LEMMA VwapBandReversionBacks ==
  ASSUME NEW bar, NEW view, NEW memo
  PROVE  Backs(VwapBandReversion(bar, view, memo))
<1>1. ASSUME NEW kept, NEW l, NEW side, NEW stop, NEW target_r, NEW expires
      PROVE  Backs(Propose(kept, l, Intent("vwap_band_reversion", bar, l, side, stop, target_r, expires)))
  BY DEF Propose, Intent, Backed, Backs
<1> QED
  BY <1>1, DeclinedIsBacked DEF VwapBandReversion

(* A stop a part of the price away lies on the side it was put. *)
LEMMA ReachIsBehind ==
  ASSUME NEW close \in Int, NEW reach \in Nat, NEW side \in Sides,
         (IF side = "BUY" THEN close - reach ELSE close + reach) # close
  PROVE  Beyond(side, close, IF side = "BUY" THEN close - reach ELSE close + reach)
BY DEF Sides, Beyond

LEMMA PriorCloseReversalBacks ==
  ASSUME NEW bar, NEW view, NEW memo, IsShape(bar), SoundView(view)
  PROVE  Backs(PriorCloseReversal(bar, view, memo))
<1> DEFINE l == view.levels
           up == Stretched(bar.close, l.paid, Rules.reversal_halves, "BUY")
           side == IF up THEN "SELL" ELSE "BUY"
           reach == (bar.close * Rules.stop_halves * Root(Variance(l.paid))) \div (2 * l.paid.value)
           stop == IF side = "BUY" THEN bar.close - reach ELSE bar.close + reach
<1>1. ASSUME BeforeTheBell(bar, view), l.paid.volume > 0, stop # bar.close
      PROVE  Beyond(side, bar.close, stop)
  <2>1. SoundPaid(l.paid)
    BY <1>1 DEF BeforeTheBell, SoundView, SoundLevels
  <2>2. Variance(l.paid) \in Nat
    <3> DEFINE v == l.paid.square * l.paid.volume - l.paid.value * l.paid.value
    <3>1. v \in Int
      <4>1. \A i, j \in Nat : i * j \in Nat
        OBVIOUS
      <4> QED
        BY <2>1, <4>1 DEF SoundPaid
    <3> HIDE DEF v
    <3>2. Max({0, v}) \in Int /\ Max({0, v}) >= 0
      BY <3>1, MaxOfTwo
    <3> QED
      BY <3>2 DEF Variance, v
  <2>3. Root(Variance(l.paid)) \in Nat
    BY <2>2, RootExists
  <2>4. 2 * l.paid.value \in Nat \ {0}
    BY <1>1, <2>1 DEF SoundPaid
  <2>5. bar.close * Rules.stop_halves * Root(Variance(l.paid)) \in Nat
    <3>1. \A i, j, k \in Nat : i * j * k \in Nat
      OBVIOUS
    <3>2. bar.close \in Nat
      BY DEF IsShape
    <3> QED
      BY <2>3, <3>1, <3>2, ScaleAssumption
  <2>6. reach \in Nat
    BY <2>4, <2>5, QuotientIsNatural
  <2>7. bar.close \in Int /\ side \in Sides
    BY DEF IsShape, Sides
  <2> HIDE DEF side, reach
  <2> QED
    BY <1>1, <2>6, <2>7, ReachIsBehind
<1> QED
  BY <1>1, DeclinedIsBacked, BackedIntent DEF PriorCloseReversal

LEMMA MomentumIgnitionBacks ==
  ASSUME NEW bar, NEW view, NEW memo, IsShape(bar), SoundView(view)
  PROVE  Backs(MomentumIgnition(bar, view, memo))
<1> DEFINE side == IF bar.close > bar.open THEN "BUY" ELSE "SELL"
           stop == IF side = "BUY" THEN bar.low ELSE bar.high
<1>1. ASSUME bar.close # bar.open PROVE Beyond(side, bar.close, stop)
  BY <1>1 DEF IsShape, Beyond
<1> QED
  BY <1>1, DeclinedIsBacked, BackedIntent DEF MomentumIgnition

AreNumbers(column) == \A s \in DOMAIN column : column[s] \subseteq Int

LEMMA CrossSectionalBacks ==
  ASSUME NEW n, NEW bar, NEW view, NEW memo, IsShape(bar),
         NEW column, AreNumbers(column),
         NEW long_end_is_top, NEW target_r, target_r[1] > 0, target_r[2] > 0
  PROVE  Backs(CrossSectional(n, bar, view, memo, column, long_end_is_top, target_r))
<1> DEFINE at_top == bar.symbol \in Top(column, Rules.extreme_names)
           side == IF at_top = long_end_is_top THEN "BUY" ELSE "SELL"
           reach == (bar.close * Magnitude(Score(column, bar.symbol))) \div (2 * Scale)
           stop == IF side = "BUY" THEN bar.close - reach ELSE bar.close + reach
<1>1. ASSUME at_top \/ bar.symbol \in Bottom(column, Rules.extreme_names), stop # bar.close
      PROVE  Beyond(side, bar.close, stop)
  <2>1. bar.symbol \in DOMAIN column /\ column[bar.symbol] # {}
    BY <1>1 DEF Top, Bottom, Ranked
  <2>2. Score(column, bar.symbol) \in column[bar.symbol]
    BY <2>1 DEF Score
  <2>3. Magnitude(Score(column, bar.symbol)) \in Nat
    BY <2>1, <2>2 DEF Magnitude, AreNumbers
  <2>4. bar.close * Magnitude(Score(column, bar.symbol)) \in Nat
    <3>1. \A i, j \in Nat : i * j \in Nat
      OBVIOUS
    <3>2. bar.close \in Nat
      BY DEF IsShape
    <3> QED
      BY <2>3, <3>1, <3>2
  <2>5. reach \in Nat
    <3>1. 2 * Scale \in Nat \ {0}
      BY ScaleAssumption
    <3> QED
      BY <2>4, <3>1, QuotientIsNatural
  <2>6. bar.close \in Int /\ side \in Sides
    BY DEF IsShape, Sides
  <2> HIDE DEF side, reach
  <2> QED
    BY <1>1, <2>5, <2>6, ReachIsBehind
<1> QED
  BY <1>1, DeclinedIsBacked, BackedIntent DEF CrossSectional

(* All of them but the fade. *)
LEMMA EveryStopBacks ==
  ASSUME NEW n \in Names \ {"orb_fade"}, NEW bar, NEW view, NEW memo, IsShape(bar), SoundView(view)
  PROVE  Backs(OnBar(n, bar, view, memo))
<1>1. Names = {"gap_continuation", "opening_range_breakout", "orb_fade", "intraday_momentum",
               "vwap_band_reversion", "prior_close_reversal", "momentum_ignition", "relative_strength",
               "residual_reversion", "intraday_reversal"}
  BY DEF Names, Arsenal
<1>2. CASE n = "relative_strength"
  <2>1. AreNumbers(Residuals(view.section))
    BY DEF AreNumbers, Residuals, SoundView, SoundSection
  <2> DEFINE target == <<2, 1>>
  <2>2. target[1] > 0 /\ target[2] > 0
    OBVIOUS
  <2> HIDE DEF target
  <2>3. Backs(RelativeStrength(bar, view, memo))
    BY <2>1, <2>2, CrossSectionalBacks, Zenon DEF RelativeStrength, target
  <2> QED
    BY <1>2, <2>3 DEF OnBar
<1>3. CASE n = "residual_reversion"
  <2>1. AreNumbers(Residuals(view.section))
    BY DEF AreNumbers, Residuals, SoundView, SoundSection
  <2> DEFINE target == <<1, 1>>
  <2>2. target[1] > 0 /\ target[2] > 0
    OBVIOUS
  <2> HIDE DEF target
  <2>3. Backs(ResidualReversion(bar, view, memo))
    BY <2>1, <2>2, CrossSectionalBacks, Zenon DEF ResidualReversion, target
  <2> QED
    BY <1>3, <2>3 DEF OnBar
<1>4. CASE n = "intraday_reversal"
  <2>1. AreNumbers(TrailingReturns(view.section))
    BY DEF AreNumbers, TrailingReturns, SoundView, SoundSection
  <2> DEFINE target == <<1, 1>>
  <2>2. target[1] > 0 /\ target[2] > 0
    OBVIOUS
  <2> HIDE DEF target
  <2>3. Backs(IntradayReversal(bar, view, memo))
    BY <2>1, <2>2, CrossSectionalBacks, Zenon DEF IntradayReversal, target
  <2> QED
    BY <1>4, <2>3 DEF OnBar
<1>5. CASE n \notin {"relative_strength", "residual_reversion", "intraday_reversal"}
  BY <1>1, <1>5, GapContinuationBacks, OpeningRangeBreakoutBacks, IntradayMomentumBacks,
     VwapBandReversionBacks, PriorCloseReversalBacks, MomentumIgnitionBacks DEF OnBar
<1> QED
  BY <1>2, <1>3, <1>4, <1>5
-----------------------------------------------------------------------------
(* The tape of a symbol: bars one after the other. *)
IsSequence(seq) == \E T : seq \in Seq(T)

LEMMA SequenceFacts ==
  ASSUME NEW seq, IsSequence(seq)
  PROVE  Len(seq) \in Nat /\ DOMAIN seq = 1..Len(seq)
<1>1. PICK T : seq \in Seq(T)
  BY DEF IsSequence
<1> QED
  BY <1>1, LenProperties

LEMMA AppendFacts ==
  ASSUME NEW seq, IsSequence(seq), NEW bar
  PROVE  LET longer == Append(seq, bar)
         IN /\ IsSequence(longer) /\ Len(longer) = Len(seq) + 1
            /\ longer[Len(seq) + 1] = bar /\ \A k \in DOMAIN seq : longer[k] = seq[k]
<1>1. PICK T : seq \in Seq(T)
  BY DEF IsSequence
<1> DEFINE U == T \cup {bar}
<1>2. seq \in Seq(U) /\ bar \in U
  BY <1>1, SeqMonotonic
<1> HIDE DEF U
<1>3. Append(seq, bar) \in Seq(U)
  BY <1>2, AppendProperties
<1>4. IsSequence(Append(seq, bar))
  BY <1>3 DEF IsSequence
<1> QED
  BY <1>2, <1>4, SequenceFacts, AppendProperties

IsTape(bars, until) ==
  /\ IsSequence(bars)
  /\ \A k \in DOMAIN bars : IsShape(bars[k]) /\ bars[k].ts \in Nat /\ bars[k].ts <= until
  /\ \A j, k \in DOMAIN bars : j < k => bars[j].ts < bars[k].ts

LEMMA LongerTape ==
  ASSUME NEW bars, NEW until \in Nat, IsTape(bars, until), NEW bar, IsShape(bar), bar.ts \in Nat, until < bar.ts
  PROVE  IsTape(Append(bars, bar), bar.ts)
<1> DEFINE longer == Append(bars, bar)
<1>1. Len(bars) \in Nat /\ DOMAIN bars = 1..Len(bars)
  BY SequenceFacts DEF IsTape
<1>2. /\ IsSequence(longer) /\ DOMAIN longer = 1..Len(bars) + 1
      /\ longer[Len(bars) + 1] = bar /\ \A k \in DOMAIN bars : longer[k] = bars[k]
  BY AppendFacts, SequenceFacts DEF IsTape
<1> HIDE DEF longer
<1>3. ASSUME NEW k \in DOMAIN longer
      PROVE  IsShape(longer[k]) /\ longer[k].ts \in Nat /\ longer[k].ts <= bar.ts
  <2>1. CASE k = Len(bars) + 1
    BY <1>2, <2>1
  <2>2. CASE k \in DOMAIN bars
    BY <1>2, <2>2 DEF IsTape
  <2> QED
    BY <1>1, <1>2, <2>1, <2>2
<1>4. ASSUME NEW j \in DOMAIN longer, NEW k \in DOMAIN longer, j < k PROVE longer[j].ts < longer[k].ts
  <2>1. j \in DOMAIN bars /\ longer[j] = bars[j] /\ bars[j].ts \in Nat /\ bars[j].ts <= until
    BY <1>1, <1>2, <1>4 DEF IsTape
  <2>2. CASE k = Len(bars) + 1
    BY <1>2, <2>1, <2>2
  <2>3. CASE k \in DOMAIN bars
    BY <1>2, <1>4, <2>1, <2>3 DEF IsTape
  <2> QED
    BY <1>1, <1>2, <2>2, <2>3
<1> QED
  BY <1>2, <1>3, <1>4 DEF IsTape, longer
-----------------------------------------------------------------------------
(* The range of w bars of a tape, from the f-th on. *)
RangeFrom(bars, f, w) ==
  [high |-> Max({bars[k].high : k \in f .. f + w - 1}), low |-> Min({bars[k].low : k \in f .. f + w - 1})]

LEMMA RangeIsSound ==
  ASSUME NEW bars, NEW f \in Nat, NEW w \in Nat \ {0},
         \A k \in f .. f + w - 1 : IsShape(bars[k])
  PROVE  /\ RangeFrom(bars, f, w).high \in Int /\ RangeFrom(bars, f, w).low \in Int
         /\ \A k \in f .. f + w - 1 : bars[k].high <= RangeFrom(bars, f, w).high
                                      /\ RangeFrom(bars, f, w).low <= bars[k].low
<1> DEFINE I == f .. f + w - 1
           highs == {bars[k].high : k \in I}
           lows == {bars[k].low : k \in I}
<1>1. I # {} /\ \A k \in I : bars[k].high \in Nat /\ bars[k].low \in Nat
  <2>1. f \in I
    OBVIOUS
  <2> QED
    BY <2>1 DEF IsShape
<1>2. IsFiniteSet(I)
  BY FS_Interval
<1> HIDE DEF I
<1>3. highs \in SUBSET Nat /\ highs # {} /\ lows \in SUBSET Nat /\ lows # {}
  BY <1>1
<1>4. IsFiniteSet(highs)
  <2> DEFINE high == [k \in I |-> bars[k].high]
  <2>1. high \in Surjection(I, highs)
    BY DEF Surjection
  <2> HIDE DEF high, highs
  <2> QED
    BY <1>2, <2>1, FS_Surjection
<1>5. Max(highs) \in highs /\ (\A v \in highs : v <= Max(highs)) /\ Min(lows) \in lows /\ \A v \in lows : Min(lows) <= v
  BY <1>3, <1>4, GreatestExists, LeastExists
<1>6. \A k \in I : bars[k].high \in highs /\ bars[k].low \in lows
  OBVIOUS
<1>7. RangeFrom(bars, f, w).high = Max(highs) /\ RangeFrom(bars, f, w).low = Min(lows)
  BY DEF RangeFrom, I
<1> HIDE DEF highs, lows
<1>8. Max(highs) \in Int /\ Min(lows) \in Int
  <2>1. (\A v \in highs : v \in Int) /\ \A v \in lows : v \in Int
    BY <1>3
  <2> QED
    BY <1>5, <2>1, Zenon
<1> QED
  BY <1>5, <1>6, <1>7, <1>8 DEF I

(* It only depends on those bars, wherever they are written down. *)
SameBars(bars, f, longer, g, w) == \A i \in 0 .. w - 1 : bars[f + i] = longer[g + i]

LEMMA SameRange ==
  ASSUME NEW bars, NEW longer, NEW f \in Nat, NEW g \in Nat, NEW w \in Nat,
         SameBars(bars, f, longer, g, w)
  PROVE  RangeFrom(bars, f, w) = RangeFrom(longer, g, w)
<1>1. \A k \in f .. f + w - 1 : k - f \in 0 .. w - 1 /\ f + (k - f) = k /\ g + (k - f) \in g .. g + w - 1
  OBVIOUS
<1>2. \A k \in g .. g + w - 1 : k - g \in 0 .. w - 1 /\ g + (k - g) = k /\ f + (k - g) \in f .. f + w - 1
  OBVIOUS
<1>3. {bars[k].high : k \in f .. f + w - 1} = {longer[k].high : k \in g .. g + w - 1}
  <2>1. ASSUME NEW k \in f .. f + w - 1 PROVE \E j \in g .. g + w - 1 : longer[j].high = bars[k].high
    BY <1>1 DEF SameBars
  <2>2. ASSUME NEW k \in g .. g + w - 1 PROVE \E j \in f .. f + w - 1 : bars[j].high = longer[k].high
    BY <1>2 DEF SameBars
  <2> QED
    BY <2>1, <2>2
<1>4. {bars[k].low : k \in f .. f + w - 1} = {longer[k].low : k \in g .. g + w - 1}
  <2>1. ASSUME NEW k \in f .. f + w - 1 PROVE \E j \in g .. g + w - 1 : longer[j].low = bars[k].low
    BY <1>1 DEF SameBars
  <2>2. ASSUME NEW k \in g .. g + w - 1 PROVE \E j \in f .. f + w - 1 : bars[j].low = longer[k].low
    BY <1>2 DEF SameBars
  <2> QED
    BY <2>1, <2>2
<1> QED
  BY <1>3, <1>4 DEF RangeFrom

(* An opening range is cut from the bars kept for it. *)
LEMMA OpeningRangeIsOfItsBars ==
  ASSUME NEW opening, IsSequence(opening), NEW w \in Nat \ {0}, w <= Len(opening)
  PROVE  OpeningRange(opening, w) = RangeFrom(opening, 1, w)
<1>1. PICK T : opening \in Seq(T)
  BY DEF IsSequence
<1> DEFINE window == SubSeq(opening, 1, w)
<1>2. Len(opening) \in Nat /\ DOMAIN opening = 1..Len(opening)
  BY SequenceFacts
<1>3. DOMAIN window = 1..w /\ \A i \in 1..w : window[i] = opening[i]
  <2>1. window \in Seq(T) /\ Len(window) = w /\ \A i \in 1..w : window[i] = opening[1 + i - 1]
    BY <1>1, <1>2, SubSeqProperties
  <2> HIDE DEF window
  <2>2. DOMAIN window = 1..w
    BY <2>1, LenProperties
  <2> QED
    BY <2>1, <2>2
<1> HIDE DEF window
<1>4. OpeningRange(opening, w) = [high |-> HighestOf(window), low |-> LowestOf(window)]
  BY <1>2 DEF OpeningRange, window
<1>5. {window[i].high : i \in DOMAIN window} = {opening[k].high : k \in 1 .. 1 + w - 1}
  BY <1>3
<1>6. {window[i].low : i \in DOMAIN window} = {opening[k].low : k \in 1 .. 1 + w - 1}
  BY <1>3
<1> QED
  BY <1>4, <1>5, <1>6 DEF RangeFrom, HighestOf, LowestOf
-----------------------------------------------------------------------------
(* What one bar of a session makes of a book. *)
LEMMA RolledFields ==
  ASSUME NEW book, DOMAIN book = BookFields, NEW s
  PROVE  LET rolled == Roll(book, s)
         IN /\ DOMAIN rolled = BookFields /\ rolled.session = s.open /\ rolled.levels = NoLevels
            /\ rolled.paid = NothingPaid /\ rolled.opening = <<>>
            /\ rolled.prior_close = IF book.levels # NoLevels THEN book.levels.close ELSE book.prior_close
BY DEF Roll, Cleared, NewBook, BookFields

Updates(after, today, bar) ==
  LET l == after.levels
      before == today.levels
      count == IF before = NoLevels THEN 1 ELSE before.bar_count + 1
      filled == (IF before = NoLevels THEN {} ELSE DOMAIN before.ranges) \cup ({count} \cap OpeningWindows)
  IN /\ after.session = today.session /\ after.prior_close = today.prior_close
     /\ after.paid = AndPaid(today.paid, bar)
     /\ after.opening = IF Len(today.opening) < Max(OpeningWindows) THEN Append(today.opening, bar)
                        ELSE today.opening
     /\ l.session_open = IF before = NoLevels THEN bar.open ELSE before.session_open
     /\ l.close = bar.close /\ l.paid = after.paid /\ l.prior_close = today.prior_close
     /\ l.bar_count = count
     /\ l.ranges = [w \in filled |-> IF w = count THEN OpeningRange(after.opening, w) ELSE before.ranges[w]]

LEMMA UpdateFields ==
  ASSUME NEW book, DOMAIN book = BookFields, NEW bar, NEW d \in DOMAIN Days, NEW today,
         today = IF book.session = Days[d].open THEN book ELSE Roll(book, Days[d])
  PROVE  Updates(Update(book, bar, Days[d]), today, bar)
<1> DEFINE s == Days[d]
           after == Update(book, bar, s)
           minute == bar.ts - s.open
           start == IF today.levels = NoLevels THEN bar.open ELSE today.levels.session_open
           paid == AndPaid(today.paid, bar)
           opening == IF Len(today.opening) < Max(OpeningWindows) THEN Append(today.opening, bar) ELSE today.opening
           folded == [today EXCEPT
             !.paid = paid,
             !.opening = IF Len(@) < Max(OpeningWindows) THEN Append(@, bar) ELSE @,
             !.session_moves = With(@, minute, MoveFrom(start, bar.close)),
             !.session_volumes = With(@, minute, paid.volume)]
           l == LevelsAfterBar(folded, today.levels, bar, s)
<1>1. DOMAIN today = BookFields
  BY RolledFields
<1>2. after = [folded EXCEPT !.levels = l]
  BY DayFields DEF Update, NoSession
<1> HIDE DEF after, paid
<1>3. /\ DOMAIN folded = BookFields /\ folded.paid = paid /\ folded.opening = opening
      /\ folded.session = today.session /\ folded.prior_close = today.prior_close
  BY <1>1 DEF BookFields
<1> HIDE DEF folded
<1>4. /\ l.session_open = IF today.levels = NoLevels THEN bar.open ELSE today.levels.session_open
      /\ l.close = bar.close /\ l.paid = folded.paid /\ l.prior_close = folded.prior_close
  BY DEF LevelsAfterBar
<1>5. l.bar_count = IF today.levels = NoLevels THEN 1 ELSE today.levels.bar_count + 1
  BY DEF LevelsAfterBar
<1> DEFINE before == today.levels
           count == IF before = NoLevels THEN 1 ELSE before.bar_count + 1
           filled == (IF before = NoLevels THEN {} ELSE DOMAIN before.ranges) \cup ({count} \cap OpeningWindows)
<1>6. l.ranges = [w \in filled |-> IF w = count THEN OpeningRange(folded.opening, w) ELSE before.ranges[w]]
  BY DEF LevelsAfterBar
<1> HIDE DEF l, filled, count, opening
<1>7. /\ after.session = folded.session /\ after.prior_close = folded.prior_close
      /\ after.paid = folded.paid /\ after.opening = folded.opening /\ after.levels = l
  BY <1>2, <1>3 DEF BookFields
<1>8. after.session = today.session /\ after.prior_close = today.prior_close /\ after.paid = paid /\ after.opening = opening
  BY <1>3, <1>7
<1>9. after.levels.ranges = [w \in filled |-> IF w = count THEN OpeningRange(after.opening, w) ELSE before.ranges[w]]
  BY <1>6, <1>7
<1>10. /\ after.levels.session_open = IF today.levels = NoLevels THEN bar.open ELSE today.levels.session_open
       /\ after.levels.close = bar.close /\ after.levels.paid = after.paid
       /\ after.levels.prior_close = today.prior_close
  BY <1>3, <1>4, <1>7
<1>11. after.levels.bar_count = count
  BY <1>5, <1>7 DEF count
<1> QED
  BY <1>8, <1>9, <1>10, <1>11 DEF Updates, after, paid, opening, count, filled
-----------------------------------------------------------------------------
(* Shares that traded cost something. *)
LEMMA PaidStaysSound ==
  ASSUME NEW paid, SoundPaid(paid), NEW bar, IsShape(bar)
  PROVE  SoundPaid(AndPaid(paid, bar))
<1> DEFINE more == PaidIn(bar)
           price == IF bar.vwap # None THEN 3 * bar.vwap ELSE bar.high + bar.low + bar.close
<1>1. price \in Nat \ {0} /\ bar.volume \in Nat
  BY DEF IsShape, None
<1>2. more.value \in Nat /\ more.volume \in Nat /\ more.square \in Nat /\ (more.volume > 0 => more.value > 0)
  <2>1. \A i, j \in Nat \ {0} : i * j \in Nat /\ i * i * j \in Nat /\ i * j > 0
    OBVIOUS
  <2>2. CASE bar.volume <= 0
    BY <1>1, <2>2 DEF PaidIn, NothingPaid
  <2>3. CASE bar.volume > 0
    <3>1. more = [value |-> price * bar.volume, volume |-> bar.volume, square |-> price * price * bar.volume]
      BY <1>1, <2>3 DEF PaidIn
    <3> HIDE DEF price, more
    <3> QED
      BY <1>1, <2>1, <2>3, <3>1
  <2> QED
    BY <1>1, <2>2, <2>3
<1> HIDE DEF more, price
<1>3. AndPaid(paid, bar) = [f \in {"value", "volume", "square"} |-> paid[f] + more[f]]
  BY DEF AndPaid, SoundPaid, more
<1> QED
  BY <1>2, <1>3 DEF SoundPaid

SoundBook(book) ==
  /\ SoundPaid(book.paid) /\ book.prior_close \in Nat
  /\ book.levels # NoLevels =>
       /\ book.levels.session_open \in Nat \ {0} /\ book.levels.close \in Nat \ {0}
       /\ book.levels.prior_close \in Nat /\ SoundPaid(book.levels.paid)

LEMMA BookStaysSound ==
  ASSUME NEW book, DOMAIN book = BookFields, SoundBook(book), NEW bar, IsShape(bar), NEW d \in DOMAIN Days
  PROVE  SoundBook(Update(book, bar, Days[d]))
<1> DEFINE after == Update(book, bar, Days[d])
           today == IF book.session = Days[d].open THEN book ELSE Roll(book, Days[d])
<1>1. /\ after.prior_close = today.prior_close /\ after.paid = AndPaid(today.paid, bar)
      /\ after.levels.session_open = IF today.levels = NoLevels THEN bar.open ELSE today.levels.session_open
      /\ after.levels.close = bar.close /\ after.levels.paid = after.paid
      /\ after.levels.prior_close = today.prior_close
  <2>1. today = IF book.session = Days[d].open THEN book ELSE Roll(book, Days[d])
    OBVIOUS
  <2> HIDE DEF today
  <2>2. Updates(after, today, bar)
    BY <2>1, UpdateFields
  <2> QED
    BY <2>2 DEF Updates
<1>2. SoundPaid(NothingPaid)
  BY DEF SoundPaid, NothingPaid
<1>3. SoundPaid(today.paid) /\ today.prior_close \in Nat
      /\ (today.levels # NoLevels => today.levels.session_open \in Nat \ {0})
  <2>1. CASE book.session = Days[d].open
    BY <2>1 DEF SoundBook
  <2>2. CASE book.session # Days[d].open
    BY ZenonT(60), <1>2, <2>2, RolledFields DEF SoundBook
  <2> QED
    BY <2>1, <2>2
<1> HIDE DEF today, after
<1>4. SoundPaid(after.paid)
  BY <1>1, <1>3, PaidStaysSound
<1>5. bar.open \in Nat \ {0} /\ bar.close \in Nat \ {0}
  BY DEF IsShape
<1>6. SoundBook(after)
  BY <1>1, <1>3, <1>4, <1>5 DEF SoundBook
<1> QED
  BY <1>6 DEF after
-----------------------------------------------------------------------------
(* The bars of the tape that a session holds, and what the book has of them. *)
OfDay(bars, d) == {k \in DOMAIN bars : HeldBetween(Days[d], bars[k].ts)}

KeepsTheOpening(book, bars, f) == \A i \in DOMAIN book.opening : book.opening[i] = bars[f + i - 1]
KeepsTheRanges(book, bars, f) ==
  \A w \in DOMAIN book.levels.ranges : book.levels.ranges[w] = RangeFrom(bars, f, w)

BookReads(book, bars, d, f) ==
  /\ DOMAIN book = BookFields /\ DOMAIN book.levels = LevelFields
  /\ book.session = Days[d].open /\ book.levels.day = Days[d].day /\ book.levels.close_at = Days[d].close
  /\ book.levels.bar_count \in Nat \ {0}
  /\ OfDay(bars, d) = f .. f + book.levels.bar_count - 1
  /\ \A e \in DOMAIN Days : OfDay(bars, e) # {} => e <= d
  /\ IsSequence(book.opening)
  /\ Len(book.opening) = IF book.levels.bar_count < Max(OpeningWindows) THEN book.levels.bar_count
                         ELSE Max(OpeningWindows)
  /\ KeepsTheOpening(book, bars, f)
  /\ DOMAIN book.levels.ranges = {w \in OpeningWindows : w <= book.levels.bar_count}
  /\ KeepsTheRanges(book, bars, f)

LEMMA WindowFacts ==
  /\ Max(OpeningWindows) \in Nat \ {0} /\ OpeningWindows \subseteq Nat \ {0}
  /\ \A w \in OpeningWindows : w <= Max(OpeningWindows)
<1>1. OpeningWindows \in SUBSET Nat /\ IsFiniteSet(OpeningWindows) /\ OpeningWindows # {}
  BY WindowsAssumption
<1>2. Max(OpeningWindows) \in OpeningWindows /\ \A w \in OpeningWindows : w <= Max(OpeningWindows)
  BY <1>1, GreatestExists
<1> QED
  BY <1>2, WindowsAssumption

(* A bar of the session joins those it holds; one of none joins nobody.     *)
LEMMA DayOfALongerTape ==
  ASSUME NEW bars, IsSequence(bars), NEW bar, NEW d \in DOMAIN Days
  PROVE  /\ HeldBetween(Days[d], bar.ts) => OfDay(Append(bars, bar), d) = OfDay(bars, d) \cup {Len(bars) + 1}
         /\ ~HeldBetween(Days[d], bar.ts) => OfDay(Append(bars, bar), d) = OfDay(bars, d)
<1> DEFINE longer == Append(bars, bar)
<1>1. Len(bars) \in Nat /\ DOMAIN bars = 1..Len(bars)
  BY SequenceFacts
<1>2. /\ DOMAIN longer = 1..Len(bars) + 1 /\ longer[Len(bars) + 1] = bar
      /\ \A k \in DOMAIN bars : longer[k] = bars[k]
  BY AppendFacts, SequenceFacts
<1> HIDE DEF longer
<1>3. \A k \in DOMAIN longer : k \in DOMAIN bars \/ k = Len(bars) + 1
  BY <1>1, <1>2
<1>4. \A k \in DOMAIN bars : k \in DOMAIN longer
  BY <1>1, <1>2
<1>5. Len(bars) + 1 \in DOMAIN longer
  BY <1>1, <1>2
<1>6. HeldBetween(Days[d], bar.ts) => OfDay(longer, d) = OfDay(bars, d) \cup {Len(bars) + 1}
  BY <1>2, <1>3, <1>4, <1>5 DEF OfDay
<1>7. ~HeldBetween(Days[d], bar.ts) => OfDay(longer, d) = OfDay(bars, d)
  BY <1>2, <1>3, <1>4 DEF OfDay
<1> QED
  BY <1>6, <1>7 DEF longer

(* Two sessions hold no minute in common, and a later minute is of a later one. *)
LEMMA LaterMinuteLaterDay ==
  ASSUME NEW d \in DOMAIN Days, NEW e \in DOMAIN Days, NEW ts \in Nat, NEW us \in Nat, ts <= us,
         HeldBetween(Days[d], ts), HeldBetween(Days[e], us)
  PROVE  d <= e /\ (Days[d].open = Days[e].open => d = e)
<1>1. /\ Days[d].open \in Nat /\ Days[d].close \in Nat /\ Days[e].open \in Nat /\ Days[e].close \in Nat
      /\ d \in Nat /\ e \in Nat
  BY DayFields
<1>2. d < e => Days[d].close <= Days[e].open
  BY DaysAssumption
<1>3. e < d => Days[e].close <= Days[d].open
  BY DaysAssumption
<1> QED
  BY <1>1, <1>2, <1>3 DEF HeldBetween
-----------------------------------------------------------------------------
(* What a book reads off a tape it still reads off a longer one. *)
LEMMA ReadsOfALongerTape ==
  ASSUME NEW book, NEW bars, IsSequence(bars), NEW bar, NEW d \in DOMAIN Days, NEW f \in Nat,
         BookReads(book, bars, d, f)
  PROVE  KeepsTheOpening(book, Append(bars, bar), f) /\ KeepsTheRanges(book, Append(bars, bar), f)
<1> DEFINE longer == Append(bars, bar)
           n == book.levels.bar_count
<1>1. \A k \in DOMAIN bars : longer[k] = bars[k]
  BY AppendFacts
<1>2. n \in Nat \ {0} /\ \A k \in f .. f + n - 1 : k \in DOMAIN bars
  BY DEF BookReads, OfDay
<1>3. ASSUME NEW i \in DOMAIN book.opening PROVE book.opening[i] = longer[f + i - 1]
  <2>1. i \in 1..Len(book.opening) /\ Len(book.opening) <= n /\ Len(book.opening) \in Nat
    BY SequenceFacts, WindowFacts DEF BookReads
  <2>2. f + i - 1 \in f .. f + n - 1
    BY <1>2, <2>1
  <2>3. book.opening[i] = bars[f + i - 1]
    BY DEF BookReads, KeepsTheOpening
  <2> QED
    BY <1>1, <1>2, <2>2, <2>3
<1>4. ASSUME NEW w \in DOMAIN book.levels.ranges PROVE book.levels.ranges[w] = RangeFrom(longer, f, w)
  <2>1. w \in Nat \ {0} /\ w <= n
    BY WindowFacts DEF BookReads
  <2>2. ASSUME NEW i \in 0 .. w - 1 PROVE bars[f + i] = longer[f + i]
    <3>1. f + i \in f .. f + n - 1
      BY <1>2, <2>1
    <3> QED
      BY <1>1, <1>2, <3>1
  <2>3. SameBars(bars, f, longer, f, w)
    BY <2>2 DEF SameBars
  <2> HIDE DEF longer
  <2>4. RangeFrom(bars, f, w) = RangeFrom(longer, f, w)
    BY <2>1, <2>3, SameRange
  <2> QED
    BY <2>4 DEF BookReads, KeepsTheRanges
<1> QED
  BY <1>3, <1>4 DEF KeepsTheOpening, KeepsTheRanges

LEMMA StrayReads ==
  ASSUME NEW book, NEW bars, IsSequence(bars), NEW bar, NEW d \in DOMAIN Days, NEW f \in Nat,
         BookReads(book, bars, d, f), \A e \in DOMAIN Days : ~HeldBetween(Days[e], bar.ts)
  PROVE  BookReads(book, Append(bars, bar), d, f)
<1> DEFINE longer == Append(bars, bar)
<1>1. \A e \in DOMAIN Days : OfDay(longer, e) = OfDay(bars, e)
  BY DayOfALongerTape
<1>2. KeepsTheOpening(book, longer, f) /\ KeepsTheRanges(book, longer, f)
  BY ReadsOfALongerTape
<1> HIDE DEF longer
<1>3. BookReads(book, longer, d, f)
  BY <1>1, <1>2 DEF BookReads
<1> QED
  BY <1>3 DEF longer

(* The session a book reads ends at the end of the tape until its last bar. *)
LEMMA NextOfTheDay ==
  ASSUME NEW book, NEW bars, NEW until \in Nat, IsTape(bars, until), NEW bar, bar.ts \in Nat, until < bar.ts,
         NEW d \in DOMAIN Days, NEW f \in Nat \ {0}, BookReads(book, bars, d, f), HeldBetween(Days[d], bar.ts)
  PROVE  Len(bars) = f + book.levels.bar_count - 1
<1> DEFINE n == book.levels.bar_count
           last == Len(bars)
<1>1. last \in Nat /\ DOMAIN bars = 1..last
  BY SequenceFacts DEF IsTape
<1>2. n \in Nat \ {0} /\ OfDay(bars, d) = f .. f + n - 1
  BY DEF BookReads
<1>3. f + n - 1 \in OfDay(bars, d)
  BY <1>2
<1>4. f + n - 1 \in 1..last /\ HeldBetween(Days[d], bars[f + n - 1].ts)
  BY <1>1, <1>3 DEF OfDay
<1>5. ASSUME f + n - 1 < last PROVE FALSE
  <2>1. last \in DOMAIN bars /\ f + n - 1 \in DOMAIN bars
    BY <1>1, <1>4, <1>5
  <2>2. /\ bars[f + n - 1].ts < bars[last].ts /\ bars[last].ts <= until
        /\ bars[last].ts \in Nat /\ bars[f + n - 1].ts \in Nat
    BY <1>5, <2>1 DEF IsTape
  <2>3. HeldBetween(Days[d], bars[last].ts)
    BY <1>4, <2>2, DayFields DEF HeldBetween
  <2>4. last \in OfDay(bars, d)
    BY <2>1, <2>3 DEF OfDay
  <2> QED
    BY <1>1, <1>2, <1>5, <2>4
<1> QED
  BY <1>1, <1>2, <1>4, <1>5
-----------------------------------------------------------------------------
(* A bar of the session the book is in: the session is one bar longer, and *)
(* a window that fills is cut from the bars kept for it.                   *)
LEMMA SameDayReads ==
  ASSUME NEW book, NEW bars, NEW until \in Nat, IsTape(bars, until), NEW bar, bar.ts \in Nat, until < bar.ts,
         NEW d \in DOMAIN Days, NEW f \in Nat \ {0}, BookReads(book, bars, d, f), HeldBetween(Days[d], bar.ts)
  PROVE  /\ BookReads(Update(book, bar, Days[d]), Append(bars, bar), d, f)
         /\ Update(book, bar, Days[d]).levels.bar_count = book.levels.bar_count + 1
         /\ \A w \in DOMAIN book.levels.ranges :
              /\ w \in DOMAIN Update(book, bar, Days[d]).levels.ranges
              /\ Update(book, bar, Days[d]).levels.ranges[w] = book.levels.ranges[w]
<1> DEFINE after == Update(book, bar, Days[d])
           longer == Append(bars, bar)
           n == book.levels.bar_count
           top == Max(OpeningWindows)
           filled == DOMAIN book.levels.ranges \cup ({n + 1} \cap OpeningWindows)
<1>1. /\ DOMAIN book = BookFields /\ book.session = Days[d].open /\ n \in Nat \ {0}
      /\ book.levels # NoLevels
  <2>1. "open" \in DOMAIN book.levels /\ "open" \notin DOMAIN NoLevels
    BY DEF BookReads, LevelFields, NoLevels
  <2> QED
    BY <2>1 DEF BookReads
<1>2. Updates(after, book, bar)
  BY <1>1, UpdateFields
<1>3. /\ DOMAIN after = BookFields /\ DOMAIN after.levels = LevelFields
      /\ after.levels.day = Days[d].day /\ after.levels.close_at = Days[d].close
  BY <1>1, LevelsOfTheSession
<1> HIDE DEF after
<1>4. /\ after.session = Days[d].open /\ after.levels.bar_count = n + 1
      /\ after.opening = IF Len(book.opening) < top THEN Append(book.opening, bar) ELSE book.opening
  BY <1>1, <1>2 DEF Updates
<1>5. after.levels.ranges = [w \in filled |-> IF w = n + 1 THEN OpeningRange(after.opening, w) ELSE book.levels.ranges[w]]
  BY <1>1, <1>2 DEF Updates
<1>6. Len(bars) \in Nat /\ Len(bars) = f + n - 1
  BY NextOfTheDay, SequenceFacts DEF IsTape
<1>7. /\ IsSequence(bars) /\ IsSequence(longer) /\ longer[f + n] = bar
      /\ \A k \in DOMAIN bars : longer[k] = bars[k]
  <2>1. IsSequence(bars) /\ Len(bars) + 1 = f + n
    BY <1>1, <1>6 DEF IsTape
  <2> QED
    BY <2>1, AppendFacts
<1>8. OfDay(longer, d) = f .. f + (n + 1) - 1
  <2>1. OfDay(longer, d) = OfDay(bars, d) \cup {Len(bars) + 1}
    BY <1>7, DayOfALongerTape
  <2>2. OfDay(bars, d) = f .. f + n - 1
    BY DEF BookReads
  <2> QED
    BY <1>1, <1>6, <2>1, <2>2
<1>9. ASSUME NEW e \in DOMAIN Days, OfDay(longer, e) # {} PROVE e <= d
  <2>1. CASE HeldBetween(Days[e], bar.ts)
    BY <2>1, LaterMinuteLaterDay
  <2>2. CASE ~HeldBetween(Days[e], bar.ts)
    <3>1. OfDay(bars, e) # {}
      BY <1>7, <1>9, <2>2, DayOfALongerTape
    <3> QED
      BY <3>1 DEF BookReads
  <2> QED
    BY <2>1, <2>2
<1>10. KeepsTheOpening(book, longer, f) /\ KeepsTheRanges(book, longer, f)
  BY <1>7, ReadsOfALongerTape
<1> HIDE DEF longer, top
<1>11. top \in Nat \ {0} /\ (\A w \in OpeningWindows : w \in Nat \ {0} /\ w <= top)
  BY WindowFacts DEF top
<1>12. /\ IsSequence(book.opening) /\ Len(book.opening) = IF n < top THEN n ELSE top
       /\ Len(book.opening) \in Nat /\ DOMAIN book.opening = 1..Len(book.opening)
  BY SequenceFacts DEF BookReads, top
<1>13. /\ IsSequence(after.opening) /\ Len(after.opening) = IF n + 1 < top THEN n + 1 ELSE top
       /\ KeepsTheOpening(after, longer, f)
  <2>1. CASE n < top
    <3>1. /\ IsSequence(after.opening) /\ Len(after.opening) = n + 1 /\ after.opening[n + 1] = bar
          /\ \A i \in DOMAIN book.opening : after.opening[i] = book.opening[i]
      BY <1>4, <1>12, <2>1, AppendFacts
    <3>2. DOMAIN after.opening = 1 .. n + 1
      BY <3>1, SequenceFacts
    <3>3. ASSUME NEW i \in DOMAIN after.opening PROVE after.opening[i] = longer[f + i - 1]
      <4>1. CASE i = n + 1
        BY <1>1, <1>7, <3>1, <4>1
      <4>2. CASE i # n + 1
        <5>1. i \in DOMAIN book.opening
          BY <1>1, <1>12, <2>1, <3>2, <4>2
        <5> QED
          BY <1>10, <3>1, <5>1 DEF KeepsTheOpening
      <4> QED
        BY <4>1, <4>2
    <3>4. n + 1 = IF n + 1 < top THEN n + 1 ELSE top
      BY <1>1, <1>11, <2>1
    <3>5. KeepsTheOpening(after, longer, f)
      BY <3>3 DEF KeepsTheOpening
    <3> QED
      BY <3>1, <3>4, <3>5
  <2>2. CASE ~(n < top)
    <3>1. after.opening = book.opening
      BY <1>4, <1>11, <1>12, <2>2
    <3>2. (IF n < top THEN n ELSE top) = IF n + 1 < top THEN n + 1 ELSE top
      BY <1>1, <1>11, <2>2
    <3>3. KeepsTheOpening(after, longer, f)
      BY <1>10, <3>1 DEF KeepsTheOpening
    <3> QED
      BY <1>12, <3>1, <3>2, <3>3
  <2> QED
    BY <2>1, <2>2
<1>14. DOMAIN book.levels.ranges = {w \in OpeningWindows : w <= n}
  BY DEF BookReads
<1>15. DOMAIN after.levels.ranges = {w \in OpeningWindows : w <= n + 1}
  BY <1>1, <1>5, <1>11, <1>14
<1>16. \A w \in DOMAIN book.levels.ranges : w \in filled /\ w # n + 1
  BY <1>1, <1>11, <1>14
<1>17. ASSUME NEW w \in DOMAIN book.levels.ranges
       PROVE  w \in DOMAIN after.levels.ranges /\ after.levels.ranges[w] = book.levels.ranges[w]
  BY <1>5, <1>16
<1>18. ASSUME NEW w \in DOMAIN after.levels.ranges PROVE after.levels.ranges[w] = RangeFrom(longer, f, w)
  <2>1. w \in filled
    BY <1>5
  <2>2. CASE w = n + 1
    <3>1. w \in OpeningWindows /\ w <= top /\ Len(after.opening) = w /\ w \in Nat \ {0}
      BY <1>1, <1>11, <1>13, <1>15, <2>2
    <3>2. after.levels.ranges[w] = OpeningRange(after.opening, w)
      BY <1>5, <2>1, <2>2
    <3>3. OpeningRange(after.opening, w) = RangeFrom(after.opening, 1, w)
      BY <1>13, <3>1, OpeningRangeIsOfItsBars
    <3>4. SameBars(after.opening, 1, longer, f, w)
      <4>1. DOMAIN after.opening = 1..w
        BY <1>13, <3>1, SequenceFacts
      <4>2. ASSUME NEW i \in 0 .. w - 1 PROVE after.opening[1 + i] = longer[f + i]
        <5>1. 1 + i \in DOMAIN after.opening /\ f + (1 + i) - 1 = f + i
          BY <3>1, <4>1
        <5> QED
          BY <1>13, <5>1 DEF KeepsTheOpening
      <4> QED
        BY <4>2 DEF SameBars
    <3>5. RangeFrom(after.opening, 1, w) = RangeFrom(longer, f, w)
      BY <3>1, <3>4, SameRange
    <3> QED
      BY <3>2, <3>3, <3>5
  <2>3. CASE w # n + 1
    <3>1. w \in DOMAIN book.levels.ranges
      BY <2>1, <2>3
    <3> QED
      BY <1>10, <1>17, <3>1 DEF KeepsTheRanges
  <2> QED
    BY <2>2, <2>3
<1>19. KeepsTheRanges(after, longer, f)
  BY <1>18 DEF KeepsTheRanges
<1>20. n + 1 \in Nat \ {0}
  BY <1>1
<1>21. BookReads(after, longer, d, f)
  BY <1>3, <1>4, <1>8, <1>9, <1>13, <1>15, <1>19, <1>20 DEF BookReads, top
<1> QED
  BY <1>4, <1>17, <1>21 DEF after, longer

(* The first bar of a session: what an earlier one left behind is not read. *)
LEMMA FirstOfADayReads ==
  ASSUME NEW book, DOMAIN book = BookFields, NEW bars, IsSequence(bars), NEW bar, bar.ts \in Nat,
         NEW d \in DOMAIN Days, book.session # Days[d].open, HeldBetween(Days[d], bar.ts),
         OfDay(bars, d) = {}, \A e \in DOMAIN Days : OfDay(bars, e) # {} => e <= d
  PROVE  /\ BookReads(Update(book, bar, Days[d]), Append(bars, bar), d, Len(bars) + 1)
         /\ Update(book, bar, Days[d]).levels.bar_count = 1
<1> DEFINE after == Update(book, bar, Days[d])
           longer == Append(bars, bar)
           today == Roll(book, Days[d])
           f == Len(bars) + 1
           top == Max(OpeningWindows)
           filled == {1} \cap OpeningWindows
<1>1. today.levels = NoLevels /\ today.opening = <<>> /\ today.session = Days[d].open
  BY RolledFields
<1> HIDE DEF today
<1>2. Updates(after, today, bar)
  <2>1. today = IF book.session = Days[d].open THEN book ELSE Roll(book, Days[d])
    BY DEF today
  <2> QED
    BY <2>1, UpdateFields
<1>3. /\ DOMAIN after = BookFields /\ DOMAIN after.levels = LevelFields
      /\ after.levels.day = Days[d].day /\ after.levels.close_at = Days[d].close
  BY LevelsOfTheSession
<1> HIDE DEF after
<1>4. top \in Nat \ {0} /\ (\A w \in OpeningWindows : w \in Nat \ {0} /\ w <= top)
  BY WindowFacts
<1>5. IsSequence(<<>>) /\ Len(<<>>) = 0
  <2>1. <<>> \in Seq({})
    BY EmptySeq
  <2> QED
    BY <2>1, EmptySeq DEF IsSequence
<1> HIDE DEF top
<1>6. after.session = Days[d].open /\ after.levels.bar_count = 1 /\ after.opening = Append(<<>>, bar)
  BY <1>1, <1>2, <1>4, <1>5 DEF Updates, top
<1>7. after.levels.ranges = [w \in filled |-> IF w = 1 THEN OpeningRange(after.opening, w) ELSE today.levels.ranges[w]]
  BY <1>1, <1>2 DEF Updates
<1>8. Len(bars) \in Nat /\ f \in Nat \ {0} /\ longer[f] = bar
  BY SequenceFacts, AppendFacts
<1>9. OfDay(longer, d) = f .. f + 1 - 1
  <2>1. OfDay(longer, d) = {f}
    BY DayOfALongerTape
  <2> QED
    BY <1>8, <2>1
<1>10. ASSUME NEW e \in DOMAIN Days, OfDay(longer, e) # {} PROVE e <= d
  <2>1. CASE HeldBetween(Days[e], bar.ts)
    BY <2>1, LaterMinuteLaterDay
  <2>2. CASE ~HeldBetween(Days[e], bar.ts)
    BY <1>10, <2>2, DayOfALongerTape
  <2> QED
    BY <2>1, <2>2
<1> HIDE DEF longer, f
<1>11. IsSequence(after.opening) /\ Len(after.opening) = 1 /\ after.opening[1] = bar
  <2> DEFINE none == <<>>
  <2>1. IsSequence(none) /\ Len(none) = 0 /\ after.opening = Append(none, bar)
    BY <1>5, <1>6
  <2> HIDE DEF none
  <2>2. IsSequence(Append(none, bar)) /\ Len(Append(none, bar)) = 0 + 1 /\ Append(none, bar)[0 + 1] = bar
    BY <2>1, AppendFacts
  <2> QED
    BY <2>1, <2>2
<1>12. DOMAIN after.opening = 1..1
  BY <1>11, SequenceFacts
<1>13. KeepsTheOpening(after, longer, f)
  BY <1>8, <1>11, <1>12 DEF KeepsTheOpening
<1>14. 1 = IF 1 < top THEN 1 ELSE top
  BY <1>4
<1>15. DOMAIN after.levels.ranges = {w \in OpeningWindows : w <= 1}
  BY <1>4, <1>7
<1>16. ASSUME NEW w \in DOMAIN after.levels.ranges PROVE after.levels.ranges[w] = RangeFrom(longer, f, w)
  <2>1. w = 1 /\ w \in filled
    BY <1>7
  <2>2. after.levels.ranges[w] = OpeningRange(after.opening, 1)
    BY <1>7, <2>1
  <2>3. OpeningRange(after.opening, 1) = RangeFrom(after.opening, 1, 1)
    BY <1>11, OpeningRangeIsOfItsBars
  <2>4. SameBars(after.opening, 1, longer, f, 1)
    BY <1>8, <1>11 DEF SameBars
  <2>5. RangeFrom(after.opening, 1, 1) = RangeFrom(longer, f, 1)
    BY <1>8, <2>4, SameRange
  <2> QED
    BY <2>1, <2>2, <2>3, <2>5
<1>17. KeepsTheRanges(after, longer, f)
  BY <1>16 DEF KeepsTheRanges
<1>18. BookReads(after, longer, d, f)
  BY <1>3, <1>6, <1>9, <1>10, <1>11, <1>13, <1>14, <1>15, <1>17 DEF BookReads, top
<1> QED
  BY <1>6, <1>18 DEF after, longer, f
-----------------------------------------------------------------------------
(* The fade: what it remembers is the latest excursion of its session.     *)
Way(range, bar) == IF BreaksUp(range, bar.high) THEN "BUY" ELSE "SELL"

(* The bars that left the opening range, once it was full, before the bell. *)
Left(bars, d, f, range) ==
  {k \in OfDay(bars, d) : /\ k > f + Rules.opening_minutes - 1 /\ bars[k].ts < Days[d].close
                          /\ Leaves(range, bars[k])}

MemoReads(x, l, bars, d, f) ==
  /\ x.day = 0 \/ \E e \in DOMAIN Days : e <= d /\ x.day = Days[e].day
  /\ HasOpening(l) =>
       IF x.day = l.day THEN IsTheTip(x.extreme, Opposite(x.side), bars, Left(bars, d, f, Opening(l)), Opening(l))
       ELSE Left(bars, d, f, Opening(l)) = {}
  /\ ~HasOpening(l) => x.day # l.day

(* What the handler keeps, and what it proposes. *)
Remembers(bar, view, memo) ==
  IF ~BeforeTheBell(bar, view) \/ ~HasOpening(view.levels) THEN memo.excursion
  ELSE Recorded(bar, Opening(view.levels), HeldToday(memo.excursion, view.levels), view.levels.day)

LEMMA FadeRemembers ==
  ASSUME NEW bar, NEW view, NEW memo, DOMAIN memo = MemoFields
  PROVE  OrbFade(bar, view, memo).memo.excursion = Remembers(bar, view, memo)
<1> DEFINE l == view.levels
           held == Recorded(bar, Opening(l), HeldToday(memo.excursion, l), l.day)
           kept == [memo EXCEPT !.excursion = held]
<1>1. kept.excursion = held /\ DOMAIN kept = MemoFields
  BY DEF MemoFields
<1> HIDE DEF held, kept
<1>2. Decline(memo).memo.excursion = memo.excursion /\ Decline(kept).memo.excursion = held
  BY <1>1 DEF Decline
<1>3. ASSUME NEW t PROVE Propose(kept, l, t).memo.excursion = held
  BY <1>1 DEF Propose, MemoFields
<1>4. CASE ~BeforeTheBell(bar, view) \/ ~HasOpening(l)
  BY <1>2, <1>4 DEF OrbFade, Remembers
<1>5. CASE BeforeTheBell(bar, view) /\ HasOpening(l)
  BY <1>2, <1>3, <1>5 DEF OrbFade, Remembers, held, kept
<1> QED
  BY <1>4, <1>5

Fades(t, bar, view, memo) ==
  LET l == view.levels
      x == Remembers(bar, view, memo)
      range == Opening(l)
  IN /\ BeforeTheBell(bar, view) /\ HasOpening(l) /\ x # NoExcursion
     /\ ~BreaksUp(range, bar.close) /\ ~BreaksDown(range, bar.close)
     /\ t.day = l.day /\ t.ts = bar.ts /\ t.entry = bar.close /\ t.symbol = bar.symbol
     /\ t.side = Opposite(x.side) /\ t.invalidation = x.extreme
     /\ t.target_r[1] > 0 /\ t.target_r[2] > 0

LEMMA FadeProposes ==
  ASSUME NEW bar, NEW view, NEW memo, NEW t \in OrbFade(bar, view, memo).intents
  PROVE  Fades(t, bar, view, memo)
<1> DEFINE l == view.levels
           range == Opening(l)
           held == Recorded(bar, range, HeldToday(memo.excursion, l), l.day)
           kept == [memo EXCEPT !.excursion = held]
           side == Opposite(held.side)
           target == IF side = "SELL" THEN range.low ELSE range.high
           risk == Magnitude(bar.close - held.extreme)
           reward == Magnitude(bar.close - target)
           intent == Intent("orb_fade", bar, l, side, held.extreme, <<reward, risk>>, l.close_at)
<1>1. /\ BeforeTheBell(bar, view) /\ HasOpening(l) /\ held # NoExcursion
      /\ ~BreaksUp(range, bar.close) /\ ~BreaksDown(range, bar.close)
      /\ risk > 0 /\ reward > 0 /\ t \in Propose(kept, l, intent).intents
  <2> HIDE DEF held, range, side, risk, reward, kept, intent
  <2>1. \A m : Decline(m).intents = {}
    BY DEF Decline
  <2> QED
    BY <2>1 DEF OrbFade, held, range, side, target, risk, reward, kept, intent
<1>2. Remembers(bar, view, memo) = held
  BY <1>1 DEF Remembers
<1>3. t = intent
  BY <1>1 DEF Propose
<1> HIDE DEF held, side, risk, reward, range
<1>4. /\ t.day = l.day /\ t.ts = bar.ts /\ t.entry = bar.close /\ t.symbol = bar.symbol
      /\ t.side = side /\ t.invalidation = held.extreme /\ t.target_r = <<reward, risk>>
  BY <1>3 DEF Intent
<1>5. t.target_r[1] > 0 /\ t.target_r[2] > 0
  BY <1>1, <1>4
<1> QED
  BY <1>1, <1>2, <1>4, <1>5 DEF Fades, side, range
-----------------------------------------------------------------------------
(* An opening range is one of those the book keeps of its session. *)
LEMMA OpeningFacts ==
  ASSUME NEW book, NEW bars, NEW d \in DOMAIN Days, NEW f \in Nat \ {0}, NEW until \in Nat, IsTape(bars, until),
         BookReads(book, bars, d, f), HasOpening(book.levels)
  PROVE  /\ Rules.opening_minutes \in DOMAIN book.levels.ranges
         /\ Rules.opening_minutes \in Nat \ {0} /\ Rules.opening_minutes <= book.levels.bar_count
         /\ Opening(book.levels) = RangeFrom(bars, f, Rules.opening_minutes)
         /\ Opening(book.levels).high \in Int /\ Opening(book.levels).low \in Int
         /\ \A k \in f .. f + Rules.opening_minutes - 1 :
              bars[k].high <= Opening(book.levels).high /\ Opening(book.levels).low <= bars[k].low
<1> DEFINE w == Rules.opening_minutes
           n == book.levels.bar_count
<1>1. w \in DOMAIN book.levels.ranges /\ Opening(book.levels) = book.levels.ranges[w]
  BY DEF HasOpening, Opening
<1>2. w \in Nat \ {0} /\ w <= n /\ n \in Nat
  BY <1>1, WindowFacts DEF BookReads
<1>3. Opening(book.levels) = RangeFrom(bars, f, w)
  BY <1>1 DEF BookReads, KeepsTheRanges
<1>4. ASSUME NEW k \in f .. f + w - 1 PROVE IsShape(bars[k])
  <2>1. k \in f .. f + n - 1
    BY <1>2
  <2>2. k \in DOMAIN bars
    BY <2>1 DEF BookReads, OfDay
  <2> QED
    BY <2>2 DEF IsTape
<1> HIDE DEF w
<1>5. /\ RangeFrom(bars, f, w).high \in Int /\ RangeFrom(bars, f, w).low \in Int
      /\ \A k \in f .. f + w - 1 : bars[k].high <= RangeFrom(bars, f, w).high
                                   /\ RangeFrom(bars, f, w).low <= bars[k].low
  BY <1>2, <1>4, RangeIsSound
<1> QED
  BY <1>1, <1>2, <1>3, <1>5 DEF w
-----------------------------------------------------------------------------
(* A tip stays one while bars go no further, and a bar that does is the next. *)
LEMMA TipStays ==
  ASSUME NEW p, NEW side, NEW bars, NEW longer, NEW left, NEW more, NEW range,
         IsTheTip(p, side, bars, left, range), \A k \in left : longer[k] = bars[k] /\ k \in more,
         \A k \in more \ left : FadedBy(range, longer[k]) = side /\ ~Beyond(side, p, Tip(range, longer[k]))
  PROVE  IsTheTip(p, side, longer, more, range)
<1>1. PICK k \in left :
        /\ FadedBy(range, bars[k]) = side /\ Tip(range, bars[k]) = p
        /\ \A m \in left : m > k => FadedBy(range, bars[m]) = side /\ ~Beyond(side, p, Tip(range, bars[m]))
  BY Zenon DEF IsTheTip
<1>2. k \in more /\ FadedBy(range, longer[k]) = side /\ Tip(range, longer[k]) = p
  BY <1>1
<1>3. ASSUME NEW m \in more, m > k
      PROVE  FadedBy(range, longer[m]) = side /\ ~Beyond(side, p, Tip(range, longer[m]))
  <2>1. CASE m \in left
    <3>1. longer[m] = bars[m]
      BY <2>1
    <3>2. FadedBy(range, bars[m]) = side /\ ~Beyond(side, p, Tip(range, bars[m]))
      BY <1>1, <1>3, <2>1, Zenon
    <3> QED
      BY <3>1, <3>2, Zenon
  <2>2. CASE m \notin left
    BY <2>2, Zenon
  <2> QED
    BY <2>1, <2>2
<1> QED
  BY <1>2, <1>3, Zenon DEF IsTheTip

LEMMA TipIsNew ==
  ASSUME NEW p, NEW side, NEW longer, NEW more, NEW range, NEW k \in more, \A m \in more : ~(m > k),
         FadedBy(range, longer[k]) = side, Tip(range, longer[k]) = p
  PROVE  IsTheTip(p, side, longer, more, range)
BY Zenon DEF IsTheTip

(* What is recorded: a bar that left on one side, and how far it went. *)
LEMMA LeavesOneWay ==
  ASSUME NEW bar, NEW range, bar.high \in Int, bar.low \in Int, range.high \in Int, range.low \in Int
  PROVE  Leaves(range, bar) <=> \/ BreaksUp(range, bar.high) /\ ~BreaksDown(range, bar.low)
                                \/ ~BreaksUp(range, bar.high) /\ BreaksDown(range, bar.low)
BY DEF Leaves, BreaksUp, BreaksDown

LEMMA RecordedFacts ==
  ASSUME NEW bar, NEW range, NEW held, NEW day,
         bar.high \in Int, bar.low \in Int, range.high \in Int, range.low \in Int
  PROVE  Recorded(bar, range, held, day) =
           IF \/ BreaksUp(range, bar.high) /\ ~BreaksDown(range, bar.low)
              \/ ~BreaksUp(range, bar.high) /\ BreaksDown(range, bar.low)
           THEN [day |-> day, side |-> Way(range, bar), extreme |-> Extended(held, Way(range, bar), Tip(range, bar))]
           ELSE held
BY DEF Recorded, BreaksUp, BreaksDown, Way, Tip

(* Until the opening range is full nothing is remembered of the session.   *)
LEMMA UnopenedReads ==
  ASSUME NEW book, NEW bars, NEW until \in Nat, IsTape(bars, until), NEW d \in DOMAIN Days, NEW f \in Nat \ {0},
         BookReads(book, bars, d, f), Len(bars) = f + book.levels.bar_count - 1,
         NEW bar, bar = bars[Len(bars)], NEW view, view.levels = book.levels, NEW memo,
         memo.excursion.day # Days[d].day,
         memo.excursion.day = 0 \/ \E e \in DOMAIN Days : e <= d /\ memo.excursion.day = Days[e].day,
         HasOpening(book.levels) => Rules.opening_minutes = book.levels.bar_count
  PROVE  MemoReads(Remembers(bar, view, memo), book.levels, bars, d, f)
<1> DEFINE l == book.levels
           x == memo.excursion
           w == Rules.opening_minutes
           range == Opening(l)
<1>1. l.day = Days[d].day /\ Days[d].day # 0
  BY DayFields DEF BookReads
<1>2. CASE ~HasOpening(l)
  BY <1>1, <1>2 DEF MemoReads, Remembers
<1>3. CASE HasOpening(l)
  <2>1. /\ w \in DOMAIN l.ranges /\ w \in Nat \ {0} /\ w = l.bar_count
        /\ range.high \in Int /\ range.low \in Int
        /\ \A k \in f .. f + w - 1 : bars[k].high <= range.high /\ range.low <= bars[k].low
    BY <1>3, OpeningFacts
  <2>2. Left(bars, d, f, range) = {}
    <3>1. \A k \in OfDay(bars, d) : k \in f .. f + w - 1
      BY <2>1 DEF BookReads
    <3>2. \A k \in f .. f + w - 1 : ~(k > f + w - 1)
      BY <2>1
    <3> QED
      BY <3>1, <3>2 DEF Left
  <2>3. Remembers(bar, view, memo).day # l.day
        /\ (Remembers(bar, view, memo).day = 0 \/ Remembers(bar, view, memo) = x)
    <3>1. CASE ~BeforeTheBell(bar, view)
      BY <1>1, <3>1 DEF Remembers
    <3>2. CASE BeforeTheBell(bar, view)
      <4>1. Remembers(bar, view, memo) = Recorded(bar, range, HeldToday(x, l), l.day)
        BY <1>3, <3>2 DEF Remembers
      <4>2. HeldToday(x, l) = NoExcursion
        BY <1>1 DEF HeldToday
      <4>3. bar.high <= range.high /\ range.low <= bar.low
        <5>1. Len(bars) = f + w - 1 /\ f + w - 1 \in f .. f + w - 1
          BY <2>1
        <5> QED
          BY <2>1, <5>1
      <4>4. bar.high \in Int /\ bar.low \in Int
        <5>1. Len(bars) \in DOMAIN bars
          <6>1. f + l.bar_count - 1 \in OfDay(bars, d)
            BY <2>1 DEF BookReads
          <6> QED
            BY <6>1 DEF OfDay
        <5> QED
          BY <5>1 DEF IsTape, IsShape
      <4> HIDE DEF range
      <4>5. ~BreaksUp(range, bar.high) /\ ~BreaksDown(range, bar.low)
        BY SMTT(30), <2>1, <4>3, <4>4 DEF BreaksUp, BreaksDown
      <4>6. Remembers(bar, view, memo) = NoExcursion
        BY <2>1, <4>1, <4>2, <4>4, <4>5, RecordedFacts DEF range
      <4> QED
        BY <1>1, <4>6 DEF NoExcursion
    <3> QED
      BY <3>1, <3>2
  <2> HIDE DEF x, range
  <2>4. Remembers(bar, view, memo).day = 0
        \/ \E e \in DOMAIN Days : e <= d /\ Remembers(bar, view, memo).day = Days[e].day
    BY <2>3 DEF x
  <2> QED
    BY <1>3, <2>2, <2>3, <2>4 DEF MemoReads, range
<1> QED
  BY <1>2, <1>3
-----------------------------------------------------------------------------
(* A bar of a session whose opening range is full: what is remembered stays *)
(* the tip of the excursions so far, before the bell.                       *)
LEMMA OpenedReads ==
  ASSUME NEW book, NEW bars, NEW until \in Nat, IsTape(bars, until), NEW bar, IsShape(bar), bar.ts \in Nat,
         until < bar.ts, NEW d \in DOMAIN Days, NEW f \in Nat \ {0}, BookReads(book, bars, d, f),
         HeldBetween(Days[d], bar.ts), HasOpening(book.levels), NEW memo,
         MemoReads(memo.excursion, book.levels, bars, d, f),
         NEW view, view.levels = Update(book, bar, Days[d]).levels, view.phase = "REGULAR"
  PROVE  MemoReads(Remembers(bar, view, memo), view.levels, Append(bars, bar), d, f)
<1> DEFINE longer == Append(bars, bar)
           l == view.levels
           x == memo.excursion
           y == Remembers(bar, view, memo)
           w == Rules.opening_minutes
           range == Opening(book.levels)
           before == Left(bars, d, f, range)
           after == Left(longer, d, f, range)
           K == Len(bars) + 1
<1>1. /\ BookReads(Update(book, bar, Days[d]), longer, d, f)
      /\ \A v \in DOMAIN book.levels.ranges :
           v \in DOMAIN l.ranges /\ l.ranges[v] = book.levels.ranges[v]
  BY SameDayReads
<1>2. /\ l.day = Days[d].day /\ l.close_at = Days[d].close /\ l # NoLevels /\ book.levels.day = Days[d].day
  <2>1. "open" \in DOMAIN l /\ "open" \notin DOMAIN NoLevels
    BY <1>1 DEF BookReads, LevelFields, NoLevels
  <2> QED
    BY <1>1, <2>1 DEF BookReads
<1>3. /\ w \in DOMAIN book.levels.ranges /\ w \in Nat \ {0} /\ w <= book.levels.bar_count
      /\ range.high \in Int /\ range.low \in Int
  BY OpeningFacts
<1>4. Opening(l) = range /\ HasOpening(l)
  BY <1>1, <1>3 DEF Opening, HasOpening
<1>5. /\ Len(bars) \in Nat /\ DOMAIN bars = 1..Len(bars) /\ Len(bars) = f + book.levels.bar_count - 1
      /\ longer[K] = bar /\ \A k \in DOMAIN bars : longer[k] = bars[k]
  <2>1. IsSequence(bars)
    BY DEF IsTape
  <2>2. Len(bars) \in Nat /\ DOMAIN bars = 1..Len(bars) /\ Len(bars) = f + book.levels.bar_count - 1
    BY <2>1, NextOfTheDay, SequenceFacts
  <2>3. longer[K] = bar /\ \A k \in DOMAIN bars : longer[k] = bars[k]
    BY <2>1, AppendFacts
  <2> QED
    BY <2>2, <2>3
<1>6. OfDay(longer, d) = OfDay(bars, d) \cup {K} /\ \A k \in OfDay(bars, d) : k \in DOMAIN bars /\ k < K
  BY <1>5, DayOfALongerTape DEF OfDay, IsTape
<1>7. bar.high \in Int /\ bar.low \in Int
  BY DEF IsShape
<1>8. BeforeTheBell(bar, view) <=> bar.ts < Days[d].close
  BY <1>2 DEF BeforeTheBell
<1> HIDE DEF l, longer, K
<1>9. K > f + w - 1
  <2>1. book.levels.bar_count \in Nat
    BY DEF BookReads
  <2> HIDE DEF w
  <2> QED
    BY <1>3, <1>5, <2>1 DEF K
<1>10. \A k \in before : k \in DOMAIN bars /\ longer[k] = bars[k] /\ k < K /\ k \in after
  BY <1>5, <1>6 DEF Left
<1>11. \A k \in after \ before : k = K /\ bar.ts < Days[d].close /\ Leaves(range, bar)
  BY <1>5, <1>6 DEF Left
<1>12. bar.ts < Days[d].close /\ Leaves(range, bar) => K \in after
  BY <1>5, <1>6, <1>9 DEF Left
<1>13. IF x.day = Days[d].day THEN IsTheTip(x.extreme, Opposite(x.side), bars, before, range) ELSE before = {}
  BY <1>2 DEF MemoReads
<1>14. x.day = 0 \/ \E e \in DOMAIN Days : e <= d /\ x.day = Days[e].day
  BY DEF MemoReads
<1>15. Days[d].day # 0
  BY DayFields
<1> HIDE DEF before, after
(* Nothing new left the range. *)
<1>16. ASSUME ~(bar.ts < Days[d].close /\ Leaves(range, bar))
       PROVE  IF x.day = Days[d].day THEN IsTheTip(x.extreme, Opposite(x.side), longer, after, range) ELSE after = {}
  <2>1. after = before
    BY <1>10, <1>11, <1>16
  <2>2. CASE x.day = Days[d].day
    <3>1. IsTheTip(x.extreme, Opposite(x.side), bars, before, range)
      BY <1>13, <2>2
    <3>2. IsTheTip(x.extreme, Opposite(x.side), longer, after, range)
      BY <1>10, <2>1, <3>1, TipStays
    <3> QED
      BY <2>2, <3>2
  <2> QED
    BY <1>13, <2>1, <2>2
<1> DEFINE Reads ==
             /\ y.day = 0 \/ \E e \in DOMAIN Days : e <= d /\ y.day = Days[e].day
             /\ IF y.day = Days[d].day THEN IsTheTip(y.extreme, Opposite(y.side), longer, after, range) ELSE after = {}
<1>17. ASSUME ~(bar.ts < Days[d].close) PROVE Reads
  <2>1. y = x
    BY <1>8, <1>17 DEF Remembers
  <2> HIDE DEF y, x, range
  <2>2. Reads
    BY <1>14, <1>16, <1>17, <2>1
  <2> QED
    BY <2>2
<1>18. ASSUME bar.ts < Days[d].close, ~Leaves(range, bar) PROVE Reads
  <2>1. y = Recorded(bar, range, HeldToday(x, l), l.day)
    BY <1>4, <1>8, <1>18 DEF Remembers, l
  <2>2. y = HeldToday(x, l)
    BY <1>3, <1>7, <1>18, <2>1, RecordedFacts, LeavesOneWay
  <2>3. y = IF x.day = Days[d].day THEN x ELSE NoExcursion
    BY <1>2, <2>2 DEF HeldToday, l
  <2> HIDE DEF y, range
  <2>4. NoExcursion.day = 0
    BY DEF NoExcursion
  <2>5. Reads
    <3>1. CASE x.day = Days[d].day
      BY <1>14, <1>16, <1>18, <2>3, <3>1
    <3>2. CASE x.day # Days[d].day
      BY <1>15, <1>16, <1>18, <2>3, <2>4, <3>2
    <3> QED
      BY <3>1, <3>2
  <2> QED
    BY <2>5
<1>19. ASSUME bar.ts < Days[d].close, Leaves(range, bar) PROVE Reads
  <2> DEFINE held == HeldToday(x, l)
             way == Way(range, bar)
             tip == Tip(range, bar)
  <2>1. y = Recorded(bar, range, held, l.day)
    BY <1>4, <1>8, <1>19 DEF Remembers, l
  <2>2. y = [day |-> l.day, side |-> way, extreme |-> Extended(held, way, tip)]
    BY <1>3, <1>7, <1>19, <2>1, RecordedFacts, LeavesOneWay
  <2>3. y.day = Days[d].day /\ y.side = way /\ y.extreme = Extended(held, way, tip)
    BY <1>2, <2>2 DEF l
  <2>4. /\ way \in Sides /\ FadedBy(range, bar) = Opposite(way) /\ Opposite(way) \in Sides
        /\ \A p : Beyond(Opposite(way), p, tip) <=> Beyond(way, tip, p)
    <3>1. tip \in Int
      BY <1>7 DEF Tip
    <3>2. CASE BreaksUp(range, bar.high)
      BY <3>2 DEF Way, FadedBy, Opposite, Sides, Beyond
    <3>3. CASE ~BreaksUp(range, bar.high)
      BY <3>3 DEF Way, FadedBy, Opposite, Sides, Beyond
    <3> QED
      BY <3>2, <3>3
  <2>5. K \in after /\ longer[K] = bar
    BY <1>5, <1>12, <1>19 DEF longer, K
  <2> HIDE DEF y, way, tip, held
  <2>6. IsTheTip(y.extreme, Opposite(way), longer, after, range)
    <3>1. CASE held.side = way /\ ~Beyond(way, tip, held.extreme)
      <4>1. y.extreme = held.extreme
        BY <2>3, <3>1 DEF Extended
      <4>2. held = x /\ x.day = Days[d].day
        <5>1. held # NoExcursion
          BY <2>4, <3>1 DEF NoExcursion, Sides
        <5> QED
          BY <1>2, <5>1 DEF held, HeldToday, l
      <4>3. IsTheTip(x.extreme, Opposite(way), bars, before, range)
        BY <1>13, <3>1, <4>2
      <4>4. ASSUME NEW k \in after \ before
            PROVE  FadedBy(range, longer[k]) = Opposite(way) /\ ~Beyond(Opposite(way), x.extreme, Tip(range, longer[k]))
        <5>1. k = K /\ longer[k] = bar
          BY <1>11, <2>5
        <5> QED
          BY <2>4, <3>1, <4>2, <5>1 DEF tip
      <4>5. IsTheTip(x.extreme, Opposite(way), longer, after, range)
        BY <1>10, <4>3, <4>4, TipStays
      <4> QED
        BY <4>1, <4>2, <4>5
    <3>2. CASE ~(held.side = way /\ ~Beyond(way, tip, held.extreme))
      <4>1. y.extreme = tip
        BY <2>3, <3>2 DEF Extended
      <4>2. \A m \in after : ~(m > K)
        <5>1. K \in Int /\ \A m \in before : m \in Int
          BY <1>5, <1>10 DEF K
        <5> QED
          BY <1>10, <1>11, <5>1
      <4>3. IsTheTip(tip, Opposite(way), longer, after, range)
        BY <2>4, <2>5, <4>2, TipIsNew DEF tip
      <4> QED
        BY <4>1, <4>3
    <3> QED
      BY <3>1, <3>2
  <2>7. \E e \in DOMAIN Days : e <= d /\ y.day = Days[e].day
    BY <2>3, DayFields
  <2> HIDE DEF range
  <2>8. Reads
    BY <2>3, <2>6, <2>7
  <2> QED
    BY <2>8 DEF y
<1>20. Reads
  BY <1>17, <1>18, <1>19
<1> HIDE DEF y, range
<1>21. MemoReads(y, l, longer, d, f)
  <2>1. after = Left(longer, d, f, Opening(l))
    BY <1>4 DEF after
  <2> QED
    BY <1>2, <1>4, <1>20, <2>1 DEF MemoReads, l
<1> QED
  BY <1>21 DEF l, longer, y
-----------------------------------------------------------------------------
(* A book is new until its first bar of a session, and then reads the one  *)
(* it printed in last; so does what the fade remembers of the symbol.      *)
Untouched(book, bars) == book = NewBook /\ \A e \in DOMAIN Days : OfDay(bars, e) = {}
Reading(book, bars) ==
  Untouched(book, bars) \/ \E d \in DOMAIN Days, f \in Nat \ {0} : BookReads(book, bars, d, f)
Remembering(x, book, bars) ==
  \/ Untouched(book, bars) /\ x.day = 0
  \/ \E d \in DOMAIN Days, f \in Nat \ {0} : BookReads(book, bars, d, f) /\ MemoReads(x, book.levels, bars, d, f)

(* A bar that a strategy is shown: what the context says of it. *)
IsViewOf(view, bar, book) == view.levels = book.levels /\ view.phase = MarketPhase(bar.ts)

LEMMA NoSessionHoldsIt ==
  ASSUME NEW ts, SessionFor(ts) = NoSession
  PROVE  \A d \in DOMAIN Days : ~HeldBetween(Days[d], ts)
BY DayFields DEF SessionFor

LEMMA StrayMemo ==
  ASSUME NEW book, NEW bars, IsSequence(bars), NEW bar, SessionFor(bar.ts) = NoSession,
         NEW d \in DOMAIN Days, NEW f \in Nat \ {0}, NEW x, MemoReads(x, book.levels, bars, d, f)
  PROVE  MemoReads(x, book.levels, Append(bars, bar), d, f)
<1> DEFINE longer == Append(bars, bar)
           range == Opening(book.levels)
           before == Left(bars, d, f, range)
           after == Left(longer, d, f, range)
<1>1. OfDay(longer, d) = OfDay(bars, d) /\ \A k \in OfDay(bars, d) : k \in DOMAIN bars
  BY NoSessionHoldsIt, DayOfALongerTape DEF OfDay
<1>2. \A k \in DOMAIN bars : longer[k] = bars[k]
  BY AppendFacts
<1> HIDE DEF longer, range
<1>3. \A k \in before : longer[k] = bars[k] /\ k \in after
  BY <1>1, <1>2 DEF Left
<1>4. \A k \in after : k \in before
  BY <1>1, <1>2 DEF Left
<1> HIDE DEF before, after
<1>5. after = before
  BY <1>3, <1>4
<1>6. ASSUME IsTheTip(x.extreme, Opposite(x.side), bars, before, range)
      PROVE  IsTheTip(x.extreme, Opposite(x.side), longer, after, range)
  BY <1>3, <1>4, <1>6, TipStays
<1>7. HasOpening(book.levels) =>
        IF x.day = book.levels.day THEN IsTheTip(x.extreme, Opposite(x.side), longer, after, range) ELSE after = {}
  BY <1>5, <1>6 DEF MemoReads, before, range
<1>8. MemoReads(x, book.levels, longer, d, f)
  BY <1>7 DEF MemoReads, after, range
<1> QED
  BY <1>8 DEF longer

LEMMA StrayStep ==
  ASSUME NEW book, NEW bars, IsSequence(bars), NEW bar, SessionFor(bar.ts) = NoSession,
         NEW view, NEW memo, IsViewOf(view, bar, book)
  PROVE  /\ Update(book, bar, SessionFor(bar.ts)) = book
         /\ Remembers(bar, view, memo) = memo.excursion
         /\ Reading(book, bars) => Reading(book, Append(bars, bar))
         /\ Remembering(memo.excursion, book, bars) => Remembering(memo.excursion, book, Append(bars, bar))
<1> DEFINE longer == Append(bars, bar)
           x == memo.excursion
<1>1. Update(book, bar, SessionFor(bar.ts)) = book
  BY DEF Update, NoSession
<1>2. Remembers(bar, view, memo) = x
  BY DEF Remembers, BeforeTheBell, IsViewOf, MarketPhase
<1>3. \A e \in DOMAIN Days : ~HeldBetween(Days[e], bar.ts)
  BY NoSessionHoldsIt
<1>4. Untouched(book, bars) => Untouched(book, longer)
  BY <1>3, DayOfALongerTape DEF Untouched
<1>5. ASSUME NEW d \in DOMAIN Days, NEW f \in Nat \ {0}, BookReads(book, bars, d, f)
      PROVE  BookReads(book, longer, d, f)
  BY <1>3, <1>5, StrayReads
<1>6. ASSUME NEW d \in DOMAIN Days, NEW f \in Nat \ {0}, MemoReads(x, book.levels, bars, d, f)
      PROVE  MemoReads(x, book.levels, longer, d, f)
  BY <1>6, StrayMemo
<1> HIDE DEF longer, x
<1>7. Reading(book, bars) => Reading(book, longer)
  BY <1>4, <1>5 DEF Reading
<1>8. Remembering(x, book, bars) => Remembering(x, book, longer)
  BY <1>4, <1>5, <1>6 DEF Remembering
<1> QED
  BY <1>1, <1>2, <1>7, <1>8 DEF longer, x
-----------------------------------------------------------------------------
(* The first bar of a later session, whatever the book read before. *)
LEMMA FirstStep ==
  ASSUME NEW book, DOMAIN book = BookFields, NEW bars, NEW until \in Nat, IsTape(bars, until),
         NEW bar, IsShape(bar), bar.ts \in Nat, until < bar.ts,
         NEW d \in DOMAIN Days, book.session # Days[d].open, HeldBetween(Days[d], bar.ts),
         OfDay(bars, d) = {}, \A e \in DOMAIN Days : OfDay(bars, e) # {} => e <= d
  PROVE  /\ BookReads(Update(book, bar, Days[d]), Append(bars, bar), d, Len(bars) + 1)
         /\ \A view, memo :
              /\ IsViewOf(view, bar, Update(book, bar, Days[d]))
              /\ memo.excursion.day # Days[d].day
              /\ memo.excursion.day = 0 \/ \E e \in DOMAIN Days : e <= d /\ memo.excursion.day = Days[e].day
              => MemoReads(Remembers(bar, view, memo), Update(book, bar, Days[d]).levels,
                           Append(bars, bar), d, Len(bars) + 1)
<1> DEFINE after == Update(book, bar, Days[d])
           longer == Append(bars, bar)
           f == Len(bars) + 1
<1>0. IsSequence(bars)
  BY DEF IsTape
<1>1. BookReads(after, longer, d, f) /\ after.levels.bar_count = 1
  BY <1>0, FirstOfADayReads
<1>2. IsTape(longer, bar.ts)
  BY LongerTape
<1>3. Len(bars) \in Nat /\ f \in Nat \ {0} /\ Len(longer) = f /\ longer[Len(longer)] = bar
  BY <1>0, SequenceFacts, AppendFacts
<1> HIDE DEF after, longer, f
<1>4. Len(longer) = f + after.levels.bar_count - 1
  BY <1>1, <1>3
<1>5. HasOpening(after.levels) => Rules.opening_minutes = after.levels.bar_count
  <2> SUFFICES ASSUME HasOpening(after.levels) PROVE Rules.opening_minutes = after.levels.bar_count
    OBVIOUS
  <2>1. Rules.opening_minutes \in Nat \ {0} /\ Rules.opening_minutes <= after.levels.bar_count
    BY <1>1, <1>2, <1>3, OpeningFacts
  <2> QED
    BY <1>1, <2>1
<1>6. ASSUME NEW view, NEW memo, IsViewOf(view, bar, after), memo.excursion.day # Days[d].day,
             memo.excursion.day = 0 \/ \E e \in DOMAIN Days : e <= d /\ memo.excursion.day = Days[e].day
      PROVE  MemoReads(Remembers(bar, view, memo), after.levels, longer, d, f)
  <2>1. view.levels = after.levels /\ bar = longer[Len(longer)]
    BY <1>3, <1>6 DEF IsViewOf
  <2> QED
    BY <1>1, <1>2, <1>3, <1>4, <1>5, <1>6, <2>1, UnopenedReads
<1> QED
  BY <1>1, <1>6 DEF after, longer, f

(* The next bar of the session the book reads. *)
LEMMA NextStep ==
  ASSUME NEW book, NEW bars, NEW until \in Nat, IsTape(bars, until),
         NEW bar, IsShape(bar), bar.ts \in Nat, until < bar.ts,
         NEW d \in DOMAIN Days, NEW f \in Nat \ {0}, BookReads(book, bars, d, f), HeldBetween(Days[d], bar.ts)
  PROVE  /\ BookReads(Update(book, bar, Days[d]), Append(bars, bar), d, f)
         /\ \A view, memo :
              /\ IsViewOf(view, bar, Update(book, bar, Days[d])) /\ view.phase = "REGULAR"
              /\ MemoReads(memo.excursion, book.levels, bars, d, f)
              => MemoReads(Remembers(bar, view, memo), Update(book, bar, Days[d]).levels,
                           Append(bars, bar), d, f)
<1> DEFINE after == Update(book, bar, Days[d])
           longer == Append(bars, bar)
           n == book.levels.bar_count
           w == Rules.opening_minutes
<1>0. IsSequence(bars) /\ n \in Nat \ {0}
  BY DEF IsTape, BookReads
<1>1. /\ BookReads(after, longer, d, f) /\ after.levels.bar_count = n + 1
      /\ \A v \in DOMAIN book.levels.ranges :
           v \in DOMAIN after.levels.ranges /\ after.levels.ranges[v] = book.levels.ranges[v]
  <2>1. BookReads(after, longer, d, f) /\ after.levels.bar_count = n + 1
    BY SameDayReads
  <2>2. ASSUME NEW v \in DOMAIN book.levels.ranges
        PROVE  v \in DOMAIN after.levels.ranges /\ after.levels.ranges[v] = book.levels.ranges[v]
    BY SameDayReads
  <2> HIDE DEF after, longer, n
  <2> QED
    BY <2>1, <2>2
<1>2. IsTape(longer, bar.ts)
  BY LongerTape
<1>3. /\ Len(bars) \in Nat /\ Len(longer) = Len(bars) + 1 /\ longer[Len(longer)] = bar
      /\ Len(bars) = f + n - 1
  <2>1. Len(bars) = f + n - 1
    BY NextOfTheDay
  <2>2. Len(bars) \in Nat /\ Len(longer) = Len(bars) + 1 /\ longer[Len(bars) + 1] = bar
    BY <1>0, SequenceFacts, AppendFacts
  <2> QED
    BY <2>1, <2>2
<1>4. ASSUME NEW view, NEW memo, IsViewOf(view, bar, after), view.phase = "REGULAR",
             MemoReads(memo.excursion, book.levels, bars, d, f)
      PROVE  MemoReads(Remembers(bar, view, memo), after.levels, longer, d, f)
  <2>0. view.levels = after.levels
    BY <1>4 DEF IsViewOf
  <2>1. CASE HasOpening(book.levels)
    <3>1. MemoReads(Remembers(bar, view, memo), view.levels, longer, d, f)
      BY <1>4, <2>0, <2>1, OpenedReads
    <3> QED
      BY <2>0, <3>1
  <2>2. CASE ~HasOpening(book.levels)
    <3>1. /\ memo.excursion.day # Days[d].day
          /\ memo.excursion.day = 0 \/ \E e \in DOMAIN Days : e <= d /\ memo.excursion.day = Days[e].day
      BY <1>4, <2>2 DEF MemoReads, BookReads
    <3> HIDE DEF after, longer
    <3>2. HasOpening(after.levels) => w = after.levels.bar_count
      <4> SUFFICES ASSUME HasOpening(after.levels) PROVE w = after.levels.bar_count
        OBVIOUS
      <4>1. w \in DOMAIN after.levels.ranges /\ w \in Nat \ {0} /\ w <= n + 1
        BY <1>1, <1>2, OpeningFacts
      <4>2. w \in OpeningWindows
        BY <1>1, <4>1 DEF BookReads
      <4>3. w \notin DOMAIN book.levels.ranges
        <5> SUFFICES ASSUME w \in DOMAIN book.levels.ranges PROVE FALSE
          OBVIOUS
        <5>1. Opening(book.levels) = Opening(after.levels)
          BY <1>1, <4>1 DEF Opening
        <5> QED
          BY <2>2, <5>1 DEF HasOpening
      <4>4. ~(w <= n)
        BY <4>2, <4>3 DEF BookReads
      <4> HIDE DEF w, n
      <4> QED
        BY <1>0, <1>1, <4>1, <4>4
    <3>3. Len(longer) = f + after.levels.bar_count - 1 /\ bar = longer[Len(longer)]
      BY <1>0, <1>1, <1>3
    <3> QED
      BY <1>1, <1>2, <2>0, <3>1, <3>2, <3>3, UnopenedReads
  <2> QED
    BY <2>1, <2>2
<1> QED
  BY <1>1, <1>4
-----------------------------------------------------------------------------
Knows(x, book, bars, y, after, longer) ==
  /\ Reading(after, longer)
  /\ Remembering(x, book, bars) => Remembering(y, after, longer)

(* A bar of a session, the first or not, the book having read none, the    *)
(* same or an earlier one.                                                 *)
LEMMA HeldStep ==
  ASSUME NEW book, DOMAIN book = BookFields, NEW bars, NEW until \in Nat, IsTape(bars, until),
         NEW bar, IsShape(bar), bar.ts \in Nat, until < bar.ts,
         NEW d \in DOMAIN Days, SessionFor(bar.ts) = Days[d], HeldBetween(Days[d], bar.ts), Reading(book, bars),
         NEW view, NEW memo, IsViewOf(view, bar, Update(book, bar, Days[d]))
  PROVE  Knows(memo.excursion, book, bars,
               Remembers(bar, view, memo), Update(book, bar, Days[d]), Append(bars, bar))
<1> DEFINE after == Update(book, bar, Days[d])
           longer == Append(bars, bar)
           x == memo.excursion
           y == Remembers(bar, view, memo)
<1>1. view.phase = "REGULAR"
  BY DayFields DEF IsViewOf, MarketPhase
<1>2. Len(bars) \in Nat /\ DOMAIN bars = 1..Len(bars)
  BY SequenceFacts DEF IsTape
<1>3. Days[d].open \in Nat /\ Days[d].day # 0
  BY DayFields
<1>4. CASE Untouched(book, bars)
  <2>1. book.session # Days[d].open
    BY <1>3, <1>4 DEF Untouched, NewBook
  <2>2. OfDay(bars, d) = {} /\ \A e \in DOMAIN Days : OfDay(bars, e) # {} => e <= d
    BY <1>4 DEF Untouched
  <2>3. /\ BookReads(after, longer, d, Len(bars) + 1)
        /\ x.day = 0 => MemoReads(y, after.levels, longer, d, Len(bars) + 1)
    BY <1>3, <2>1, <2>2, FirstStep
  <2>4. Len(bars) + 1 \in Nat \ {0}
    BY <1>2
  <2> HIDE DEF after, longer, x, y
  <2>5. Reading(after, longer)
    BY <2>3, <2>4 DEF Reading
  <2>6. Remembering(x, book, bars) => x.day = 0
    <3>1. \A e \in DOMAIN Days, f \in Nat \ {0} : ~BookReads(book, bars, e, f)
      <4>1. book.levels = NoLevels
        BY <1>4 DEF Untouched, NewBook
      <4>2. DOMAIN NoLevels = {"day"} /\ "open" \in LevelFields
        BY DEF NoLevels, LevelFields
      <4> QED
        BY <4>1, <4>2 DEF BookReads
    <3> QED
      BY <3>1 DEF Remembering
  <2>7. Remembering(x, book, bars) => Remembering(y, after, longer)
    BY <2>3, <2>4, <2>6 DEF Remembering
  <2> QED
    BY <2>5, <2>7 DEF Knows, after, longer, x, y
<1>5. ASSUME NEW c \in DOMAIN Days, NEW f \in Nat \ {0}, BookReads(book, bars, c, f)
      PROVE  /\ c <= d /\ (book.session = Days[d].open => c = d)
             /\ book.session # Days[d].open =>
                  /\ c < d /\ OfDay(bars, d) = {} /\ \A e \in DOMAIN Days : OfDay(bars, e) # {} => e <= d
  <2>1. f \in OfDay(bars, c)
    BY <1>5 DEF BookReads
  <2>2. f \in DOMAIN bars /\ HeldBetween(Days[c], bars[f].ts) /\ bars[f].ts \in Nat /\ bars[f].ts <= bar.ts
    BY <2>1 DEF OfDay, IsTape
  <2>3. c <= d /\ (Days[c].open = Days[d].open => c = d)
    BY <2>2, LaterMinuteLaterDay
  <2>4. book.session = Days[c].open /\ \A e \in DOMAIN Days : OfDay(bars, e) # {} => e <= c
    BY <1>5 DEF BookReads
  <2>5. c \in Nat /\ d \in Nat /\ \A e \in DOMAIN Days : e \in Nat
    BY DayFields
  <2>6. CASE book.session = Days[d].open
    BY <2>3, <2>4, <2>6
  <2>7. CASE book.session # Days[d].open
    <3>1. c < d
      BY <2>3, <2>4, <2>5, <2>7
    <3>2. ~(d <= c)
      BY <2>5, <3>1
    <3>3. OfDay(bars, d) = {}
      BY <2>4, <3>2
    <3>4. \A e \in DOMAIN Days : OfDay(bars, e) # {} => e <= d
      BY <2>4, <2>5, <3>1
    <3> QED
      BY <2>3, <2>7, <3>1, <3>3, <3>4
  <2> QED
    BY <2>6, <2>7
<1>6. ASSUME NEW c \in DOMAIN Days, NEW f \in Nat \ {0}, BookReads(book, bars, c, f)
      PROVE  \E g \in Nat \ {0} :
               /\ BookReads(after, longer, d, g)
               /\ MemoReads(x, book.levels, bars, c, f) => MemoReads(y, after.levels, longer, d, g)
  <2>1. CASE book.session = Days[d].open
    <3>1. c = d
      BY <1>5, <1>6, <2>1
    <3>2. BookReads(book, bars, d, f)
      BY <1>6, <3>1
    <3>3. /\ BookReads(after, longer, d, f)
          /\ MemoReads(x, book.levels, bars, d, f) => MemoReads(y, after.levels, longer, d, f)
      BY <1>1, <3>2, NextStep
    <3> QED
      BY <3>1, <3>3
  <2>2. CASE book.session # Days[d].open
    <3>1. c < d /\ OfDay(bars, d) = {} /\ \A e \in DOMAIN Days : OfDay(bars, e) # {} => e <= d
      BY <1>5, <1>6, <2>2
    <3>2. MemoReads(x, book.levels, bars, c, f) =>
            /\ x.day # Days[d].day
            /\ x.day = 0 \/ \E e \in DOMAIN Days : e <= d /\ x.day = Days[e].day
      <4> SUFFICES ASSUME MemoReads(x, book.levels, bars, c, f)
                   PROVE  /\ x.day # Days[d].day
                          /\ x.day = 0 \/ \E e \in DOMAIN Days : e <= d /\ x.day = Days[e].day
        OBVIOUS
      <4>1. x.day = 0 \/ \E e \in DOMAIN Days : e <= c /\ x.day = Days[e].day
        BY DEF MemoReads
      <4>2. CASE x.day = 0
        BY <1>3, <4>2
      <4>3. CASE x.day # 0
        <5>1. PICK e \in DOMAIN Days : e <= c /\ x.day = Days[e].day
          BY <4>1, <4>3
        <5>2. e < d /\ e <= d
          BY <3>1, <5>1, DayFields
        <5>3. Days[e].day # Days[d].day
          BY <5>2, DaysAssumption
        <5> QED
          BY <5>1, <5>2, <5>3
      <4> QED
        BY <4>2, <4>3
    <3>3. /\ BookReads(after, longer, d, Len(bars) + 1)
          /\ /\ x.day # Days[d].day
             /\ x.day = 0 \/ \E e \in DOMAIN Days : e <= d /\ x.day = Days[e].day
             => MemoReads(y, after.levels, longer, d, Len(bars) + 1)
      BY <2>2, <3>1, FirstStep
    <3>4. Len(bars) + 1 \in Nat \ {0}
      BY <1>2
    <3> QED
      BY <3>2, <3>3, <3>4
  <2> QED
    BY <2>1, <2>2
<1>7. CASE ~Untouched(book, bars)
  <2> HIDE DEF after, longer, x, y
  <2>1. Reading(after, longer)
    BY <1>6, <1>7 DEF Reading
  <2>2. Remembering(x, book, bars) => Remembering(y, after, longer)
    <3> SUFFICES ASSUME Remembering(x, book, bars) PROVE Remembering(y, after, longer)
      OBVIOUS
    <3>1. PICK c \in DOMAIN Days, f \in Nat \ {0} : BookReads(book, bars, c, f) /\ MemoReads(x, book.levels, bars, c, f)
      BY <1>7 DEF Remembering
    <3> QED
      BY <1>6, <3>1 DEF Remembering
  <2> QED
    BY <2>1, <2>2 DEF Knows, after, longer, x, y
<1> QED
  BY <1>4, <1>7

LEMMA BarStep ==
  ASSUME NEW book, DOMAIN book = BookFields, NEW bars, NEW until \in Nat, IsTape(bars, until),
         NEW bar, IsShape(bar), bar.ts \in Nat, until < bar.ts, Reading(book, bars),
         NEW view, NEW memo, IsViewOf(view, bar, Update(book, bar, SessionFor(bar.ts)))
  PROVE  Knows(memo.excursion, book, bars,
               Remembers(bar, view, memo), Update(book, bar, SessionFor(bar.ts)), Append(bars, bar))
<1>1. CASE SessionFor(bar.ts) = NoSession
  <2>1. IsSequence(bars) /\ Update(book, bar, SessionFor(bar.ts)) = book
    BY <1>1 DEF IsTape, Update, NoSession
  <2> QED
    BY <1>1, <2>1, StrayStep DEF Knows
<1>2. CASE SessionFor(bar.ts) # NoSession
  <2>1. PICK d \in DOMAIN Days : SessionFor(bar.ts) = Days[d] /\ HeldBetween(Days[d], bar.ts)
    BY <1>2, SessionOfADay DEF HeldBetween
  <2> QED
    BY <2>1, HeldStep
<1> QED
  BY <1>1, <1>2
-----------------------------------------------------------------------------
(* A fade: its stop is the tip of what left the range of its own session.  *)
LEMMA RememberedIsOfToday ==
  ASSUME NEW bar, NEW view, NEW memo, HasOpening(view.levels), BeforeTheBell(bar, view),
         Remembers(bar, view, memo) # NoExcursion
  PROVE  Remembers(bar, view, memo).day = view.levels.day
<1> DEFINE l == view.levels
           x == HeldToday(memo.excursion, l)
<1>1. Remembers(bar, view, memo) = Recorded(bar, Opening(l), x, l.day)
  BY DEF Remembers
<1>2. x = NoExcursion \/ x.day = l.day
  BY DEF HeldToday
<1> HIDE DEF x
<1>3. \/ Recorded(bar, Opening(l), x, l.day) = x
      \/ Recorded(bar, Opening(l), x, l.day).day = l.day
  BY DEF Recorded
<1> QED
  BY <1>1, <1>2, <1>3

LEMMA DayIsItsOwn ==
  ASSUME NEW d \in DOMAIN Days
  PROVE  (CHOOSE e \in DOMAIN Days : Days[e].day = Days[d].day) = d
<1> DEFINE c == CHOOSE e \in DOMAIN Days : Days[e].day = Days[d].day
<1>1. c \in DOMAIN Days /\ Days[c].day = Days[d].day
  OBVIOUS
<1> HIDE DEF c
<1>2. c = d
  BY <1>1, DayFields, DaysAssumption
<1> QED
  BY <1>2 DEF c

LEMMA FirstOfAnInterval ==
  ASSUME NEW f \in Nat, NEW n \in Nat \ {0}
  PROVE  Min(f .. f + n - 1) = f
<1>1. f .. f + n - 1 \in SUBSET Nat /\ f \in f .. f + n - 1
  OBVIOUS
<1>2. Min(f .. f + n - 1) \in f .. f + n - 1 /\ \A k \in f .. f + n - 1 : Min(f .. f + n - 1) <= k
  BY <1>1, LeastExists
<1> QED
  BY <1>1, <1>2

LEMMA FadeStep ==
  ASSUME NEW book, NEW bars, NEW bar, IsShape(bar), bar.ts \in Nat, IsTape(bars, bar.ts),
         NEW view, NEW memo, IsViewOf(view, bar, book), Remembering(Remembers(bar, view, memo), book, bars),
         NEW t, Fades(t, bar, view, memo)
  PROVE  FadeIsOfToday(t, bars) /\ Backed(t)
<1> DEFINE y == Remembers(bar, view, memo)
           l == book.levels
           w == Rules.opening_minutes
<1>1. view.levels = l /\ BeforeTheBell(bar, view) /\ HasOpening(l) /\ y # NoExcursion /\ l # NoLevels
  BY DEF Fades, IsViewOf, BeforeTheBell
<1>2. y.day = l.day
  BY <1>1, RememberedIsOfToday
<1>3. /\ ~BreaksUp(Opening(l), bar.close) /\ ~BreaksDown(Opening(l), bar.close)
      /\ t.day = l.day /\ t.ts = bar.ts /\ t.entry = bar.close
      /\ t.side = Opposite(y.side) /\ t.invalidation = y.extreme
      /\ t.target_r[1] > 0 /\ t.target_r[2] > 0
  BY <1>1 DEF Fades
<1>4. Remembering(y, book, bars)
  OBVIOUS
<1>5. bar.ts < l.close_at
  BY <1>1 DEF BeforeTheBell
<1> HIDE DEF y
<1>6. PICK d \in DOMAIN Days, f \in Nat \ {0} : BookReads(book, bars, d, f) /\ MemoReads(y, l, bars, d, f)
  BY <1>1, <1>4 DEF Remembering, Untouched, NewBook
<1> DEFINE range == Opening(l)
           left == Left(bars, d, f, range)
           n == l.bar_count
<1>7. IsTheTip(t.invalidation, t.side, bars, left, range)
  BY <1>1, <1>2, <1>3, <1>6 DEF MemoReads
<1>8. /\ w \in Nat \ {0} /\ w <= n /\ range = RangeFrom(bars, f, w)
      /\ range.high \in Int /\ range.low \in Int
  BY <1>1, <1>6, OpeningFacts
<1>9. /\ l.day = Days[d].day /\ l.close_at = Days[d].close /\ OfDay(bars, d) = f .. f + n - 1 /\ n \in Nat \ {0}
  BY <1>6 DEF BookReads
<1>10. \A k \in OfDay(bars, d) : k \in DOMAIN bars /\ bars[k].ts <= bar.ts /\ bars[k].ts < Days[d].close
  <2>1. ASSUME NEW k \in OfDay(bars, d)
        PROVE  k \in DOMAIN bars /\ bars[k].ts <= bar.ts /\ bars[k].ts < Days[d].close
    <3>1. k \in DOMAIN bars /\ bars[k].ts \in Nat /\ bars[k].ts <= bar.ts
      BY DEF OfDay, IsTape
    <3> QED
      BY <1>5, <1>9, <3>1, DayFields
  <2> QED
    BY <2>1
<1>11. FadeIsOfToday(t, bars)
  <2> DEFINE c == CHOOSE e \in DOMAIN Days : Days[e].day = t.day
             today == {k \in DOMAIN bars : HeldBetween(Days[c], bars[k].ts) /\ bars[k].ts <= t.ts}
             window == Min(today) .. Min(today) + w - 1
             cut == [high |-> Max({bars[k].high : k \in window}), low |-> Min({bars[k].low : k \in window})]
             out == {k \in today \ window : Leaves(cut, bars[k])}
  <2>1. c = d
    BY <1>3, <1>9, DayIsItsOwn
  <2> HIDE DEF c
  <2>2. today = f .. f + n - 1
    <3>1. today = OfDay(bars, d)
      BY <1>3, <1>10, <2>1 DEF OfDay
    <3> QED
      BY <1>9, <3>1
  <2> HIDE DEF today
  <2>3. window = f .. f + w - 1
    BY <1>9, <2>2, FirstOfAnInterval
  <2> HIDE DEF window
  <2>4. cut = range
    BY <1>8, <2>3 DEF RangeFrom
  <2> HIDE DEF cut, range
  <2>5. \A k \in Int : (k \in f .. f + n - 1 /\ k \notin f .. f + w - 1) <=> (k \in f .. f + n - 1 /\ k > f + w - 1)
    BY <1>8, <1>9
  <2>6. out = left
    <3>1. ASSUME NEW k \in out PROVE k \in left
      BY <1>9, <1>10, <2>2, <2>3, <2>4, <2>5 DEF Left
    <3>2. ASSUME NEW k \in left PROVE k \in out
      BY <1>9, <1>10, <2>2, <2>3, <2>4, <2>5 DEF Left
    <3> QED
      BY <3>1, <3>2
  <2> HIDE DEF out, left
  <2>7. window \subseteq today
    BY <1>8, <1>9, <2>2, <2>3
  <2>8. IsTheTip(t.invalidation, t.side, bars, out, cut)
    BY <1>7, <2>4, <2>6
  <2> HIDE DEF w
  <2> QED
    BY <2>7, <2>8 DEF FadeIsOfToday, out, cut, window, today, c, w
<1>12. Beyond(t.side, t.entry, t.invalidation)
  <2>1. PICK k \in left : FadedBy(range, bars[k]) = t.side /\ Tip(range, bars[k]) = t.invalidation
    BY <1>7 DEF IsTheTip
  <2>2. Leaves(range, bars[k]) /\ bars[k].high \in Int /\ bars[k].low \in Int
    BY DEF Left, OfDay, IsTape, IsShape
  <2>3. bar.close \in Int
    BY DEF IsShape
  <2> HIDE DEF range, left
  <2>4. \/ BreaksUp(range, bars[k].high) /\ ~BreaksDown(range, bars[k].low)
        \/ ~BreaksUp(range, bars[k].high) /\ BreaksDown(range, bars[k].low)
    BY <1>8, <2>2, LeavesOneWay
  <2>5. ~BreaksUp(range, bar.close) /\ ~BreaksDown(range, bar.close) /\ t.entry = bar.close
    BY <1>3 DEF range
  <2>6. CASE BreaksUp(range, bars[k].high)
    <3>1. t.side = "SELL" /\ t.invalidation = bars[k].high
      BY <2>1, <2>6 DEF FadedBy, Tip
    <3>2. bar.close < bars[k].high
      BY <1>8, <2>2, <2>3, <2>5, <2>6 DEF BreaksUp
    <3> QED
      BY <2>5, <3>1, <3>2 DEF Beyond
  <2>7. CASE ~BreaksUp(range, bars[k].high) /\ BreaksDown(range, bars[k].low)
    <3>1. t.side = "BUY" /\ t.invalidation = bars[k].low
      BY <2>1, <2>7 DEF FadedBy, Tip
    <3>2. bar.close > bars[k].low
      BY <1>8, <2>2, <2>3, <2>5, <2>7 DEF BreaksDown
    <3> QED
      BY <2>5, <3>1, <3>2 DEF Beyond
  <2> QED
    BY <2>4, <2>6, <2>7
<1>13. Backed(t)
  BY <1>3, <1>12 DEF Backed
<1> QED
  BY <1>11, <1>13

(* And it stays so: what comes later is not of the day so far. *)
LEMMA FadeStays ==
  ASSUME NEW t, NEW bars, IsSequence(bars), FadeIsOfToday(t, bars), NEW bar, t.ts \in Nat, bar.ts \in Nat,
         t.ts < bar.ts
  PROVE  FadeIsOfToday(t, Append(bars, bar))
<1> DEFINE longer == Append(bars, bar)
           w == Rules.opening_minutes
           c == CHOOSE e \in DOMAIN Days : Days[e].day = t.day
           today == {k \in DOMAIN bars : HeldBetween(Days[c], bars[k].ts) /\ bars[k].ts <= t.ts}
           still == {k \in DOMAIN longer : HeldBetween(Days[c], longer[k].ts) /\ longer[k].ts <= t.ts}
           window == Min(today) .. Min(today) + w - 1
           range == [high |-> Max({bars[k].high : k \in window}), low |-> Min({bars[k].low : k \in window})]
           left == {k \in today \ window : Leaves(range, bars[k])}
           opened == Min(still) .. Min(still) + w - 1
           cut == [high |-> Max({longer[k].high : k \in opened}), low |-> Min({longer[k].low : k \in opened})]
           out == {k \in still \ opened : Leaves(cut, longer[k])}
<1>1. window \subseteq today /\ IsTheTip(t.invalidation, t.side, bars, left, range)
  BY DEF FadeIsOfToday
<1>2. /\ \A k \in DOMAIN bars : k \in DOMAIN longer /\ longer[k] = bars[k]
      /\ \A k \in DOMAIN longer : k \in DOMAIN bars \/ longer[k] = bar
  <2>1. /\ IsSequence(longer) /\ Len(longer) = Len(bars) + 1 /\ longer[Len(bars) + 1] = bar
        /\ \A k \in DOMAIN bars : longer[k] = bars[k]
    BY AppendFacts
  <2>2. DOMAIN longer = 1 .. Len(bars) + 1 /\ DOMAIN bars = 1..Len(bars) /\ Len(bars) \in Nat
    BY <2>1, SequenceFacts
  <2> HIDE DEF longer
  <2> QED
    BY <2>1, <2>2
<1> HIDE DEF longer, c
<1>3. still = today
  <2>1. ASSUME NEW k \in today PROVE k \in still
    BY <1>2
  <2>2. ASSUME NEW k \in still PROVE k \in today
    <3>1. longer[k] # bar
      OBVIOUS
    <3> QED
      BY <1>2, <3>1
  <2> QED
    BY <2>1, <2>2
<1>4. \A k \in today : longer[k] = bars[k]
  BY <1>2
<1> HIDE DEF today, still
<1>5. opened = window
  BY <1>3
<1> HIDE DEF opened, window
<1>6. {longer[k].high : k \in opened} = {bars[k].high : k \in window}
      /\ {longer[k].low : k \in opened} = {bars[k].low : k \in window}
  BY <1>1, <1>4, <1>5
<1>7. cut = range
  BY <1>6
<1> HIDE DEF cut, range
<1>8. out = left
  BY <1>3, <1>4, <1>5, <1>7
<1>9. \A k \in left : longer[k] = bars[k] /\ k \in out
  BY <1>4, <1>8
<1> HIDE DEF out, left
<1>10. IsTheTip(t.invalidation, t.side, longer, out, cut)
  BY <1>1, <1>7, <1>8, <1>9, TipStays
<1>11. opened \subseteq still
  BY <1>1, <1>3, <1>5
<1> HIDE DEF w
<1> QED
  BY <1>10, <1>11 DEF FadeIsOfToday, out, cut, opened, still, c, w, longer
-----------------------------------------------------------------------------
(* What a strategy is shown, once the levels hold the bar. *)
LEMMA ViewsAreSound ==
  ASSUME NEW book, NEW bars, NEW until \in Nat, IsTape(bars, until), SoundBook(book), Reading(book, bars),
         NEW n, NEW bar, market \in Markets
  PROVE  SoundView(ViewOf(n, bar, book)) /\ IsViewOf(ViewOf(n, bar, book), bar, book)
<1> DEFINE view == ViewOf(n, bar, book)
<1>1. view.levels = book.levels /\ view.phase = MarketPhase(bar.ts)
      /\ view.section = IF Arsenal[n].needs_cross_section THEN market.section ELSE Unseen
  BY DEF ViewOf
<1> HIDE DEF view
<1>2. SoundSection(view.section)
  <2>1. SoundSection(market.section)
    BY MarketsAssumption DEF SoundSection
  <2>2. SoundSection(Unseen)
    BY DEF SoundSection, Unseen
  <2> QED
    BY <1>1, <2>1, <2>2
<1>3. ASSUME book.levels # NoLevels PROVE SoundLevels(book.levels)
  <2>1. PICK d \in DOMAIN Days, f \in Nat \ {0} : BookReads(book, bars, d, f)
    BY <1>3 DEF Reading, Untouched, NewBook
  <2>2. ASSUME NEW w \in DOMAIN book.levels.ranges
        PROVE  book.levels.ranges[w].high \in Int /\ book.levels.ranges[w].low \in Int
    <3>1. w \in Nat \ {0} /\ w <= book.levels.bar_count /\ book.levels.bar_count \in Nat
          /\ book.levels.ranges[w] = RangeFrom(bars, f, w)
      BY <2>1, WindowFacts DEF BookReads, KeepsTheRanges
    <3>2. ASSUME NEW k \in f .. f + w - 1 PROVE IsShape(bars[k])
      <4>1. k \in f .. f + book.levels.bar_count - 1
        BY <3>1
      <4>2. k \in DOMAIN bars
        BY <2>1, <4>1 DEF BookReads, OfDay
      <4> QED
        BY <4>2 DEF IsTape
    <3> QED
      BY <3>1, <3>2, RangeIsSound
  <2> QED
    BY <1>3, <2>2 DEF SoundLevels, SoundBook
<1> QED
  BY <1>1, <1>2, <1>3 DEF SoundView, IsViewOf, view
-----------------------------------------------------------------------------
(* Every intent of a minute was there before or is of a strategy called with *)
(* its bar.                                                                  *)
Called(n) == n \in Hosted(market.overnight) /\ Permits(n, market.regime, market.ungated)
Proposed(t, s, bar, book) ==
  \E n \in Names : /\ Called(n) /\ t.strategy = n /\ t.symbol = s /\ t.ts = bar.ts
                   /\ t \in OnBar(n, bar, ViewOf(n, bar, book), memos[n][s]).intents

LEMMA IntentsOfABar ==
  ASSUME IInv, NEW s \in Symbols, NEW shape, Bring(s, shape), NEW i \in DOMAIN intents'
  PROVE  \/ i \in DOMAIN intents /\ intents'[i] = intents[i]
         \/ Proposed(intents'[i], s, Shown(shape, s, now + 1),
                     Update(books[s], Shown(shape, s, now + 1), SessionFor(now + 1)))
<1> DEFINE bar == Shown(shape, s, now + 1)
           book == Update(books[s], bar, SessionFor(now + 1))
           called == {n \in Hosted(market.overnight) : Permits(n, market.regime, market.ungated)}
           result == [n \in called |-> OnBar(n, bar, ViewOf(n, bar, book), memos[n][s])]
           P == UNION {result[n].intents : n \in called}
           batch == SetToSeq(P)
<1>1. bar.ts = now + 1 /\ bar.symbol = s
  BY DEF Shown
<1> HIDE DEF bar
<1>2. intents' = intents \o batch
  BY <1>1 DEF Bring, Dispatch, bar
<1> HIDE DEF book
<1>3. called \subseteq Names
  BY DEF Hosted
<1>4. ASSUME NEW n \in called, NEW t \in result[n].intents
      PROVE  t.strategy = n /\ t.symbol = s /\ t.ts = bar.ts /\ result[n].intents = {t}
  <2>1. Handled(n, bar, ViewOf(n, bar, book), memos[n][s], result[n])
    BY <1>3, EveryHandler DEF IInv, Shaped
  <2>2. PICK u : Proposes(n, bar, ViewOf(n, bar, book), memos[n][s], result[n], u)
    BY <2>1 DEF Handled, Declines
  <2> QED
    BY <1>1, <2>2 DEF Proposes
<1>5. ASSUME NEW t \in P PROVE t.strategy \in called /\ Proposed(t, s, bar, book) /\ result[t.strategy].intents = {t}
  <2>1. PICK n \in called : t \in result[n].intents
    OBVIOUS
  <2>2. t.strategy = n /\ t.symbol = s /\ t.ts = bar.ts /\ result[n].intents = {t}
    BY <1>4, <2>1
  <2>3. n \in Names /\ Called(n) /\ result[n] = OnBar(n, bar, ViewOf(n, bar, book), memos[n][s])
    BY <1>3, <2>1 DEF Called
  <2> HIDE DEF result, called
  <2> QED
    BY <2>1, <2>2, <2>3 DEF Proposed
<1> HIDE DEF P, result, called
<1>6. batch \in Seq(P)
  <2>1. \A t, u \in P : t.strategy = u.strategy => t = u
    BY <1>5
  <2>2. IsFiniteSet(P)
    BY <1>3, <1>5, <2>1, FewProposals
  <2> QED
    BY <2>2, SequenceOfASet
<1> HIDE DEF batch
<1>7. PICK T : intents \in Seq(T)
  BY DEF IInv, Shaped
<1>8. /\ Len(intents) \in Nat /\ DOMAIN intents = 1..Len(intents)
      /\ Len(batch) \in Nat /\ DOMAIN batch = 1..Len(batch)
  BY <1>6, <1>7, LenProperties
<1>9. /\ DOMAIN intents' = 1..(Len(intents) + Len(batch))
      /\ intents'[i] = IF i <= Len(intents) THEN intents[i] ELSE batch[i - Len(intents)]
  <2>1. intents \in Seq(T \cup P) /\ batch \in Seq(T \cup P)
    BY <1>6, <1>7, SeqMonotonic
  <2>2. /\ intents' \in Seq(T \cup P) /\ Len(intents') = Len(intents) + Len(batch)
        /\ \A j \in 1..(Len(intents) + Len(batch)) :
             intents'[j] = IF j <= Len(intents) THEN intents[j] ELSE batch[j - Len(intents)]
    BY <1>2, <2>1, ConcatProperties
  <2>3. DOMAIN intents' = 1..(Len(intents) + Len(batch))
    BY <2>2, LenProperties
  <2> QED
    BY <2>2, <2>3
<1>10. CASE i <= Len(intents)
  BY <1>8, <1>9, <1>10
<1>11. CASE ~(i <= Len(intents))
  <2>1. i - Len(intents) \in DOMAIN batch /\ intents'[i] = batch[i - Len(intents)]
    BY <1>8, <1>9, <1>11
  <2>2. intents'[i] \in P
    BY <1>6, <2>1, ElementOfSeq, LenProperties
  <2> QED
    BY <1>5, <2>2 DEF book, bar
<1> QED
  BY <1>10, <1>11
-----------------------------------------------------------------------------
(* The invariant behind the stops: every book reads its tape, and what the  *)
(* fade remembers of a symbol, where it is called, is an excursion of the  *)
(* session the book is in.                                                 *)
Placed(t, bars) == Backed(t) /\ (t.strategy = "orb_fade" => FadeIsOfToday(t, bars))

BooksReadTheTape ==
  /\ DOMAIN tape = Symbols
  /\ \A s \in Symbols : IsTape(tape[s], now) /\ SoundBook(books[s]) /\ Reading(books[s], tape[s])
FadeRemembersToday ==
  Called("orb_fade") => \A s \in Symbols : Remembering(memos["orb_fade"][s].excursion, books[s], tape[s])
SInv ==
  /\ BooksReadTheTape /\ FadeRemembersToday
  /\ \A i \in DOMAIN intents : Placed(intents[i], tape[intents[i].symbol])

LEMMA InitSInv == Init => SInv
<1> SUFFICES ASSUME Init PROVE SInv
  OBVIOUS
<1> DEFINE none == <<>>
<1>1. IsSequence(none) /\ DOMAIN none = {}
  <2>1. <<>> \in Seq({})
    BY EmptySeq
  <2> QED
    BY <2>1 DEF IsSequence
<1>2. DOMAIN tape = Symbols /\ \A s \in Symbols : tape[s] = none /\ books[s] = NewBook
  BY DEF Init
<1> HIDE DEF none
<1>3. IsTape(none, now) /\ Untouched(NewBook, none)
  BY <1>1 DEF IsTape, Untouched, OfDay
<1>4. SoundBook(NewBook)
  BY DEF SoundBook, NewBook, SoundPaid, NothingPaid, None
<1>5. BooksReadTheTape
  BY <1>2, <1>3, <1>4 DEF BooksReadTheTape, Reading
<1>6. FadeRemembersToday
  <2>1. "orb_fade" \in Names
    BY DEF Names, Arsenal
  <2>2. \A s \in Symbols : memos["orb_fade"][s].excursion.day = 0
    BY <2>1 DEF Init, NewMemo, NoExcursion
  <2> QED
    BY <1>2, <1>3, <2>2 DEF FadeRemembersToday, Remembering
<1>7. DOMAIN intents = {}
  BY DEF Init
<1> QED
  BY <1>5, <1>6, <1>7 DEF SInv

LEMMA ShownIsAShape ==
  ASSUME NEW s \in Symbols, NEW shape, NEW ts, IsShape(shape)
  PROVE  IsShape(Shown(shape, s, ts)) /\ Shown(shape, s, ts).ts = ts /\ Shown(shape, s, ts).symbol = s
<1> DEFINE bar == Shown(shape, s, ts)
<1>1. DOMAIN bar = DOMAIN shape \cup {"symbol", "ts"} /\ bar.ts = ts /\ bar.symbol = s
  BY DEF Shown
<1>2. \A f \in {"open", "high", "low", "close", "volume", "vwap"} : f \in DOMAIN shape /\ bar[f] = shape[f]
  BY DEF IsShape, Shown
<1> HIDE DEF bar
<1>3. IsShape(bar)
  <2>1. \A f \in {"open", "high", "low", "close"} : bar[f] \in Nat \ {0}
    BY <1>2 DEF IsShape
  <2>2. \A f \in {"open", "close"} : bar["low"] <= bar[f] /\ bar[f] <= bar["high"]
    BY <1>2 DEF IsShape
  <2>3. bar["volume"] \in Nat /\ bar["vwap"] \in Nat
    BY <1>2 DEF IsShape
  <2> QED
    BY <1>1, <1>2, <2>1, <2>2, <2>3 DEF IsShape
<1> QED
  BY <1>1, <1>3 DEF bar

LEMMA BringKeepsSInv ==
  ASSUME IInv, SInv, NEW s \in Symbols, NEW shape, Bring(s, shape)
  PROVE  SInv'
<1> DEFINE ts == now + 1
           bar == Shown(shape, s, ts)
           book == Update(books[s], bar, SessionFor(ts))
           longer == Append(tape[s], bar)
           called == {n \in Hosted(market.overnight) : Permits(n, market.regime, market.ungated)}
           result == [n \in called |-> OnBar(n, bar, ViewOf(n, bar, book), memos[n][s])]
           fade == "orb_fade"
           view == ViewOf(fade, bar, book)
           memo == memos[fade][s]
<1>1. now \in Nat /\ ts \in Nat /\ now < ts /\ now' = ts /\ market' = market /\ market \in Markets
  BY HorizonAssumption DEF Bring, IInv, Shaped
<1>2. IsShape(bar) /\ bar.ts = ts /\ bar.symbol = s
  <2>1. shape \in StrayShapes \/ shape \in Shapes[s]
    BY DEF Bring
  <2>2. s \in {Universe[i] : i \in DOMAIN Universe}
    BY DEF Symbols, Range
  <2>3. IsShape(shape)
    BY <2>1, <2>2, ShapesAssumption
  <2> QED
    BY <2>3, ShownIsAShape
<1>3. /\ books' = [books EXCEPT ![s] = book] /\ tape' = [tape EXCEPT ![s] = longer]
      /\ memos' = [n \in Names |-> IF n \in called THEN [memos[n] EXCEPT ![s] = result[n].memo] ELSE memos[n]]
  BY <1>2 DEF Bring, Dispatch
<1>4. DOMAIN books = Symbols /\ DOMAIN tape = Symbols /\ DOMAIN books[s] = BookFields
  BY DEF IInv, Shaped, SInv, BooksReadTheTape
<1>5. /\ DOMAIN tape' = Symbols
      /\ \A u \in Symbols : books'[u] = (IF u = s THEN book ELSE books[u])
                            /\ tape'[u] = (IF u = s THEN longer ELSE tape[u])
  BY <1>3, <1>4
<1>6. IsTape(tape[s], now) /\ SoundBook(books[s]) /\ Reading(books[s], tape[s])
  BY DEF SInv, BooksReadTheTape
<1>7. IsTape(longer, ts)
  BY <1>1, <1>2, <1>6, LongerTape
<1>8. SoundBook(book)
  <2>1. CASE SessionFor(ts) = NoSession
    BY <1>6, <2>1 DEF Update, NoSession
  <2>2. CASE SessionFor(ts) # NoSession
    <3>1. PICK d \in DOMAIN Days : SessionFor(ts) = Days[d]
      BY <1>1, <2>2, SessionOfADay
    <3> QED
      BY <1>2, <1>4, <1>6, <3>1, BookStaysSound
  <2> QED
    BY <2>1, <2>2
<1>9. Knows(memo.excursion, books[s], tape[s], Remembers(bar, view, memo), book, longer)
  <2>1. IsViewOf(view, bar, book)
    BY DEF IsViewOf, ViewOf
  <2>2. book = Update(books[s], bar, SessionFor(bar.ts))
    BY <1>2
  <2> HIDE DEF bar, view, memo, book
  <2> QED
    BY <1>1, <1>2, <1>4, <1>6, <2>1, <2>2, BarStep DEF longer
<1>10. Reading(book, longer)
  BY <1>9 DEF Knows
<1>11. ASSUME NEW n \in Names
       PROVE  SoundView(ViewOf(n, bar, book)) /\ IsViewOf(ViewOf(n, bar, book), bar, book)
  BY <1>1, <1>7, <1>8, <1>10, ViewsAreSound
<1> HIDE DEF book, longer, bar
<1>12. BooksReadTheTape'
  <2>1. ASSUME NEW u \in Symbols
        PROVE  IsTape(tape'[u], now') /\ SoundBook(books'[u]) /\ Reading(books'[u], tape'[u])
    <3>1. CASE u = s
      BY <1>1, <1>5, <1>7, <1>8, <1>10, <3>1
    <3>2. CASE u # s
      <4>1. IsTape(tape[u], now) /\ SoundBook(books[u]) /\ Reading(books[u], tape[u])
        BY DEF SInv, BooksReadTheTape
      <4>2. IsTape(tape[u], ts)
        BY <1>1, <4>1 DEF IsTape
      <4> QED
        BY <1>1, <1>5, <3>2, <4>1, <4>2
    <3> QED
      BY <3>1, <3>2
  <2> QED
    BY <1>5, <2>1 DEF BooksReadTheTape
<1>13. fade \in Names /\ DOMAIN memo = MemoFields
  BY DEF Names, Arsenal, IInv, Shaped
<1>14. Called(fade) => /\ fade \in called
                       /\ result[fade].memo.excursion = Remembers(bar, view, memo)
                       /\ \A u \in Symbols : memos'[fade][u] = IF u = s THEN result[fade].memo ELSE memos[fade][u]
  <2> SUFFICES ASSUME Called(fade)
               PROVE  /\ fade \in called
                      /\ result[fade].memo.excursion = Remembers(bar, view, memo)
                      /\ \A u \in Symbols : memos'[fade][u] = IF u = s THEN result[fade].memo ELSE memos[fade][u]
    OBVIOUS
  <2>1. fade \in called
    BY DEF Called
  <2>2. result[fade] = OrbFade(bar, view, memo)
    BY <2>1 DEF OnBar
  <2>3. memos'[fade] = [memos[fade] EXCEPT ![s] = result[fade].memo]
    BY <1>3, <1>13, <2>1
  <2>4. DOMAIN memos[fade] = Symbols
    BY <1>13 DEF IInv, Shaped
  <2> HIDE DEF result, called, view, memo
  <2> QED
    BY <1>13, <2>1, <2>2, <2>3, <2>4, FadeRemembers
<1>15. Called(fade)' <=> Called(fade)
  BY <1>1 DEF Called
<1>16. ASSUME Called(fade) PROVE Remembering(Remembers(bar, view, memo), book, longer)
  <2>1. Remembering(memo.excursion, books[s], tape[s])
    BY <1>16 DEF SInv, FadeRemembersToday
  <2> HIDE DEF view, memo
  <2> QED
    BY <1>9, <2>1 DEF Knows
<1>17. FadeRemembersToday'
  <2> SUFFICES ASSUME Called(fade), NEW u \in Symbols
               PROVE  Remembering(memos'[fade][u].excursion, books'[u], tape'[u])
    BY <1>15 DEF FadeRemembersToday
  <2>1. CASE u = s
    BY <1>5, <1>14, <1>16, <2>1
  <2>2. CASE u # s
    <3>1. Remembering(memos[fade][u].excursion, books[u], tape[u])
      BY DEF SInv, FadeRemembersToday
    <3> QED
      BY <1>5, <1>14, <2>2, <3>1
  <2> QED
    BY <2>1, <2>2
<1>18. ASSUME NEW i \in DOMAIN intents' PROVE Placed(intents'[i], tape'[intents'[i].symbol])
  <2> DEFINE t == intents'[i]
  <2>1. CASE i \in DOMAIN intents /\ intents'[i] = intents[i]
    <3>1. Placed(intents[i], tape[intents[i].symbol]) /\ Made(intents[i], now)
      BY <2>1 DEF SInv, IInv
    <3>2. t.symbol \in Symbols /\ t.ts \in Nat /\ t.ts < ts
      BY <1>1, <2>1, <3>1 DEF Made
    <3>3. ASSUME t.strategy = fade PROVE FadeIsOfToday(t, tape'[t.symbol])
      <4>1. FadeIsOfToday(t, tape[t.symbol])
        BY <2>1, <3>1, <3>3 DEF Placed
      <4>2. CASE t.symbol = s
        <5>1. IsSequence(tape[s])
          BY <1>6 DEF IsTape
        <5>2. FadeIsOfToday(t, tape[s])
          BY <4>1, <4>2
        <5>3. FadeIsOfToday(t, longer)
          BY <1>1, <1>2, <3>2, <5>1, <5>2, FadeStays DEF longer
        <5> QED
          BY <1>5, <4>2, <5>3
      <4>3. CASE t.symbol # s
        BY <1>5, <3>2, <4>1, <4>3
      <4> QED
        BY <4>2, <4>3
    <3> QED
      BY <2>1, <3>1, <3>3 DEF Placed
  <2>2. CASE Proposed(t, s, bar, book)
    <3>1. PICK n \in Names : /\ Called(n) /\ t.strategy = n /\ t.symbol = s
                             /\ t \in OnBar(n, bar, ViewOf(n, bar, book), memos[n][s]).intents
      BY <2>2 DEF Proposed
    <3> HIDE DEF t
    <3>2. CASE n # fade
      <4>1. Backs(OnBar(n, bar, ViewOf(n, bar, book), memos[n][s]))
        BY <1>2, <1>11, <3>2, EveryStopBacks
      <4> QED
        BY <3>1, <3>2, <4>1 DEF Placed, Backs, t
    <3>3. CASE n = fade
      <4>1. t \in OrbFade(bar, view, memo).intents
        BY <3>1, <3>3 DEF OnBar
      <4>2. IsViewOf(view, bar, book)
        BY <1>11, <1>13
      <4>3. Remembering(Remembers(bar, view, memo), book, longer)
        BY <1>16, <3>1, <3>3
      <4>4. bar.ts \in Nat /\ IsTape(longer, bar.ts)
        BY <1>1, <1>2, <1>7
      <4> HIDE DEF view, memo
      <4>5. Fades(t, bar, view, memo)
        BY <4>1, FadeProposes
      <4>6. FadeIsOfToday(t, longer) /\ Backed(t)
        BY <1>2, <4>2, <4>3, <4>4, <4>5, FadeStep
      <4>7. tape'[t.symbol] = longer
        BY <1>5, <3>1
      <4> QED
        BY <4>6, <4>7 DEF Placed, t
    <3> QED
      BY <3>2, <3>3
  <2> QED
    BY <2>1, <2>2, IntentsOfABar DEF book, bar
<1> QED
  BY <1>12, <1>17, <1>18 DEF SInv

LEMMA StepSInv == IInv /\ SInv /\ [Next]_vars => SInv'
<1> SUFFICES ASSUME IInv, SInv, [Next]_vars PROVE SInv'
  OBVIOUS
<1>1. CASE \E s \in Symbols : \E shape \in Shapes[s] \cup StrayShapes : Bring(s, shape)
  BY <1>1, BringKeepsSInv
<1>2. CASE Quiet \/ UNCHANGED vars
  <2>1. UNCHANGED <<market, books, memos, tape, intents>> /\ now' \in Nat /\ now \in Nat /\ now <= now'
    BY <1>2, HorizonAssumption DEF Quiet, vars, IInv, Shaped
  <2>2. \A s \in Symbols : IsTape(tape[s], now')
    BY <2>1 DEF SInv, BooksReadTheTape, IsTape
  <2>3. BooksReadTheTape'
    BY <2>1, <2>2 DEF SInv, BooksReadTheTape
  <2>4. FadeRemembersToday'
    BY <2>1 DEF SInv, FadeRemembersToday, Called
  <2>5. \A i \in DOMAIN intents' : Placed(intents'[i], tape'[intents'[i].symbol])
    BY <2>1 DEF SInv, Placed
  <2> QED
    BY <2>3, <2>4, <2>5 DEF SInv
<1> QED
  BY <1>1, <1>2 DEF Next

(* For every calendar of sessions in order, every possible bar and every   *)
(* threshold: the stop of a proposal lies where the position loses, and    *)
(* the stop of a fade is the extreme of an excursion of the same session   *)
(* which no bar since, until the proposal, exceeded or contradicted        *)
(* (Strategy.on_bar of the ten, OrbFade._record).                          *)
THEOREM StopsAreAlwaysOfTheirTrade == Spec => []StopsAreOfTheirTrade
<1>1. SInv => StopsAreOfTheirTrade
  BY DEF SInv, Placed, Backed, StopsAreOfTheirTrade, StopsStandBehindTheEntry, FadesAreOfToday
<1>2. Init => IInv /\ SInv
  BY InitIInv, InitSInv
<1>3. IInv /\ SInv /\ [Next]_vars => (IInv /\ SInv)'
  BY StepIInv, StepSInv
<1> QED
  BY <1>1, <1>2, <1>3, PTL DEF Spec
-----------------------------------------------------------------------------
(* The levels.  A list of places exists: were there a least length without  *)
(* one, the list of what comes before it would extend to it.  Two of them   *)
(* agree as long as their places do.                                        *)
IsListing(h, places, n) ==
  /\ h \in [0..n -> Seq(Nat)]
  /\ \A k \in 0..n : h[k] = IF k = 0 THEN <<>> ELSE IF k \in places THEN Append(h[k - 1], k) ELSE h[k - 1]

LEMMA ListingExists ==
  ASSUME NEW n \in Nat, NEW places
  PROVE  \E h : IsListing(h, places, n)
<1> DEFINE Stuck == {m \in 0..n : ~\E h : IsListing(h, places, m)}
<1> SUFFICES ASSUME Stuck # {} PROVE FALSE
  OBVIOUS
<1>1. Stuck \in SUBSET Nat
  OBVIOUS
<1> DEFINE m == Min(Stuck)
<1>2. m \in Stuck /\ \A x \in Stuck : m <= x
  BY <1>1, LeastExists
<1>3. m \in 0..n /\ ~\E h : IsListing(h, places, m)
  BY <1>2
<1>4. m # 0
  <2> SUFFICES ASSUME m = 0 PROVE FALSE
    OBVIOUS
  <2> DEFINE h == [k \in 0..0 |-> <<>>]
  <2>1. <<>> \in Seq(Nat)
    BY EmptySeq
  <2>2. h \in [0..0 -> Seq(Nat)] /\ \A k \in 0..0 : k = 0 /\ h[k] = <<>>
    BY <2>1
  <2> HIDE DEF h
  <2>3. IsListing(h, places, 0)
    BY <2>2 DEF IsListing
  <2> QED
    BY <1>3, <2>3
<1>5. m - 1 \in 0..n /\ m - 1 \notin Stuck
  <2>1. m - 1 \in 0..n /\ ~(m <= m - 1)
    BY <1>3, <1>4
  <2> HIDE DEF Stuck, m
  <2> QED
    BY <1>2, <2>1
<1>6. PICK h : IsListing(h, places, m - 1)
  BY <1>5
<1> HIDE DEF Stuck, m
<1> DEFINE next == IF m \in places THEN Append(h[m - 1], m) ELSE h[m - 1]
           longer == [k \in 0..m |-> IF k = m THEN next ELSE h[k]]
<1>7. IsListing(longer, places, m)
  <2>1. /\ h \in [0 .. m - 1 -> Seq(Nat)]
        /\ \A k \in 0 .. m - 1 : h[k] = IF k = 0 THEN <<>> ELSE IF k \in places THEN Append(h[k - 1], k) ELSE h[k - 1]
    BY <1>6 DEF IsListing
  <2>2. m \in 1..n /\ m - 1 \in 0 .. m - 1 /\ m \in Nat
    BY <1>3, <1>4
  <2>3. h[m - 1] \in Seq(Nat)
    BY <2>1, <2>2
  <2>4. next \in Seq(Nat)
    BY <2>2, <2>3, AppendProperties
  <2>5. longer[m] = next /\ longer[m - 1] = h[m - 1]
    BY <2>2
  <2>6. ASSUME NEW k \in 0..m, k # m
        PROVE  k \in 0 .. m - 1 /\ longer[k] = h[k] /\ (k # 0 => longer[k - 1] = h[k - 1])
    BY <2>2, <2>6
  <2>7. longer \in [0..m -> Seq(Nat)]
    <3> SUFFICES ASSUME NEW k \in 0..m PROVE (IF k = m THEN next ELSE h[k]) \in Seq(Nat)
      OBVIOUS
    <3> HIDE DEF next
    <3> QED
      BY <2>1, <2>2, <2>4
  <2> HIDE DEF longer
  <2>8. ASSUME NEW k \in 0..m
        PROVE  longer[k] = IF k = 0 THEN <<>> ELSE IF k \in places THEN Append(longer[k - 1], k) ELSE longer[k - 1]
    <3>1. CASE k = m
      BY <1>4, <2>5, <3>1
    <3>2. CASE k # m
      BY <2>1, <2>6, <3>2
    <3> QED
      BY <3>1, <3>2
  <2> QED
    BY <2>7, <2>8 DEF IsListing
<1> QED
  BY <1>3, <1>7

LEMMA ListingsAgree ==
  ASSUME NEW n \in Nat, NEW m \in Nat, NEW P, NEW Q, NEW h, NEW g, IsListing(h, P, n), IsListing(g, Q, m),
         NEW top \in 0..n, top <= m, \A k \in 1..top : k \in P <=> k \in Q
  PROVE  h[top] = g[top]
<1> DEFINE Differ == {k \in 0..top : h[k] # g[k]}
<1> SUFFICES ASSUME Differ # {} PROVE FALSE
  OBVIOUS
<1> DEFINE k == Min(Differ)
<1>1. Differ \in SUBSET Nat
  OBVIOUS
<1>2. k \in Differ /\ \A x \in Differ : k <= x
  BY <1>1, LeastExists
<1> HIDE DEF k
<1>3. k \in 0..top /\ h[k] # g[k] /\ k \in 0..n /\ k \in 0..m
  BY <1>2
<1>4. k # 0
  <2>1. h[0] = <<>> /\ g[0] = <<>>
    BY DEF IsListing
  <2> QED
    BY <1>3, <2>1
<1>5. k - 1 \in 0..top /\ ~(k <= k - 1)
  BY <1>3, <1>4
<1>6. h[k - 1] = g[k - 1]
  BY <1>2, <1>5
<1>7. k \in P <=> k \in Q
  BY <1>3, <1>4
<1>8. h[k] = IF k \in P THEN Append(h[k - 1], k) ELSE h[k - 1]
  BY <1>3, <1>4 DEF IsListing
<1>9. g[k] = IF k \in Q THEN Append(g[k - 1], k) ELSE g[k - 1]
  BY <1>3, <1>4 DEF IsListing
<1> QED
  BY <1>3, <1>6, <1>7, <1>8, <1>9

LEMMA ListedIsAListing ==
  ASSUME NEW n \in Nat, NEW places
  PROVE  \E h : IsListing(h, places, n) /\ Listed(places, n) = h[n]
<1> DEFINE listed == CHOOSE h : h = [k \in 0..n |->
             IF k = 0 THEN <<>> ELSE IF k \in places THEN Append(h[k - 1], k) ELSE h[k - 1]]
<1>1. Listed(places, n) = listed[n]
  BY DEF Listed
<1>2. PICK h : IsListing(h, places, n)
  BY ListingExists
<1>3. h = [k \in 0..n |-> IF k = 0 THEN <<>> ELSE IF k \in places THEN Append(h[k - 1], k) ELSE h[k - 1]]
  BY <1>2 DEF IsListing
<1>4. listed = [k \in 0..n |->
        IF k = 0 THEN <<>> ELSE IF k \in places THEN Append(listed[k - 1], k) ELSE listed[k - 1]]
  BY <1>3, Zenon
<1> HIDE DEF listed
<1> DEFINE Odd == {k \in 0..n : listed[k] \notin Seq(Nat)}
<1>5. Odd = {}
  <2> SUFFICES ASSUME Odd # {} PROVE FALSE
    OBVIOUS
  <2> DEFINE k == Min(Odd)
  <2>1. Odd \in SUBSET Nat
    OBVIOUS
  <2>2. k \in Odd /\ \A x \in Odd : k <= x
    BY <2>1, LeastExists
  <2> HIDE DEF k
  <2>3. k \in 0..n /\ listed[k] \notin Seq(Nat)
    BY <2>2
  <2>4. k # 0
    <3>1. <<>> \in Seq(Nat)
      BY EmptySeq
    <3>2. listed[0] = <<>>
      BY <1>4
    <3> QED
      BY <2>3, <3>1, <3>2
  <2>5. k - 1 \in 0..n /\ ~(k <= k - 1) /\ k \in Nat
    BY <2>3, <2>4
  <2>6. listed[k - 1] \in Seq(Nat)
    BY <2>2, <2>5
  <2>7. listed[k] = IF k \in places THEN Append(listed[k - 1], k) ELSE listed[k - 1]
    BY <1>4, <2>3, <2>4
  <2>8. Append(listed[k - 1], k) \in Seq(Nat)
    BY <2>5, <2>6, AppendProperties
  <2> QED
    BY <2>3, <2>6, <2>7, <2>8
<1>6. listed \in [0..n -> Seq(Nat)]
  BY <1>4, <1>5
<1>7. IsListing(listed, places, n)
  BY <1>4, <1>6 DEF IsListing
<1> QED
  BY <1>1, <1>7

LEMMA ListedSame ==
  ASSUME NEW n \in Nat, NEW P, NEW Q, \A k \in 1..n : k \in P <=> k \in Q
  PROVE  Listed(P, n) = Listed(Q, n)
<1>1. PICK h : IsListing(h, P, n) /\ Listed(P, n) = h[n]
  BY ListedIsAListing
<1>2. PICK g : IsListing(g, Q, n) /\ Listed(Q, n) = g[n]
  BY ListedIsAListing
<1>3. n \in 0..n /\ n <= n
  OBVIOUS
<1>4. h[n] = g[n]
  BY <1>1, <1>2, <1>3, ListingsAgree
<1> QED
  BY <1>1, <1>2, <1>4

LEMMA ListedSteps ==
  ASSUME NEW n \in Nat, NEW places
  PROVE  /\ Listed(places, n) \in Seq(Nat) /\ Listed(places, 0) = <<>>
         /\ n # 0 => Listed(places, n) = IF n \in places THEN Append(Listed(places, n - 1), n)
                                         ELSE Listed(places, n - 1)
<1>1. PICK h : IsListing(h, places, n) /\ Listed(places, n) = h[n]
  BY ListedIsAListing
<1>2. Listed(places, n) \in Seq(Nat)
  BY <1>1 DEF IsListing
<1>3. Listed(places, 0) = <<>>
  <2>1. PICK g : IsListing(g, places, 0) /\ Listed(places, 0) = g[0]
    BY ListedIsAListing
  <2> QED
    BY <2>1 DEF IsListing
<1>4. ASSUME n # 0
      PROVE  Listed(places, n) = IF n \in places THEN Append(Listed(places, n - 1), n) ELSE Listed(places, n - 1)
  <2> DEFINE m == n - 1
  <2>1. m \in Nat /\ m \in 0..n /\ n \in 0..n /\ m <= m
    BY <1>4
  <2>2. PICK g : IsListing(g, places, m) /\ Listed(places, m) = g[m]
    BY <2>1, ListedIsAListing
  <2> HIDE DEF m
  <2>3. h[m] = g[m]
    BY <1>1, <2>1, <2>2, ListingsAgree
  <2>4. h[n] = IF n \in places THEN Append(h[n - 1], n) ELSE h[n - 1]
    BY <1>1, <1>4, <2>1 DEF IsListing
  <2> QED
    BY <1>1, <2>2, <2>3, <2>4 DEF m
<1> QED
  BY <1>2, <1>3, <1>4

(* Nothing is listed where there is no place. *)
LEMMA ListedStops ==
  ASSUME NEW n \in Nat, NEW m \in Nat, n <= m, NEW places, \A k \in n + 1 .. m : k \notin places
  PROVE  Listed(places, m) = Listed(places, n)
<1> DEFINE Odd == {k \in n..m : Listed(places, k) # Listed(places, n)}
<1> SUFFICES ASSUME Odd # {} PROVE FALSE
  OBVIOUS
<1> DEFINE k == Min(Odd)
<1>1. Odd \in SUBSET Nat
  OBVIOUS
<1>2. k \in Odd /\ \A x \in Odd : k <= x
  BY <1>1, LeastExists
<1> HIDE DEF k
<1>3. k \in n..m /\ Listed(places, k) # Listed(places, n)
  BY <1>2
<1>4. k # n
  BY <1>3
<1>5. k - 1 \in n..m /\ ~(k <= k - 1) /\ k \in n + 1 .. m /\ k \in Nat /\ k # 0
  BY <1>3, <1>4
<1>6. Listed(places, k - 1) = Listed(places, n)
  BY <1>2, <1>5
<1>7. Listed(places, k) = Listed(places, k - 1)
  BY <1>5, ListedSteps
<1> QED
  BY <1>3, <1>6, <1>7

LEMMA ListedArePlaces ==
  ASSUME NEW n \in Nat, NEW places
  PROVE  \A i \in DOMAIN Listed(places, n) : Listed(places, n)[i] \in places /\ Listed(places, n)[i] \in 1..n
<1> DEFINE Sound(k) == \A i \in DOMAIN Listed(places, k) :
                         Listed(places, k)[i] \in places /\ Listed(places, k)[i] \in 1..k
           Odd == {k \in 0..n : ~Sound(k)}
<1> SUFFICES ASSUME Odd # {} PROVE FALSE
  <2>1. n \in 0..n /\ n \notin Odd
    OBVIOUS
  <2> QED
    BY <2>1
<1> DEFINE k == Min(Odd)
<1>1. Odd \in SUBSET Nat
  OBVIOUS
<1>2. k \in Odd /\ \A x \in Odd : k <= x
  BY <1>1, LeastExists
<1> HIDE DEF k
<1>3. k \in 0..n /\ ~Sound(k) /\ k \in Nat
  BY <1>2
<1>4. k # 0
  <2>1. Listed(places, 0) = <<>> /\ DOMAIN <<>> = {}
    BY ListedSteps
  <2> QED
    BY <1>3, <2>1
<1>5. k - 1 \in 0..n /\ ~(k <= k - 1) /\ k - 1 \in Nat
  BY <1>3, <1>4
<1>6. Sound(k - 1)
  BY <1>2, <1>5
<1> DEFINE shorter == Listed(places, k - 1)
           list == Listed(places, k)
<1>7. \A i \in DOMAIN shorter : shorter[i] \in places /\ shorter[i] \in 1 .. k - 1
  BY <1>6
<1>8. shorter \in Seq(Nat) /\ list = IF k \in places THEN Append(shorter, k) ELSE shorter
  BY <1>3, <1>4, <1>5, ListedSteps
<1>9. ~\A i \in DOMAIN list : list[i] \in places /\ list[i] \in 1..k
  BY <1>3
<1> HIDE DEF shorter, list, Odd, Sound
<1>10. IsSequence(shorter)
  BY <1>8 DEF IsSequence
<1>11. CASE k \notin places
  BY <1>3, <1>7, <1>8, <1>9, <1>11
<1>12. CASE k \in places
  <2>1. /\ Len(shorter) \in Nat /\ DOMAIN shorter = 1..Len(shorter)
        /\ IsSequence(list) /\ Len(list) = Len(shorter) + 1
        /\ list[Len(shorter) + 1] = k /\ \A i \in DOMAIN shorter : list[i] = shorter[i]
    BY <1>8, <1>10, <1>12, SequenceFacts, AppendFacts
  <2>2. DOMAIN list = 1 .. Len(shorter) + 1
    BY <2>1, SequenceFacts
  <2>3. ASSUME NEW i \in DOMAIN list PROVE list[i] \in places /\ list[i] \in 1..k
    <3>1. CASE i = Len(shorter) + 1
      BY <1>3, <1>4, <1>12, <2>1, <3>1
    <3>2. CASE i # Len(shorter) + 1
      <4>1. i \in DOMAIN shorter
        BY <2>1, <2>2, <3>2
      <4>2. shorter[i] \in places /\ shorter[i] \in 1 .. k - 1 /\ list[i] = shorter[i]
        BY <1>7, <2>1, <4>1
      <4> QED
        BY <1>3, <4>2
    <3> QED
      BY <3>1, <3>2
  <2> QED
    BY <1>9, <2>3
<1> QED
  BY <1>11, <1>12

LEMMA SameLength ==
  ASSUME NEW n \in Nat, NEW m \in Nat, 1..n = 1..m
  PROVE  n = m
<1>1. n \in 1..m \/ n = 0
  OBVIOUS
<1>2. m \in 1..n \/ m = 0
  OBVIOUS
<1> QED
  BY <1>1, <1>2

(* What is kept of a sequence: of a longer one, the last if it is wanted.   *)
LEMMA KeptOfNothing ==
  ASSUME NEW seq, IsSequence(seq), NEW places, \A k \in DOMAIN seq : k \notin places
  PROVE  Kept(seq, places) = <<>>
<1>1. Len(seq) \in Nat /\ DOMAIN seq = 1..Len(seq)
  BY SequenceFacts
<1>2. Listed(places, Len(seq)) = Listed(places, 0)
  BY <1>1, ListedStops
<1>3. Listed(places, Len(seq)) = <<>>
  BY <1>2, ListedSteps
<1> QED
  BY <1>3 DEF Kept

LEMMA KeptFacts ==
  ASSUME NEW seq, IsSequence(seq), NEW places
  PROVE  /\ IsSequence(Kept(seq, places))
         /\ Kept(seq, places) = [i \in DOMAIN Listed(places, Len(seq)) |-> seq[Listed(places, Len(seq))[i]]]
         /\ \A i \in DOMAIN Listed(places, Len(seq)) : Listed(places, Len(seq))[i] \in places \cap DOMAIN seq
         /\ IsSequence(Listed(places, Len(seq)))
<1> DEFINE at == Listed(places, Len(seq))
           kept == Kept(seq, places)
<1>1. Len(seq) \in Nat /\ DOMAIN seq = 1..Len(seq)
  BY SequenceFacts
<1>2. \A i \in DOMAIN at : at[i] \in places \cap DOMAIN seq
  BY <1>1, ListedArePlaces
<1>3. kept = [i \in DOMAIN at |-> seq[at[i]]]
  BY DEF Kept
<1>4. IsSequence(at)
  BY <1>1, ListedSteps DEF IsSequence
<1>5. Len(at) \in Nat /\ DOMAIN at = 1..Len(at)
  BY <1>4, SequenceFacts
<1>6. PICK T : seq \in Seq(T)
  BY DEF IsSequence
<1> HIDE DEF at, kept
<1>7. ASSUME NEW i \in 1..Len(at) PROVE seq[at[i]] \in T
  <2>1. at[i] \in 1..Len(seq)
    BY <1>1, <1>2, <1>5
  <2> QED
    BY <1>6, <2>1, ElementOfSeq
<1>8. kept \in [1..Len(at) -> T]
  BY <1>3, <1>5, <1>7
<1>9. kept \in Seq(T)
  BY <1>5, <1>8, SeqDef
<1> QED
  BY <1>2, <1>3, <1>4, <1>9 DEF IsSequence, at, kept

LEMMA KeptOfALonger ==
  ASSUME NEW seq, IsSequence(seq), NEW x, NEW P, NEW Q,
         \A k \in DOMAIN seq : k \in P <=> k \in Q
  PROVE  Kept(Append(seq, x), Q) = IF Len(seq) + 1 \in Q THEN Append(Kept(seq, P), x) ELSE Kept(seq, P)
<1> DEFINE longer == Append(seq, x)
           n == Len(seq)
           at == Listed(P, n)
           next == Listed(Q, n + 1)
           kept == Kept(seq, P)
           more == Kept(longer, Q)
<1>1. n \in Nat /\ DOMAIN seq = 1..n
  BY SequenceFacts
<1>2. IsSequence(longer) /\ Len(longer) = n + 1 /\ longer[n + 1] = x /\ \A k \in DOMAIN seq : longer[k] = seq[k]
  BY AppendFacts
<1>3. Listed(Q, n) = at
  BY <1>1, ListedSame
<1>4. next = IF n + 1 \in Q THEN Append(at, n + 1) ELSE at
  <2> DEFINE m == n + 1
  <2>1. m \in Nat /\ m # 0 /\ m - 1 = n
    BY <1>1
  <2> HIDE DEF m
  <2>2. Listed(Q, m) = IF m \in Q THEN Append(Listed(Q, m - 1), m) ELSE Listed(Q, m - 1)
    BY <2>1, ListedSteps
  <2>3. Listed(Q, m - 1) = at
    BY <1>3, <2>1
  <2> HIDE DEF at
  <2>4. Listed(Q, m) = IF m \in Q THEN Append(at, m) ELSE at
    BY <2>2, <2>3
  <2> QED
    BY <2>4 DEF m
<1>5. /\ IsSequence(kept) /\ IsSequence(at) /\ kept = [i \in DOMAIN at |-> seq[at[i]]]
      /\ \A i \in DOMAIN at : at[i] \in DOMAIN seq
  BY KeptFacts
<1>6. IsSequence(more) /\ more = [i \in DOMAIN next |-> longer[next[i]]]
  <2>1. next = Listed(Q, Len(longer))
    BY <1>2
  <2> HIDE DEF longer, next
  <2> QED
    BY <1>2, <2>1, KeptFacts
<1>7. Len(at) \in Nat /\ DOMAIN at = 1..Len(at) /\ Len(kept) \in Nat /\ DOMAIN kept = 1..Len(kept)
  BY <1>5, SequenceFacts
<1>8. DOMAIN kept = DOMAIN at
  BY <1>5
<1>9. Len(kept) = Len(at)
  BY <1>7, <1>8, SameLength
<1>10. /\ IsSequence(Append(at, n + 1)) /\ Len(Append(at, n + 1)) = Len(at) + 1
       /\ Append(at, n + 1)[Len(at) + 1] = n + 1 /\ \A i \in DOMAIN at : Append(at, n + 1)[i] = at[i]
  BY <1>5, AppendFacts
<1>11. /\ IsSequence(Append(kept, x)) /\ Len(Append(kept, x)) = Len(kept) + 1
       /\ Append(kept, x)[Len(kept) + 1] = x /\ \A i \in DOMAIN kept : Append(kept, x)[i] = kept[i]
  BY <1>5, AppendFacts
<1>12. DOMAIN Append(at, n + 1) = 1 .. Len(at) + 1 /\ DOMAIN Append(kept, x) = 1 .. Len(at) + 1
  BY <1>9, <1>10, <1>11, SequenceFacts
<1> DEFINE both == Append(kept, x)
<1>13. both = [i \in 1 .. Len(at) + 1 |-> both[i]]
  <2>1. PICK T : both \in Seq(T)
    BY <1>11 DEF IsSequence
  <2>2. both \in [1..Len(both) -> T]
    BY <2>1, LenProperties
  <2> QED
    BY <1>9, <1>11, <2>2
<1> HIDE DEF longer, n, at, next, kept, more, both
<1>14. CASE n + 1 \notin Q
  <2>1. next = at
    BY <1>4, <1>14
  <2>2. \A i \in DOMAIN at : longer[at[i]] = seq[at[i]]
    BY <1>2, <1>5
  <2>3. more = kept
    BY <1>5, <1>6, <2>1, <2>2
  <2> QED
    BY <1>14, <2>3 DEF more, kept, longer, n
<1>15. CASE n + 1 \in Q
  <2>1. next = Append(at, n + 1)
    BY <1>4, <1>15
  <2>2. DOMAIN next = 1 .. Len(at) + 1
    BY <1>12, <2>1
  <2>3. ASSUME NEW i \in 1 .. Len(at) + 1 PROVE longer[next[i]] = both[i]
    <3>1. CASE i = Len(at) + 1
      <4>1. next[i] = n + 1 /\ both[i] = x
        BY <1>9, <1>10, <1>11, <2>1, <3>1 DEF both
      <4> QED
        BY <1>2, <4>1
    <3>2. CASE i # Len(at) + 1
      <4>1. i \in DOMAIN at
        BY <1>7, <3>2
      <4>2. next[i] = at[i] /\ both[i] = kept[i]
        BY <1>8, <1>10, <1>11, <2>1, <4>1 DEF both
      <4> QED
        BY <1>2, <1>5, <4>1, <4>2
    <3> QED
      BY <3>1, <3>2
  <2>4. more = both
    BY <1>6, <1>13, <2>2, <2>3
  <2> QED
    BY <1>15, <2>4 DEF more, kept, longer, n, both
<1> QED
  BY <1>14, <1>15 DEF n, longer, kept, more
-----------------------------------------------------------------------------
(* What a session paid, bar by bar: so does a running sum of it exist, and  *)
(* two of them agree as long as their bars do.                              *)
IsPaying(h, bars, until, n) ==
  h = [k \in 0..n |-> IF k = 0 THEN NothingPaid
                      ELSE IF bars[k].ts <= until THEN AndPaid(h[k - 1], bars[k]) ELSE h[k - 1]]

LEMMA PayingExists ==
  ASSUME NEW n \in Nat, NEW bars, NEW until
  PROVE  \E h : IsPaying(h, bars, until, n)
<1> DEFINE Stuck == {m \in 0..n : ~\E h : IsPaying(h, bars, until, m)}
<1> SUFFICES ASSUME Stuck # {} PROVE FALSE
  OBVIOUS
<1>1. Stuck \in SUBSET Nat
  OBVIOUS
<1> DEFINE m == Min(Stuck)
<1>2. m \in Stuck /\ \A x \in Stuck : m <= x
  BY <1>1, LeastExists
<1>3. m \in 0..n /\ ~\E h : IsPaying(h, bars, until, m)
  BY <1>2
<1>4. m # 0
  <2> SUFFICES ASSUME m = 0 PROVE FALSE
    OBVIOUS
  <2> DEFINE h == [k \in 0..0 |-> NothingPaid]
  <2>1. IsPaying(h, bars, until, 0)
    BY DEF IsPaying
  <2> QED
    BY <1>3, <2>1
<1>5. m - 1 \in 0..n /\ m - 1 \notin Stuck
  <2>1. m - 1 \in 0..n /\ ~(m <= m - 1)
    BY <1>3, <1>4
  <2> HIDE DEF Stuck, m
  <2> QED
    BY <1>2, <2>1
<1>6. PICK h : IsPaying(h, bars, until, m - 1)
  BY <1>5
<1> HIDE DEF Stuck, m
<1> DEFINE next == IF bars[m].ts <= until THEN AndPaid(h[m - 1], bars[m]) ELSE h[m - 1]
           longer == [k \in 0..m |-> IF k = m THEN next ELSE h[k]]
<1>7. IsPaying(longer, bars, until, m)
  <2>1. \A k \in 0 .. m - 1 :
          h[k] = IF k = 0 THEN NothingPaid
                 ELSE IF bars[k].ts <= until THEN AndPaid(h[k - 1], bars[k]) ELSE h[k - 1]
    BY <1>6 DEF IsPaying
  <2>2. m \in 1..n /\ m - 1 \in 0 .. m - 1 /\ m \in Nat
    BY <1>3, <1>4
  <2>3. longer[m] = next /\ longer[m - 1] = h[m - 1]
    BY <2>2
  <2>4. ASSUME NEW k \in 0..m, k # m
        PROVE  k \in 0 .. m - 1 /\ longer[k] = h[k] /\ (k # 0 => longer[k - 1] = h[k - 1])
    BY <2>2, <2>4
  <2>5. longer = [k \in 0..m |-> longer[k]]
    OBVIOUS
  <2> HIDE DEF longer
  <2>6. ASSUME NEW k \in 0..m
        PROVE  longer[k] = IF k = 0 THEN NothingPaid
                           ELSE IF bars[k].ts <= until THEN AndPaid(longer[k - 1], bars[k]) ELSE longer[k - 1]
    <3>1. CASE k = m
      BY <1>4, <2>3, <3>1
    <3>2. CASE k # m
      BY <2>1, <2>4, <3>2
    <3> QED
      BY <3>1, <3>2
  <2> DEFINE G(k) == IF k = 0 THEN NothingPaid
                     ELSE IF bars[k].ts <= until THEN AndPaid(longer[k - 1], bars[k]) ELSE longer[k - 1]
  <2>7. \A k \in 0..m : longer[k] = G(k)
    BY <2>6
  <2>8. longer = [k \in 0..m |-> G(k)]
    <3> HIDE DEF G
    <3> QED
      BY <2>5, <2>7
  <2> QED
    BY <2>8 DEF IsPaying
<1> QED
  BY <1>3, <1>7

LEMMA PayingsAgree ==
  ASSUME NEW n \in Nat, NEW m \in Nat, NEW bars, NEW longer, NEW u, NEW v, NEW h, NEW g,
         IsPaying(h, bars, u, n), IsPaying(g, longer, v, m), NEW top \in 0..n, top <= m,
         \A k \in 1..top : bars[k] = longer[k] /\ (bars[k].ts <= u <=> longer[k].ts <= v)
  PROVE  h[top] = g[top]
<1> DEFINE Differ == {k \in 0..top : h[k] # g[k]}
<1> SUFFICES ASSUME Differ # {} PROVE FALSE
  OBVIOUS
<1> DEFINE k == Min(Differ)
<1>1. Differ \in SUBSET Nat
  OBVIOUS
<1>2. k \in Differ /\ \A x \in Differ : k <= x
  BY <1>1, LeastExists
<1> HIDE DEF k
<1>3. k \in 0..top /\ h[k] # g[k] /\ k \in 0..n /\ k \in 0..m
  BY <1>2
<1>4. k # 0
  <2>1. h[0] = NothingPaid /\ g[0] = NothingPaid
    BY DEF IsPaying
  <2> QED
    BY <1>3, <2>1
<1>5. k - 1 \in 0..top /\ ~(k <= k - 1)
  BY <1>3, <1>4
<1>6. h[k - 1] = g[k - 1]
  BY <1>2, <1>5
<1>7. bars[k] = longer[k] /\ (bars[k].ts <= u <=> longer[k].ts <= v)
  BY <1>3, <1>4
<1>8. h[k] = IF bars[k].ts <= u THEN AndPaid(h[k - 1], bars[k]) ELSE h[k - 1]
  BY <1>3, <1>4 DEF IsPaying
<1>9. g[k] = IF longer[k].ts <= v THEN AndPaid(g[k - 1], longer[k]) ELSE g[k - 1]
  BY <1>3, <1>4 DEF IsPaying
<1> QED
  BY <1>3, <1>6, <1>7, <1>8, <1>9

LEMMA SessionPaidIsPaying ==
  ASSUME NEW bars, Len(bars) \in Nat, NEW until
  PROVE  \E h : IsPaying(h, bars, until, Len(bars)) /\ SessionPaid(bars, until) = h[Len(bars)]
<1> DEFINE n == Len(bars)
           paid == CHOOSE h : h = [k \in 0..n |->
             IF k = 0 THEN NothingPaid
             ELSE IF bars[k].ts <= until THEN AndPaid(h[k - 1], bars[k]) ELSE h[k - 1]]
<1>1. SessionPaid(bars, until) = paid[n]
  BY DEF SessionPaid
<1>2. PICK h : IsPaying(h, bars, until, n)
  BY PayingExists
<1>3. h = [k \in 0..n |-> IF k = 0 THEN NothingPaid
                         ELSE IF bars[k].ts <= until THEN AndPaid(h[k - 1], bars[k]) ELSE h[k - 1]]
  BY <1>2 DEF IsPaying
<1>4. IsPaying(paid, bars, until, n)
  BY <1>3, Zenon DEF IsPaying
<1> QED
  BY <1>1, <1>4

LEMMA PaidSame ==
  ASSUME NEW bars, IsSequence(bars), NEW u, NEW v, \A k \in DOMAIN bars : bars[k].ts <= u <=> bars[k].ts <= v
  PROVE  SessionPaid(bars, u) = SessionPaid(bars, v)
<1> DEFINE n == Len(bars)
<1>1. n \in Nat /\ n \in 0..n /\ n <= n /\ DOMAIN bars = 1..n
  BY SequenceFacts
<1>2. PICK h : IsPaying(h, bars, u, n) /\ SessionPaid(bars, u) = h[n]
  BY <1>1, SessionPaidIsPaying
<1>3. PICK g : IsPaying(g, bars, v, n) /\ SessionPaid(bars, v) = g[n]
  BY <1>1, SessionPaidIsPaying
<1>4. \A k \in 1..n : bars[k] = bars[k] /\ (bars[k].ts <= u <=> bars[k].ts <= v)
  BY <1>1
<1> HIDE DEF n
<1>5. h[n] = g[n]
  BY <1>1, <1>2, <1>3, <1>4, PayingsAgree
<1> QED
  BY <1>2, <1>3, <1>5

LEMMA PaidOfNothing ==
  ASSUME NEW bars, Len(bars) = 0, NEW until
  PROVE  SessionPaid(bars, until) = NothingPaid
<1>1. PICK h : IsPaying(h, bars, until, Len(bars)) /\ SessionPaid(bars, until) = h[Len(bars)]
  BY SessionPaidIsPaying
<1> QED
  BY <1>1 DEF IsPaying

LEMMA PaidOfALonger ==
  ASSUME NEW bars, IsSequence(bars), NEW bar, NEW u
  PROVE  SessionPaid(Append(bars, bar), u) = IF bar.ts <= u THEN AndPaid(SessionPaid(bars, u), bar)
                                             ELSE SessionPaid(bars, u)
<1> DEFINE n == Len(bars)
           longer == Append(bars, bar)
           m == n + 1
<1>1. n \in Nat /\ n \in 0..n /\ DOMAIN bars = 1..n
  BY SequenceFacts
<1>2. Len(longer) = m /\ longer[m] = bar /\ \A k \in DOMAIN bars : longer[k] = bars[k]
  BY AppendFacts
<1>3. PICK h : IsPaying(h, bars, u, n) /\ SessionPaid(bars, u) = h[n]
  BY <1>1, SessionPaidIsPaying
<1> HIDE DEF longer
<1>4. m \in Nat /\ m # 0 /\ m - 1 = n /\ n <= m /\ m \in 0..m
  BY <1>1
<1>5. PICK g : IsPaying(g, longer, u, m) /\ SessionPaid(longer, u) = g[m]
  BY <1>2, <1>4, SessionPaidIsPaying
<1>6. \A k \in 1..n : bars[k] = longer[k] /\ (bars[k].ts <= u <=> longer[k].ts <= u)
  BY <1>1, <1>2
<1> HIDE DEF n, m
<1>7. h[n] = g[n]
  BY <1>1, <1>3, <1>4, <1>5, <1>6, PayingsAgree
<1>8. g[m] = IF longer[m].ts <= u THEN AndPaid(g[m - 1], longer[m]) ELSE g[m - 1]
  BY <1>4, <1>5 DEF IsPaying
<1>9. SessionPaid(longer, u) = IF bar.ts <= u THEN AndPaid(SessionPaid(bars, u), bar) ELSE SessionPaid(bars, u)
  BY <1>2, <1>3, <1>4, <1>5, <1>7, <1>8
<1> QED
  BY <1>9 DEF longer
-----------------------------------------------------------------------------
(* The newest of a sequence, and of one that is written element by element. *)
LEMMA SameSequence ==
  ASSUME NEW a, NEW b, IsSequence(a), IsSequence(b), Len(a) = Len(b), \A i \in 1..Len(a) : a[i] = b[i]
  PROVE  a = b
<1>1. PICK S : a \in Seq(S)
  BY DEF IsSequence
<1>2. PICK T : b \in Seq(T)
  BY DEF IsSequence
<1>3. a \in [1..Len(a) -> S] /\ b \in [1..Len(b) -> T]
  BY <1>1, <1>2, LenProperties
<1> QED
  BY <1>3

Shorter(n, m) == IF n <= m THEN n ELSE m
IsNewest(s, t, m, k, n) ==
  /\ IsSequence(s) /\ Len(s) = k /\ DOMAIN s = 1..k
  /\ m \in Nat /\ DOMAIN t = 1..m /\ k \in 0..m /\ k <= n
  /\ \A i \in 1..k : i + (m - k) \in DOMAIN t /\ s[i] = t[i + (m - k)]

LEMMA NewestFacts ==
  ASSUME NEW seq, IsSequence(seq), NEW n \in Nat
  PROVE  IsNewest(Newest(seq, n), seq, Len(seq), Shorter(Len(seq), n), n)
<1> DEFINE short == Newest(seq, n)
           all == Len(seq)
           kept == Shorter(all, n)
<1>1. all \in Nat /\ DOMAIN seq = 1..all
  BY SequenceFacts
<1>2. PICK T : seq \in Seq(T)
  BY DEF IsSequence
<1>3. CASE all <= n
  <2>1. short = seq
    BY <1>3 DEF Newest
  <2>2. kept = all
    BY <1>3 DEF Shorter
  <2> HIDE DEF short, kept, all
  <2>3. \A i \in 1..kept : i + (all - kept) = i
    BY <1>1, <2>2
  <2>4. all \in 0..all /\ all <= n
    BY <1>1, <1>3
  <2> QED
    BY <1>1, <2>1, <2>2, <2>3, <2>4 DEF IsNewest, short, kept, all
<1>4. CASE ~(all <= n)
  <2> DEFINE f == all - n + 1
  <2>1. short = SubSeq(seq, f, all)
    BY <1>4 DEF Newest
  <2>2. kept = n
    BY <1>4 DEF Shorter
  <2> HIDE DEF short, kept
  <2>3. f \in 1 .. all + 1 /\ f \in Int /\ all \in f - 1 .. all /\ all - f + 1 = n
    BY <1>1, <1>4
  <2>4. short \in Seq(T)
    <3> HIDE DEF f, all
    <3>1. \A i \in f..all : seq[i] \in T
      <4> SUFFICES ASSUME NEW i \in f..all PROVE seq[i] \in T
        OBVIOUS
      <4>1. i \in 1..all
        BY <1>1, <2>3
      <4> QED
        BY <1>2, <4>1, ElementOfSeq DEF all
    <3> QED
      BY <1>1, <1>2, <2>1, <2>3, SubSeqProperties DEF all
  <2>5. Len(short) = n /\ \A i \in 1..n : short[i] = seq[f + i - 1]
    <3> HIDE DEF f
    <3>1. Len(short) = IF f <= all THEN all - f + 1 ELSE 0
      BY <1>1, <1>2, <2>1, <2>3, SubSeqProperties
    <3>2. \A i \in 1 .. all - f + 1 : short[i] = seq[f + i - 1]
      BY <1>1, <1>2, <2>1, <2>3, SubSeqProperties
    <3> HIDE DEF all
    <3>3. Len(short) = n
      BY <1>1, <2>3, <3>1
    <3> QED
      BY <2>3, <3>2, <3>3
  <2>6. IsSequence(short)
    BY <2>4 DEF IsSequence
  <2>7. DOMAIN short = 1..n
    BY <2>5, <2>6, SequenceFacts
  <2>8. \A i \in 1..n : i + (all - n) \in 1..all /\ i + (all - n) = f + i - 1
    BY <1>1, <1>4
  <2>9. n \in 0..all /\ n <= n
    BY <1>1, <1>4
  <2> HIDE DEF f, all
  <2> QED
    BY <1>1, <2>2, <2>5, <2>6, <2>7, <2>8, <2>9 DEF IsNewest, short, kept, all
<1> QED
  BY <1>3, <1>4

(* Forgetting the oldest early or late is the same. *)
LEMMA NewestOfALonger ==
  ASSUME NEW seq, IsSequence(seq), NEW n \in Nat, NEW x
  PROVE  Newest(Append(Newest(seq, n), x), n) = Newest(Append(seq, x), n)
<1> DEFINE short == Newest(seq, n)
           a == Append(short, x)
           b == Append(seq, x)
           all == Len(seq)
           kept == Shorter(all, n)
<1>1. /\ IsSequence(short) /\ Len(short) = kept /\ DOMAIN short = 1..kept
      /\ all \in Nat /\ DOMAIN seq = 1..all /\ kept \in 0..all /\ kept <= n
      /\ \A i \in 1..kept : i + (all - kept) \in DOMAIN seq /\ short[i] = seq[i + (all - kept)]
  <2>1. IsNewest(short, seq, all, kept, n)
    BY NewestFacts
  <2> HIDE DEF short, all, kept
  <2> QED
    BY <2>1 DEF IsNewest
<1> HIDE DEF short
<1>2. /\ IsSequence(a) /\ Len(a) = kept + 1 /\ a[kept + 1] = x
      /\ \A i \in 1..kept : a[i] = short[i]
  BY <1>1, AppendFacts
<1>3. /\ IsSequence(b) /\ Len(b) = all + 1 /\ b[all + 1] = x
      /\ \A i \in 1..all : b[i] = seq[i]
  BY <1>1, AppendFacts
<1> DEFINE na == Newest(a, n)
           nb == Newest(b, n)
           la == kept + 1
           lb == all + 1
           ka == Shorter(la, n)
           kb == Shorter(lb, n)
<1> HIDE DEF a, b
<1>4. /\ IsSequence(na) /\ Len(na) = ka /\ ka \in 0..la
      /\ \A i \in 1..ka : i + (la - ka) \in DOMAIN a /\ na[i] = a[i + (la - ka)]
  <2>1. IsNewest(na, a, Len(a), Shorter(Len(a), n), n)
    BY <1>2, NewestFacts
  <2>2. IsNewest(na, a, la, ka, n)
    BY <1>2, <2>1
  <2> HIDE DEF na, ka, la
  <2>3. IsSequence(na) /\ Len(na) = ka /\ ka \in 0..la
    BY <2>2 DEF IsNewest
  <2>4. \A i \in 1..ka : i + (la - ka) \in DOMAIN a /\ na[i] = a[i + (la - ka)]
    BY <2>2 DEF IsNewest
  <2> QED
    BY <2>3, <2>4
<1>5. /\ IsSequence(nb) /\ Len(nb) = kb /\ kb \in 0..lb
      /\ \A i \in 1..kb : i + (lb - kb) \in DOMAIN b /\ nb[i] = b[i + (lb - kb)]
  <2>1. IsNewest(nb, b, Len(b), Shorter(Len(b), n), n)
    BY <1>3, NewestFacts
  <2>2. IsNewest(nb, b, lb, kb, n)
    BY <1>3, <2>1
  <2> HIDE DEF nb, kb, lb
  <2>3. IsSequence(nb) /\ Len(nb) = kb /\ kb \in 0..lb
    BY <2>2 DEF IsNewest
  <2>4. \A i \in 1..kb : i + (lb - kb) \in DOMAIN b /\ nb[i] = b[i + (lb - kb)]
    BY <2>2 DEF IsNewest
  <2> QED
    BY <2>3, <2>4
<1>6. kept = IF all <= n THEN all ELSE n
  BY DEF Shorter
<1>7. ka = IF kept + 1 <= n THEN kept + 1 ELSE n
  BY DEF Shorter
<1>8. kb = IF all + 1 <= n THEN all + 1 ELSE n
  BY DEF Shorter
<1>0. la = kept + 1 /\ lb = all + 1
  OBVIOUS
<1> HIDE DEF na, nb, ka, kb, la, lb, kept, all
<1>9. kept \in Nat /\ ka \in Nat /\ kb \in Nat /\ ka = kb
  BY <1>0, <1>1, <1>4, <1>5, <1>6, <1>7, <1>8
<1>10. ASSUME NEW i \in 1..ka PROVE na[i] = nb[i]
  <2> DEFINE p == i + (la - ka)
             q == i + (lb - kb)
  <2>1. na[i] = a[p] /\ nb[i] = b[q]
    BY <1>4, <1>5, <1>9
  <2>2. /\ p \in 1 .. kept + 1 /\ (p = kept + 1 <=> q = all + 1)
        /\ p # kept + 1 => p \in 1..kept /\ q \in 1..all /\ q = p + (all - kept)
    <3>1. i \in Nat /\ 1 <= i /\ i <= ka
      BY <1>9, <1>10
    <3>2. CASE all + 1 <= n
      <4>1. kept = all /\ ka = kept + 1 /\ kb = all + 1
        BY <1>1, <1>6, <1>7, <1>8, <3>2
      <4>2. p = i /\ q = i
        BY <1>0, <1>1, <1>9, <3>1, <4>1
      <4> HIDE DEF p, q
      <4> QED
        BY <1>1, <3>1, <4>1, <4>2
    <3>3. CASE all = n
      <4>1. kept = all /\ ka = n /\ kb = n
        BY <1>1, <1>6, <1>7, <1>8, <3>3
      <4>2. p = i + 1 /\ q = i + 1
        BY <1>0, <1>1, <1>9, <3>1, <3>3, <4>1
      <4> HIDE DEF p, q
      <4> QED
        BY <1>1, <3>1, <3>3, <4>1, <4>2
    <3>4. CASE ~(all <= n)
      <4>1. kept = n /\ ka = n /\ kb = n
        BY <1>1, <1>6, <1>7, <1>8, <3>4
      <4>2. p = i + 1 /\ q = i + 1 + (all - n)
        BY <1>0, <1>1, <1>9, <3>1, <4>1
      <4> HIDE DEF p, q
      <4> QED
        BY <1>1, <3>1, <3>4, <4>1, <4>2
    <3> QED
      BY <1>1, <3>2, <3>3, <3>4
  <2> HIDE DEF p, q
  <2>3. CASE p = kept + 1
    BY <1>2, <1>3, <2>1, <2>2, <2>3
  <2>4. CASE p # kept + 1
    <3>1. p \in 1..kept /\ q \in 1..all /\ q = p + (all - kept)
      BY <2>2, <2>4
    <3>2. a[p] = short[p] /\ b[q] = seq[q]
      BY <1>2, <1>3, <3>1
    <3>3. short[p] = seq[p + (all - kept)]
      BY <1>1, <3>1
    <3> QED
      BY <2>1, <3>1, <3>2, <3>3
  <2> QED
    BY <2>3, <2>4
<1>11. na = nb
  BY <1>4, <1>5, <1>9, <1>10, SameSequence
<1> QED
  BY <1>11 DEF na, nb, a, b, short
-----------------------------------------------------------------------------
(* The extremes of a session, of a bar more. *)
LEMMA TheGreatest ==
  ASSUME NEW S, NEW m \in S, \A y \in S : m >= y, S \subseteq Int
  PROVE  Max(S) = m
<1>1. \E x \in S : \A y \in S : x >= y
  OBVIOUS
<1>2. Max(S) \in S /\ \A y \in S : Max(S) >= y
  BY <1>1, Zenon DEF Max
<1> DEFINE top == Max(S)
<1> HIDE DEF top
<1>3. top \in S /\ top >= m /\ m >= top
  BY <1>2 DEF top
<1>4. top \in Int /\ m \in Int
  BY <1>3
<1>5. top = m
  BY <1>3, <1>4
<1> QED
  BY <1>5 DEF top

LEMMA TheLeast ==
  ASSUME NEW S, NEW m \in S, \A y \in S : m <= y, S \subseteq Int
  PROVE  Min(S) = m
<1>1. \E x \in S : \A y \in S : x <= y
  OBVIOUS
<1>2. Min(S) \in S /\ \A y \in S : Min(S) <= y
  BY <1>1, Zenon DEF Min
<1> DEFINE bottom == Min(S)
<1> HIDE DEF bottom
<1>3. bottom \in S /\ bottom <= m /\ m <= bottom
  BY <1>2 DEF bottom
<1>4. bottom \in Int /\ m \in Int
  BY <1>3
<1>5. bottom = m
  BY <1>3, <1>4
<1> QED
  BY <1>5 DEF bottom

LEMMA ExtremesAreReached ==
  ASSUME NEW bars, NEW until, IsTape(bars, until), DOMAIN bars # {}
  PROVE  /\ \E i \in DOMAIN bars : HighestOf(bars) = bars[i].high
         /\ \E i \in DOMAIN bars : LowestOf(bars) = bars[i].low
         /\ HighestOf(bars) \in Nat /\ LowestOf(bars) \in Nat
         /\ \A i \in DOMAIN bars : HighestOf(bars) >= bars[i].high /\ LowestOf(bars) <= bars[i].low
<1> DEFINE I == DOMAIN bars
           highs == {bars[i].high : i \in I}
           lows == {bars[i].low : i \in I}
<1>1. \A i \in I : bars[i].high \in Nat /\ bars[i].low \in Nat
  BY DEF IsTape, IsShape
<1>2. IsFiniteSet(I)
  <2>1. I = 1..Len(bars) /\ Len(bars) \in Nat
    BY SequenceFacts DEF IsTape
  <2> QED
    BY <2>1, FS_Interval
<1>3. I # {}
  OBVIOUS
<1> HIDE DEF I
<1>4. highs \in SUBSET Nat /\ highs # {} /\ lows \in SUBSET Nat /\ lows # {}
  BY <1>1, <1>3
<1>5. IsFiniteSet(highs)
  <2> DEFINE high == [k \in I |-> bars[k].high]
  <2>1. high \in Surjection(I, highs)
    BY DEF Surjection
  <2> HIDE DEF high, highs
  <2> QED
    BY <1>2, <2>1, FS_Surjection
<1>6. Max(highs) \in highs /\ \A v \in highs : v <= Max(highs)
  BY <1>4, <1>5, GreatestExists
<1>7. Min(lows) \in lows /\ \A v \in lows : Min(lows) <= v
  BY <1>4, LeastExists
<1>8. HighestOf(bars) = Max(highs) /\ LowestOf(bars) = Min(lows)
  BY DEF HighestOf, LowestOf, I
<1> DEFINE top == Max(highs)
           bottom == Min(lows)
<1> HIDE DEF top, bottom
<1>9. top \in highs /\ (\A v \in highs : v <= top) /\ bottom \in lows /\ \A v \in lows : bottom <= v
  BY <1>6, <1>7 DEF top, bottom
<1>10. /\ \E i \in I : top = bars[i].high
       /\ \E i \in I : bottom = bars[i].low
       /\ \A i \in I : bars[i].high <= top /\ bottom <= bars[i].low
  BY <1>9
<1>11. top \in Nat /\ bottom \in Nat
  BY <1>1, <1>10
<1>12. \A i \in I : top >= bars[i].high /\ bottom <= bars[i].low
  BY <1>1, <1>10, <1>11
<1> QED
  BY <1>8, <1>10, <1>11, <1>12 DEF top, bottom, I

LEMMA ExtremesOfALonger ==
  ASSUME NEW bars, NEW until, IsTape(bars, until), NEW bar, IsShape(bar)
  PROVE  LET longer == Append(bars, bar)
         IN /\ DOMAIN bars # {} => /\ HighestOf(longer) = Max({HighestOf(bars), bar.high})
                                   /\ LowestOf(longer) = Min({LowestOf(bars), bar.low})
            /\ DOMAIN bars = {} => HighestOf(longer) = bar.high /\ LowestOf(longer) = bar.low
<1> DEFINE longer == Append(bars, bar)
           n == Len(bars)
           highs == {longer[i].high : i \in DOMAIN longer}
           lows == {longer[i].low : i \in DOMAIN longer}
<1>1. n \in Nat /\ DOMAIN bars = 1..n /\ IsSequence(bars)
  BY SequenceFacts DEF IsTape
<1>2. DOMAIN longer = 1 .. n + 1 /\ longer[n + 1] = bar /\ \A k \in DOMAIN bars : longer[k] = bars[k]
  <2>1. IsSequence(longer) /\ Len(longer) = n + 1 /\ longer[n + 1] = bar /\ \A k \in DOMAIN bars : longer[k] = bars[k]
    BY <1>1, AppendFacts
  <2> HIDE DEF longer, n
  <2> QED
    BY <2>1, SequenceFacts
<1>3. HighestOf(longer) = Max(highs) /\ LowestOf(longer) = Min(lows)
  BY DEF HighestOf, LowestOf
<1> HIDE DEF longer, n
<1>4. \A k \in DOMAIN longer : k = n + 1 \/ k \in DOMAIN bars
  BY <1>1, <1>2
<1>5. n + 1 \in DOMAIN longer /\ \A k \in DOMAIN bars : k \in DOMAIN longer
  BY <1>1, <1>2
<1>6. bar.high \in Nat /\ bar.low \in Nat /\ \A k \in DOMAIN bars : bars[k].high \in Nat /\ bars[k].low \in Nat
  BY DEF IsTape, IsShape
<1>7. highs = {bars[k].high : k \in DOMAIN bars} \cup {bar.high}
  BY <1>2, <1>4, <1>5
<1>8. lows = {bars[k].low : k \in DOMAIN bars} \cup {bar.low}
  BY <1>2, <1>4, <1>5
<1>9. highs \subseteq Int /\ lows \subseteq Int
  <2>1. highs \subseteq Int
    BY <1>6, <1>7
  <2>2. lows \subseteq Int
    BY <1>6, <1>8
  <2> QED
    BY <2>1, <2>2
<1> HIDE DEF highs, lows
<1>10. ASSUME DOMAIN bars # {}
       PROVE  HighestOf(longer) = Max({HighestOf(bars), bar.high}) /\ LowestOf(longer) = Min({LowestOf(bars), bar.low})
  <2> DEFINE top == HighestOf(bars)
             bottom == LowestOf(bars)
  <2>1. /\ \E i \in DOMAIN bars : top = bars[i].high
        /\ \E i \in DOMAIN bars : bottom = bars[i].low
        /\ top \in Nat /\ bottom \in Nat
        /\ \A i \in DOMAIN bars : top >= bars[i].high /\ bottom <= bars[i].low
    BY <1>10, ExtremesAreReached
  <2> HIDE DEF top, bottom
  <2> DEFINE high == Max({top, bar.high})
             low == Min({bottom, bar.low})
  <2>2. high \in {top, bar.high} /\ high >= top /\ high >= bar.high
    <3>1. top \in Int /\ bar.high \in Int
      BY <1>6, <2>1
    <3> QED
      BY <3>1, MaxOfTwo
  <2>3. low \in {bottom, bar.low} /\ low <= bottom /\ low <= bar.low
    <3>1. bottom \in Int /\ bar.low \in Int
      BY <1>6, <2>1
    <3> QED
      BY <3>1, MinOfTwo
  <2> HIDE DEF high, low
  <2>4. high \in highs /\ \A y \in highs : high >= y
    BY <1>6, <1>7, <2>1, <2>2
  <2>5. low \in lows /\ \A y \in lows : low <= y
    BY <1>6, <1>8, <2>1, <2>3
  <2>6. Max(highs) = high
    BY <1>9, <2>4, TheGreatest
  <2>7. Min(lows) = low
    BY <1>9, <2>5, TheLeast
  <2> QED
    BY <1>3, <2>6, <2>7 DEF high, low, top, bottom
<1>11. ASSUME DOMAIN bars = {} PROVE HighestOf(longer) = bar.high /\ LowestOf(longer) = bar.low
  <2>1. highs = {bar.high} /\ lows = {bar.low}
    BY <1>7, <1>8, <1>11
  <2>2. Max(highs) = bar.high
    BY <1>6, <1>9, <2>1, TheGreatest
  <2>3. Min(lows) = bar.low
    BY <1>6, <1>9, <2>1, TheLeast
  <2> QED
    BY <1>3, <2>2, <2>3
<1> QED
  BY <1>10, <1>11 DEF longer
-----------------------------------------------------------------------------
(* The rest of what one bar makes of a book. *)
UpdatesTheRest(after, today, bar, d) ==
  LET l == after.levels
      before == today.levels
      minute == bar.ts - Days[d].open
      start == IF before = NoLevels THEN bar.open ELSE before.session_open
  IN /\ after.session_moves = With(today.session_moves, minute, MoveFrom(start, bar.close))
     /\ after.session_volumes = With(today.session_volumes, minute, after.paid.volume)
     /\ after.ranges = today.ranges /\ after.moves = today.moves /\ after.volumes = today.volumes
     /\ l.high = IF before = NoLevels THEN bar.high ELSE Max({before.high, bar.high})
     /\ l.low = IF before = NoLevels THEN bar.low ELSE Min({before.low, bar.low})
     /\ l.prior_range_mean = RangeMean(after)
     /\ l.mean_move = MeanMove(after, minute)
     /\ l.relative_volume = RelativeVolume(after, minute)

LEMMA UpdateTheRest ==
  ASSUME NEW book, DOMAIN book = BookFields, NEW bar, NEW d \in DOMAIN Days, NEW today,
         today = IF book.session = Days[d].open THEN book ELSE Roll(book, Days[d])
  PROVE  UpdatesTheRest(Update(book, bar, Days[d]), today, bar, d)
<1> DEFINE s == Days[d]
           after == Update(book, bar, s)
           minute == bar.ts - s.open
           before == today.levels
           start == IF before = NoLevels THEN bar.open ELSE before.session_open
           paid == AndPaid(today.paid, bar)
           moves == With(today.session_moves, minute, MoveFrom(start, bar.close))
           volumes == With(today.session_volumes, minute, paid.volume)
           folded == [today EXCEPT
             !.paid = paid,
             !.opening = IF Len(@) < Max(OpeningWindows) THEN Append(@, bar) ELSE @,
             !.session_moves = With(@, minute, MoveFrom(start, bar.close)),
             !.session_volumes = With(@, minute, paid.volume)]
           l == LevelsAfterBar(folded, before, bar, s)
<1>1. DOMAIN today = BookFields
  BY RolledFields
<1>2. after = [folded EXCEPT !.levels = l]
  BY DayFields DEF Update, NoSession
<1> HIDE DEF after, paid, start, minute
<1>3. /\ DOMAIN folded = BookFields /\ folded.paid = paid
      /\ folded.ranges = today.ranges /\ folded.moves = today.moves /\ folded.volumes = today.volumes
      /\ folded.session_moves = moves /\ folded.session_volumes = volumes
  BY <1>1 DEF BookFields
<1> HIDE DEF folded, moves, volumes
<1>4. /\ l.high = IF before = NoLevels THEN bar.high ELSE Max({before.high, bar.high})
      /\ l.low = IF before = NoLevels THEN bar.low ELSE Min({before.low, bar.low})
      /\ l.prior_range_mean = RangeMean(folded)
      /\ l.mean_move = MeanMove(folded, minute)
      /\ l.relative_volume = RelativeVolume(folded, minute)
  BY DEF LevelsAfterBar, minute
<1> HIDE DEF l, before
<1>5. /\ after.levels = l /\ after.paid = folded.paid
      /\ after.ranges = folded.ranges /\ after.moves = folded.moves /\ after.volumes = folded.volumes
      /\ after.session_moves = folded.session_moves /\ after.session_volumes = folded.session_volumes
  BY <1>2, <1>3 DEF BookFields
<1>6. RangeMean(after) = RangeMean(folded)
  BY <1>5 DEF RangeMean
<1>7. MeanMove(after, minute) = MeanMove(folded, minute)
  BY <1>5 DEF MeanMove
<1>8. RelativeVolume(after, minute) = RelativeVolume(folded, minute)
  BY <1>5 DEF RelativeVolume
<1>9. after.session_moves = moves /\ after.session_volumes = volumes /\ after.paid = paid
  BY <1>3, <1>5
<1>10. after.ranges = today.ranges /\ after.moves = today.moves /\ after.volumes = today.volumes
  BY <1>3, <1>5
<1>11. /\ after.levels.high = IF before = NoLevels THEN bar.high ELSE Max({before.high, bar.high})
       /\ after.levels.low = IF before = NoLevels THEN bar.low ELSE Min({before.low, bar.low})
       /\ after.levels.prior_range_mean = RangeMean(after)
       /\ after.levels.mean_move = MeanMove(after, minute)
       /\ after.levels.relative_volume = RelativeVolume(after, minute)
  BY <1>4, <1>5, <1>6, <1>7, <1>8
<1>12. after.session_volumes = With(today.session_volumes, minute, after.paid.volume)
  BY <1>9 DEF volumes
<1> QED
  BY <1>9, <1>10, <1>11, <1>12 DEF UpdatesTheRest, after, moves, minute, before, start
-----------------------------------------------------------------------------
(* The bars of the days of a tape, and what is said of them. *)
Held(bars, d) == Kept(bars, OfDay(bars, d))
HeldDays(bars) == [e \in DOMAIN Days |-> Held(bars, e)]
Before(held, d) == Listed({e \in DOMAIN Days : held[e] # <<>>}, d - 1)

Minutes(bars, e) == {bars[j].ts - Days[e].open : j \in DOMAIN bars}
MovesOf(bars, e) == [m \in Minutes(bars, e) |-> MoveBy(bars, e, m)]
VolumesOf(bars, e) == [m \in Minutes(bars, e) |-> PaidBy(bars, e, m).volume]
Spans(held, days) == [i \in DOMAIN days |-> SpanOf(held[days[i]])]
MoveProfiles(held, days) == [i \in DOMAIN days |-> MovesOf(held[days[i]], days[i])]
VolumeProfiles(held, days) == [i \in DOMAIN days |-> VolumesOf(held[days[i]], days[i])]

(* What a book carries of the days before, and follows of its own. *)
Carries(book, held, before) ==
  /\ book.prior_close = IF before = <<>> THEN None ELSE Last(held[Last(before)]).close
  /\ book.ranges = Newest(Spans(held, before), RangeMemory)
  /\ book.moves = Newest(MoveProfiles(held, before), MoveMemory)
  /\ book.volumes = Newest(VolumeProfiles(held, before), VolumeMemory)
Follows(book, bars, d) ==
  /\ DOMAIN book.session_moves = Minutes(bars, d) /\ DOMAIN book.session_volumes = Minutes(bars, d)
  /\ \A m \in Minutes(bars, d) : /\ book.session_moves[m] = MoveBy(bars, d, m)
                                 /\ book.session_volumes[m] = PaidBy(bars, d, m).volume
Spanned(l, bars) ==
  l.session_open = bars[1].open /\ l.high = HighestOf(bars) /\ l.low = LowestOf(bars)

(* A book that stands where its session does, before the next bar. *)
Stands(book, bars, d, until) ==
  /\ Follows(book, bars, d) /\ book.paid = SessionPaid(bars, until)
  /\ IF DOMAIN bars = {} THEN book.levels = NoLevels ELSE book.levels # NoLevels /\ Spanned(book.levels, bars)

(* The levels, and all that a book holds, as the days of the tape have it. *)
Levels(book, bars, d) ==
  LET l == book.levels
      minute == Last(bars).ts - Days[d].open
  IN /\ Spanned(l, bars) /\ l.close = Last(bars).close
     /\ l.paid = book.paid /\ l.prior_close = book.prior_close
     /\ l.prior_range_mean = RangeMean(book)
     /\ l.mean_move = MeanMove(book, minute) /\ l.relative_volume = RelativeVolume(book, minute)
-----------------------------------------------------------------------------
(* A minute of a session is one of its bars. *)
LEMMA BarAtMinute ==
  ASSUME NEW bars, NEW until, IsTape(bars, until), NEW d \in DOMAIN Days, NEW j \in DOMAIN bars
  PROVE  MoveBy(bars, d, bars[j].ts - Days[d].open) = MoveFrom(bars[1].open, bars[j].close)
<1> DEFINE m == bars[j].ts - Days[d].open
           at == CHOOSE k \in DOMAIN bars : IsAtMinute(bars[k], d, m)
<1>1. IsAtMinute(bars[j], d, m)
  BY DEF IsAtMinute
<1>2. at \in DOMAIN bars /\ IsAtMinute(bars[at], d, m)
  BY <1>1
<1>3. MoveBy(bars, d, m) = MoveFrom(bars[1].open, bars[at].close)
  BY DEF MoveBy
<1> HIDE DEF at
<1>4. bars[at].ts \in Nat /\ bars[j].ts \in Nat /\ Days[d].open \in Nat
  BY <1>2, DayFields DEF IsTape
<1>5. bars[at].ts = bars[j].ts
  BY <1>2, <1>4 DEF IsAtMinute
<1>6. DOMAIN bars = 1..Len(bars) /\ Len(bars) \in Nat
  BY SequenceFacts DEF IsTape
<1>7. ~(at < j) /\ ~(j < at)
  BY <1>2, <1>4, <1>5 DEF IsTape
<1>8. at = j
  BY <1>2, <1>6, <1>7
<1> QED
  BY <1>3, <1>8 DEF m

LEMMA MinutesOfALonger ==
  ASSUME NEW bars, NEW until \in Nat, IsTape(bars, until), NEW bar, bar.ts \in Nat, until < bar.ts,
         NEW d \in DOMAIN Days
  PROVE  LET minute == bar.ts - Days[d].open
         IN Minutes(Append(bars, bar), d) = Minutes(bars, d) \cup {minute} /\ minute \notin Minutes(bars, d)
<1> DEFINE longer == Append(bars, bar)
           minute == bar.ts - Days[d].open
           n == Len(bars)
<1>1. n \in Nat /\ DOMAIN bars = 1..n /\ IsSequence(bars)
  BY SequenceFacts DEF IsTape
<1>2. DOMAIN longer = 1 .. n + 1 /\ longer[n + 1] = bar /\ \A k \in DOMAIN bars : longer[k] = bars[k]
  <2>1. IsSequence(longer) /\ Len(longer) = n + 1 /\ longer[n + 1] = bar /\ \A k \in DOMAIN bars : longer[k] = bars[k]
    BY <1>1, AppendFacts
  <2> HIDE DEF longer, n
  <2> QED
    BY <2>1, SequenceFacts
<1> HIDE DEF longer, n
<1>3. \A k \in DOMAIN longer : k = n + 1 \/ k \in DOMAIN bars
  BY <1>1, <1>2
<1>4. n + 1 \in DOMAIN longer /\ \A k \in DOMAIN bars : k \in DOMAIN longer
  BY <1>1, <1>2
<1>5. Minutes(longer, d) = Minutes(bars, d) \cup {minute}
  <2>1. ASSUME NEW m \in Minutes(longer, d) PROVE m \in Minutes(bars, d) \cup {minute}
    <3>1. PICK k \in DOMAIN longer : m = longer[k].ts - Days[d].open
      BY DEF Minutes
    <3>2. CASE k = n + 1
      BY <1>2, <3>1, <3>2
    <3>3. CASE k \in DOMAIN bars
      BY <1>2, <3>1, <3>3 DEF Minutes
    <3> QED
      BY <1>3, <3>2, <3>3
  <2>2. ASSUME NEW m \in Minutes(bars, d) PROVE m \in Minutes(longer, d)
    <3>1. PICK k \in DOMAIN bars : m = bars[k].ts - Days[d].open
      BY DEF Minutes
    <3> QED
      BY <1>2, <1>4, <3>1 DEF Minutes
  <2>3. minute \in Minutes(longer, d)
    BY <1>2, <1>4 DEF Minutes
  <2> QED
    BY <2>1, <2>2, <2>3
<1>6. minute \notin Minutes(bars, d)
  <2> SUFFICES ASSUME NEW k \in DOMAIN bars, minute = bars[k].ts - Days[d].open PROVE FALSE
    BY DEF Minutes
  <2>1. bars[k].ts \in Nat /\ bars[k].ts <= until /\ Days[d].open \in Nat
    BY DayFields DEF IsTape
  <2> QED
    BY <2>1
<1> QED
  BY <1>5, <1>6 DEF longer

(* What a session had at a minute, it has a bar later. *)
LEMMA MinuteStays ==
  ASSUME NEW bars, NEW until \in Nat, IsTape(bars, until), NEW bar, IsShape(bar), bar.ts \in Nat, until < bar.ts,
         NEW d \in DOMAIN Days, NEW m \in Minutes(bars, d)
  PROVE  /\ MoveBy(Append(bars, bar), d, m) = MoveBy(bars, d, m)
         /\ PaidBy(Append(bars, bar), d, m) = PaidBy(bars, d, m)
<1> DEFINE longer == Append(bars, bar)
           n == Len(bars)
<1>1. n \in Nat /\ DOMAIN bars = 1..n /\ IsSequence(bars)
  BY SequenceFacts DEF IsTape
<1>2. DOMAIN longer = 1 .. n + 1 /\ \A k \in DOMAIN bars : longer[k] = bars[k]
  <2>1. IsSequence(longer) /\ Len(longer) = n + 1 /\ \A k \in DOMAIN bars : longer[k] = bars[k]
    BY <1>1, AppendFacts
  <2> HIDE DEF longer, n
  <2> QED
    BY <2>1, SequenceFacts
<1>3. IsTape(longer, bar.ts)
  BY LongerTape
<1>4. PICK j \in DOMAIN bars : m = bars[j].ts - Days[d].open
  BY DEF Minutes
<1>5. bars[j].ts \in Nat /\ bars[j].ts <= until /\ Days[d].open \in Nat
  BY DayFields DEF IsTape
<1>6. PaidBy(longer, d, m) = PaidBy(bars, d, m)
  <2> DEFINE u == Days[d].open + m
  <2>1. ~(bar.ts <= u)
    BY <1>4, <1>5
  <2> HIDE DEF u
  <2>2. SessionPaid(longer, u) = SessionPaid(bars, u)
    BY <1>1, <2>1, PaidOfALonger
  <2> QED
    BY <2>2 DEF PaidBy, u
<1> HIDE DEF longer, n
<1>7. MoveBy(longer, d, m) = MoveBy(bars, d, m)
  <2>1. j \in DOMAIN longer /\ longer[j] = bars[j] /\ longer[1] = bars[1] /\ longer[j].ts = bars[j].ts
    BY <1>1, <1>2
  <2>2. MoveBy(longer, d, longer[j].ts - Days[d].open) = MoveFrom(longer[1].open, longer[j].close)
    BY <1>3, <2>1, BarAtMinute
  <2>3. MoveBy(bars, d, bars[j].ts - Days[d].open) = MoveFrom(bars[1].open, bars[j].close)
    BY BarAtMinute
  <2> QED
    BY <1>4, <2>1, <2>2, <2>3
<1> QED
  BY <1>6, <1>7 DEF longer

(* All that was paid by the latest bar is paid by any later minute. *)
LEMMA PaidByNow ==
  ASSUME NEW bars, NEW until \in Nat, IsTape(bars, until), NEW later \in Nat, until <= later
  PROVE  SessionPaid(bars, until) = SessionPaid(bars, later)
<1>1. \A k \in DOMAIN bars : bars[k].ts <= until <=> bars[k].ts <= later
  BY DEF IsTape
<1>2. IsSequence(bars)
  BY DEF IsTape
<1> QED
  BY <1>1, <1>2, PaidSame
-----------------------------------------------------------------------------
(* One more bar of its session, and the book still stands where it does. *)
LEMMA BarIsFollowed ==
  ASSUME NEW bars, NEW until \in Nat, IsTape(bars, until), NEW bar, IsShape(bar), bar.ts \in Nat, until < bar.ts,
         NEW d \in DOMAIN Days, NEW today, NEW after, Stands(today, bars, d, until),
         Updates(after, today, bar), UpdatesTheRest(after, today, bar, d)
  PROVE  Follows(after, Append(bars, bar), d) /\ after.paid = SessionPaid(Append(bars, bar), bar.ts)
<1> DEFINE longer == Append(bars, bar)
           n == Len(bars)
           minute == bar.ts - Days[d].open
           start == IF today.levels = NoLevels THEN bar.open ELSE today.levels.session_open
           move == MoveFrom(start, bar.close)
<1>1. n \in Nat /\ DOMAIN bars = 1..n /\ IsSequence(bars)
  BY SequenceFacts DEF IsTape
<1>2. DOMAIN longer = 1 .. n + 1 /\ longer[n + 1] = bar /\ \A k \in DOMAIN bars : longer[k] = bars[k]
  <2>1. IsSequence(longer) /\ Len(longer) = n + 1 /\ longer[n + 1] = bar /\ \A k \in DOMAIN bars : longer[k] = bars[k]
    BY <1>1, AppendFacts
  <2> HIDE DEF longer, n
  <2> QED
    BY <2>1, SequenceFacts
<1>3. IsTape(longer, bar.ts) /\ Days[d].open \in Nat
  BY LongerTape, DayFields
<1>4. Minutes(longer, d) = Minutes(bars, d) \cup {minute} /\ minute \notin Minutes(bars, d)
  BY MinutesOfALonger
<1>5. after.paid = SessionPaid(longer, bar.ts)
  <2>1. SessionPaid(bars, until) = SessionPaid(bars, bar.ts)
    BY PaidByNow
  <2>2. SessionPaid(longer, bar.ts) = AndPaid(SessionPaid(bars, bar.ts), bar)
    BY <1>1, PaidOfALonger
  <2> QED
    BY <2>1, <2>2 DEF Stands, Updates
<1>6. PaidBy(longer, d, minute) = after.paid
  <2>1. Days[d].open + minute = bar.ts
    BY <1>3
  <2> QED
    BY <1>5, <2>1 DEF PaidBy
<1>7. \A m \in Minutes(bars, d) : MoveBy(longer, d, m) = MoveBy(bars, d, m) /\ PaidBy(longer, d, m) = PaidBy(bars, d, m)
  BY MinuteStays
<1> HIDE DEF longer, n
<1>8. MoveBy(longer, d, minute) = move
  <2>1. n + 1 \in DOMAIN longer /\ longer[n + 1] = bar
    BY <1>1, <1>2
  <2>2. MoveBy(longer, d, longer[n + 1].ts - Days[d].open) = MoveFrom(longer[1].open, longer[n + 1].close)
    BY <1>3, <2>1, BarAtMinute
  <2>3. longer[1].open = start
    <3>1. CASE DOMAIN bars = {}
      <4>1. n = 0
        BY <1>1, <3>1
      <4> QED
        BY <1>2, <3>1, <4>1 DEF Stands
    <3>2. CASE DOMAIN bars # {}
      <4>1. 1 \in DOMAIN bars
        BY <1>1, <3>2
      <4> QED
        BY <1>2, <3>2, <4>1 DEF Stands, Spanned
    <3> QED
      BY <3>1, <3>2
  <2> HIDE DEF start
  <2> QED
    BY <2>1, <2>2, <2>3
<1>9. /\ after.session_moves = With(today.session_moves, minute, move)
      /\ after.session_volumes = With(today.session_volumes, minute, after.paid.volume)
  BY DEF UpdatesTheRest
<1> HIDE DEF minute, move
<1>10. /\ DOMAIN after.session_moves = Minutes(longer, d) /\ DOMAIN after.session_volumes = Minutes(longer, d)
       /\ after.session_moves[minute] = move /\ after.session_volumes[minute] = after.paid.volume
       /\ \A m \in Minutes(bars, d) : /\ after.session_moves[m] = today.session_moves[m]
                                      /\ after.session_volumes[m] = today.session_volumes[m]
  BY <1>4, <1>9 DEF With, Stands, Follows
<1>11. ASSUME NEW m \in Minutes(longer, d)
       PROVE  after.session_moves[m] = MoveBy(longer, d, m) /\ after.session_volumes[m] = PaidBy(longer, d, m).volume
  <2>1. CASE m = minute
    BY <1>6, <1>8, <1>10, <2>1
  <2>2. CASE m \in Minutes(bars, d)
    BY <1>7, <1>10, <2>2 DEF Stands, Follows
  <2> QED
    BY <1>4, <2>1, <2>2
<1>12. Follows(after, longer, d)
  BY <1>10, <1>11 DEF Follows
<1> QED
  BY <1>5, <1>12 DEF longer

LEMMA LevelsOfTheBar ==
  ASSUME NEW bars, NEW until \in Nat, IsTape(bars, until), NEW bar, IsShape(bar), bar.ts \in Nat, until < bar.ts,
         NEW d \in DOMAIN Days, NEW today, NEW after, Stands(today, bars, d, until),
         Updates(after, today, bar), UpdatesTheRest(after, today, bar, d)
  PROVE  Levels(after, Append(bars, bar), d)
<1> DEFINE longer == Append(bars, bar)
           n == Len(bars)
           minute == bar.ts - Days[d].open
           l == after.levels
<1>1. n \in Nat /\ DOMAIN bars = 1..n /\ IsSequence(bars)
  BY SequenceFacts DEF IsTape
<1>2. Len(longer) = n + 1 /\ longer[n + 1] = bar /\ \A k \in DOMAIN bars : longer[k] = bars[k]
  BY <1>1, AppendFacts
<1>3. /\ DOMAIN bars # {} => /\ HighestOf(longer) = Max({HighestOf(bars), bar.high})
                             /\ LowestOf(longer) = Min({LowestOf(bars), bar.low})
      /\ DOMAIN bars = {} => HighestOf(longer) = bar.high /\ LowestOf(longer) = bar.low
  BY ExtremesOfALonger
<1> HIDE DEF longer, n
<1>4. Last(longer) = bar
  BY <1>2 DEF Last
<1>5. l.close = bar.close /\ l.paid = after.paid /\ l.prior_close = after.prior_close
  BY DEF Updates
<1>6. l.session_open = IF today.levels = NoLevels THEN bar.open ELSE today.levels.session_open
  BY DEF Updates
<1>7. /\ l.high = IF today.levels = NoLevels THEN bar.high ELSE Max({today.levels.high, bar.high})
      /\ l.low = IF today.levels = NoLevels THEN bar.low ELSE Min({today.levels.low, bar.low})
      /\ l.prior_range_mean = RangeMean(after)
      /\ l.mean_move = MeanMove(after, minute) /\ l.relative_volume = RelativeVolume(after, minute)
  BY DEF UpdatesTheRest
<1> HIDE DEF l, minute
<1>8. Spanned(l, longer)
  <2>1. CASE DOMAIN bars = {}
    <3>1. n = 0 /\ today.levels = NoLevels
      BY <1>1, <2>1 DEF Stands
    <3>2. longer[1] = bar
      BY <1>2, <3>1
    <3> QED
      BY <1>3, <1>6, <1>7, <2>1, <3>1, <3>2 DEF Spanned
  <2>2. CASE DOMAIN bars # {}
    <3>1. 1 \in DOMAIN bars /\ today.levels # NoLevels /\ Spanned(today.levels, bars)
      BY <1>1, <2>2 DEF Stands
    <3>2. longer[1] = bars[1]
      BY <1>2, <3>1
    <3> QED
      BY <1>3, <1>6, <1>7, <2>2, <3>1, <3>2 DEF Spanned
  <2> QED
    BY <2>1, <2>2
<1> QED
  BY <1>4, <1>5, <1>7, <1>8 DEF Levels, l, minute, longer
-----------------------------------------------------------------------------
(* A bar joins the day that holds it, at the end. *)
LEMMA HeldOfALonger ==
  ASSUME NEW bars, IsSequence(bars), NEW bar, NEW d \in DOMAIN Days
  PROVE  Held(Append(bars, bar), d) = IF HeldBetween(Days[d], bar.ts) THEN Append(Held(bars, d), bar)
                                      ELSE Held(bars, d)
<1> DEFINE P == OfDay(bars, d)
           Q == OfDay(Append(bars, bar), d)
<1>1. Len(bars) \in Nat /\ DOMAIN bars = 1..Len(bars)
  BY SequenceFacts
<1>2. Len(bars) + 1 \notin DOMAIN bars
  BY <1>1
<1>3. Q = IF HeldBetween(Days[d], bar.ts) THEN P \cup {Len(bars) + 1} ELSE P
  BY DayOfALongerTape
<1>4. \A k \in P : k \in DOMAIN bars
  BY DEF OfDay
<1>5. Kept(Append(bars, bar), Q) = IF Len(bars) + 1 \in Q THEN Append(Kept(bars, P), bar) ELSE Kept(bars, P)
  <2>1. \A k \in DOMAIN bars : k \in P <=> k \in Q
    BY <1>2, <1>3
  <2> HIDE DEF P, Q
  <2> QED
    BY <2>1, KeptOfALonger
<1>6. Len(bars) + 1 \in Q <=> HeldBetween(Days[d], bar.ts)
  BY <1>2, <1>3, <1>4
<1> HIDE DEF P, Q
<1> QED
  BY <1>5, <1>6 DEF Held, P, Q

LEMMA HeldDaysOfALonger ==
  ASSUME NEW bars, IsSequence(bars), NEW bar, bar.ts \in Nat
  PROVE  /\ \A d \in DOMAIN Days : HeldBetween(Days[d], bar.ts) =>
              HeldDays(Append(bars, bar)) = [HeldDays(bars) EXCEPT ![d] = Append(@, bar)]
         /\ (\A d \in DOMAIN Days : ~HeldBetween(Days[d], bar.ts)) => HeldDays(Append(bars, bar)) = HeldDays(bars)
<1> DEFINE longer == Append(bars, bar)
           held == HeldDays(bars)
           more == HeldDays(longer)
<1>1. \A e \in DOMAIN Days : more[e] = IF HeldBetween(Days[e], bar.ts) THEN Append(held[e], bar) ELSE held[e]
  BY HeldOfALonger DEF HeldDays
<1>2. held = [e \in DOMAIN Days |-> held[e]] /\ more = [e \in DOMAIN Days |-> more[e]]
  BY DEF HeldDays
<1> HIDE DEF held, more, longer
<1>3. ASSUME NEW d \in DOMAIN Days, HeldBetween(Days[d], bar.ts)
      PROVE  more = [held EXCEPT ![d] = Append(@, bar)]
  <2>1. \A e \in DOMAIN Days : HeldBetween(Days[e], bar.ts) => e = d
    <3> SUFFICES ASSUME NEW e \in DOMAIN Days, HeldBetween(Days[e], bar.ts) PROVE e = d
      OBVIOUS
    <3>1. d <= e /\ e <= d
      BY <1>3, LaterMinuteLaterDay
    <3> QED
      BY <3>1, DayFields
  <2>2. more = [e \in DOMAIN Days |-> IF e = d THEN Append(held[d], bar) ELSE held[e]]
    BY <1>1, <1>2, <1>3, <2>1
  <2>3. [held EXCEPT ![d] = Append(held[d], bar)] = [e \in DOMAIN Days |-> IF e = d THEN Append(held[d], bar) ELSE held[e]]
    BY <1>2, <1>3
  <2> QED
    BY <2>2, <2>3
<1>4. ASSUME \A d \in DOMAIN Days : ~HeldBetween(Days[d], bar.ts) PROVE more = held
  BY <1>1, <1>2, <1>4
<1> QED
  BY <1>3, <1>4 DEF held, more, longer
-----------------------------------------------------------------------------
(* What is said of each of a list of days, and of a day more. *)
IsProfile(f) == f = [m \in DOMAIN f |-> f[m]]

LEMMA SaidOfALonger ==
  ASSUME NEW days, IsSequence(days), NEW c, NEW a, NEW b, NEW x, IsProfile(a), IsProfile(b),
         DOMAIN a = DOMAIN days, DOMAIN b = DOMAIN Append(days, c),
         \A i \in DOMAIN days : b[i] = a[i], b[Len(days) + 1] = x
  PROVE  IsSequence(a) /\ b = Append(a, x)
<1> DEFINE n == Len(days)
           longer == Append(days, c)
           more == Append(a, x)
<1>1. n \in Nat /\ DOMAIN days = 1..n
  BY SequenceFacts
<1>2. DOMAIN longer = 1 .. n + 1
  <2>1. IsSequence(longer) /\ Len(longer) = n + 1
    BY AppendFacts
  <2> HIDE DEF longer
  <2> QED
    BY <2>1, SequenceFacts
<1> HIDE DEF n, longer
<1>3. a \in Seq({a[i] : i \in 1..n}) /\ b \in Seq({b[i] : i \in 1 .. n + 1})
  <2>1. a \in [1..n -> {a[i] : i \in 1..n}]
    BY <1>1 DEF IsProfile
  <2>2. b \in [1 .. n + 1 -> {b[i] : i \in 1 .. n + 1}]
    BY <1>2 DEF IsProfile, longer
  <2>3. n \in Nat /\ n + 1 \in Nat
    BY <1>1
  <2>4. a \in Seq({a[i] : i \in 1..n})
    BY <2>1, <2>3, SeqDef
  <2>5. b \in Seq({b[i] : i \in 1 .. n + 1})
    BY <2>2, <2>3, SeqDef
  <2> QED
    BY <2>4, <2>5
<1>4. IsSequence(a) /\ IsSequence(b)
  BY <1>3 DEF IsSequence
<1>5. Len(a) = n
  <2>1. Len(a) \in Nat /\ DOMAIN a = 1..Len(a)
    BY <1>4, SequenceFacts
  <2> QED
    BY <1>1, <2>1, SameLength
<1>6. Len(b) = n + 1
  <2>1. Len(b) \in Nat /\ DOMAIN b = 1..Len(b) /\ n + 1 \in Nat
    BY <1>1, <1>4, SequenceFacts
  <2> QED
    BY <1>2, <2>1, SameLength DEF longer
<1>7. IsSequence(more) /\ Len(more) = n + 1 /\ more[n + 1] = x /\ \A i \in 1..n : more[i] = a[i]
  BY <1>1, <1>4, <1>5, AppendFacts
<1>8. ASSUME NEW i \in 1 .. n + 1 PROVE b[i] = more[i]
  <2>1. CASE i = n + 1
    BY <1>7, <2>1 DEF n
  <2>2. CASE i \in 1..n
    BY <1>1, <1>7, <2>2
  <2> QED
    BY <1>1, <2>1, <2>2
<1> HIDE DEF more
<1>9. b = more
  BY <1>4, <1>6, <1>7, <1>8, SameSequence
<1> QED
  BY <1>4, <1>9 DEF more

LEMMA SaidOfNothing ==
  ASSUME NEW a, IsProfile(a), DOMAIN a = {}
  PROVE  a = <<>>
<1>1. a \in [1..0 -> {}]
  BY DEF IsProfile
<1>2. a \in Seq({})
  BY <1>1, SeqDef
<1>3. <<>> \in Seq({}) /\ Len(<<>>) = 0
  BY EmptySeq
<1>4. Len(a) \in Nat /\ DOMAIN a = 1..Len(a)
  BY <1>2, LenProperties
<1>5. Len(a) = 0
  <2>1. Len(a) # 0 => 1 \in 1..Len(a)
    BY <1>4
  <2> QED
    BY <1>4, <2>1
<1> DEFINE none == <<>>
<1>6. IsSequence(a) /\ IsSequence(none) /\ Len(none) = 0
  BY <1>2, <1>3 DEF IsSequence
<1> HIDE DEF none
<1>7. a = none
  BY <1>5, <1>6, SameSequence
<1> QED
  BY <1>7 DEF none

LEMMA NewestOfNothing ==
  ASSUME NEW n \in Nat
  PROVE  Newest(<<>>, n) = <<>>
<1>1. Len(<<>>) = 0
  BY EmptySeq
<1> QED
  BY <1>1 DEF Newest
-----------------------------------------------------------------------------
(* The days before a day. *)
LEMMA BeforeFacts ==
  ASSUME NEW held, NEW d \in DOMAIN Days
  PROVE  /\ IsSequence(Before(held, d))
         /\ \A i \in DOMAIN Before(held, d) :
              Before(held, d)[i] \in DOMAIN Days /\ Before(held, d)[i] < d /\ held[Before(held, d)[i]] # <<>>
<1> DEFINE S == {e \in DOMAIN Days : held[e] # <<>>}
           n == d - 1
           list == Listed(S, n)
<1>1. d \in Nat \ {0} /\ n \in Nat
  <2>1. DOMAIN Days = 1..Len(Days) /\ Len(Days) \in Nat
    BY DaysAssumption, LenProperties
  <2> QED
    BY <2>1
<1> HIDE DEF n
<1>2. list \in Seq(Nat)
  BY <1>1, ListedSteps
<1>3. \A i \in DOMAIN list : list[i] \in S /\ list[i] \in 1..n
  BY <1>1, ListedArePlaces
<1>4. Before(held, d) = list
  BY DEF Before, n
<1> HIDE DEF list
<1>5. IsSequence(list)
  BY <1>2 DEF IsSequence
<1>6. \A i \in DOMAIN list : list[i] \in DOMAIN Days /\ list[i] < d /\ held[list[i]] # <<>>
  BY <1>1, <1>3 DEF n
<1> QED
  BY <1>4, <1>5, <1>6

LEMMA BeforeStays ==
  ASSUME NEW held, NEW more, NEW d \in DOMAIN Days, \A e \in DOMAIN Days : e < d => more[e] = held[e]
  PROVE  Before(more, d) = Before(held, d)
<1> DEFINE P == {e \in DOMAIN Days : more[e] # <<>>}
           Q == {e \in DOMAIN Days : held[e] # <<>>}
           n == d - 1
<1>1. DOMAIN Days = 1..Len(Days) /\ Len(Days) \in Nat
  BY DaysAssumption, LenProperties
<1>2. n \in Nat /\ \A k \in 1..n : k \in DOMAIN Days /\ k < d
  BY <1>1
<1>3. \A k \in 1..n : k \in P <=> k \in Q
  BY <1>2
<1> HIDE DEF P, Q, n
<1>4. Listed(P, n) = Listed(Q, n)
  BY <1>2, <1>3, ListedSame
<1> QED
  BY <1>4 DEF Before, P, Q, n

LEMMA BeforeALaterDay ==
  ASSUME NEW held, NEW c \in DOMAIN Days, NEW d \in DOMAIN Days, c < d, held[c] # <<>>,
         \A e \in DOMAIN Days : held[e] # <<>> => e <= c
  PROVE  Before(held, d) = Append(Before(held, c), c)
<1> DEFINE S == {e \in DOMAIN Days : held[e] # <<>>}
           n == d - 1
<1>1. DOMAIN Days = 1..Len(Days) /\ Len(Days) \in Nat
  BY DaysAssumption, LenProperties
<1>2. n \in Nat /\ c \in Nat /\ c # 0 /\ c <= n
  BY <1>1
<1>3. c \in S /\ \A k \in c + 1 .. n : k \notin S
  BY <1>1
<1> HIDE DEF S, n
<1>4. Listed(S, n) = Listed(S, c)
  BY <1>2, <1>3, ListedStops
<1>5. Listed(S, c) = Append(Listed(S, c - 1), c)
  BY <1>2, <1>3, ListedSteps
<1> QED
  BY <1>4, <1>5 DEF Before, S, n

LEMMA BeforeTheFirst ==
  ASSUME NEW held, NEW d \in DOMAIN Days, \A e \in DOMAIN Days : e < d => held[e] = <<>>
  PROVE  Before(held, d) = <<>>
<1> DEFINE S == {e \in DOMAIN Days : held[e] # <<>>}
           n == d - 1
<1>1. DOMAIN Days = 1..Len(Days) /\ Len(Days) \in Nat
  BY DaysAssumption, LenProperties
<1>2. n \in Nat /\ 0 <= n /\ \A k \in 0 + 1 .. n : k \notin S
  BY <1>1
<1> HIDE DEF S, n
<1>3. Listed(S, n) = Listed(S, 0)
  BY <1>2, ListedStops
<1>4. Listed(S, 0) = <<>>
  BY ListedSteps
<1> QED
  BY <1>3, <1>4 DEF Before, S, n
-----------------------------------------------------------------------------
(* What a book is of the days of a tape, until a minute. *)
AreTapes(held, until) == \A e \in DOMAIN Days : IsTape(held[e], until)

Tells(book, held, d, until) ==
  /\ BookReads(book, held[d], d, 1) /\ Len(held[d]) = book.levels.bar_count
  /\ \A e \in DOMAIN Days : held[e] # <<>> => e <= d
  /\ IsProfile(book.session_moves) /\ IsProfile(book.session_volumes)
  /\ Stands(book, held[d], d, until) /\ Carries(book, held, Before(held, d)) /\ Levels(book, held[d], d)

Agrees(book, held, until) ==
  \/ book = NewBook /\ \A e \in DOMAIN Days : held[e] = <<>>
  \/ \E d \in DOMAIN Days : Tells(book, held, d, until)

LEMMA CarriesOn ==
  ASSUME NEW book, NEW held, NEW before, Carries(book, held, before), IsSequence(before),
         NEW after, NEW more, \A i \in DOMAIN before : more[before[i]] = held[before[i]],
         after.prior_close = book.prior_close, after.ranges = book.ranges,
         after.moves = book.moves, after.volumes = book.volumes
  PROVE  Carries(after, more, before)
<1>1. Spans(more, before) = Spans(held, before)
  BY DEF Spans
<1>2. MoveProfiles(more, before) = MoveProfiles(held, before)
  BY DEF MoveProfiles
<1>3. VolumeProfiles(more, before) = VolumeProfiles(held, before)
  BY DEF VolumeProfiles
<1>4. ASSUME before # <<>> PROVE more[Last(before)] = held[Last(before)]
  <2>1. Len(before) \in Nat /\ DOMAIN before = 1..Len(before)
    BY SequenceFacts
  <2>2. Len(before) # 0
    <3> DEFINE none == <<>>
    <3>1. IsSequence(none) /\ Len(none) = 0
      <4>1. <<>> \in Seq({})
        BY EmptySeq
      <4> QED
        BY <4>1, EmptySeq DEF IsSequence
    <3> HIDE DEF none
    <3>2. Len(before) = 0 => before = none
      BY <3>1, SameSequence
    <3> QED
      BY <1>4, <3>2 DEF none
  <2>3. Len(before) \in DOMAIN before
    BY <2>1, <2>2
  <2> QED
    BY <2>3 DEF Last
<1> QED
  BY <1>1, <1>2, <1>3, <1>4 DEF Carries

(* One more bar of the session the book tells of. *)
LEMMA SameDayTells ==
  ASSUME NEW book, NEW held, NEW until \in Nat, AreTapes(held, until), DOMAIN held = DOMAIN Days,
         NEW bar, IsShape(bar), bar.ts \in Nat, until < bar.ts,
         NEW d \in DOMAIN Days, HeldBetween(Days[d], bar.ts), Tells(book, held, d, until),
         NEW more, more = [held EXCEPT ![d] = Append(@, bar)]
  PROVE  Tells(Update(book, bar, Days[d]), more, d, bar.ts)
<1> DEFINE bars == held[d]
           longer == Append(bars, bar)
           after == Update(book, bar, Days[d])
<1>1. /\ IsTape(bars, until) /\ BookReads(book, bars, d, 1) /\ Len(bars) = book.levels.bar_count
      /\ Stands(book, bars, d, until) /\ Carries(book, held, Before(held, d))
  BY DEF AreTapes, Tells
<1>2. more[d] = longer /\ \A e \in DOMAIN Days : e # d => more[e] = held[e]
  OBVIOUS
<1>3. IsSequence(bars) /\ IsSequence(longer) /\ Len(longer) = Len(bars) + 1
  BY <1>1, AppendFacts DEF IsTape
<1>4. DOMAIN book = BookFields /\ book.session = Days[d].open
  BY <1>1 DEF BookReads
<1> HIDE DEF bars, longer
<1>5. BookReads(after, longer, d, 1) /\ after.levels.bar_count = book.levels.bar_count + 1
  BY <1>1, SameDayReads DEF longer
<1>6. Updates(after, book, bar)
  BY <1>4, UpdateFields
<1>7. UpdatesTheRest(after, book, bar, d)
  BY <1>4, UpdateTheRest
<1> HIDE DEF after
<1>8. Follows(after, longer, d) /\ after.paid = SessionPaid(longer, bar.ts)
  BY <1>1, <1>6, <1>7, BarIsFollowed DEF longer
<1>9. Levels(after, longer, d)
  BY <1>1, <1>6, <1>7, LevelsOfTheBar DEF longer
<1>10. Stands(after, longer, d, bar.ts)
  <2>1. DOMAIN longer # {}
    <3>1. DOMAIN longer = 1..Len(longer) /\ Len(bars) \in Nat
      BY <1>3, SequenceFacts
    <3>2. 1 \in DOMAIN longer
      BY <1>3, <3>1
    <3> QED
      BY <3>2
  <2>2. after.levels # NoLevels
    <3>1. "open" \in DOMAIN after.levels /\ "open" \notin DOMAIN NoLevels
      BY <1>5 DEF BookReads, LevelFields, NoLevels
    <3> QED
      BY <3>1
  <2> QED
    BY <1>8, <1>9, <2>1, <2>2 DEF Stands, Levels
<1>11. Before(more, d) = Before(held, d)
  <2>1. \A e \in DOMAIN Days : e < d => more[e] = held[e]
    BY <1>2, DayFields
  <2> QED
    BY <2>1, BeforeStays
<1>12. Carries(after, more, Before(more, d))
  <2> DEFINE before == Before(held, d)
  <2>1. IsSequence(before) /\ \A i \in DOMAIN before : before[i] \in DOMAIN Days /\ before[i] < d
    BY BeforeFacts
  <2> HIDE DEF before
  <2>2. \A i \in DOMAIN before : more[before[i]] = held[before[i]]
    BY <1>2, <2>1, DayFields
  <2>3. /\ after.prior_close = book.prior_close /\ after.ranges = book.ranges
        /\ after.moves = book.moves /\ after.volumes = book.volumes
    BY <1>6, <1>7 DEF Updates, UpdatesTheRest
  <2>4. Carries(book, held, before)
    BY <1>1 DEF before
  <2>5. Carries(after, more, before)
    BY <2>1, <2>2, <2>3, <2>4, CarriesOn
  <2> QED
    BY <1>11, <2>5 DEF before
<1>13. \A e \in DOMAIN Days : more[e] # <<>> => e <= d
  <2> SUFFICES ASSUME NEW e \in DOMAIN Days, more[e] # <<>> PROVE e <= d
    OBVIOUS
  <2>1. CASE e = d
    BY <2>1, DayFields
  <2>2. CASE e # d
    BY <1>2, <2>2 DEF Tells
  <2> QED
    BY <2>1, <2>2
<1>14. IsProfile(after.session_moves) /\ IsProfile(after.session_volumes)
  BY <1>7 DEF UpdatesTheRest, With, IsProfile
<1>15. Len(longer) = after.levels.bar_count
  BY <1>1, <1>3, <1>5
<1> QED
  BY <1>2, <1>5, <1>9, <1>10, <1>12, <1>13, <1>14, <1>15 DEF Tells, after
-----------------------------------------------------------------------------
(* The bell: the close, the range and the two profiles of the day are      *)
(* carried, and nothing else survives.                                     *)
LEMMA RolledRest ==
  ASSUME NEW book, DOMAIN book = BookFields, NEW s
  PROVE  LET rolled == Roll(book, s)
             l == book.levels
         IN /\ rolled.session_moves = <<>> /\ rolled.session_volumes = <<>>
            /\ rolled.ranges = IF l # NoLevels THEN Newest(Append(book.ranges, l.high - l.low), RangeMemory)
                               ELSE book.ranges
            /\ rolled.moves = Archived(book.moves, book.session_moves, MoveMemory)
            /\ rolled.volumes = Archived(book.volumes, book.session_volumes, VolumeMemory)
BY DEF Roll, Cleared, NewBook, BookFields

LEMMA LastOfALonger ==
  ASSUME NEW seq, IsSequence(seq), NEW x
  PROVE  Last(Append(seq, x)) = x /\ Append(seq, x) # <<>>
<1> DEFINE longer == Append(seq, x)
<1>1. Len(longer) = Len(seq) + 1 /\ longer[Len(seq) + 1] = x /\ Len(seq) \in Nat
  BY AppendFacts, SequenceFacts
<1> HIDE DEF longer
<1>2. Last(longer) = x
  BY <1>1 DEF Last
<1>3. longer # <<>>
  <2>1. Len(<<>>) = 0
    BY EmptySeq
  <2> QED
    BY <1>1, <2>1
<1> QED
  BY <1>2, <1>3 DEF longer

(* What was said of the days before, and of the day that is over. *)
LEMMA DayIsCarried ==
  ASSUME NEW book, NEW held, NEW more, NEW c \in DOMAIN Days, NEW until, IsTape(held[c], until), held[c] # <<>>,
         NEW before, before = Before(held, c), NEW days, days = Append(before, c),
         more[c] = held[c], \A i \in DOMAIN before : more[before[i]] = held[before[i]],
         DOMAIN book = BookFields, book.levels # NoLevels, Carries(book, held, before),
         Follows(book, held[c], c), IsProfile(book.session_moves), IsProfile(book.session_volumes),
         Spanned(book.levels, held[c]), book.levels.close = Last(held[c]).close, NEW s
  PROVE  Carries(Roll(book, s), more, days)
<1> DEFINE rolled == Roll(book, s)
           bars == held[c]
           n == Len(before)
<1>1. IsSequence(before)
  BY BeforeFacts
<1>2. n \in Nat /\ DOMAIN before = 1..n /\ days[n + 1] = c /\ \A i \in DOMAIN before : days[i] = before[i]
  BY <1>1, SequenceFacts, AppendFacts
<1>3. DOMAIN days = 1 .. n + 1
  <2>1. IsSequence(days) /\ Len(days) = n + 1
    BY <1>1, AppendFacts
  <2> QED
    BY <2>1, SequenceFacts
<1>4. Last(days) = c /\ days # <<>>
  BY <1>1, LastOfALonger
<1>5. DOMAIN bars # {}
  <2>1. IsSequence(bars)
    BY DEF IsTape
  <2>2. Len(bars) \in Nat /\ DOMAIN bars = 1..Len(bars)
    BY <2>1, SequenceFacts
  <2>3. Len(bars) # 0
    <3> DEFINE none == <<>>
    <3>1. IsSequence(none) /\ Len(none) = 0
      <4>1. <<>> \in Seq({})
        BY EmptySeq
      <4> QED
        BY <4>1, EmptySeq DEF IsSequence
    <3> HIDE DEF none
    <3>2. Len(bars) = 0 => bars = none
      BY <2>1, <3>1, SameSequence
    <3> QED
      BY <3>2 DEF none
  <2>4. 1 \in DOMAIN bars
    BY <2>2, <2>3
  <2> QED
    BY <2>4
<1> HIDE DEF n
<1>6. rolled.prior_close = Last(more[Last(days)]).close
  BY <1>4, RolledFields
<1>7. rolled.ranges = Newest(Spans(more, days), RangeMemory)
  <2> DEFINE a == Spans(held, before)
             b == Spans(more, days)
             x == SpanOf(bars)
  <2>1. IsProfile(a) /\ IsProfile(b) /\ DOMAIN a = DOMAIN before /\ DOMAIN b = DOMAIN Append(before, c)
    BY DEF Spans, IsProfile
  <2>2. b[n + 1] = x /\ \A i \in DOMAIN before : b[i] = a[i]
    BY <1>2, <1>3 DEF Spans
  <2> HIDE DEF a, b, x
  <2>3. IsSequence(a) /\ b = Append(a, x)
    BY <1>1, <2>1, <2>2, SaidOfALonger DEF n
  <2>4. rolled.ranges = Newest(Append(Newest(a, RangeMemory), x), RangeMemory)
    BY RolledRest DEF a, x, Carries, SpanOf, Spanned
  <2>5. RangeMemory \in Nat
    BY MemoryAssumption
  <2> QED
    BY <2>3, <2>4, <2>5, NewestOfALonger DEF b
<1>8. Minutes(bars, c) # {}
  BY <1>5 DEF Minutes
<1>9. /\ book.session_moves = MovesOf(bars, c) /\ book.session_moves # <<>>
      /\ book.session_volumes = VolumesOf(bars, c) /\ book.session_volumes # <<>>
  <2>1. DOMAIN <<>> = {}
    OBVIOUS
  <2> HIDE DEF bars
  <2>2. book.session_moves = MovesOf(bars, c)
    BY DEF Follows, IsProfile, MovesOf, bars
  <2>3. book.session_volumes = VolumesOf(bars, c)
    BY DEF Follows, IsProfile, VolumesOf, bars
  <2>4. DOMAIN book.session_moves # {} /\ DOMAIN book.session_volumes # {}
    BY <1>8 DEF Follows, bars
  <2> QED
    BY <2>1, <2>2, <2>3, <2>4
<1>10. rolled.moves = Newest(MoveProfiles(more, days), MoveMemory)
  <2> DEFINE a == MoveProfiles(held, before)
             b == MoveProfiles(more, days)
             x == MovesOf(bars, c)
  <2>1. IsProfile(a) /\ IsProfile(b) /\ DOMAIN a = DOMAIN before /\ DOMAIN b = DOMAIN Append(before, c)
    BY DEF MoveProfiles, IsProfile
  <2>2. b[n + 1] = x /\ \A i \in DOMAIN before : b[i] = a[i]
    BY <1>2, <1>3 DEF MoveProfiles
  <2> HIDE DEF a, b, x
  <2>3. IsSequence(a) /\ b = Append(a, x)
    BY <1>1, <2>1, <2>2, SaidOfALonger DEF n
  <2>4. rolled.moves = Newest(Append(Newest(a, MoveMemory), x), MoveMemory)
    BY <1>9, RolledRest DEF a, x, Carries, Archived
  <2>5. MoveMemory \in Nat
    BY MemoryAssumption
  <2> QED
    BY <2>3, <2>4, <2>5, NewestOfALonger DEF b
<1>11. rolled.volumes = Newest(VolumeProfiles(more, days), VolumeMemory)
  <2> DEFINE a == VolumeProfiles(held, before)
             b == VolumeProfiles(more, days)
             x == VolumesOf(bars, c)
  <2>1. IsProfile(a) /\ IsProfile(b) /\ DOMAIN a = DOMAIN before /\ DOMAIN b = DOMAIN Append(before, c)
    BY DEF VolumeProfiles, IsProfile
  <2>2. b[n + 1] = x /\ \A i \in DOMAIN before : b[i] = a[i]
    BY <1>2, <1>3 DEF VolumeProfiles
  <2> HIDE DEF a, b, x
  <2>3. IsSequence(a) /\ b = Append(a, x)
    BY <1>1, <2>1, <2>2, SaidOfALonger DEF n
  <2>4. rolled.volumes = Newest(Append(Newest(a, VolumeMemory), x), VolumeMemory)
    BY <1>9, RolledRest DEF a, x, Carries, Archived
  <2>5. VolumeMemory \in Nat
    BY MemoryAssumption
  <2> QED
    BY <2>3, <2>4, <2>5, NewestOfALonger DEF b
<1> HIDE DEF rolled
<1>12. Carries(rolled, more, days)
  BY <1>4, <1>6, <1>7, <1>10, <1>11 DEF Carries
<1> QED
  BY <1>12 DEF rolled

LEMMA NothingIsCarried ==
  ASSUME NEW more, NEW s
  PROVE  Carries(Roll(NewBook, s), more, <<>>)
<1> DEFINE rolled == Roll(NewBook, s)
           none == <<>>
<1>1. DOMAIN NewBook = BookFields /\ NewBook.levels = NoLevels
  BY DEF NewBook, BookFields
<1>2. /\ rolled.prior_close = None /\ rolled.ranges = none
      /\ rolled.moves = none /\ rolled.volumes = none
  <2>1. /\ NewBook.prior_close = None /\ NewBook.ranges = none /\ NewBook.moves = none /\ NewBook.volumes = none
        /\ NewBook.session_moves = none /\ NewBook.session_volumes = none
    BY DEF NewBook
  <2>2. Archived(none, none, MoveMemory) = none /\ Archived(none, none, VolumeMemory) = none
    BY DEF Archived
  <2>3. rolled.prior_close = None
    BY <1>1, <2>1, RolledFields
  <2> QED
    BY <1>1, <2>1, <2>2, <2>3, RolledRest
<1>3. DOMAIN none = {}
  OBVIOUS
<1> HIDE DEF rolled, none
<1>4. Spans(more, none) = none
  <2>1. IsProfile(Spans(more, none)) /\ DOMAIN Spans(more, none) = {}
    BY <1>3 DEF Spans, IsProfile
  <2> QED
    BY <2>1, SaidOfNothing DEF none
<1>5. MoveProfiles(more, none) = none
  <2>1. IsProfile(MoveProfiles(more, none)) /\ DOMAIN MoveProfiles(more, none) = {}
    BY <1>3 DEF MoveProfiles, IsProfile
  <2> QED
    BY <2>1, SaidOfNothing DEF none
<1>6. VolumeProfiles(more, none) = none
  <2>1. IsProfile(VolumeProfiles(more, none)) /\ DOMAIN VolumeProfiles(more, none) = {}
    BY <1>3 DEF VolumeProfiles, IsProfile
  <2> QED
    BY <2>1, SaidOfNothing DEF none
<1>7. Newest(none, RangeMemory) = none /\ Newest(none, MoveMemory) = none /\ Newest(none, VolumeMemory) = none
  BY MemoryAssumption, NewestOfNothing DEF none
<1>8. Carries(rolled, more, none)
  BY <1>2, <1>4, <1>5, <1>6, <1>7 DEF Carries, none
<1> QED
  BY <1>8 DEF rolled, none
-----------------------------------------------------------------------------
(* The first bar of a session: what the bell carried is of the days before. *)
LEMMA NewDayTells ==
  ASSUME NEW book, DOMAIN book = BookFields, NEW held, NEW until \in Nat, AreTapes(held, until),
         DOMAIN held = DOMAIN Days, NEW bar, IsShape(bar), bar.ts \in Nat, until < bar.ts,
         NEW d \in DOMAIN Days, HeldBetween(Days[d], bar.ts), held[d] = <<>>,
         \A e \in DOMAIN Days : held[e] # <<>> => e <= d, book.session # Days[d].open,
         NEW more, more = [held EXCEPT ![d] = Append(@, bar)],
         Carries(Roll(book, Days[d]), more, Before(more, d))
  PROVE  Tells(Update(book, bar, Days[d]), more, d, bar.ts)
<1> DEFINE bars == held[d]
           longer == Append(bars, bar)
           after == Update(book, bar, Days[d])
           today == Roll(book, Days[d])
<1>1. IsTape(bars, until) /\ IsSequence(bars) /\ Len(bars) = 0 /\ DOMAIN bars = {}
  <2>1. Len(<<>>) = 0 /\ DOMAIN <<>> = {}
    BY EmptySeq
  <2> QED
    BY <2>1 DEF AreTapes, IsTape
<1>2. more[d] = longer /\ \A e \in DOMAIN Days : e # d => more[e] = held[e]
  OBVIOUS
<1>3. IsSequence(longer) /\ Len(longer) = 1
  <2>1. IsSequence(longer) /\ Len(longer) = Len(bars) + 1
    BY <1>1, AppendFacts
  <2> QED
    BY <1>1, <2>1
<1> HIDE DEF bars
<1>4. \A e \in DOMAIN Days : OfDay(bars, e) = {}
  BY <1>1 DEF OfDay
<1>5. BookReads(after, longer, d, 1) /\ after.levels.bar_count = 1
  <2>1. BookReads(after, longer, d, Len(bars) + 1) /\ after.levels.bar_count = 1
    BY <1>1, <1>4, FirstOfADayReads
  <2> HIDE DEF after, longer
  <2> QED
    BY <1>1, <2>1
<1> HIDE DEF longer
<1>6. today = IF book.session = Days[d].open THEN book ELSE Roll(book, Days[d])
  OBVIOUS
<1>7. Stands(today, bars, d, until)
  <2>1. today.levels = NoLevels /\ today.paid = NothingPaid
    BY RolledFields
  <2>2. today.session_moves = <<>> /\ today.session_volumes = <<>>
    BY RolledRest
  <2>3. SessionPaid(bars, until) = NothingPaid
    BY <1>1, PaidOfNothing
  <2>4. Minutes(bars, d) = {} /\ DOMAIN <<>> = {}
    BY <1>1 DEF Minutes
  <2> HIDE DEF today
  <2> QED
    BY <1>1, <2>1, <2>2, <2>3, <2>4 DEF Stands, Follows
<1> HIDE DEF today
<1>8. Updates(after, today, bar)
  BY <1>6, UpdateFields
<1>9. UpdatesTheRest(after, today, bar, d)
  BY <1>6, UpdateTheRest
<1> HIDE DEF after
<1>10. Follows(after, longer, d) /\ after.paid = SessionPaid(longer, bar.ts)
  <2>1. IsTape(bars, until)
    BY <1>1
  <2>2. /\ Follows(after, Append(bars, bar), d)
        /\ after.paid = SessionPaid(Append(bars, bar), bar.ts)
    BY <2>1, <1>7, <1>8, <1>9, BarIsFollowed
  <2> QED
    BY <2>2 DEF longer
<1>11. Levels(after, longer, d)
  BY <1>1, <1>7, <1>8, <1>9, LevelsOfTheBar DEF longer
<1>12. Stands(after, longer, d, bar.ts)
  <2>1. DOMAIN longer # {}
    <3>1. DOMAIN longer = 1..Len(longer)
      BY <1>3, SequenceFacts
    <3>2. 1 \in DOMAIN longer
      BY <1>3, <3>1
    <3> QED
      BY <3>2
  <2>2. after.levels # NoLevels
    <3>1. "open" \in DOMAIN after.levels /\ "open" \notin DOMAIN NoLevels
      BY <1>5 DEF BookReads, LevelFields, NoLevels
    <3> QED
      BY <3>1
  <2> QED
    BY <1>10, <1>11, <2>1, <2>2 DEF Stands, Levels
<1>13. Carries(after, more, Before(more, d))
  <2> DEFINE before == Before(more, d)
  <2>1. IsSequence(before)
    BY BeforeFacts
  <2>2. Carries(today, more, before)
    BY DEF today
  <2>3. /\ after.prior_close = today.prior_close /\ after.ranges = today.ranges
        /\ after.moves = today.moves /\ after.volumes = today.volumes
    BY <1>8, <1>9 DEF Updates, UpdatesTheRest
  <2> HIDE DEF before
  <2>4. Carries(after, more, before)
    BY <2>1, <2>2, <2>3, CarriesOn
  <2> QED
    BY <2>4 DEF before
<1>14. \A e \in DOMAIN Days : more[e] # <<>> => e <= d
  <2> SUFFICES ASSUME NEW e \in DOMAIN Days, more[e] # <<>> PROVE e <= d
    OBVIOUS
  <2>1. CASE e = d
    BY <2>1, DayFields
  <2>2. CASE e # d
    BY <1>2, <2>2
  <2> QED
    BY <2>1, <2>2
<1>15. IsProfile(after.session_moves) /\ IsProfile(after.session_volumes)
  BY <1>9 DEF UpdatesTheRest, With, IsProfile
<1> QED
  BY <1>2, <1>3, <1>5, <1>11, <1>12, <1>13, <1>14, <1>15 DEF Tells, after

(* A bar of a session: of the one the book tells of, or of a later one. *)
LEMMA HeldBarAgrees ==
  ASSUME NEW book, NEW held, NEW until \in Nat, AreTapes(held, until), DOMAIN held = DOMAIN Days,
         NEW bar, IsShape(bar), bar.ts \in Nat, until < bar.ts,
         NEW d \in DOMAIN Days, HeldBetween(Days[d], bar.ts), Agrees(book, held, until),
         NEW more, more = [held EXCEPT ![d] = Append(@, bar)]
  PROVE  Tells(Update(book, bar, Days[d]), more, d, bar.ts)
<1>0. d \in Nat /\ \A e \in DOMAIN Days : e \in Nat
  BY DayFields
<1>1. CASE book = NewBook /\ \A e \in DOMAIN Days : held[e] = <<>>
  <2>1. DOMAIN book = BookFields /\ book.session # Days[d].open
    <3>1. DOMAIN NewBook = BookFields /\ NewBook.session = -1
      BY DEF NewBook, BookFields
    <3> QED
      BY <1>1, <3>1, DayFields
  <2>2. \A e \in DOMAIN Days : e < d => more[e] = <<>>
    BY <1>0, <1>1
  <2>3. Before(more, d) = <<>>
    BY <2>2, BeforeTheFirst
  <2>4. Carries(Roll(book, Days[d]), more, Before(more, d))
    BY <1>1, <2>3, NothingIsCarried
  <2>5. held[d] = <<>> /\ \A e \in DOMAIN Days : held[e] # <<>> => e <= d
    BY <1>1
  <2> QED
    BY <2>1, <2>4, <2>5, NewDayTells
<1>2. ASSUME NEW c \in DOMAIN Days, Tells(book, held, c, until)
      PROVE  Tells(Update(book, bar, Days[d]), more, d, bar.ts)
  <2> DEFINE bars == held[c]
  <2>1. /\ BookReads(book, bars, c, 1) /\ Len(bars) = book.levels.bar_count
        /\ \A e \in DOMAIN Days : held[e] # <<>> => e <= c
        /\ IsProfile(book.session_moves) /\ IsProfile(book.session_volumes)
        /\ Stands(book, bars, c, until) /\ Carries(book, held, Before(held, c)) /\ Levels(book, bars, c)
    BY <1>2 DEF Tells
  <2>2. IsTape(bars, until)
    BY DEF AreTapes
  <2> HIDE DEF bars
  <2>3. /\ DOMAIN book = BookFields /\ book.session = Days[c].open
        /\ book.levels.bar_count \in Nat \ {0} /\ OfDay(bars, c) = 1 .. 1 + book.levels.bar_count - 1
    BY <2>1 DEF BookReads
  <2>4. 1 \in OfDay(bars, c)
    BY <2>3
  <2>5. 1 \in DOMAIN bars /\ HeldBetween(Days[c], bars[1].ts)
    BY <2>4 DEF OfDay
  <2>6. bars[1].ts \in Nat /\ bars[1].ts <= bar.ts
    BY <2>2, <2>5 DEF IsTape
  <2>7. c <= d /\ (Days[c].open = Days[d].open => c = d)
    BY <2>5, <2>6, LaterMinuteLaterDay
  <2>8. CASE c = d
    BY <1>2, <2>8, SameDayTells
  <2>9. CASE c # d
    <3>1. c < d /\ c \in Nat
      BY <1>0, <2>7, <2>9
    <3>2. held[d] = <<>> /\ \A e \in DOMAIN Days : held[e] # <<>> => e <= d
      BY <1>0, <2>1, <3>1
    <3>3. book.session # Days[d].open
      BY <2>3, <2>7, <2>9
    <3>4. bars # <<>>
      <4>1. DOMAIN <<>> = {}
        OBVIOUS
      <4> QED
        BY <2>5, <4>1
    <3> DEFINE before == Before(held, c)
               days == Before(more, d)
    <3>5. days = Append(before, c)
      <4>1. \A e \in DOMAIN Days : e < d => more[e] = held[e]
        BY <1>0
      <4>2. Before(more, d) = Before(held, d)
        BY <4>1, BeforeStays
      <4>3. Before(held, d) = Append(before, c)
        BY <2>1, <3>1, <3>4, BeforeALaterDay DEF bars
      <4> QED
        BY <4>2, <4>3
    <3>6. more[c] = held[c] /\ \A i \in DOMAIN before : more[before[i]] = held[before[i]]
      <4>1. \A e \in DOMAIN Days : e # d => more[e] = held[e]
        OBVIOUS
      <4>2. \A i \in DOMAIN before : before[i] \in DOMAIN Days /\ before[i] < c
        BY BeforeFacts
      <4> HIDE DEF before
      <4>3. \A i \in DOMAIN before : before[i] # d
        BY <1>0, <3>1, <4>2
      <4> QED
        BY <2>9, <4>1, <4>2, <4>3
    <3>7. book.levels # NoLevels /\ Spanned(book.levels, bars) /\ Follows(book, bars, c)
          /\ book.levels.close = Last(bars).close
      BY <2>1, <2>5 DEF Stands, Levels
    <3>8. before = Before(held, c) /\ Carries(book, held, before)
      BY <2>1
    <3> HIDE DEF before, days
    <3>9. Carries(Roll(book, Days[d]), more, days)
      BY ZenonT(60), <2>1, <2>2, <2>3, <3>4, <3>5, <3>6, <3>7, <3>8, DayIsCarried DEF bars
    <3> QED
      BY <2>3, <3>2, <3>3, <3>9, NewDayTells DEF days
  <2> QED
    BY <2>8, <2>9
<1> QED
  BY <1>1, <1>2 DEF Agrees

(* Minutes go by, and nothing more is held. *)
LEMMA TellsLater ==
  ASSUME NEW book, NEW held, NEW until \in Nat, AreTapes(held, until), NEW later \in Nat, until <= later
  PROVE  AreTapes(held, later) /\ (Agrees(book, held, until) => Agrees(book, held, later))
<1>1. ASSUME NEW e \in DOMAIN Days PROVE IsTape(held[e], later)
  BY DEF AreTapes, IsTape
<1>2. ASSUME NEW d \in DOMAIN Days, Tells(book, held, d, until) PROVE Tells(book, held, d, later)
  <2>1. SessionPaid(held[d], until) = SessionPaid(held[d], later)
    BY PaidByNow DEF AreTapes
  <2>2. Stands(book, held[d], d, later)
    BY <1>2, <2>1 DEF Tells, Stands
  <2> QED
    BY <1>2, <2>2 DEF Tells
<1> QED
  BY <1>1, <1>2 DEF AreTapes, Agrees
-----------------------------------------------------------------------------
(* One more bar, of a session or stray, and what the days then hold. *)
LEMMA HeldOfNothing ==
  ASSUME NEW e \in DOMAIN Days
  PROVE  HeldDays(<<>>)[e] = <<>>
<1> DEFINE none == <<>>
<1>1. IsSequence(none) /\ DOMAIN none = {}
  <2>1. <<>> \in Seq({})
    BY EmptySeq
  <2> QED
    BY <2>1, EmptySeq DEF IsSequence
<1> HIDE DEF none
<1>2. Kept(none, OfDay(none, e)) = <<>>
  BY <1>1, KeptOfNothing
<1> QED
  BY <1>2 DEF HeldDays, Held, none

LEMMA BarAgrees ==
  ASSUME NEW book, NEW bars, IsSequence(bars), NEW until \in Nat, NEW bar, IsShape(bar), bar.ts \in Nat,
         until < bar.ts, AreTapes(HeldDays(bars), until), Agrees(book, HeldDays(bars), until)
  PROVE  /\ AreTapes(HeldDays(Append(bars, bar)), bar.ts)
         /\ Agrees(Update(book, bar, SessionFor(bar.ts)), HeldDays(Append(bars, bar)), bar.ts)
<1> DEFINE held == HeldDays(bars)
           more == HeldDays(Append(bars, bar))
           after == Update(book, bar, SessionFor(bar.ts))
<1>1. /\ \A d \in DOMAIN Days : HeldBetween(Days[d], bar.ts) => more = [held EXCEPT ![d] = Append(@, bar)]
      /\ (\A d \in DOMAIN Days : ~HeldBetween(Days[d], bar.ts)) => more = held
  BY HeldDaysOfALonger
<1>2. DOMAIN held = DOMAIN Days
  BY DEF HeldDays
<1> HIDE DEF held, more
<1>3. AreTapes(held, bar.ts) /\ (Agrees(book, held, until) => Agrees(book, held, bar.ts))
  BY TellsLater DEF held
<1>4. CASE SessionFor(bar.ts) = NoSession
  <2>1. more = held
    BY <1>1, <1>4, NoSessionHoldsIt
  <2>2. after = book
    BY <1>4 DEF Update, NoSession
  <2> QED
    BY <1>3, <2>1, <2>2 DEF held, more
<1>5. ASSUME NEW d \in DOMAIN Days, SessionFor(bar.ts) = Days[d], Days[d].open < bar.ts, bar.ts <= Days[d].close
      PROVE  AreTapes(more, bar.ts) /\ Agrees(after, more, bar.ts)
  <2>1. HeldBetween(Days[d], bar.ts)
    BY <1>5 DEF HeldBetween
  <2>2. more = [held EXCEPT ![d] = Append(@, bar)]
    BY <1>1, <2>1
  <2>3. AreTapes(held, until) /\ Agrees(book, held, until)
    BY DEF held
  <2>4. Tells(Update(book, bar, Days[d]), more, d, bar.ts)
    BY <1>2, <2>1, <2>2, <2>3, HeldBarAgrees
  <2>5. Agrees(after, more, bar.ts)
    BY <1>5, <2>4 DEF Agrees
  <2>6. IsTape(Append(held[d], bar), bar.ts)
    <3>1. IsTape(held[d], until)
      BY <2>3 DEF AreTapes
    <3> QED
      BY <3>1, LongerTape
  <2>7. ASSUME NEW e \in DOMAIN Days PROVE IsTape(more[e], bar.ts)
    <3>1. CASE e = d
      BY <1>2, <2>2, <2>6, <3>1
    <3>2. CASE e # d
      <4>1. more[e] = held[e]
        BY <1>2, <2>2, <3>2
      <4> QED
        BY <1>3, <4>1 DEF AreTapes
    <3> QED
      BY <3>1, <3>2
  <2> QED
    BY <2>5, <2>7 DEF AreTapes
<1>6. SessionFor(bar.ts) = NoSession
      \/ \E d \in DOMAIN Days : SessionFor(bar.ts) = Days[d] /\ Days[d].open < bar.ts /\ bar.ts <= Days[d].close
  BY SessionOfADay
<1> QED
  BY <1>4, <1>5, <1>6 DEF more, after

(* Every book agrees with the days of its tape. *)
BooksTellTheDays ==
  \A s \in Symbols : AreTapes(HeldDays(tape[s]), now) /\ Agrees(books[s], HeldDays(tape[s]), now)

LEMMA InitTellsTheDays == Init => BooksTellTheDays
<1> SUFFICES ASSUME Init, NEW s \in Symbols
             PROVE  AreTapes(HeldDays(tape[s]), now) /\ Agrees(books[s], HeldDays(tape[s]), now)
  BY DEF BooksTellTheDays
<1> DEFINE held == HeldDays(tape[s])
           none == <<>>
<1>1. tape[s] = <<>> /\ books[s] = NewBook /\ now = 0
  BY DEF Init
<1>2. \A e \in DOMAIN Days : held[e] = none
  BY <1>1, HeldOfNothing
<1>3. IsSequence(none) /\ DOMAIN none = {}
  <2>1. <<>> \in Seq({})
    BY EmptySeq
  <2> QED
    BY <2>1, EmptySeq DEF IsSequence
<1> HIDE DEF held
<1>4. Agrees(books[s], held, now)
  BY <1>1, <1>2 DEF Agrees
<1> HIDE DEF none
<1>5. AreTapes(held, now)
  BY <1>2, <1>3 DEF AreTapes, IsTape
<1> QED
  BY <1>4, <1>5 DEF held

LEMMA StepTellsTheDays == IInv /\ SInv /\ BooksTellTheDays /\ [Next]_vars => BooksTellTheDays'
<1> SUFFICES ASSUME IInv, SInv, BooksTellTheDays, [Next]_vars PROVE BooksTellTheDays'
  OBVIOUS
<1>1. ASSUME NEW s \in Symbols, NEW shape, Bring(s, shape) PROVE BooksTellTheDays'
  <2> DEFINE ts == now + 1
             bar == Shown(shape, s, ts)
             book == Update(books[s], bar, SessionFor(ts))
             longer == Append(tape[s], bar)
  <2>1. now \in Nat /\ ts \in Nat /\ now < ts /\ now' = ts
    BY <1>1, HorizonAssumption DEF Bring, IInv, Shaped
  <2>2. IsShape(bar) /\ bar.ts = ts /\ bar.symbol = s
    <3>1. shape \in StrayShapes \/ shape \in Shapes[s]
      BY <1>1 DEF Bring
    <3>2. s \in {Universe[i] : i \in DOMAIN Universe}
      BY DEF Symbols, Range
    <3>3. IsShape(shape)
      BY <3>1, <3>2, ShapesAssumption
    <3> QED
      BY <3>3, ShownIsAShape
  <2>3. books' = [books EXCEPT ![s] = book] /\ tape' = [tape EXCEPT ![s] = longer]
    BY <1>1, <2>2 DEF Bring, Dispatch
  <2>4. DOMAIN books = Symbols /\ DOMAIN tape = Symbols
    BY DEF IInv, Shaped, SInv, BooksReadTheTape
  <2>5. \A u \in Symbols : books'[u] = (IF u = s THEN book ELSE books[u])
                           /\ tape'[u] = (IF u = s THEN longer ELSE tape[u])
    BY <2>3, <2>4
  <2>6. AreTapes(HeldDays(longer), ts) /\ Agrees(book, HeldDays(longer), ts)
    <3>1. IsSequence(tape[s])
      BY DEF SInv, BooksReadTheTape, IsTape
    <3>2. AreTapes(HeldDays(tape[s]), now) /\ Agrees(books[s], HeldDays(tape[s]), now)
      BY DEF BooksTellTheDays
    <3> HIDE DEF bar
    <3>3. /\ AreTapes(HeldDays(Append(tape[s], bar)), bar.ts)
          /\ Agrees(Update(books[s], bar, SessionFor(bar.ts)), HeldDays(Append(tape[s], bar)), bar.ts)
      BY <2>1, <2>2, <3>1, <3>2, BarAgrees
    <3> QED
      BY <2>2, <3>3
  <2> HIDE DEF book, longer, ts
  <2>7. ASSUME NEW u \in Symbols
        PROVE  AreTapes(HeldDays(tape'[u]), now') /\ Agrees(books'[u], HeldDays(tape'[u]), now')
    <3>1. CASE u = s
      BY <2>1, <2>5, <2>6, <3>1
    <3>2. CASE u # s
      <4>1. AreTapes(HeldDays(tape[u]), now) /\ Agrees(books[u], HeldDays(tape[u]), now)
        BY DEF BooksTellTheDays
      <4>2. now <= ts
        BY <2>1
      <4>3. /\ AreTapes(HeldDays(tape[u]), ts)
            /\ Agrees(books[u], HeldDays(tape[u]), now) => Agrees(books[u], HeldDays(tape[u]), ts)
        BY <2>1, <4>1, <4>2, TellsLater
      <4> QED
        BY <2>1, <2>5, <3>2, <4>1, <4>3
    <3> QED
      BY <3>1, <3>2
  <2> QED
    BY <2>7 DEF BooksTellTheDays
<1>2. CASE Quiet \/ UNCHANGED vars
  <2>1. UNCHANGED <<books, tape>> /\ now' \in Nat /\ now \in Nat /\ now <= now'
    BY <1>2, HorizonAssumption DEF Quiet, vars, IInv, Shaped
  <2>2. ASSUME NEW u \in Symbols
        PROVE  AreTapes(HeldDays(tape'[u]), now') /\ Agrees(books'[u], HeldDays(tape'[u]), now')
    <3>1. AreTapes(HeldDays(tape[u]), now) /\ Agrees(books[u], HeldDays(tape[u]), now)
      BY DEF BooksTellTheDays
    <3>2. /\ AreTapes(HeldDays(tape[u]), now')
          /\ Agrees(books[u], HeldDays(tape[u]), now) => Agrees(books[u], HeldDays(tape[u]), now')
      BY <2>1, <3>1, TellsLater
    <3> QED
      BY <2>1, <3>1, <3>2
  <2> QED
    BY <2>2 DEF BooksTellTheDays
<1> QED
  BY <1>1, <1>2 DEF Next
-----------------------------------------------------------------------------
(* What the profiles of the remembered days have at a minute. *)
LEMMA SaidIsASequence ==
  ASSUME NEW days, IsSequence(days), NEW a, IsProfile(a), DOMAIN a = DOMAIN days
  PROVE  IsSequence(a) /\ Len(a) = Len(days)
<1> DEFINE n == Len(days)
<1>1. n \in Nat /\ DOMAIN days = 1..n
  BY SequenceFacts
<1> HIDE DEF n
<1>2. a \in [1..n -> {a[i] : i \in 1..n}]
  BY <1>1 DEF IsProfile
<1>3. a \in Seq({a[i] : i \in 1..n})
  BY <1>1, <1>2, SeqDef
<1>4. IsSequence(a)
  BY <1>3 DEF IsSequence
<1>5. Len(a) \in Nat /\ DOMAIN a = 1..Len(a)
  BY <1>4, SequenceFacts
<1>6. Len(a) = n
  BY <1>1, <1>5, SameLength
<1> QED
  BY <1>4, <1>6 DEF n

LEMMA MemoryIsShort ==
  ASSUME NEW days, IsSequence(days), NEW a, IsProfile(a), DOMAIN a = DOMAIN days, NEW memory \in Nat \ {0}
  PROVE  Len(Newest(a, memory)) < memory <=> Len(days) < memory
<1>1. IsSequence(a) /\ Len(a) = Len(days)
  BY SaidIsASequence
<1>2. Len(days) \in Nat
  BY SequenceFacts
<1>3. IsNewest(Newest(a, memory), a, Len(a), Shorter(Len(a), memory), memory)
  BY <1>1, NewestFacts
<1>4. Len(Newest(a, memory)) = Shorter(Len(days), memory)
  BY <1>1, <1>3 DEF IsNewest
<1> QED
  BY <1>2, <1>4 DEF Shorter

LEMMA KeptTogether ==
  ASSUME NEW a, IsSequence(a), NEW b, IsSequence(b), Len(a) = Len(b), NEW at
  PROVE  /\ DOMAIN Kept(a, at) = DOMAIN Kept(b, at)
         /\ \A i \in DOMAIN Kept(a, at) : \E j \in at \cap DOMAIN a : Kept(a, at)[i] = a[j] /\ Kept(b, at)[i] = b[j]
<1> DEFINE list == Listed(at, Len(a))
<1>1. /\ Kept(a, at) = [i \in DOMAIN list |-> a[list[i]]]
      /\ \A i \in DOMAIN list : list[i] \in at \cap DOMAIN a
  BY KeptFacts
<1>2. Kept(b, at) = [i \in DOMAIN list |-> b[list[i]]]
  <2>1. Kept(b, at) = [i \in DOMAIN Listed(at, Len(b)) |-> b[Listed(at, Len(b))[i]]]
    BY KeptFacts
  <2> QED
    BY <2>1
<1> HIDE DEF list
<1> QED
  BY <1>1, <1>2

(* Those of the remembered days that reached a minute, and what they have *)
(* at it: values, whatever that is.                                       *)
ReachedBy(held, days, memory, minute) ==
  LET last == Newest(days, memory)
  IN Kept(last, {i \in DOMAIN last : \E j \in DOMAIN held[last[i]] : IsAtMinute(held[last[i]][j], last[i], minute)})

LEMMA SamplesOfTheDays ==
  ASSUME NEW held, NEW days, IsSequence(days), NEW profiles, IsProfile(profiles), DOMAIN profiles = DOMAIN days,
         NEW memory \in Nat \ {0}, NEW minute, NEW values,
         \A i \in DOMAIN days : DOMAIN profiles[i] = Minutes(held[days[i]], days[i]),
         \A i \in DOMAIN days : minute \in DOMAIN profiles[i] => profiles[i][minute] = values[days[i]]
  PROVE  LET moved == ReachedBy(held, days, memory, minute)
         IN /\ SamplesAt(Newest(profiles, memory), minute) = [i \in DOMAIN moved |-> values[moved[i]]]
            /\ \A i \in DOMAIN moved : \E j \in DOMAIN days : moved[i] = days[j]
<1> DEFINE last == Newest(days, memory)
           at == {i \in DOMAIN last : \E j \in DOMAIN held[last[i]] : IsAtMinute(held[last[i]][j], last[i], minute)}
           short == Newest(profiles, memory)
           P == {i \in DOMAIN short : minute \in DOMAIN short[i]}
<1>1. IsSequence(profiles) /\ Len(profiles) = Len(days)
  BY SaidIsASequence
<1>2. IsNewest(short, profiles, Len(days), Shorter(Len(days), memory), memory)
  BY <1>1, NewestFacts
<1>3. IsNewest(last, days, Len(days), Shorter(Len(days), memory), memory)
  BY NewestFacts
<1> HIDE DEF short, last
<1> DEFINE k == Shorter(Len(days), memory)
           offset == Len(days) - k
<1>4. /\ IsSequence(short) /\ IsSequence(last) /\ Len(short) = k /\ Len(last) = k
      /\ DOMAIN short = 1..k /\ DOMAIN last = 1..k
      /\ \A i \in 1..k : i + offset \in DOMAIN days /\ short[i] = profiles[i + offset] /\ last[i] = days[i + offset]
  BY <1>2, <1>3 DEF IsNewest
<1> HIDE DEF k, offset
<1>5. ASSUME NEW i \in 1..k
      PROVE  /\ minute \in DOMAIN short[i] <=> \E j \in DOMAIN held[last[i]] : IsAtMinute(held[last[i]][j], last[i], minute)
             /\ minute \in DOMAIN short[i] => short[i][minute] = values[last[i]]
  <2>1. i + offset \in DOMAIN days /\ short[i] = profiles[i + offset] /\ last[i] = days[i + offset]
    BY <1>4
  <2>2. DOMAIN short[i] = Minutes(held[last[i]], last[i])
    BY <2>1
  <2>3. minute \in DOMAIN short[i] => short[i][minute] = values[last[i]]
    BY <2>1
  <2>4. minute \in Minutes(held[last[i]], last[i])
          <=> \E j \in DOMAIN held[last[i]] : IsAtMinute(held[last[i]][j], last[i], minute)
    BY DEF Minutes, IsAtMinute
  <2> QED
    BY <2>2, <2>3, <2>4
<1>6. P = at
  BY <1>4, <1>5
<1> DEFINE reached == Kept(short, at)
           moved == Kept(last, at)
<1>7. SamplesAt(short, minute) = [i \in DOMAIN reached |-> reached[i][minute]]
  BY <1>6 DEF SamplesAt
<1> HIDE DEF P, at
<1>8. /\ DOMAIN reached = DOMAIN moved
      /\ \A i \in DOMAIN reached : \E j \in at \cap DOMAIN short : reached[i] = short[j] /\ moved[i] = last[j]
  BY <1>4, KeptTogether
<1> HIDE DEF reached, moved
<1>9. ASSUME NEW i \in DOMAIN reached
      PROVE  reached[i][minute] = values[moved[i]] /\ \E j \in DOMAIN days : moved[i] = days[j]
  <2>1. PICK j \in at \cap DOMAIN short : reached[i] = short[j] /\ moved[i] = last[j]
    BY <1>8
  <2>2. j \in 1..k
    BY <1>4, <2>1
  <2>3. minute \in DOMAIN short[j]
    BY <1>6, <2>1 DEF P
  <2>4. short[j][minute] = values[last[j]]
    BY <1>5, <2>2, <2>3
  <2>5. j + offset \in DOMAIN days /\ last[j] = days[j + offset]
    BY <1>4, <2>2
  <2> QED
    BY <2>1, <2>4, <2>5
<1>10. SamplesAt(short, minute) = [i \in DOMAIN moved |-> values[moved[i]]]
  BY <1>7, <1>8, <1>9
<1> QED
  BY <1>8, <1>9, <1>10 DEF short, moved, at, last, ReachedBy
-----------------------------------------------------------------------------
(* What the book tells is what the tape says. *)
LEMMA ReadTheTape ==
  ASSUME NEW s, NEW d \in DOMAIN Days
  PROVE  /\ \A e \in DOMAIN Days : BarsOf(s, e) = HeldDays(tape[s])[e]
         /\ TradedBefore(s, d) = Before(HeldDays(tape[s]), d)
<1> DEFINE held == HeldDays(tape[s])
<1>1. \A e \in DOMAIN Days : BarsOf(s, e) = held[e]
  BY DEF BarsOf, HeldDays, Held, OfDay
<1> HIDE DEF held
<1>2. {e \in DOMAIN Days : BarsOf(s, e) # <<>>} = {e \in DOMAIN Days : held[e] # <<>>}
  BY <1>1
<1>3. TradedBefore(s, d) = Before(held, d)
  BY <1>2 DEF TradedBefore, Before
<1> QED
  BY <1>1, <1>3 DEF held

LEMMA RangesAsTold ==
  ASSUME NEW book, NEW held, NEW until \in Nat, AreTapes(held, until), NEW d \in DOMAIN Days,
         Tells(book, held, d, until)
  PROVE  /\ DOMAIN book.levels.ranges = {w \in OpeningWindows : w <= Len(held[d])}
         /\ \A w \in DOMAIN book.levels.ranges : book.levels.ranges[w] = OpeningRange(held[d], w)
<1> DEFINE bars == held[d]
<1>1. BookReads(book, bars, d, 1) /\ Len(bars) = book.levels.bar_count /\ IsTape(bars, until)
  BY DEF Tells, AreTapes
<1> HIDE DEF bars
<1>2. DOMAIN book.levels.ranges = {w \in OpeningWindows : w <= Len(bars)}
  BY <1>1 DEF BookReads
<1>3. ASSUME NEW w \in DOMAIN book.levels.ranges PROVE book.levels.ranges[w] = OpeningRange(bars, w)
  <2>1. w \in Nat \ {0} /\ w <= Len(bars) /\ IsSequence(bars)
    BY <1>1, <1>2, WindowFacts DEF IsTape
  <2>2. OpeningRange(bars, w) = RangeFrom(bars, 1, w)
    BY <2>1, OpeningRangeIsOfItsBars
  <2>3. book.levels.ranges[w] = RangeFrom(bars, 1, w)
    BY <1>1 DEF BookReads, KeepsTheRanges
  <2> QED
    BY <2>2, <2>3
<1> QED
  BY <1>2, <1>3 DEF bars

LEMMA SpansAsTold ==
  ASSUME NEW s, NEW d \in DOMAIN Days, Carries(books[s], HeldDays(tape[s]), Before(HeldDays(tape[s]), d))
  PROVE  LET before == TradedBefore(s, d)
             spans == Newest([i \in DOMAIN before |-> SpanOf(BarsOf(s, before[i]))], RangeMemory)
         IN RangeMean(books[s]) = IF Len(before) < RangeMemory THEN None ELSE Total(spans) \div Len(spans)
<1> DEFINE held == HeldDays(tape[s])
           before == Before(held, d)
           told == Spans(held, before)
           said == [i \in DOMAIN before |-> SpanOf(BarsOf(s, before[i]))]
<1>1. /\ \A e \in DOMAIN Days : BarsOf(s, e) = held[e]
      /\ TradedBefore(s, d) = before
  BY ReadTheTape
<1>2. books[s].ranges = Newest(told, RangeMemory)
  BY DEF Carries
<1> HIDE DEF held
<1>3. /\ IsSequence(before)
      /\ \A i \in DOMAIN before : before[i] \in DOMAIN Days /\ before[i] < d /\ held[before[i]] # <<>>
  BY BeforeFacts
<1> HIDE DEF before
<1>4. told = said
  BY <1>1, <1>3 DEF Spans
<1>5. IsProfile(told) /\ DOMAIN told = DOMAIN before
  BY DEF IsProfile, Spans
<1> HIDE DEF told, said
<1>6. Len(Newest(told, RangeMemory)) < RangeMemory <=> Len(before) < RangeMemory
  BY <1>3, <1>5, MemoryAssumption, MemoryIsShort
<1>7. RangeMean(books[s]) = IF Len(before) < RangeMemory THEN None
                            ELSE Total(Newest(told, RangeMemory)) \div Len(Newest(told, RangeMemory))
  BY <1>2, <1>6 DEF RangeMean
<1> QED
  BY <1>1, <1>4, <1>7 DEF said

(* The days that reached a minute, and the profiles of a book at it. *)
Profiled(profiles, held, days, minute, values) ==
  /\ IsProfile(profiles) /\ DOMAIN profiles = DOMAIN days
  /\ \A i \in DOMAIN days : DOMAIN profiles[i] = Minutes(held[days[i]], days[i])
  /\ \A i \in DOMAIN days : minute \in DOMAIN profiles[i] => profiles[i][minute] = values[days[i]]

LEMMA ReachingAsTold ==
  ASSUME NEW s, NEW d \in DOMAIN Days, NEW profiles, NEW memory \in Nat \ {0}, NEW minute, NEW values,
         Profiled(profiles, HeldDays(tape[s]), Before(HeldDays(tape[s]), d), minute, values)
  PROVE  /\ Len(Newest(profiles, memory)) < memory <=> Len(TradedBefore(s, d)) < memory
         /\ SamplesAt(Newest(profiles, memory), minute)
              = [i \in DOMAIN Reaching(s, d, memory, minute) |-> values[Reaching(s, d, memory, minute)[i]]]
         /\ \A i \in DOMAIN Reaching(s, d, memory, minute) : Reaching(s, d, memory, minute)[i] \in DOMAIN Days
<1> DEFINE held == HeldDays(tape[s])
           before == Before(held, d)
           last == Newest(before, memory)
           moved == ReachedBy(held, before, memory, minute)
<1>1. /\ \A e \in DOMAIN Days : BarsOf(s, e) = held[e]
      /\ TradedBefore(s, d) = before
  BY ReadTheTape
<1>2. /\ IsSequence(before)
      /\ \A i \in DOMAIN before : before[i] \in DOMAIN Days /\ before[i] < d /\ held[before[i]] # <<>>
  BY BeforeFacts
<1>3. /\ IsProfile(profiles) /\ DOMAIN profiles = DOMAIN before
      /\ \A i \in DOMAIN before : DOMAIN profiles[i] = Minutes(held[before[i]], before[i])
      /\ \A i \in DOMAIN before : minute \in DOMAIN profiles[i] => profiles[i][minute] = values[before[i]]
  BY DEF Profiled
<1> HIDE DEF held, before
<1>4. Len(Newest(profiles, memory)) < memory <=> Len(before) < memory
  BY <1>2, <1>3, MemoryIsShort
<1>5. /\ SamplesAt(Newest(profiles, memory), minute) = [i \in DOMAIN moved |-> values[moved[i]]]
      /\ \A i \in DOMAIN moved : \E j \in DOMAIN before : moved[i] = before[j]
  BY <1>2, <1>3, SamplesOfTheDays
<1>6. \A i \in DOMAIN last : last[i] \in DOMAIN Days
  <2>1. IsNewest(last, before, Len(before), Shorter(Len(before), memory), memory)
    BY <1>2, NewestFacts
  <2> HIDE DEF last
  <2> QED
    BY <1>2, <2>1 DEF IsNewest
<1>7. Reaching(s, d, memory, minute) = moved
  <2> DEFINE there == {i \in DOMAIN last :
               \E j \in DOMAIN BarsOf(s, last[i]) : IsAtMinute(BarsOf(s, last[i])[j], last[i], minute)}
             at == {i \in DOMAIN last : \E j \in DOMAIN held[last[i]] : IsAtMinute(held[last[i]][j], last[i], minute)}
  <2>1. Reaching(s, d, memory, minute) = Kept(last, there)
    BY <1>1 DEF Reaching
  <2>2. moved = Kept(last, at)
    BY DEF ReachedBy
  <2> HIDE DEF last
  <2>3. there = at
    BY <1>1, <1>6
  <2> QED
    BY <2>1, <2>2, <2>3
<1> HIDE DEF moved
<1> QED
  BY <1>1, <1>2, <1>4, <1>5, <1>7
-----------------------------------------------------------------------------
(* The two samples at a minute, of the days that reached it. *)
LEMMA MovesAsTold ==
  ASSUME NEW s, NEW d \in DOMAIN Days, NEW minute,
         Carries(books[s], HeldDays(tape[s]), Before(HeldDays(tape[s]), d))
  PROVE  LET before == TradedBefore(s, d)
             reached == Reaching(s, d, MoveMemory, minute)
             samples == [i \in DOMAIN reached |-> MoveBy(BarsOf(s, reached[i]), reached[i], minute)]
         IN MeanMove(books[s], minute) = IF Len(before) < MoveMemory \/ samples = <<>> THEN None
                                         ELSE Total(samples) \div Len(samples)
<1> DEFINE held == HeldDays(tape[s])
           days == Before(held, d)
           profiles == MoveProfiles(held, days)
           values == [e \in DOMAIN Days |-> MoveBy(held[e], e, minute)]
           before == TradedBefore(s, d)
           reached == Reaching(s, d, MoveMemory, minute)
           samples == [i \in DOMAIN reached |-> MoveBy(BarsOf(s, reached[i]), reached[i], minute)]
<1>1. /\ \A e \in DOMAIN Days : BarsOf(s, e) = held[e]
      /\ TradedBefore(s, d) = days
  BY ReadTheTape
<1>2. books[s].moves = Newest(profiles, MoveMemory)
  BY DEF Carries
<1>3. IsProfile(profiles) /\ DOMAIN profiles = DOMAIN days
  BY DEF IsProfile, MoveProfiles
<1>4. \A i \in DOMAIN days : days[i] \in DOMAIN Days
  <2>1. /\ IsSequence(days)
        /\ \A i \in DOMAIN days : days[i] \in DOMAIN Days /\ days[i] < d /\ held[days[i]] # <<>>
    BY BeforeFacts
  <2> QED
    BY <2>1
<1> HIDE DEF held
<1>5. ASSUME NEW i \in DOMAIN days
      PROVE  LET e == days[i]
             IN /\ DOMAIN profiles[i] = Minutes(held[e], e)
                /\ minute \in DOMAIN profiles[i] => profiles[i][minute] = values[e]
  <2> DEFINE e == days[i]
  <2>1. profiles[i] = MovesOf(held[e], e) /\ e \in DOMAIN Days
    BY <1>3, <1>4 DEF MoveProfiles
  <2> HIDE DEF e, profiles
  <2> QED
    BY <2>1 DEF MovesOf, e
<1> HIDE DEF profiles, days, values, before, reached
<1>6. Profiled(profiles, held, days, minute, values)
  BY <1>3, <1>5 DEF Profiled
<1>7. /\ Len(Newest(profiles, MoveMemory)) < MoveMemory <=> Len(before) < MoveMemory
      /\ SamplesAt(Newest(profiles, MoveMemory), minute) = [i \in DOMAIN reached |-> values[reached[i]]]
      /\ \A i \in DOMAIN reached : reached[i] \in DOMAIN Days
  BY <1>6, MemoryAssumption, ReachingAsTold DEF before, reached, days, held
<1>8. SamplesAt(books[s].moves, minute) = samples
  <2>1. ASSUME NEW i \in DOMAIN reached PROVE values[reached[i]] = MoveBy(BarsOf(s, reached[i]), reached[i], minute)
    BY <1>1, <1>7 DEF values
  <2> QED
    BY <1>2, <1>7, <2>1
<1> HIDE DEF samples
<1>9. MeanMove(books[s], minute) = IF Len(before) < MoveMemory \/ samples = <<>> THEN None
                                         ELSE Total(samples) \div Len(samples)
  BY <1>2, <1>7, <1>8 DEF MeanMove
<1> QED
  BY <1>9 DEF samples, before, reached

LEMMA VolumesAsTold ==
  ASSUME NEW s, NEW d \in DOMAIN Days, NEW minute,
         Carries(books[s], HeldDays(tape[s]), Before(HeldDays(tape[s]), d))
  PROVE  LET before == TradedBefore(s, d)
             reached == Reaching(s, d, VolumeMemory, minute)
             samples == [i \in DOMAIN reached |-> PaidBy(BarsOf(s, reached[i]), reached[i], minute).volume]
         IN RelativeVolume(books[s], minute) = IF Len(before) < VolumeMemory \/ Total(samples) <= 0 THEN None
              ELSE (books[s].paid.volume * Len(samples) * Scale) \div Total(samples)
<1> DEFINE held == HeldDays(tape[s])
           days == Before(held, d)
           profiles == VolumeProfiles(held, days)
           values == [e \in DOMAIN Days |-> PaidBy(held[e], e, minute).volume]
           before == TradedBefore(s, d)
           reached == Reaching(s, d, VolumeMemory, minute)
           samples == [i \in DOMAIN reached |-> PaidBy(BarsOf(s, reached[i]), reached[i], minute).volume]
<1>1. /\ \A e \in DOMAIN Days : BarsOf(s, e) = held[e]
      /\ TradedBefore(s, d) = days
  BY ReadTheTape
<1>2. books[s].volumes = Newest(profiles, VolumeMemory)
  BY DEF Carries
<1>3. IsProfile(profiles) /\ DOMAIN profiles = DOMAIN days
  BY DEF IsProfile, VolumeProfiles
<1>4. \A i \in DOMAIN days : days[i] \in DOMAIN Days
  <2>1. /\ IsSequence(days)
        /\ \A i \in DOMAIN days : days[i] \in DOMAIN Days /\ days[i] < d /\ held[days[i]] # <<>>
    BY BeforeFacts
  <2> QED
    BY <2>1
<1> HIDE DEF held
<1>5. ASSUME NEW i \in DOMAIN days
      PROVE  LET e == days[i]
             IN /\ DOMAIN profiles[i] = Minutes(held[e], e)
                /\ minute \in DOMAIN profiles[i] => profiles[i][minute] = values[e]
  <2> DEFINE e == days[i]
  <2>1. profiles[i] = VolumesOf(held[e], e) /\ e \in DOMAIN Days
    BY <1>3, <1>4 DEF VolumeProfiles
  <2> HIDE DEF e, profiles
  <2> QED
    BY <2>1 DEF VolumesOf, e
<1> HIDE DEF profiles, days, values, before, reached
<1>6. Profiled(profiles, held, days, minute, values)
  BY <1>3, <1>5 DEF Profiled
<1>7. /\ Len(Newest(profiles, VolumeMemory)) < VolumeMemory <=> Len(before) < VolumeMemory
      /\ SamplesAt(Newest(profiles, VolumeMemory), minute) = [i \in DOMAIN reached |-> values[reached[i]]]
      /\ \A i \in DOMAIN reached : reached[i] \in DOMAIN Days
  BY <1>6, MemoryAssumption, ReachingAsTold DEF before, reached, days, held
<1>8. SamplesAt(books[s].volumes, minute) = samples
  <2>1. ASSUME NEW i \in DOMAIN reached PROVE values[reached[i]] = PaidBy(BarsOf(s, reached[i]), reached[i], minute).volume
    BY <1>1, <1>7 DEF values
  <2> QED
    BY <1>2, <1>7, <2>1
<1> HIDE DEF samples
<1>9. RelativeVolume(books[s], minute) = IF Len(before) < VolumeMemory \/ Total(samples) <= 0 THEN None
              ELSE (books[s].paid.volume * Len(samples) * Scale) \div Total(samples)
  BY <1>2, <1>7, <1>8 DEF RelativeVolume
<1> QED
  BY <1>9 DEF samples, before, reached
-----------------------------------------------------------------------------
(* The levels of a symbol, read off the tape. *)
LEMMA LevelsAsTold ==
  ASSUME now \in Nat, NEW s, NEW d \in DOMAIN Days, AreTapes(HeldDays(tape[s]), now),
         Tells(books[s], HeldDays(tape[s]), d, now)
  PROVE  AsTheTapeSays(s, d)
<1> DEFINE held == HeldDays(tape[s])
           book == books[s]
           l == book.levels
           bars == BarsOf(s, d)
           before == TradedBefore(s, d)
           minute == Last(bars).ts - Days[d].open
           spans == Newest([i \in DOMAIN before |-> SpanOf(BarsOf(s, before[i]))], RangeMemory)
           moved == Reaching(s, d, MoveMemory, minute)
           moves == [i \in DOMAIN moved |-> MoveBy(BarsOf(s, moved[i]), moved[i], minute)]
           sold == Reaching(s, d, VolumeMemory, minute)
           volumes == [i \in DOMAIN sold |-> PaidBy(BarsOf(s, sold[i]), sold[i], minute).volume]
<1>1. /\ \A e \in DOMAIN Days : BarsOf(s, e) = held[e]
      /\ before = Before(held, d)
  BY ReadTheTape
<1>2. /\ Len(held[d]) = l.bar_count /\ \A e \in DOMAIN Days : held[e] # <<>> => e <= d
      /\ Stands(book, held[d], d, now) /\ Levels(book, held[d], d) /\ Carries(book, held, Before(held, d))
  BY DEF Tells
<1>3. /\ DOMAIN l.ranges = {w \in OpeningWindows : w <= Len(held[d])}
      /\ \A w \in DOMAIN l.ranges : l.ranges[w] = OpeningRange(held[d], w)
  <2>1. AreTapes(held, now) /\ Tells(book, held, d, now)
    OBVIOUS
  <2> HIDE DEF held, book
  <2> QED
    BY <2>1, RangesAsTold
<1>4. RangeMean(book) = IF Len(before) < RangeMemory THEN None ELSE Total(spans) \div Len(spans)
  BY <1>2, SpansAsTold
<1> HIDE DEF minute
<1>5. MeanMove(book, minute) = IF Len(before) < MoveMemory \/ moves = <<>> THEN None
                               ELSE Total(moves) \div Len(moves)
  BY <1>2, MovesAsTold
<1>6. RelativeVolume(book, minute) = IF Len(before) < VolumeMemory \/ Total(volumes) <= 0 THEN None
                                     ELSE (book.paid.volume * Len(volumes) * Scale) \div Total(volumes)
  BY <1>2, VolumesAsTold
<1> HIDE DEF held, bars, before, spans, moves, volumes, moved, sold
<1>7. bars = held[d]
  BY <1>1 DEF bars
<1>8. /\ Spanned(l, bars) /\ l.close = Last(bars).close /\ l.paid = book.paid /\ l.prior_close = book.prior_close
      /\ l.prior_range_mean = RangeMean(book)
      /\ l.mean_move = MeanMove(book, minute) /\ l.relative_volume = RelativeVolume(book, minute)
  BY <1>2, <1>7 DEF Levels, minute
<1>9. l.paid = SessionPaid(bars, now)
  BY <1>2, <1>7, <1>8 DEF Stands
<1>10. l.prior_close = IF before = <<>> THEN None ELSE Last(BarsOf(s, Last(before))).close
  <2>1. book.prior_close = IF before = <<>> THEN None ELSE Last(held[Last(before)]).close
    BY <1>1, <1>2 DEF Carries
  <2>2. ASSUME before # <<>> PROVE BarsOf(s, Last(before)) = held[Last(before)]
    <3>1. /\ IsSequence(before)
          /\ \A i \in DOMAIN before : before[i] \in DOMAIN Days /\ before[i] < d /\ held[before[i]] # <<>>
      BY <1>1, BeforeFacts
    <3>2. Len(before) \in Nat /\ DOMAIN before = 1..Len(before)
      BY <3>1, SequenceFacts
    <3>3. Len(before) # 0
      <4> DEFINE none == <<>>
      <4>1. IsSequence(none) /\ Len(none) = 0
        <5>1. <<>> \in Seq({})
          BY EmptySeq
        <5> QED
          BY <5>1, EmptySeq DEF IsSequence
      <4> HIDE DEF none
      <4>2. Len(before) = 0 => before = none
        BY <3>1, <4>1, SameSequence
      <4> QED
        BY <2>2, <4>2 DEF none
    <3>4. Len(before) \in DOMAIN before
      BY <3>2, <3>3
    <3>5. Last(before) \in DOMAIN Days
      BY <3>1, <3>4 DEF Last
    <3> QED
      BY <1>1, <3>5
  <2> QED
    BY <1>8, <2>1, <2>2
<1>11. \A e \in DOMAIN Days : BarsOf(s, e) # <<>> => e <= d
  BY <1>1, <1>2
<1>12. /\ l.bar_count = Len(bars) /\ l.session_open = bars[1].open
       /\ l.high = HighestOf(bars) /\ l.low = LowestOf(bars)
  BY <1>2, <1>7, <1>8 DEF Spanned
<1>13. /\ DOMAIN l.ranges = {w \in OpeningWindows : w <= Len(bars)}
       /\ \A w \in DOMAIN l.ranges : l.ranges[w] = OpeningRange(bars, w)
  BY <1>3, <1>7
<1> HIDE DEF book
<1>14. /\ l.prior_range_mean = IF Len(before) < RangeMemory THEN None ELSE Total(spans) \div Len(spans)
       /\ l.mean_move = IF Len(before) < MoveMemory \/ moves = <<>> THEN None
                        ELSE Total(moves) \div Len(moves)
       /\ l.relative_volume = IF Len(before) < VolumeMemory \/ Total(volumes) <= 0 THEN None
            ELSE (l.paid.volume * Len(volumes) * Scale) \div Total(volumes)
  BY <1>4, <1>5, <1>6, <1>8
<1> HIDE DEF l
<1> QED
  BY <1>8, <1>9, <1>10, <1>11, <1>12, <1>13, <1>14
     DEF AsTheTapeSays, book, l, bars, before, minute, spans, moved, moves, sold, volumes

LEMMA ToldIsTheSession == IInv /\ BooksTellTheDays => LevelsAreTheSession
<1> SUFFICES ASSUME IInv, BooksTellTheDays, NEW s \in Symbols, books[s].levels # NoLevels
             PROVE  AsTheTapeSays(s, CHOOSE d \in DOMAIN Days : Days[d].day = books[s].levels.day)
  BY DEF LevelsAreTheSession
<1>1. now \in Nat
  BY HorizonAssumption DEF IInv, Shaped
<1>2. AreTapes(HeldDays(tape[s]), now) /\ Agrees(books[s], HeldDays(tape[s]), now)
  BY DEF BooksTellTheDays
<1>3. NewBook.levels = NoLevels
  BY DEF NewBook
<1>4. PICK d \in DOMAIN Days : Tells(books[s], HeldDays(tape[s]), d, now)
  BY <1>2, <1>3 DEF Agrees
<1>5. AsTheTapeSays(s, d)
  BY <1>1, <1>2, <1>4, LevelsAsTold
<1>6. books[s].levels.day = Days[d].day
  BY <1>4 DEF Tells, BookReads
<1>7. (CHOOSE e \in DOMAIN Days : Days[e].day = books[s].levels.day) = d
  BY <1>6, DayIsItsOwn
<1> QED
  BY <1>5, <1>7

(* For every calendar of sessions in order, every possible bar, whichever   *)
(* minutes are missing, and every length of memory: the levels a strategy   *)
(* is shown are those of the session the symbol printed in last, and equal  *)
(* what the whole tape says of that session and of the days before it       *)
(* (SessionLevelTracker.update, levels.py:597-683).                         *)
THEOREM LevelsAreAlwaysOfTheSession == Spec => []LevelsAreTheSession
<1>1. IInv /\ BooksTellTheDays => LevelsAreTheSession
  BY ToldIsTheSession
<1>2. Init => IInv /\ SInv /\ BooksTellTheDays
  BY InitIInv, InitSInv, InitTellsTheDays
<1>3. IInv /\ SInv /\ BooksTellTheDays /\ [Next]_vars => (IInv /\ SInv /\ BooksTellTheDays)'
  BY StepIInv, StepSInv, StepTellsTheDays
<1> QED
  BY <1>1, <1>2, <1>3, PTL DEF Spec
=============================================================================
