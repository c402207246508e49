------------------------------ MODULE Backtest ------------------------------
(***************************************************************************)
(* A backtest: lab/engine.py, which wires a digest, a collector, the       *)
(* context and the strategies to the event bus of bus.py, driven by        *)
(* lab/drive.py over the merged corpus of lab/feed.py.  One thread runs    *)
(* it; what matters is the order in which handlers see events, because a   *)
(* handler publishes while it is itself being called, and who may know     *)
(* what by then.  A step here is one call of one handler.                  *)
(***************************************************************************)
EXTENDS MarketContext

CONSTANTS
  Strategies,   \* in registration order
  Start, End,   \* the half-open range that is driven
  Warmup,       \* warmup_ns
  Extras        \* bound: bars the corpus holds again, and intents proposed

(* Time starts after 0, which stands for "never".                           *)
ASSUME SpanAssumption == Start \in Nat /\ End \in Nat /\ Warmup \in Nat

VARIABLES
  seen,         \* the bars read from the feed so far, warm-up first
  warm,         \* how many of them were warm-up
  clock,        \* the SimClock
  calls,        \* bus.publish calls in progress: event and subscriptions to come
  outbox,       \* engine._publish: the intents its loop has yet to publish
  digest,       \* the events folded into the RunDigest, in order
  intents,      \* engine._intents
  shown,        \* the view the strategy called last on this bar was handed
  status        \* "running", "failed" (HandlerFailed) or "done"

vars == <<contextVars, seen, warm, clock, calls, outbox, digest, intents, shown, status>>

Rank(s) == CHOOSE i \in DOMAIN Symbols : Symbols[i] = s
Bars == [kind : {"bar"}, symbol : Universe, ts : 1 .. End - 1]
IsBar(event) == event.kind = "bar"
IsIntent(event) == event.kind = "intent"

NoView == [symbol |-> "none", as_of |-> 0, windows |-> [n \in Lookbacks |-> <<>>],
           levels |-> NoLevels, section |-> NoSection]

Init ==
  /\ ContextInit
  /\ seen = <<>> /\ warm = 0 /\ clock = 0
  /\ calls = <<>> /\ outbox = <<>>
  /\ digest = <<>> /\ intents = <<>>
  /\ shown = NoView /\ status = "running"
-----------------------------------------------------------------------------
(* __post_init__, then add_strategy for each: who hears what, in order. *)
Subscription(name, kinds) == [name |-> name, kinds |-> kinds]
OfStrategies == [i \in DOMAIN Strategies |-> Subscription(Strategies[i], {"bar"})]
OfEngineDigestLast ==
  <<Subscription("collect", {"intent"}), Subscription("observe", {"bar"})>>

SubscriptionsDigestLast ==
  OfEngineDigestLast \o OfStrategies \o <<Subscription("digest", {"bar", "intent"})>>
Subscriptions ==
  <<Subscription("digest", {"bar", "intent"}), Subscription("collect", {"intent"}),
    Subscription("observe", {"bar"})>> \o OfStrategies

(* A subscription's name stands for its handler, which is its own: nothing *)
(* in this code adds one strategy to an engine twice.                      *)
ASSUME HandlersAreTheirOwn ==
  /\ Strategies \in Seq(Range(Strategies))
  /\ \A i, j \in DOMAIN Subscriptions : Subscriptions[i].name = Subscriptions[j].name => i = j

(* EventBus.publish: one call per matching handler, in subscription order. *)
Handlers(event) == {i \in DOMAIN Subscriptions : event.kind \in Subscriptions[i].kinds}
Publish(event) == Append(calls, [event |-> event, todo |-> Handlers(event)])

Top == Last(calls)
-----------------------------------------------------------------------------
(* merge_bars: ascending (ts, seq, symbol), seq being 0 on every bar. *)
Precedes(a, b) == a.ts < b.ts \/ (a.ts = b.ts /\ Rank(a.symbol) < Rank(b.symbol))
ExtrasUsed == Cardinality({i \in 2 .. Len(seen) : seen[i] = seen[i - 1]}) + Len(intents) + Len(outbox)

Comes(bar) ==
  seen # <<>> => IF Last(seen) = bar THEN ExtrasUsed < Extras
                 ELSE Precedes(Last(seen), bar)

Idle == status = "running" /\ calls = <<>>

(* The warm-up span is observed and never published. *)
WarmUp(bar) ==
  /\ Idle /\ warm = Len(seen)
  /\ Start - Warmup <= bar.ts /\ bar.ts < Start /\ Comes(bar)
  /\ seen' = Append(seen, bar) /\ warm' = warm + 1
  /\ Observe(bar)
  /\ UNCHANGED <<clock, calls, outbox, digest, intents, shown, status>>

(* drive: the clock first, then the bus. *)
Drive(bar) ==
  /\ Idle
  /\ Start <= bar.ts /\ bar.ts < End /\ Comes(bar)
  /\ seen' = Append(seen, bar)
  /\ clock' = bar.ts
  /\ calls' = Publish(bar)
  /\ UNCHANGED <<contextVars, warm, outbox, digest, intents, shown, status>>

Finish ==
  /\ Idle
  /\ status' = "done"
  /\ UNCHANGED <<contextVars, seen, warm, clock, calls, outbox, digest, intents, shown>>
-----------------------------------------------------------------------------
(* A bar's next handler waits for the loop that publishes its intents. *)
Handling(name) ==
  /\ status = "running" /\ calls # <<>>
  /\ outbox = <<>> \/ IsIntent(Top.event)
  /\ \E i \in Top.todo :
       /\ Subscriptions[i].name = name
       /\ \A j \in Top.todo : i <= j
       /\ calls' = [calls EXCEPT ![Len(calls)].todo = @ \ {i}]

Digest ==
  /\ Handling("digest")
  /\ digest' = Append(digest, Top.event)
  /\ UNCHANGED <<contextVars, seen, warm, clock, outbox, intents, shown, status>>

Collect ==
  /\ Handling("collect")
  /\ intents' = Append(intents, Top.event)
  /\ UNCHANGED <<contextVars, seen, warm, clock, outbox, digest, shown, status>>

ObserveBar ==
  /\ Handling("observe")
  /\ Observe(Top.event)
  /\ UNCHANGED <<seen, warm, clock, outbox, digest, intents, shown, status>>

(* What on_bar returned, stamped by the host with the features it showed. *)
Intent(strategy, view, nth) ==
  [kind |-> "intent", strategy |-> strategy, symbol |-> view.symbol,
   ts |-> view.as_of, nth |-> nth, features |-> view.windows]

(* handle: not eligible in this regime, or on_bar proposes, or it raises. *)
Ineligible(strategy) ==
  /\ Handling(strategy)
  /\ shown' = NoView
  /\ UNCHANGED <<contextVars, seen, warm, clock, outbox, digest, intents, status>>

OnBar(strategy) ==
  /\ Handling(strategy)
  /\ LET view == View(Top.event, strategy \in WantSection)
     IN /\ shown' = view
        /\ \E n \in 0 .. Extras - ExtrasUsed :
             outbox' = [i \in 1 .. n |-> Intent(strategy, view, i)]
  /\ UNCHANGED <<contextVars, seen, warm, clock, digest, intents, status>>

Raise(strategy) ==
  /\ Handling(strategy)
  /\ status' = "failed"
  /\ UNCHANGED <<contextVars, seen, warm, clock, outbox, digest, intents, shown>>

(* The loop of engine._publish: the next intent goes out once the last is back. *)
PublishOnTheBus ==
  /\ calls' = Publish(Head(outbox))
  /\ UNCHANGED intents
PublishNext ==
  /\ status = "running" /\ outbox # <<>> /\ IsBar(Top.event)
  /\ PublishOnTheBus
  /\ outbox' = Tail(outbox)
  /\ UNCHANGED <<contextVars, seen, warm, clock, digest, shown, status>>

Return ==
  /\ status = "running" /\ calls # <<>> /\ Top.todo = {}
  /\ IsIntent(Top.event) \/ outbox = <<>>
  /\ calls' = Front(calls)
  /\ shown' = IF IsBar(Top.event) THEN NoView ELSE shown
  /\ UNCHANGED <<contextVars, seen, warm, clock, outbox, digest, intents, status>>

Handler(strategy) == Ineligible(strategy) \/ OnBar(strategy) \/ Raise(strategy)

Next ==
  \/ \E bar \in Bars : WarmUp(bar) \/ Drive(bar)
  \/ Digest \/ Collect \/ ObserveBar \/ PublishNext \/ Return \/ Finish
  \/ \E strategy \in Range(Strategies) : Handler(strategy)

Spec == Init /\ [][Next]_vars
-----------------------------------------------------------------------------
Times(s, upto) == {seen[i].ts : i \in {j \in DOMAIN seen : seen[j].symbol = s /\ seen[j].ts <= upto}}
Prints(s, upto) == {ts \in Times(s, upto) : Holding(ts) # {}}
PrintsOfDay(s, d) == {ts \in Times(s, End) : Holding(ts) = {d}}

(* What folds into a section: a print, or any later bar of the same symbol. *)
FoldedTicks == UNION {{ts \in Times(s, End) : Prints(s, ts) # {}} : s \in Universe}

BarsIn(log) == {i \in DOMAIN log : IsBar(log[i])}
IntentsIn(log) == {i \in DOMAIN log : IsIntent(log[i])}

(* What a log holds at some of its places is a list, in the list's order. *)
Lists(log, places, list) ==
  /\ Cardinality(places) = Len(list)
  /\ \A i \in places : log[i] = list[Cardinality({j \in places : j <= i})]

(* Registration order, then the order in which one strategy returned them. *)
Place(strategy) == CHOOSE i \in DOMAIN Strategies : Strategies[i] = strategy
Before(a, b) ==
  \/ Place(a.strategy) < Place(b.strategy)
  \/ a.strategy = b.strategy /\ a.nth < b.nth

(* An intent enters the digest after the bar it was made on and before the *)
(* next bar, and the intents of one bar enter in registration order.       *)
IntentsFollowTheirBar ==
  \A i \in IntentsIn(digest) : \E cause \in 1 .. i - 1 :
    /\ IsBar(digest[cause])
    /\ digest[cause].symbol = digest[i].symbol
    /\ digest[cause].ts = digest[i].ts
    /\ \A j \in cause + 1 .. i - 1 : IsIntent(digest[j]) /\ Before(digest[j], digest[i])

(* Between bars, and at the end of a run that is not failed, the digest    *)
(* covers exactly the bars that were driven, none of the warm-up, and the  *)
(* intents the result will report.                                         *)
DigestIsTheRun ==
  (calls = <<>> /\ outbox = <<>>) =>
    /\ Lists(digest, BarsIn(digest), SubSeq(seen, warm + 1, Len(seen)))
    /\ Lists(digest, IntentsIn(digest), intents)

(* The digest two runs are compared by is causal, in registration order,    *)
(* and of exactly the run.                                                  *)
DigestIsTheRunInOrder == IntentsFollowTheirBar /\ DigestIsTheRun

(* A strategy acting on a bar is shown, for each feature, the newest bars  *)
(* of that symbol up to and including this one, each once, however often   *)
(* the window was trimmed and the corpus repeats a bar; or nothing while   *)
(* there are too few of them.                                              *)
FeaturesSeeTheTail ==
  shown # NoView => \A n \in Lookbacks :
    LET times == Times(shown.symbol, shown.as_of)
        window == shown.windows[n]
    IN IF Cardinality(times) < n THEN window = <<>>
       ELSE /\ Range(window) = Newest(times, n)
            /\ \A i \in 2 .. Len(window) : window[i - 1] < window[i]

(* The cross-section a strategy is shown is of the last earlier tick at    *)
(* which anything was folded, for the first symbol dispatched in a tick as *)
(* for the last, and holds each symbol's newest print up to that tick.     *)
SectionIsOneTickBehind ==
  shown.section # NoSection =>
    LET section == shown.section
        earlier == {t \in FoldedTicks : t < shown.as_of}
    IN /\ section.as_of \in earlier
       /\ shown.levels # NoLevels => section.as_of = Max(earlier)
       /\ DOMAIN section.rows = {s \in Universe : Prints(s, section.as_of) # {}}
       /\ \A s \in DOMAIN section.rows :
            section.rows[s].print = Max(Prints(s, section.as_of))

(* A beta is fitted on the closing returns of days that both the symbol and *)
(* its benchmark have completed, each paired with its own day, although the *)
(* two roll into a new session at different moments of a tick.              *)
BetaPairsCompletedDays ==
  \A s \in DOMAIN pending : \A pair \in pending[s].beta :
    LET market == BenchmarkAt(s, pending[s].day)
    IN /\ pair.day < pending[s].day
       /\ pair.own \in PrintsOfDay(s, pair.day)
       /\ \A print \in PrintsOfDay(s, pair.day) : print <= pair.own
       /\ pair.market \in PrintsOfDay(market, pair.day)
       /\ \A print \in PrintsOfDay(market, pair.day) : print <= pair.market

(* A trailing return spans exactly Trailing minutes of one session: a      *)
(* symbol that missed the print at its far end has none.                   *)
TrailingSpansTheWindow ==
  \A s \in DOMAIN pending : LET row == pending[s] IN
    row.ts = row.print /\ row.since # {} =>
      row.since = {row.print - Trailing} \cap PrintsOfDay(s, row.day)

(* What a strategy is shown is of the past, and of one span: the windows,  *)
(* the section of the tick before, its betas and its trailing returns.     *)
ViewsAreOfThePast ==
  FeaturesSeeTheTail /\ SectionIsOneTickBehind /\ BetaPairsCompletedDays /\ TrailingSpansTheWindow
=============================================================================
