# NeuroTrade, specified

TLA+ modules for the parts of NeuroTrade in which order, failure and restarts decide
what happens, the TLC configurations that check them on small instances, and TLAPS proofs
of the results that matter for every instance. Paths below are relative to
`src/neurotrade/`. `PROJECT.json` holds the machine-readable side: which lines each
definition models, the runs, the mutants, the findings, the hazards and the theorems.

## 1. The system

NeuroTrade backfills historical minute bars from Interactive Brokers into a Parquet corpus,
researches intraday strategies over that corpus with a deterministic backtester, and has the
beginnings of a live session: a broker adapter, an append-only event log and a position fold.
Around the corpus stand the commands that keep it honest: corporate actions, a liquidity screen,
sectors, an audit, and free vendor samples to seed a corpus without an account. There is no
trading loop yet; `cli.py` is the only composer of the parts.

### 1.1 Inventory

| part | state it keeps | operations | what is hard | what makes it correct |
|---|---|---|---|---|
| Backfill plan (`ingest/backfill.py`) | none: a function of the catalog's counts | `plan_backfill`, `plan_windows`, `order_windows` | one cut of the date axis for all instruments, holes anywhere, ties in the order | each short session requested once, no request longer than the feed answers, a total and reproducible order, recent first |
| Crawler (`ingest/crawler.py`, `cli.py ibkr backfill`) | in the process: queue, failed symbols, consecutive failures, report. Surviving it: only the corpus | plan, skip, request, split, write, count, next pass | no checkpoint; killed between any two steps; partial, foreign and repeated answers; a circuit breaker; a cap on requests | progress is resumable from the corpus alone, nothing counted complete that is not, the report is true, it ends, everything fillable is filled |
| Corpus (`adapters/storage/parquet_store.py`, `duckdb_catalog.py`) | one file per symbol and session | read-merge-rewrite of a file; counts and reads by glob | the rewrite is in place; one bad file fails every query | grows only, first sighting of a bar is kept, damage is noticed |
| Pacing (`adapters/ibkr/pacing.py`, `market_data.py`) | deque of request times | `wait_seconds`, `record`, `fetch_bars` | a sliding, not a fixed, window; the sleep; a timeout that looks like an empty answer | at most N requests in any window, no needless sleep, an empty result is an answer |
| Broker (`adapters/ibkr/broker.py`, `connection.py`) | working trades, the link | `submit`, `cancel`, the fill handler, `connect` | fills during submit and after cancel, dropped links, re-sent reports | every execution reaches the caller after its order, ids do not collide, no live order without permission |
| Event log (`adapters/storage/event_store.py`) | an append-only file and, if buffered, a buffer | `append`, `flush`, `close`, `stream` | kills in the middle of a write, reopening, sorting on read | what was accepted is not lost, no silent gap, ranges compose |
| Position (`core/position.py`) | an immutable fold | `apply` and valuations | reductions, closes and reversals in any order; a rounded average | shares and cash add up |
| Bus, clock, drive loop, engine (`bus.py`, `lab/drive.py`, `lab/engine.py`, `lab/feed.py`) | subscriptions, digest, intents, the clock | `publish`, `subscribe`, `run` | handlers that publish while being called; handlers that raise; warm-up | the digest is causal and covers the run |
| Market context (`strategies/context.py`, `features/`) | windows, session levels, cross-section | `observe`, the view handed to a strategy | no look-ahead although symbols of one minute are dispatched one after another; missing prints; session rolls | a view holds nothing later than its bar, every measure has its stated span |
| Session levels (`features/levels.py`) | per symbol: the session's ranges, VWAP sums and profiles | `SessionLevelTracker.update` | the roll at a bell nobody rings, missing minutes, a symbol that skips days | equal to a reading of the whole tape |
| Replay (`lab/replay.py`) | the clock it is given | drives a bus from the log | half-open ranges, ties, a clock that only moves forward | ranges compose; an ordered session replays word for word |
| Strategies (`strategies/`) | per symbol and session flags, excursions | `on_bar` | the memory outlives the session; a view out of hours still shows levels | once per session, in it, stops where the position loses |
| Trial ledger, journal (`adapters/storage/trial_ledger.py`, `trade_journal.py`) | append-only files | `append`, read back | torn lines; a run that dies between trials | every trial counted before a result is deflated |
| Labelling, costs, CV (`lab/labelling.py`, `core/costs.py`, `lab/cv.py`) | none | triple barrier, purge and embargo, splits and paths | ties inside a bar, truncation, labels that reach into a held-out block | labels look only forward to their exit, training never overlaps test |
| Evaluation (`lab/measure.py`, `evaluation.py`, `regimes.py`, `cli.py lab measure`) | per run: labelled trades, journal, recorded trials | label, pool, journal, record, judge | four tallies kept apart; a death inside any append | one set of trades behind every number; the verdict pays for the search |
| Gate and controls, statistics (`lab/gate.py`, `controls.py`, `significance.py`, `bootstrap.py`) | none | estimators | floating point; of the ranking behind PBO, ties | the ranking is exact |
| Corporate actions (`core/actions.py`, `ingest/actions.py`, `lab/feed.py`, `actions_parquet.py`) | one file | fetch, adjust a read, scan for gaps | ends of the window of days, rounding, refusals, a rewrite in place | each split taken out once, of earlier days only; nothing unannounced |
| Daily corpus, universe, sectors (`yfinance_daily.py`, `ingest/universe_history.py`, `core/universe.py`, `core/sectors.py`) | daily bars; one history file; one sector file | backfill, screen, `as_of`, `sector_of` | bars of one path stated on different share counts; venues with different sessions; days nobody qualifies | eligibility uses only earlier sessions; one answer per day |
| Corpus audit, calendar (`ingest/quality.py`, `duckdb_catalog.py`, `core/calendar.py`) | none | counts, holes, copies, suspects | a copy can make up a count; half days; a range that starts late | a clean report is a whole corpus, and the reverse |
| Seed samples (`adapters/feeds/vendor_download.py`, `cli.py seed`) | dated folders, a manifest in each, a corpus per vendor | fetch, ingest | a window that rolls on; deaths between file and manifest; two fetches of a day | no bar in the corpus without the file it came from |
| Yahoo feeds (`adapters/feeds/yfinance*.py`) | none | download, parse | rows missing or stray | seen by the crawler as any feed |
| Configuration (`config.py`) | frozen settings | `load_settings` | precedence of sources | permissions come from where they are documented to |
| Values, ids, codec, registry, logging | none | construction, encoding | rounding | tested by the repository's own tests |

How they interact. The crawler calls the plan with what the catalog counts in the corpus,
asks the feed (through the pacer, for IBKR) for one window at a time, cuts the answer into
sessions and hands each to the store. It awaits each call before making the next, so one
request and one write are in flight. The backtester merges the corpus of many symbols into
one stream, moves a simulated clock and publishes each bar on a bus; digest, collector,
context and strategies are handlers on that bus, and strategies publish intents on it while
they are being called. A live session runs in one asyncio loop: it submits orders through
the broker, which connects on demand, records them in the event log when `submit` returns,
and records fills when the broker's handler calls it back. The position fold is documented
as the projection of those fills; nothing in the repository calls it yet. `lab measure` runs the
backtester once per variant, labels what it proposed against the same corpus, and writes the
journal and the ledger before it judges. The reference commands meet only in files: the actions
file is read by `lab measure` and `actions check`, the universe history by nothing but its own
reader so far, and the seed samples are crawled into a corpus of their vendor by the same
crawler as any feed.

## 2. The modules

| module | models | used by |
|---|---|---|
| `BackfillPlan` | the plan's operators: grids, short sessions, windows, order, limit | `BackfillPlanning`, `Crawler` |
| `BackfillPlanning`, `MCBackfillPlanning` | the plan over every corpus it can meet | |
| `Corpus` | abstract: what a corpus promises its readers | refined by `Crawler` |
| `Crawler`, `MCCrawler`, `CrawlerProofs` | the command, its passes, store, catalog, feed, kills; the proofs are of the plan too | |
| `Pacer`, `PacerProofs` | limiter and `fetch_bars` on a clock, the Gateway's answers | |
| `AppendOnlyLog` | abstract: what an event log promises | refined by `EventLog` |
| `EventLog`, `MCEventLog`, `EventLogProofs` | writer, buffer, file, kills, reader, replay | |
| `Position` | the fold's operators | `PositionFold`, `Execution` |
| `PositionFold` | the fold next to an account that only counts | |
| `Execution`, `ExecutionProofs` | session, broker, connection, venue, log and settings composed; the proofs are of the fold too | |
| `MarketContext` | which bars a view is computed from | `Backtest` |
| `Backtest`, `MCBacktest`, `BacktestProofs` | feed, clock, bus, engine, strategies as handlers | |
| `SessionLevels` | the anchors of a session, bar by bar | `Arsenal` |
| `Arsenal` | the ten strategies as functions of bar, view and memory | `Trading` |
| `Trading`, `MCTrading`, `TradingProofs` | levels and strategies composed, over a tape of any shape | |
| `Labelling` | costs and the triple barrier | `Research` |
| `CrossValidation` | groups, purge, embargo, paths, the ranking behind PBO | `Research` |
| `LineFile` | a file of lines whose appends may be cut short | `Research` |
| `Research`, `MCResearch`, `ResearchProofs` | `lab measure` composed, twice, with deaths; the proofs are of labels, splits and files too | |
| `Adjustment` | factors and the adjusted stream | `CorporateActions` |
| `DailyCorpus` | daily bars, each on the basis of the day it came | `CorporateActions`, `UniverseScreen` |
| `CorporateActions` | the fetch, its one file, the adjusted read, the scan | `MCReference` |
| `UniverseScreen` | the screen, its file, the point-in-time answer; sectors | `MCReference` |
| `CorpusAudit` | the audit of a corpus with defects | `MCReference` |
| `VendorSnapshots` | seed fetch and seed ingest | `MCReference` |
| `MCReference`, `ReferenceProofs` | the six desks side by side | |

### 2.1 BackfillPlan and BackfillPlanning

Time is in ticks, a day being `DayTicks` of them. A session opens at `Open(d)`, holds bars
that close on a grid up to and including `Close(d)` and expects `SessionTicks \div Interval`
of them. `PlanWindows(held)` is the whole of `plan_windows`: the union of the dates on which
any instrument is short is cut greedily into spans of at most `WindowDays` calendar days, and
an instrument gets a window for each span in which it is itself short. `OfferedBefore` is
`order_windows`, `Offered` the prefix that a limit leaves. `BackfillPlanning` lets the counts
grow in any order, by any amount, past what a session expects (extended hours), so that the
operators meet every half-filled corpus.

### 2.2 Crawler

One action per step between two awaits or two disk operations: `Plan`, `Skip`, `Request`,
the feed's four kinds of answer, `LeaveEmpty`, `BeginRewrite`/`EndRewrite` per session,
`Settle`, `EndPass`. `disk` and `torn` are all that a `Kill` leaves. Points to compare with
the code:

* `_write_partition` reads, merges and rewrites one file in place. A kill in the middle of it
  is `Tear`: the old rows are gone and the file may be left without a footer. Whether this can
  happen is the constant `MayTear`.
* The catalog counts over a glob of all files, so one torn file makes `Plan` impossible for
  every symbol: `PlanRaises`.
* Completeness is a comparison of counts. It is sound because the answer is cut to each
  session and because the bars of a feed lie on the session's grid (`CrawlerAssumption`): for
  hourly bars on a venue that opens at half past the hour this is an assumption about the
  feed.
* An answer may be short, may hold bars outside the window, the same bar with two contents,
  or a bar of another symbol (`AnswerForeign`, which ends the command).

`Corpus` is what the rest of the system reads: a growing set of bars per session, one per
timestamp, each in its own session, the first sighting final. `ImplementsCorpus` maps
`corpus <- disk`.

### 2.3 Pacer

`log` is the history of all requests ever sent and the deque `_sent` is its tail from `head`.
`Pace` is `wait_seconds` followed by the request or by the sleep, `Wake` the request after it,
which in the code does not look at the window again. `Gateway` may answer with bars, with
nothing, with an error, or never; a timeout then yields the empty list that `fetch_bars` has
to tell from a day without trades.

### 2.4 EventLog

A record is named by its append call. `file` is a sequence of lines, each a whole record, the
beginning of one, or junk that several records ran together into. An unbuffered append returns
when its line is with the operating system; a buffered one at once, and a full buffer is
written out at any byte: `WritePart` leaves a line without its end. A crash drops the buffer,
not what the operating system has. `Stream` is the reader: filter to a half-open range, stable
sort by `(ts_event, seq)`. Which of the two modes the store is in is chosen once, in `Init`.
`AppendOnlyLog` is what the port promises; `ImplementsLog` maps `log <- Durable(file)`, the
complete records before the first damaged line, which unbuffered is the whole file. The part
behind that line is not promised: a killed buffered writer may leave an unended line, and the
next process's first record then runs into it, so that the log stops being readable as a whole
although it was readable at the restart. `Replay` is `ReplayEngine.run`: the drive loop over
`Stream` of a range, from wherever its clock stands, with the digest as the only handler; it
raises if the clock would go back.

### 2.5 Position and PositionFold

Money is an integer number of the smallest unit the `Decimal` context keeps. Sums and products
are exact in the code at every magnitude used, and only the division that makes an average
price rounds; `Quotient` is that rounding to nearest. `PositionFold` applies any sequence of
fills and keeps beside the position the shares and cash that changed hands, and a `slack`: twice
the most that the roundings so far can have cost, which is `total` shares whenever an average
did not come out even.

### 2.6 Execution

The caller follows `ibkr paper-smoke`: submit, record the order, record fills from the
callback. Steps run from one await to the next, so `Place` is everything from `placeOrder`
to the record of the order. `Submit` may find the link down; then `LinkUp` or `LinkFails`
ends the connect and `Resume` goes on, without looking at the link again. `wire` holds
reports sent over the present connection: a `Drop` loses them, and every new connection
re-sends every execution the venue knows of, as `broker.py:20` says of Gateway. Settings are
resolved once, with the environment ranked above the profile's file as `load_settings` does.

### 2.7 MarketContext and Backtest

A bar is its symbol and the minute it closes. Numbers are replaced by the bars they come from:
a feature is the window it would be computed over, a return the print it ends at, a beta the
set of pairs of closing prints it is fitted to, a residual the benchmark's row it is taken
against. That is the data the properties tell apart: what may be looked at. `Observe` is
`MarketContext.observe` with everything it calls: the resolver's append and batched trim, the
level tracker (a bar outside every session changes nothing), and `CrossSectionTracker.observe`
with the tick it may close, the session roll, the trailing profile, the beta and the row.

`Backtest` is one thread: a stack of `bus.publish` calls, each with the handlers still to run.
`Drive` moves the clock and publishes; `Digest`, `Collect`, `ObserveBar` and a strategy's
`Handler` are the handlers in subscription order; a strategy may be ineligible, propose, or
raise, and `PublishNext` publishes its intents one by one from inside its own call. The feed
is the merged stream: each next bar is any bar after the last in `(ts, symbol)` order, so all
corpora with all missing prints are covered; `Extras` bounds together the bars the corpus holds
twice and the intents proposed.

### 2.8 SessionLevels, Arsenal and Trading

A book per symbol is `SessionLevelTracker`: opening ranges of the first bars, the sums behind
the VWAP and its dispersion (exact, in thirds of a price), the gap, and two profiles by minute
of the day over the last sessions. `Update` rolls it at the first bar of another session and
folds nothing for a bar outside of all, as `MarketContext.observe` does. `Arsenal` gives each
strategy a function from bar, view and memo to a new memo and at most one intent; dispersion
bands are compared as squares, so no root is taken except for the level a stop is put at.
`Trading` is a market of `Days` in which each minute brings a bar of any of a few shapes, inside
a session or outside of all, or none; the engine's gate on the regime (`Permits`) and the
overnight family (`Hosted`) are part of `Dispatch`. What of the cross-section a strategy sees is a constant
of the behaviour here; how it comes about is `MarketContext`.

### 2.9 Labelling, CrossValidation, LineFile and Research

`TripleBarrier` walks bars from the one after the decision; a bar that reaches both barriers is
a stop, costs come off both ends, and `Nearest` is the rounding of `Decimal.quantize`.
`CrossValidation` has the groups, the purge by hull, the embargo, the recombined paths and
the half-and-half ranking; Sharpe ratios are compared exactly, as moments. `Research` is one
`lab measure` from the request to the verdict, one instrument and one trial at a time, in the
code's order: label and journal per instrument, pool, record every trial, judge. It may `Die`
between two steps or inside an append (`CutShort` leaves any prefix of the line), and is then
asked for again; readers of either file raise at a bad line (`Legible`). The ledger's clock is
read once per command. What the engine proposed is a set of intents given by the request:
what it may propose is `Trading`.

### 2.10 Adjustment, DailyCorpus, CorporateActions and UniverseScreen

Days are numbers and every company has a true history of actions, chosen in `Init`. A daily bar
is its session and the day it was asked for, because Yahoo states it on the share count of that
day (`OnBasis`). `PriceFactor` is a product over the actions after the bar's session up to the
basis, rounded once. `actions fetch` asks one instrument after another; an answer may lack
actions (`Omissions`), a refusal is put among the failures, and the one file is rewritten in
place: between `BeginWrite` and `EndWrite` it cannot be read. `ReadAdjusted` is the stream
through `AdjustingStore`; `Check` is `actions check` on the daily corpus as it stands.
`UniverseScreen` ranks nothing: an instrument passes when the last `Lookback` bars it holds from
before the day have the median value and the last close its venue asks for. `Encoded` writes a null row for a
day nobody qualified, and `Load` refuses a file that does not digest as written.

### 2.11 CorpusAudit

A cell is what is held of an instrument and session: how many bars at each time, and whether
they look like trading. Edits leave a session unfilled, lose a bar, add a copy, or make it flat (several
bars with one close) or halted;
`Audit` is `audit_corpus` with the catalog's five questions.

### 2.12 VendorSnapshots

A file is named by the tick it was sent on and holds a window of bars before it, so that a later
file of the same name is another file. A fetch reserves, asks, stores and enters in the manifest,
in the order that differs between the vendors (`ReservedFirst`), and may end after any step. An
ingest takes whichever files of the folder are present and fills the vendor's corpus with the
crawler's plan; a bar that is held stays.

## 3. The runs

| run | what it shows |
|---|---|
| `backfill_planning` | over every corpus of two instruments on two venues, each short session is in one window, windows fit the feed, the queue is a reproducible total order, recent sessions come first and a limit takes a prefix |
| `crawler_safety` | a hostile feed (short, repeated, revised, misplaced, foreign answers), half days, bars of two ticks, an unknown symbol, a limit, two passes, a kill that may tear a file: complete means whole, the breaker and the report are true, damage is loud |
| `crawler_liveness` | an unreliable feed, halted sessions, an unknown symbol and a kill: whatever can be filled is filled in the end, every command ends, and the corpus is a `Corpus` |
| `pacer` | no window holds too many requests, no sleep is too long, empty means answered; every fetch ends |
| `event_log` | either buffering mode, killed twice: complete records are an `AppendOnlyLog`, a readable log has no gap inside any life of the process, a flush leaves nothing behind, replays of adjoining ranges compose, an ordered session is replayed word for word; unbuffered, nothing accepted is lost |
| `position_fold` | four fills of three prices and three sizes on either side: shares, cash and cost basis agree |
| `execution` | two orders, a drop, retries, cancels, all settings: the log accounts for the venue, orders precede fills, live needs permission |
| `backtest` | two symbols over three short sessions and a minute outside them, every pattern of missing prints, bars held twice, two strategies that decline, propose or raise: the digest is causal, in registration order and is the run; features see the tail, the cross-section is one tick behind, betas pair completed days, trailing returns span their window |
| `trading` | three short days with a cut one, bars of any shape, missing and stray: the streaming levels equal a reading of the whole tape; every proposal is of its session, once, before the bell; stops stand where the position loses and a fade's stop is a price of the same day |
| `research` | two measurements of pairs of sweeps over a gappy corpus, killed anywhere: a label is of the holding and no later, the journal, the tallies, the regimes and the cost curve are one set of trades, nothing a variant is scored on was known when it was chosen, the ranking of PBO is right at both ends, a verdict is charged for every trial the ledger ever got |
| `reference` | one desk of six at work in each behaviour: adjusted paths are the market's on one basis and point-in-time; the actions file is one whole pass; a scan reports exactly the seams and the news; eligibility comes from earlier sessions and has one answer a day; a clean audit is a whole corpus; each seeded bar has its file |
| `crawler_tear` | see 3.1 |

Every property has a mutant: a definition of the model changed as a plausible bug would change
the code, which the property's run then refutes. They stand beside the definitions they
replace, under names that say what is wrong with them.

### 3.1 Where the code and its documentation disagree

`crawler_tear` is a run that TLC refutes: a kill inside a rewrite loses rows the corpus held. The
models show more, which need no run of their own because nothing else rests on them.

Backfill and log:

* `plan_windows` cuts the union of all instruments' short dates, so one instrument may need
  more requests than the "fewest" its docstring names (`ingest/backfill.py:403`).
* With `--limit`, sessions that can never be filled keep their place at the head of the queue,
  and the windows behind them are not reached (`ingest/crawler.py:293`).
* A torn partition stops every later crawl in its plan until it is removed by hand; that is the
  other side of `DamageIsLoud`.
* `stream` sorts, so a fill stamped by the venue before its order was stamped locally is
  replayed before it, where the port promises the order seen (`core/ports.py:245`);
  `OrderedWriterReplaysVerbatim` says when the promise holds.

Execution and configuration:

* A re-sent report is recorded again (`broker.py:290-324`); the ids of the two records are equal,
  but nothing in the repository collapses them, where `broker.py:20-23` and `ids.py:193-194` speak
  of one fill. `DistinctFills` in the property does what a reader would have to.
* The environment outranks the profile's file, so it can give a research profile both a live
  port and the permission (`config.py:306`); `LiveVenueNeedsPermission` therefore speaks of
  the permission, not of the profile.

Context and strategies:

* After a session roll, a symbol that has not printed yet is residualised against the
  benchmark's return of the new session (`features/cross_section.py:432`), where the module's
  text nets two returns over one span (lines 21-27 and 143-144).
* A bar outside every session leaves the view with the levels of the last session, although
  `strategies/context.py:332-335` says there is nothing to fold; the strategies' own test of the
  phase is what keeps them from trading on it (`TradedInItsSession`).
* `vwap_band_reversion` may propose a stop on the wrong side of the close, when the close is more
  than a band past the band. `StopsStandBehindTheEntry` exempts it by name.
* `vwap_band_reversion` and `intraday_momentum` promise "one proposal per direction per session",
  but remember the last side only: a third proposal on the first side is possible, and
  `OncePerSession` says exactly this.
* `orb_fade`'s excursion ignores a bar that leaves the range on both sides, even if it went further.
* `_cross_sectional.py:67` describes another sweep than `SWEEP_EXTREME_NAMES`.

Research:

* All trials of a sweep share one timestamp (`cli.py:1948-1952` and `2031`), where
  `lab/evaluation.py:637` takes them to be distinct and ordered.
* The ledger and the journal say that dying in mid-sweep leaves a complete file; a death inside the
  write leaves a line at which every later read raises.
* `measure.py`'s `_why_not` covers a column with too few trades, but one whose returns do not vary
  raises inside the recording loop, after some trials of the sweep are in the ledger.
* `bucket_sessions` says that ties land in the lower bucket (`lab/regimes.py:113`); a reading that equals
  a boundary lands in the bucket above it.

Reference data:

* `actions check` takes the daily corpus to be on one basis (`cli.py:1409`). After an incremental
  backfill across a split it is on two, and the check then reports the seam, split or no split in
  the file (`ScanFindsSeamsAndNews`); a corpus filled after the split has no seam, so the check is
  silent though the file may lack the split, where `lab/feed.py:82-83` counts on it.
  `yfinance_daily.py:23-27` calls the prices unadjusted.
* A refetch during which an instrument is refused rewrites the file without that instrument, and
  readers take an absent name for one that never split.
* `universe build` compares the least close with a price stated on the day of the download; its
  window is of bars held, not of sessions.
* `core/actions.py` names a `factor_at` that is not there, and warns of a basis at the window's end,
  which is what `lab measure` uses.
* A seed file whose manifest entry was never written is ingested all the same (`cli.py:816-823`),
  which `read_manifest`'s text excludes. A folder that a failed FirstRate request left empty is the
  newest, and hides an older whole one; the rest of a day whose fetch broke off cannot be fetched
  that day, because the files already there are refused.

## 4. Bounds, and why they are enough

All bounds are constants in a guard: `MaxCrashes`, `Passes`, `Horizon`, `MaxAppends`,
`MaxFills`, `MaxTries`, `MaxDrops`, `End`, `Extras`, `MaxHoles`, `Omissions`, `FillDays`, `Starts`,
`MaxEdits`, `FirstTick` and `LastTick`, and the upper count of `BackfillPlanning`.

* Plan: four trading days around a day nobody trades and a window of two make holes before, in
  and after a span, spans that start on one instrument's date and end on another's, and limits
  that bite. Two instruments are all that the comparison of two windows can involve.
* Crawler: a step touches one partition, and what a kill can separate is two consecutive steps;
  one kill per life and two passes give a pass that resumes another's leftovers, interrupted or
  not. Two bar contents make "first sighting" distinguishable from "last". Three symbols of
  which one never resolves, and a breaker of three, let a run of failures be cut by a success,
  by the end of a pass and by the breaker. The liveness run has sessions that are never fillable
  beside those that are, in one request with them.
* Pacer: a window of three ticks with two requests, and four windows' length of clock, lets
  the deque fill, drain and refill at every offset; `TimeNeeded` keeps the clock from stopping in
  the middle of a fetch.
* Event log: `Moments` reaches one beyond the last event. A log written in each mode; what can go wrong needs one unfinished line, one process after it and one record
  after that: four appends and two kills.
* Position: opening, adding with an average that does not come out even, reducing, closing and
  reversing is a history of four fills.
* Execution: one drop with a report on the wire and one re-sent, a retry, two orders so that
  ids can collide and one order's fill can be taken for the other's.
* Backtest: a trim takes more than twice the lookback of two bars; sessions with a memory of one
  fill and trim the return histories; the benchmark sorts after the stock, which is the case where
  it rolls later in a tick. One symbol has a benchmark, which is all a residual relates. One bar
  twice and one intent, or two of either, are what an order of publications needs.
* Trading: one symbol, because a strategy's memory and a book are per symbol and what the others do
  reaches it only through the section, which is given; three days fill memories of one and show a
  roll over a skipped session; five shapes break the range on each side, on both, poke through
  and close inside, or stay. Two markets, between them, let all ten strategies fire: ungated day
  strategies at the top of the ranking, and the overnight one in a regime at its bottom.
* Research: four days, two instruments of which one misses minutes or everything, and nine sets
  of decisions with trades on either side that hit the target, the stop, both, the vertical barrier
  or the end of the corpus; two measurements, the second of the same or of another family, so that a ledger
  holds trials of a dead run, of a finished one and of another family. Four groups and four blocks
  give every adjacency of held-out groups.
* Reference: `MCReference` works one desk in each behaviour, since the desks share only what
  they read. Prices: a dividend with a later three-for-one split, a two-for-one split, a reverse
  split. Screen and check: a second venue with another holiday, backfills on two days with holes,
  so that a path is of two bases. Sectors: every file of one to three rows of a small set. Audit: any two defects in
  sessions of which one is short and one is not a whole number of bars. Seeds: windows of three
  half days over three of them, so that a later file loses a bar and gains one.

`CHECK_DEADLOCK FALSE` is said where a history ends: all fills booked, all appends made, the
corpus complete in the plan's model, the clock at its horizon, a backtest finished or failed, the last
measurement judged, a desk with nothing left to do.
The crawler's runs check for deadlock.

## 5. Fairness

* Crawler: `WF(Start)`: the command is run again after it ends, by hand or by a scheduler.
  `WF(Step)`: a process that is not killed takes its next step; every await in it ends, because the feed's
  requests have timeouts. `SF` on a full answer per session: a request for a session that is
  made again and again is answered in full now and then. Without the last, a feed that fails
  forever refutes any promise. Kills are bounded and owe nothing.
* Pacer: `WF(Tick)` and `WF(Fetch)`: time passes and the event loop runs what is due,
  including the request's own timeout. The Gateway owes no answer, and `FetchEnds` does not need one.
* The other modules state no liveness.

## 6. What is proved

Every theorem below is checked by TLAPS down to its last leaf; lemmas are in the same modules.
A module of theorems extends the module it is about.

| theorem | for every | states |
|---|---|---|
| `CrawlerImplementsCorpus` | universe, calendar, feed, number of kills, if no rewrite tears | the crawler's corpus is a `Corpus` |
| `CompletenessByCount` | the same, torn rewrites included | complete means whole |
| `BreakerIsAboutTheConnection`, `DamageStopsTheCrawler`, `CrawlerTypeOK` | the same | the breaker counts different symbols; damage is loud; types |
| `ReportIsAlwaysTrue` | the same | only what the report calls filled has gained bars; a pass that runs out of work reports what it offered |
| `PlanCoversOnce`, `QueueIsAlwaysInOrder` | corpus, calendars, windows, limit | each short session is in one window; the queue is a total order, recent first, and a limit takes a prefix |
| `RateIsKept`, `SleepIsMinimal`, `PacingHolds`, `PacerTypeOK` | limit, window, timeout | the rate is respected, no needless sleep; types |
| `TimeoutIsNotAnEmptyDay` | the same | an empty answer is the Gateway's, never the caller's own timeout |
| `AcceptedSurvives`, `CompleteRecordsAreAppendOnly`, `WhatIsReadIsWhole` | events, number of appends and kills, either mode | unbuffered, nothing accepted is lost; the complete records are an `AppendOnlyLog`; a log that can be read has no gap and holds what was flushed |
| `ReplayIsAlwaysVerbatim` | orders of events, ranges, the same | a log that can be read replays without the clock going back, two adjoining ranges as the whole; one written in order, word for word |
| `PositionIsNetOfFills`, `ProfitAddsUp`, `AverageIsWithinEntries`, `BooksAlwaysBalance` | prices, sizes, fees, number of fills | the fold agrees with the account |
| `ExecutionTypeOK`, `OrdersAreRecordedFirst`, `NoLiveOrderWithoutPermission`, `EveryExecutionIsRecorded` | orders, sizes, retries, drops | types; an order is in the log before its fills; no live order without permission; with the link up and the wire empty, the log's fills are the venue's executions, none missing and none invented |
| `LogAlwaysAccountsForTheVenue` | the same | then, too, those fills with each id counted once fold to the net of what the venue traded |
| `DigestIsAlwaysInOrder` | universes, strategies, corpora | intents enter the digest behind their bar, in registration order; between bars it is the bars driven and the intents collected |
| `ViewsAreAlwaysOfThePast` | universes, calendars, lookbacks, corpora, strategies | what a strategy is shown on a bar is of that bar and earlier ones: windows, the section of the tick before, betas of completed days, trailing returns of one session |
| `ProposalsKeepToTheirSession` | calendars of disjoint sessions, symbols, bars, regimes, parameters | a proposal is made in its session, before the bell, once |
| `StopsAreAlwaysOfTheirTrade` | the same | a stop stands where the position loses; a fade's is the extreme of an excursion of its own session that nothing since exceeded or contradicted |
| `LevelsAreAlwaysOfTheSession` | the same | the levels kept bar by bar are what the whole tape says of the session printed in last and of the days before it, whichever minutes are missing |
| `SplitsKeepTheirDistance` | rows, labels of any length, groups, held-out sets | nothing trained on overlaps what is tested, and what follows it waits out the embargo |
| `NoSplitLeaks` | corpora, sweeps, groups, embargo, deaths | the same of the rows `lab measure` really pools, by the times its trades really took; each path scores every group once |
| `LabelsAreAlwaysOfTheHolding` | corpora, sweeps, barriers, cost models, deaths | what a trade made is of the bars it was held over and no later one, the same on either side of the market, and it is closed by its deadline |
| `PboAlwaysMeasuresTheRanking` | the same, even numbers of blocks | the measure of overfitting is of the ranking: who leads every half is missed in none, who leads a half and comes last in the other is missed there |
| `TradesAreAlwaysOneSet` | the same, cost levels | the journal reads back the trades of the pooled columns, one row each; instruments' reports add up to the columns, the winner's trades to its regimes; each cost level has as many trades and earns no more the dearer it is |
| `VerdictIsChargedForTheWholeSearch` | the same | a verdict is charged for every trial its family ever left in the ledger |
| `ActionsAreOfOnePass` | universes, refusals, kills | an actions file that can be read is of one whole pass |
| `ReadsArePointInTime` | markets, what companies declare | prices on the basis of a day do not move when later days are learned of |
| `AnswersAreAlwaysOfTheirDay` | universes, calendars, sector files | a history reads back as screened; a file of sectors is refused exactly when an instrument is ever in two |
| `ScreenIsPointInTime` | markets, calendars, corpora | what a build says of a day depends on the sessions before it alone |
| `CleanIsAlwaysWhole` | calendars, bars, defects | an audit is clean exactly of whole sessions (a defect outside what was asked aside); every bar lacking is in one hole, which says how many are |
| `SamplesAreAlwaysKept` | configurations, clocks, kills | each seeded bar has its file; a manifest is of the file beside it |

Assumptions are the named `ASSUME`s of each module, which TLC evaluates in the runs, and the
hypotheses a theorem states itself (`~MayTear`). Those that say more than "this constant is a
number", and why the code justifies them:

* `HandlersAreTheirOwn`: nobody adds one strategy to an engine twice, so a subscription has one name.
* `ContextAssumption`: a calendar's sessions come one after another, and the trailing window is
  positive (`CrossSectionTracker` refuses it otherwise).
* `UniverseAssumption`: an instrument is in a universe once (`core/universe.py` refuses it otherwise).
* `CorporaAssumption`: a series has one bar per moment, in order, which is what the store writes
  and the catalog sorts, and a price is positive (`Price` refuses another).
* `RequestsAssumption`, `DecisionsAssumption`, `CVAssumption`, `PboAssumption`, `ModelsAssumption`: what
  `SignalIntent`, `Variant`, `CombinatorialPurgedCV`, `probability_of_backtest_overfitting` and the cost
  models refuse to be built without (a target or horizon that is not positive, two decisions on one
  bar, no training group, an odd number of blocks or fewer than 4, a negative term of a cost).
* `LevelsAssumption`, `ModelsAreListed`: no cost level comes twice, each is the reference model times its scale
  save for the cap on a fee, and there is a list of them (`_cost_levels`, `_scaled_costs`).
* `SectorFilesAssumption`: `until` absent is `Forever`, and no assignment outlasts it.
* `SamplesAssumption`: a file holds at least one bar, and the clock starts after 0, which stands
  for "no file".
* `DaysAssumption`: in `DailyCorpus`, the calendar's sessions are days; in `Trading`, they are
  disjoint and in order, and `OvernightAssumption` has overnight positions exited after the first minute.
* `WindowsAssumption`, `ScaleAssumption`: a book completes a finite set of opening windows, each of at least
  one bar, and fractions are over a positive number (a stop is never a negative number of dispersions away).
* `MemoryAssumption`: the three memories of a book hold at least one session.
* `ShapesAssumption`, `MarketsAssumption`: a bar is possible (`Bar.__post_init__` refuses another) and its prices
  are positive (`Price`), in units of the smallest difference; a ranking is of numbers.
* `AuditAssumption`: a session opens before it closes and a bar lasts a while (`TradingSession`, `BarInterval`).
* `NobodyAssumption`: the name of the null row is no instrument's.

The arguments:

* **Crawler.** `CompleteMeansWhole` is not inductive: a count says nothing about which bars it
  counts. The invariant `IndInv` adds that every stored bar is on its session's grid, that no
  two share a timestamp, and that a partition is a finite set; then a partition has at most as
  many bars as the grid has points, and one with as many has them all (`CountingBars`,
  `GridSize`). It holds under a write because the answer is cut to the session (`FreshFits`)
  and merging keeps first sightings (`MergeKeepsFirstSightings`). The breaker needs in addition
  that a symbol being asked has not failed in this pass; damage, that a torn partition implies
  the process is down or planning.
  For the report, `ReportInv` says where each short session of the plan is: due in the one window
  that asks for it (`OneWindowAsks`), being stored, reported, or put to a failed symbol's account.
* **Order of the queue.** `OfferedBefore` is a strict total order on windows, because two windows of one
  span are of two instruments (`OfferingIsTotal`); each of a finite set under such an order has a rank,
  and every rank up to the number of them is taken, so the queue is a list of all (`QueueIsAlwaysInOrder`,
  the counting lemma `EveryRankIsTaken` recurs in `ReferenceProofs` and `ResearchProofs`).
* **Refinement of Corpus.** Only `EndRewrite` moves `disk`, by one partition, to a superset
  with new bars of that session only; every other step is a stutter. `Tear` is excluded by
  hypothesis, and `crawler_tear` shows why it must be.
* **Pacer.** The invariant ties the deque to the history: entries dropped are a window old,
  the deque has never more than the limit, and a sleeper sleeps for the head of a full deque.
  A request is then sent only when the request `MaxRequests` before it is a window old.
* **Event log.** A write either adds a line behind an ended one or changes the last line while
  that is unended (`Lays`), so it never touches a complete record, and adds at most one
  (`LaysDurable`). The buffer holds the last calls in order (`Queue`), so what it adds is of a
  later call than everything complete (`InOrder`). Unbuffered, in addition every line is whole
  and at most one call, the one in progress, is not in the file (`LineByLine`); a crash keeps
  that because a record reaches the operating system in one write. For the reader: a damaged line
  stays damaged, so a file that can be read never had one, and then it holds the calls begun in
  order, of each ended process a first part, of the running one all it wrote (`Told`).
  A replay is known in closed form: a stable sort is the one sequence in which each line stands behind as many
  as come before it (`EveryRankIsTaken`, `PlaceOfALine`), half-open ranges partition the lines and the
  earlier part sorts first (`SortedInTwoParts`), and by induction on the events read, the least at which it
  would differ, a run over a sequence in order of time publishes all of it (`RunsToTheEnd`).
* **Position.** The books are kept by `Drift`: realised profit, less average times signed
  quantity, less cash. A fill that reduces, closes or reverses leaves it unchanged; one that adds
  changes it only by what the average lost to rounding, at most half a unit per share
  (`QuotientIsNearest`). The mark cancels, so the bound holds for every mark.

* **Backtest.** The stack is at most two deep: a bar, and an intent one of its strategies is publishing
  (`CallsNest`). `IInv` says of every prefix of the run what has been digested and collected
  (`DigestCovers`), and that intents in the digest are in the order of the handlers that made them,
  all of them earlier than what the outbox still holds (`OutboxIsInOrder`, `BarIsTheCause`).
* **Views.** `ViewInv` says what the context keeps, by the bars it has been told (`Known`: all that
  were read, but for one that is driven and still on its way). A history holds as many of
  the newest bars as any lookback needs (`EnoughOf`; trimming in batches keeps it, `HistoryRemembers`);
  levels are of the newest print; the section under assembly is of the last tick and the closed one
  of the tick before (`ClosedIsOneTickBehind`), for whichever symbol of a tick comes first; a
  completed day keeps its last print, because a day is over when its symbol prints in a later one
  (`DaysLeftAreWhole`). `ContextGrows` carries this over one bar; a bar told twice changes nothing,
  because bars come in one order and the key is of the last. Strategies are registered behind the
  context, so when one is called `Known` is everything (`StrategyIsTold`).
* **Execution.** One invariant says where an order can be: at the venue only when accepted, listened
  to exactly then, and executed below its size while alive (`Lives`). Whoever listens has recorded
  the order, because `placeOrder` and the record have no await between them; an append keeps that
  (`AppendingKeepsTheOrder`). Without the permission every call is idle or refused. For the log, two
  halves: what is on the wire or recorded was executed (`NothingInvented`), and while the link is up
  what was executed is on the wire or recorded (`NothingMissed`); a drop gives the second up, and the
  next connection's re-sending restores it. That the log accounts for the venue then takes two
  counts. Folding executions of one share is their net, in closed form (`FoldedIsTheNet`, by the least
  fill at which the two would differ); and the first records of their ids are as many, for any set of
  orders, as the executions of it (`FillsAreTrades`, a bijection), because ids stand once among the
  firsts (`IdsStandOnce`) and an id names one execution.
* **Trading.** A strategy's memo is of its latest proposal, and proposals come in order of time, so
  that sessions, which do not overlap, come in order too. A handler that proposes has looked at the
  memo for this session (and side) and stamps the new one with it; `EveryHandler` reduces the ten
  to that. A proposal needs the regular phase and a time before the bell, and then the levels' session
  is the bar's, because the bar was folded in before any strategy was called. Assumed: the calendar's
  order, and that an overnight position is exited after the first minute.
* **Stops.** Eight strategies need no memory for it: the sign of the reach is in the handler's own guards
  (`EveryStopBacks`), given that levels are made of possible bars (`SoundBook`: they are prices, and
  shares that traded cost something). The VWAP fade proposes no entry and
  is backed by nothing; the fade of the opening range remembers its stop, so `SInv` says what it remembers. A book
  reads one session of its tape, contiguous and up to the last bar held (`Reading`), and an opening
  range is the range of that session's first bars (`SameDayReads`, `FirstOfADayReads`); what is
  remembered of that session is the tip of its latest excursion (`OpenedReads`), and what is remembered of an
  earlier one is dropped before it is read (`HeldStep`). A bar after the proposal is no part of it (`FadeStays`).
* **Levels.** `BooksTellTheDays` relates a book to the days of its tape (`Tells`): the session under way
  (`Stands`: sums, extremes and the two profiles, minute by minute) and what the bell carried of the
  days before, in order (`Carries`). A bar of the same session extends the first (`SameDayTells`); the first
  bar of a later one rolls the finished session into the second (`DayIsCarried`, `NewDayTells`), and trimming a
  memory each time leaves what trimming the whole history once would (`NewestOfALonger`). A sum or a list
  along a sequence is a recursive function: it exists because there is no least length without one,
  and two agree because there is no least place at which they differ (`ListingExists`, `PayingsAgree`). A
  sample at a minute is of the remembered days that reached it (`SamplesOfTheDays`): profile and day are dropped together.
* **Cross-validation.** Every held-out group lies in one contiguous run (`RunsCoverTheHeldOut`), whose hull
  spans the openings and closings of its rows; a training row overlaps no hull and opens in no
  embargo, so it keeps its distance to each row in it (`PurgeKeepsApart`).

  `NoSplitLeaks` carries this from any rows to the run's own. `LeakInv` says that the part kept of each instrument
  is what its bars and signals give: signals are distinct decisions of the series (`SignalsAreDecided`), a
  touch is within its horizon (`TouchIsWithinReach`), so labels open in order and close no earlier
  (`LabelsAreWithinReach`, `PartsAreSound`), and pooling them by time keeps that (`PoolIsSound`,
  `DistanceIsKept`). That a path takes each split once per group is a double count of the pairs of a group
  and a split that holds it out (`PairsBySplit`, `PairsByGroup`, `PathsTakeEachSplitOnce`).
* **Labels.** Two walks that reach their barriers by as much, bar by bar, close on the same bar for the
  same reason (`WalksCloseAlike`): a series cut at the exit gives such a walk (`LabelIsOfTheBarsHeld`), and so
  does one mirrored about the entry with the side turned (`LabelOfTheMirror`, where the move is as far,
  `MovesAreAlike`). A bar no further than the count of bars within a deadline is within it
  (`HeldWithinTheDeadline`). That a label's signal is an intent's, and which, follows from one decision per
  bar (`SignalIsOfWhatWasMeant`); an intent on the same bar that was dropped is no match.
* **The ranking.** What holding a position returned is a number (`ReturnIsANumber`: barriers, costs and
  roundings of numbers, over an entry that is not 0), so the pooled columns are numbers
  (`PooledIsComparable`), their scores can be compared and of two at most one is worse (`WorseIsOneWay`).
  Whoever leads is then the one chosen (`LeaderIsChosen`), what is left of a half is a half (`OtherHalf`),
  and all others or nobody score below the chosen one in it (`LeaderIsNoMiss`).
* **One set of trades.** `TradesInv` says of a run under way that journal, reports and cost curve are of the parts
  labelled so far (`OfTheParts`). Each instrument adds its rows at the end of the journal (`JournalGrows`), its
  counts to the reports (`ReportsGrow`) and to each level (`CurvedMore`). That the rows are as many as the
  trades is a count by numbering (`Numbering`, `JournalIsOfThePool`): a trade is a cell, of a part, a row and a
  variant, in the journal by instrument and in the pool by time. Totals along a sequence are compared
  step by step (`StepByStep`), and over the pool part by part (`TotalByParts`, `PoolAddsUp`). A dearer model charges
  each trade no less after every floor, cap and rounding (`DearerCost`), and changes neither which signals are
  labelled nor where they close, so a level has the same trades and makes no more of them
  (`DearerLabels`). The winner is one of the sweep because being worse is handed on (`WorseIsHandedOn`), so
  one of its variants is worse than none (`BestIsAmongThem`).
* **The search.** `SearchInv` relates the ledger to the trials begun: a file that was never cut short
  holds exactly the rows appended, and one that was raises at its next reading (`Holds`,
  `CutShortIsHeld`, `EveryRowIsRead`), so a run that reaches its verdict has read them all.
* **Actions.** `PassInv` is the fetch under way: whom it asked, whom it was refused, and that the rest has no
  answer; the file changes only when nobody is left to ask. The prices: what is known before a day is
  settled when the day is over (`ReadInv`), and a price looks at nothing else (`SameBasisSamePrices`).
* **Screen.** The bars before a day are a first part of any longer history (`EarlierDaysComeFirst`,
  `SamePast`), and a build looks at no other (`ScreenIsOfThePast`). Of sectors, rows sorted by their
  beginning overlap only if two neighbours do (`NeighboursAreEnough`).
* **Audit.** A session's bars are one interval after another, as many as it expects (`BarsOfALongSession`,
  `GridIsWhatIsExpected`), so between two of them there are as many as their distance says (`BarsInside`).
  What is held is of that grid (`CellsOK`); held once each, a count that is not short is the whole
  grid (`RowsOfACell`). The bars on either side of one that lacks, the nearest held, make its hole
  (`LackingBarsAreInHoles`), and no two holes share one.
* **Seeds.** `SamplesInv` follows one file through reservation, storing and manifest, and an ingest through
  the plan of what is lacking (`PlanTakesAll`); nothing overwrites a file (`FilesAreKept`).

Only model-checked:

* liveness (the prover has no fairness);
* `AdjustedPathIsTheMarkets` and `ScanFindsSeamsAndNews`, which hold for the sizes of the run and not for
  every value of the constants: a rounded price is within one unit of the market's while prices are
  small against the rounding of a ratio, and a split below the threshold of the scan is no seam.

## 7. What is not modelled

* Values that only arithmetic decides: indicators, Sharpe ratios and their deflation, bootstraps, the
  exit gate on seeded random series. Their inputs are modelled where looking at the wrong bar is
  the risk; an estimate of how many independent looks a search was worth is any number of them.
* The parsing of vendors' files, of the sources and universe files, and the codec: data in, data out.
* Full disks and power loss in the event log; what a failed write leaves is the file system's.
* Two processes on one corpus, ledger or folder, or two fetches on one pacer. None is promised and
  nothing in the repository does it.
* Restart of a broker process: the code keeps nothing and reads nothing back.
* A second `run` of one engine; the only caller builds an engine for each run.
* `disconnect` and `probe` of the connection, and conversions to IBKR's types.
* The exchange calendar (a third-party library) and ib_async; the models take any calendar and
  let the Gateway answer anything.
* The walk-forward splitter, the uniqueness weights and slippage from volume: no caller.

## 8. Plan

In this order, the most consequential first.

1. `Trading` with two symbols and a section computed by `MarketContext`, so that a ranking moves
   while the strategies hold memories of it.
