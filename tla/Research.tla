------------------------------ MODULE Research ------------------------------
(***************************************************************************)
(* `lab measure`: a strategy's sweep is run over the corpus, its decisions *)
(* are labelled one instrument at a time and journalled, pooled, recorded  *)
(* in the trial ledger one variant at a time, and only then judged.  The   *)
(* process may die anywhere, inside an append too, and is then run again.  *)
(* What the engine proposed is given by the request.                       *)
(***************************************************************************)
EXTENDS Labelling, CrossValidation, LineFile, TLC

CONSTANTS
  Universe,      \* the instruments, in the order they sort
  Corpora,       \* what the bar store may hold
  Requests,      \* per measurement: the sweeps that may be asked for
  Models,        \* the reference cost model first, then the levels of the curve
  CV,            \* n_groups, n_test_groups, embargo
  PboBlocks,
  DayTicks,      \* ticks to a day
  RegimeMemory,  \* DEFAULT_VOLATILITY_MEMORY
  MinTrades,     \* DEFAULT_MIN_TRADES
  CommandTicks   \* the least time between two commands, in nanoseconds

(* Symbols sort one way; a series has a bar per moment, in order, and a     *)
(* price is positive.                                                      *)
ASSUME UniverseAssumption ==
  /\ Universe \in Seq(Range(Universe))
  /\ \A i, j \in DOMAIN Universe : Universe[i] = Universe[j] => i = j
ASSUME CorporaAssumption ==
  \A stored \in Corpora : \A i \in DOMAIN Universe :
    /\ stored[Universe[i]] \in Seq([ts : Nat, high : Nat, low : Nat, close : Nat])
    /\ \A a, b \in DOMAIN stored[Universe[i]] :
         a < b => stored[Universe[i]][a].ts < stored[Universe[i]][b].ts
    /\ \A a \in DOMAIN stored[Universe[i]] : stored[Universe[i]][a].close > 0

(* The measurements come one after another; a sweep is a list of variants. *)
ASSUME RequestsAssumption ==
  /\ Requests \in Seq(Range(Requests))
  /\ \A k \in DOMAIN Requests : \A request \in Requests[k] :
       /\ request.variants \in Seq(Range(request.variants))
       /\ \A v \in DOMAIN request.variants : \A intent \in request.variants[v].intents :
            /\ intent.horizon \in Nat /\ intent.side \in {"BUY", "SELL"}
            /\ intent.invalidation \in Nat /\ intent.target_r \in Nat \X (Nat \ {0})

(* No term of a spread or of a fee schedule may be negative. *)
ASSUME ModelsAssumption ==
  /\ 1 \in DOMAIN Models
  /\ \A l \in DOMAIN Models :
       /\ {Models[l].min_spread, Models[l].per_share, Models[l].min_fee} \subseteq Nat
       /\ {Models[l].fraction, Models[l].max_fraction} \subseteq Nat \X (Nat \ {0})

(* _cost_levels: no level twice, each the reference model many times over,  *)
(* save for the cap on a fee; _scaled_costs refuses a multiple below zero. *)
ASSUME LevelsAssumption ==
  \A a, b \in DOMAIN Models \ {1} :
    /\ Models[a].scale \in Nat
    /\ Models[a].scale = Models[b].scale => a = b
    /\ Models[a].scale < Models[b].scale =>
         /\ Models[a].min_spread <= Models[b].min_spread
         /\ Models[a].per_share <= Models[b].per_share /\ Models[a].min_fee <= Models[b].min_fee
         /\ Models[a].fraction[1] <= Models[b].fraction[1] /\ Models[a].fraction[2] = Models[b].fraction[2]
         /\ Models[a].max_fraction = Models[b].max_fraction
ASSUME ModelsAreListed == Len(Models) \in Nat /\ DOMAIN Models = 1 .. Len(Models)
ASSUME CommandsAssumption == CommandTicks \in Nat

(* What probability_of_backtest_overfitting and CombinatorialPurgedCV refuse. *)
ASSUME PboAssumption == PboBlocks \in Nat /\ PboBlocks >= 4 /\ PboBlocks % 2 = 0
ASSUME CVAssumption ==
  CV.n_groups \in Nat /\ CV.n_test_groups \in 1 .. CV.n_groups - 1 /\ CV.embargo \in Nat

VARIABLES corpus, now, run, ledger, journals, tried
vars == <<corpus, now, run, ledger, journals, tried>>

Place(symbol) == CHOOSE i \in DOMAIN Universe : Universe[i] = symbol
DayOf(ts) == ts \div DayTicks
-----------------------------------------------------------------------------
(* signals_from_intents. *)
BarsWithin(bars, index, deadline) == Cardinality({i \in DOMAIN bars : i > index /\ bars[i].ts <= deadline})

SignalsOf(bars, intents) ==
  LET at(intent) == CHOOSE i \in DOMAIN bars : bars[i].ts = intent.ts
      risk(intent) ==
        LET distance == bars[at(intent)].close - intent.invalidation
        IN IF distance < 0 THEN -distance ELSE distance
      signal(intent) ==
        [index |-> at(intent), side |-> intent.side, stop_loss |-> risk(intent),
         profit_target |-> (risk(intent) * intent.target_r[1]) \div intent.target_r[2],
         max_bars |-> BarsWithin(bars, at(intent), intent.ts + intent.horizon)]
  IN {s \in {signal(intent) : intent \in intents} : s.stop_loss > 0 /\ s.max_bars >= 1}

(* The engine read the same bars, so its intents are all at one of them.   *)
ProposedOn(symbol, bars, intents) ==
  {i \in intents : i.symbol = symbol /\ \E b \in DOMAIN bars : bars[b].ts = i.ts}

(* What Variant refuses to be built with: two decisions on one bar. *)
ASSUME DecisionsAssumption ==
  \A stored \in Corpora : \A symbol \in Range(Universe) :
    \A k \in DOMAIN Requests : \A request \in Requests[k] : \A v \in DOMAIN request.variants :
      LET signals == SignalsOf(stored[symbol], ProposedOn(symbol, stored[symbol], request.variants[v].intents))
      IN \A s, other \in signals : s.index = other.index => s = other

(* label_signals: one column per variant over the candidates all can label. *)
At(signals, index) == {s \in signals : s.index = index}
Reaches(variants, index) == {s.index + s.max_bars : s \in UNION {At(variants[v], index) : v \in DOMAIN variants}}

LabelSignals(bars, variants, model) ==
  LET touch(s) == TripleBarrier(bars, s.index, s, model)
      grid == {s.index : s \in UNION {variants[v] : v \in DOMAIN variants}}
      kept == Ascending({i \in grid :
                \A v \in DOMAIN variants : \A s \in At(variants[v], i) : touch(s) # NoTouch})
      trade(v, i) == IF At(variants[v], i) = {} THEN NoTouch
                     ELSE touch(CHOOSE s \in variants[v] : s.index = i)
      trades == [v \in DOMAIN variants |-> [k \in DOMAIN kept |-> trade(v, kept[k])]]
  IN [spans |-> [k \in DOMAIN kept |->
                   [opened |-> kept[k], closed |-> Max(Reaches(variants, kept[k]) \cup {kept[k]})]],
      trades |-> trades,
      dropped |-> Cardinality(grid) - Len(kept)]

Earned(trade) == IF trade = NoTouch THEN 0 ELSE trade.realised_return
Returns(observations) ==
  [v \in DOMAIN observations.trades |->
     [k \in DOMAIN observations.trades[v] |-> Earned(observations.trades[v][k])]]
Taken(column) == {i \in DOMAIN column : column[i] # NoTouch}

(* pool: the parts in one order of time, spans in the clock's own unit. *)
ByTime(a, b) == a.opened < b.opened \/ (a.opened = b.opened /\ Place(a.key) < Place(b.key))

Pool(parts, n_variants) ==
  LET row(p, k) ==
        LET part == parts[p]
            span == part.observations.spans[k]
        IN [opened |-> part.timestamps[span.opened],
            closed |-> part.timestamps[LeastOf(span.closed, Len(part.timestamps))],
            key |-> part.key, part |-> p, position |-> k]
      rows == InOrder(UNION {{row(p, k) : k \in DOMAIN parts[p].observations.spans} : p \in DOMAIN parts},
                      ByTime)
      trade(v, row_) == parts[row_.part].observations.trades[v][row_.position]
  IN [keys |-> [i \in DOMAIN rows |-> rows[i].key],
      spans |-> [i \in DOMAIN rows |-> [opened |-> rows[i].opened, closed |-> rows[i].closed]],
      trades |-> [v \in 1 .. n_variants |-> [i \in DOMAIN rows |-> trade(v, rows[i])]]]
-----------------------------------------------------------------------------
(* _journal_trades: a row for every labelled trade of a kept candidate, by  *)
(* the candidate and then the variant.                                     *)
InTurn(a, b) == a[1] < b[1] \/ (a[1] = b[1] /\ a[2] < b[2])

JournalRows(symbol, bars, variants, observations) ==
  LET taken == {c \in (DOMAIN observations.spans) \X (DOMAIN variants) : observations.trades[c[2]][c[1]] # NoTouch}
      in_turn == InOrder(taken, InTurn)
      row(k, v) == [symbol |-> symbol, variant |-> variants[v].label,
                    entry_ns |-> bars[observations.spans[k].opened].ts,
                    trade |-> observations.trades[v][k]]
  IN [i \in DOMAIN in_turn |-> row(in_turn[i][1], in_turn[i][2])]

Filed(file, rows) ==
  LET after[i \in 0 .. Len(rows)] == IF i = 0 THEN file ELSE Written(after[i - 1], rows[i])
  IN after[Len(rows)]

(* _expectancy and _Level: how many trades, and what they made. *)
Tally(column) ==
  [n_trades |-> Cardinality(Taken(column)), total |-> Total([i \in DOMAIN column |-> Earned(column[i])])]
AddTallies(a, b) == [n_trades |-> a.n_trades + b.n_trades, total |-> a.total + b.total]
NoTally == [n_trades |-> 0, total |-> 0]

(* _curve_of: what the winner makes at each level of costs, dearer and dearer. *)
ByScale(a, b) == a.scale < b.scale
CurveOf(curve, best) ==
  InOrder({[scale |-> Models[l + 1].scale, tally |-> curve[l][best]] : l \in DOMAIN curve}, ByScale)
-----------------------------------------------------------------------------
(* The range of a day, market-wide, and the third of all days it falls in   *)
(* (trailing_volatility, bucket_sessions).                                 *)
Mean(seq) == Nearest(SumOf(seq), Len(seq))
DaysOf(bars) == {DayOf(bars[i].ts) : i \in DOMAIN bars}
DayRange(bars, day) ==
  LET of == SelectSeq(bars, LAMBDA bar : DayOf(bar.ts) = day)
      high == Max({of[i].high : i \in DOMAIN of})
      low == Min({of[i].low : i \in DOMAIN of})
  IN Nearest((high - low) * ReturnPlaces, Last(of).close)
SessionRange(stored, day) ==
  LET open == SelectSeq(Universe, LAMBDA symbol : day \in DaysOf(stored[symbol]))
  IN Mean([i \in DOMAIN open |-> DayRange(stored[open[i]], day)])

TrailingVolatility(stored) ==
  LET days == Ascending(UNION {DaysOf(stored[Universe[i]]) : i \in DOMAIN Universe})
      before(i) == [j \in 1 .. RegimeMemory |-> SessionRange(stored, days[i - j])]
      late == {i \in DOMAIN days : i > RegimeMemory}
  IN [day \in {days[i] : i \in late} |-> Mean(before(CHOOSE i \in late : days[i] = day))]

Buckets == {"LOW", "MID", "HIGH"}
Terciles(volatility) ==
  LET days == Ascending(DOMAIN volatility)
      ordered == SortSeq([i \in DOMAIN days |-> volatility[days[i]]], LAMBDA a, b : a < b)
  IN [low |-> ordered[Len(ordered) \div 3 + 1], high |-> ordered[(2 * Len(ordered)) \div 3 + 1]]
BucketSessions(volatility) ==
  LET cut == Terciles(volatility)
  IN [day \in DOMAIN volatility |->
        IF volatility[day] < cut.low THEN "LOW" ELSE IF volatility[day] >= cut.high THEN "HIGH" ELSE "MID"]

(* coverage_of: the winner's trades by the bucket of the day they opened. *)
CoverageOf(pooled, best) ==
  LET bucket == BucketSessions(TrailingVolatility(corpus))
      in(i, b) == LET day == DayOf(pooled.spans[i].opened) IN day \in DOMAIN bucket /\ bucket[day] = b
  IN [b \in Buckets |-> Tally([i \in DOMAIN pooled.spans |->
                                 IF in(i, b) THEN pooled.trades[best][i] ELSE NoTouch])]
RegimesCovered(coverage) ==
  Cardinality({b \in Buckets : coverage[b].n_trades >= MinTrades /\ coverage[b].total > 0})
-----------------------------------------------------------------------------
NoRun == [id |-> 0, phase |-> "idle"]
UnderWay == run.phase \in {"labelling", "recording"}
Over(phase) == run' = [run EXCEPT !.phase = phase]
Having(found) == [f \in DOMAIN run \cup DOMAIN found |-> IF f \in DOMAIN found THEN found[f] ELSE run[f]]

TypeOK ==
  /\ corpus \in Corpora
  /\ now \in Nat /\ now = run.id * CommandTicks
  /\ run.phase \in {"idle", "labelling", "recording", "judged", "refused", "raised", "died"}
  /\ DOMAIN journals = 1 .. run.id
  /\ \A t \in tried : t.run \in 1 .. run.id

Init ==
  /\ corpus \in Corpora
  /\ now = 0 /\ run = NoRun /\ tried = {}
  /\ ledger = EmptyFile /\ journals = <<>>

(* lab_measure: the ledger is given a clock of its own (cli.py), and so is *)
(* the measurement.                                                        *)
Asked(request) ==
  [id |-> run.id + 1, phase |-> "labelling", family |-> request.family,
   variants |-> request.variants, ledger_clock |-> now', clock |-> now',
   todo |-> Universe, parts |-> <<>>, runs |-> <<>>,
   curve |-> [l \in 1 .. Len(Models) - 1 |-> [v \in DOMAIN request.variants |-> NoTally]]]

MeasureInTheSameFile ==
  /\ ~UnderWay /\ run.id < Len(Requests)
  /\ now' = now + CommandTicks
  /\ \E request \in Requests[run.id + 1] : run' = Asked(request)
  /\ journals' = IF journals = <<>> THEN <<EmptyFile>> ELSE journals
  /\ UNCHANGED <<corpus, ledger, tried>>
Measure ==
  /\ ~UnderWay /\ run.id < Len(Requests)
  /\ now' = now + CommandTicks
  /\ \E request \in Requests[run.id + 1] : run' = Asked(request)
  /\ journals' = Append(journals, EmptyFile)
  /\ UNCHANGED <<corpus, ledger, tried>>

(* One instrument of measure_strategy's loop: labelled, journalled, pooled. *)
Symbol == Head(run.todo)
SignalsNow ==
  [v \in DOMAIN run.variants |-> SignalsOf(corpus[Symbol], ProposedOn(Symbol, corpus[Symbol], run.variants[v].intents))]
LabelledAt(model) == LabelSignals(corpus[Symbol], SignalsNow, model)
RowsNow == JournalRows(Symbol, corpus[Symbol], run.variants, LabelledAt(Models[1]))
Nothing == \A v \in DOMAIN run.variants : SignalsNow[v] = {}

SymbolRun(observations) ==
  [symbol |-> Symbol, n_observations |-> Len(observations.spans),
   n_signals |-> [v \in DOMAIN run.variants |-> Cardinality(SignalsNow[v])],
   tallies |-> [v \in DOMAIN run.variants |-> Tally(observations.trades[v])]]

PassOver ==
  /\ run.phase = "labelling" /\ run.todo # <<>> /\ Nothing
  /\ run' = [run EXCEPT !.todo = Tail(run.todo),
                        !.runs = Append(@, SymbolRun([spans |-> <<>>,
                                                      trades |-> [v \in DOMAIN run.variants |-> <<>>]]))]
  /\ UNCHANGED <<corpus, now, ledger, journals, tried>>

LabelSymbol ==
  /\ run.phase = "labelling" /\ run.todo # <<>> /\ ~Nothing
  /\ LET observations == LabelledAt(Models[1])
         bars == corpus[Symbol]
         scored == [l \in DOMAIN run.curve |-> LabelledAt(Models[l + 1])]
     IN /\ run' = [run EXCEPT
             !.todo = Tail(run.todo),
             !.runs = Append(@, SymbolRun(observations)),
             !.parts = Append(@, [key |-> Symbol, timestamps |-> [i \in DOMAIN bars |-> bars[i].ts],
                                  observations |-> observations]),
             !.curve = [l \in DOMAIN @ |-> [v \in DOMAIN run.variants |->
                          AddTallies(@[l][v], Tally(scored[l].trades[v]))]]]
        /\ journals' = [journals EXCEPT ![run.id] = Filed(@, RowsNow)]
  /\ UNCHANGED <<corpus, now, ledger, tried>>

(* _why_not: a sample that cannot carry the statistics is a finding. *)
WhyNot(pooled) ==
  LET observations == Len(pooled.spans)
      n_variants == Len(run.variants)
  IN \/ n_variants < 2
     \/ observations = 0
     \/ observations < Max({PboBlocks, CV.n_groups})
     \/ \E v \in 1 .. n_variants : Taken(pooled.trades[v]) = {}

PoolParts ==
  /\ run.phase = "labelling" /\ run.todo = <<>>
  /\ LET pooled == Pool(run.parts, Len(run.variants))
     IN IF WhyNot(pooled) THEN Over("refused")
        ELSE run' = Having([phase |-> "recording", recorded |-> 0, pooled |-> pooled])
  /\ UNCHANGED <<corpus, now, ledger, journals, tried>>

(* assess, one turn of its first loop: TrialLedger.record stamps the trial  *)
(* with the ledger's clock.  A column without a Sharpe ratio raises.       *)
Columns == Returns(run.pooled)
Turn == run.recorded + 1
TrialNow ==
  [run |-> run.id, family |-> run.family, label |-> run.variants[Turn].label,
   recorded_ns |-> run.ledger_clock, sharpe |-> Moments(Columns[Turn]),
   n_observations |-> Len(Columns[Turn])]

RecordTrial ==
  /\ run.phase = "recording" /\ run.recorded < Len(run.variants)
  /\ IF HasSharpe(Columns[Turn])
     THEN /\ ledger' = Written(ledger, TrialNow)
          /\ tried' = tried \cup {TrialNow}
          /\ run' = [run EXCEPT !.recorded = @ + 1, !.clock = @ + 1]
     ELSE Over("raised") /\ UNCHANGED <<ledger, tried>>
  /\ UNCHANGED <<corpus, now, journals>>

(* TrialLedgerStore.trials: the family's share of the file. *)
Trials(family) ==
  LET rows == RowsOf(ledger)
      theirs == Ascending({i \in DOMAIN rows : rows[i].family = family})
  IN [k \in DOMAIN theirs |-> rows[theirs[k]]]

(* The rest of assess and of measure_strategy.  How many independent looks  *)
(* the search was worth is an estimate: any number of them.                *)
Judge ==
  /\ run.phase = "recording" /\ run.recorded = Len(run.variants)
  /\ IF ~Legible(ledger) THEN Over("raised")
     ELSE \E independent \in 1 .. Len(run.variants) :
            LET pooled == run.pooled
                columns == Columns
                best == FirstBest([v \in DOMAIN columns |-> Moments(columns[v])])
                charged == Trials(run.family)
            IN run' = Having([phase |-> "judged", best |-> best, charged |-> charged,
                       looks |-> Max({1, independent + Len(charged) - Len(run.variants)}),
                       clusters |-> Cardinality({DayOf(pooled.spans[i].opened) : i \in DOMAIN pooled.spans}),
                       misses |-> Misses(columns, Len(pooled.spans), PboBlocks),
                       chosen |-> ChosenBy(pooled.spans, columns, CV),
                       tally |-> Tally(pooled.trades[best]),
                       coverage |-> CoverageOf(pooled, best),
                       costs |-> CurveOf(run.curve, best)])
  /\ UNCHANGED <<corpus, now, ledger, journals, tried>>

(* The process dies: between two steps, or inside an append. *)
Die ==
  /\ UnderWay /\ Over("died")
  /\ UNCHANGED <<corpus, now, ledger, journals, tried>>

DieJournalling ==
  /\ run.phase = "labelling" /\ run.todo # <<>> /\ ~Nothing
  /\ LET rows == RowsNow
     IN \E k \in DOMAIN rows :
          LET file == Filed(journals[run.id], SubSeq(rows, 1, k - 1))
          IN \E left \in CutShort(file, rows[k]) : journals' = [journals EXCEPT ![run.id] = left]
  /\ Over("died")
  /\ UNCHANGED <<corpus, now, ledger, tried>>

DieRecording ==
  /\ run.phase = "recording" /\ run.recorded < Len(run.variants) /\ HasSharpe(Columns[Turn])
  /\ \E left \in CutShort(ledger, TrialNow) :
       /\ ledger' = left
       /\ tried' = IF left = ledger THEN tried ELSE tried \cup {TrialNow}
  /\ Over("died")
  /\ UNCHANGED <<corpus, now, journals>>

Next ==
  \/ Measure \/ PassOver \/ LabelSymbol \/ PoolParts \/ RecordTrial \/ Judge
  \/ Die \/ DieJournalling \/ DieRecording

Spec == Init /\ [][Next]_vars
-----------------------------------------------------------------------------
(* Every labelled trade of the run so far: its part, row, variant and label. *)
LabelledTrades ==
  IF run.id = 0 THEN {}
  ELSE UNION {UNION {{[part |-> run.parts[p], row |-> k, variant |-> v] :
                        k \in {k \in DOMAIN run.parts[p].observations.spans :
                                 run.parts[p].observations.trades[v][k] # NoTouch}}
                       : v \in DOMAIN run.variants} : p \in DOMAIN run.parts}
BarsOf(t) == corpus[t.part.key]
EntryOf(t) == t.part.observations.spans[t.row].opened
LabelOf(t) == t.part.observations.trades[t.variant][t.row]
(* The decision it is the label of, not one the conversion dropped there.  *)
IntentOf(t) ==
  CHOOSE i \in run.variants[t.variant].intents :
    /\ i.symbol = t.part.key /\ i.ts = BarsOf(t)[EntryOf(t)].ts
    /\ SignalsOf(BarsOf(t), {i}) # {}
SignalOf(t) ==
  CHOOSE s \in SignalsOf(BarsOf(t), {IntentOf(t)}) : TRUE

(* A label knows nothing of the bars after its exit: cut the series there   *)
(* and the label is the same, the excursions too.  (triple_barrier walks a *)
(* slice that runs on; a look past the exit flatters mfe and mae.)         *)
LabelsReadOnlyWhatWasHeld ==
  \A t \in LabelledTrades :
    LET exit == EntryOf(t) + LabelOf(t).bars_held
    IN TripleBarrier(SubSeq(BarsOf(t), 1, exit), EntryOf(t), SignalOf(t), Models[1]) = LabelOf(t)

(* A short is a long in a mirror: turn the prices over about the entry and  *)
(* the side with them, and all but the costs of the outcome is the same    *)
(* (the two branches of triple_barrier's loop agree).                      *)
Mirrored(bars, entry) ==
  [i \in DOMAIN bars |-> [ts |-> bars[i].ts, high |-> 2 * entry - bars[i].low,
                          low |-> 2 * entry - bars[i].high, close |-> 2 * entry - bars[i].close]]
Outcome(touch) == [f \in DOMAIN touch \ {"realised_return"} |-> touch[f]]
SidesAreMirrors ==
  \A t \in LabelledTrades :
    LET entry == BarsOf(t)[EntryOf(t)].close
        turned == [SignalOf(t) EXCEPT !.side = OtherSide(@)]
    IN Outcome(TripleBarrier(Mirrored(BarsOf(t), entry), EntryOf(t), turned, Models[1]))
         = Outcome(LabelOf(t))

(* Nobody holds past the deadline of the intent: the horizon, a length of   *)
(* time, is turned into a count of bars that a gap in them must not stretch. *)
NoTradeOutlivesItsIntent ==
  \A t \in LabelledTrades : LabelOf(t).touched_at <= IntentOf(t).ts + IntentOf(t).horizon

(* A label is of the position while it was held: not of the bars after it,  *)
(* not of the side it was on, and not of a minute past its deadline.        *)
LabelsAreOfTheHolding == LabelsReadOnlyWhatWasHeld /\ SidesAreMirrors /\ NoTradeOutlivesItsIntent

(* Costs only ever take: a level that charges more has the same trades and  *)
(* makes no more of them, so the curve crosses zero at most once and the   *)
(* first crossing CostCurve.break_even reports is the only one.            *)
DearerIsNeverBetter ==
  run.phase = "judged" =>
    \A a, b \in DOMAIN run.costs : a < b =>
      /\ run.costs[a].tally.n_trades = run.tally.n_trades
      /\ run.costs[b].tally.n_trades = run.tally.n_trades
      /\ run.costs[a].tally.total >= run.costs[b].tally.total

(* The counts that are kept apart agree: what the journal holds, what each  *)
(* instrument reports, what the pooled columns hold and what the regimes   *)
(* are cut from are one set of trades, at the time they were opened.       *)
PooledTrades == {c \in (DOMAIN run.variants) \X (DOMAIN run.pooled.spans) : run.pooled.trades[c[1]][c[2]] # NoTouch}
PooledRow(v, i) ==
  [symbol |-> run.pooled.keys[i], variant |-> run.variants[v].label,
   entry_ns |-> run.pooled.spans[i].opened, trade |-> run.pooled.trades[v][i]]
Reported(v) ==
  [n_trades |-> Total([r \in DOMAIN run.runs |-> run.runs[r].tallies[v].n_trades]),
   total |-> Total([r \in DOMAIN run.runs |-> run.runs[r].tallies[v].total])]
TalliesAgree ==
  run.phase \in {"recording", "judged"} =>
    /\ Legible(journals[run.id])
    /\ LET rows == RowsOf(journals[run.id])
       IN Len(rows) = Cardinality(PooledTrades) /\ Range(rows) = {PooledRow(c[1], c[2]) : c \in PooledTrades}
    /\ \A v \in DOMAIN run.variants : Reported(v) = Tally(run.pooled.trades[v])
    /\ run.phase = "judged" =>
         run.coverage["LOW"].n_trades + run.coverage["MID"].n_trades + run.coverage["HIGH"].n_trades
           = Cardinality({i \in Taken(run.pooled.trades[run.best]) :
                            DayOf(run.pooled.spans[i].opened) \in DOMAIN TrailingVolatility(corpus)})

(* One set of trades is behind the journal, the tallies, the regimes and    *)
(* every level of the cost curve.                                           *)
OneSetOfTrades == TypeOK /\ TalliesAgree /\ DearerIsNeverBetter

(* No training row knows how a held-out row ended: their labels share no    *)
(* moment, and a label that opens after a held-out one closed waits out    *)
(* the embargo.  What a row knows is the time its trades really took, of   *)
(* every variant, not the span the split was cut by.                       *)
WindowsOf(i) ==
  {[from |-> run.pooled.spans[i].opened, until |-> run.pooled.trades[v][i].touched_at] :
     v \in {v \in DOMAIN run.variants : run.pooled.trades[v][i] # NoTouch}}
TrainingKeepsItsDistance ==
  run.phase = "recording" /\ run.recorded = 0 =>
    \A split \in Range(Splits(run.pooled.spans, CV)) :
      \A i \in split.train, j \in split.test :
        \A a \in WindowsOf(i), b \in WindowsOf(j) :
          a.until < b.from \/ a.from > b.until + CV.embargo

(* Every recombined path scores every group once, by a variant chosen       *)
(* without it, and no two paths lean on the same split for the same group. *)
PathsAreOutOfSample ==
  run.phase = "judged" =>
    LET splits == Splits(run.pooled.spans, CV)
        paths == Paths(CV)
    IN /\ Len(run.chosen) = Len(splits)
       /\ \A p \in DOMAIN paths : \A g \in DOMAIN paths[p] : g \in splits[paths[p][g]].test_groups
       /\ \A p, q \in DOMAIN paths : p # q => \A g \in DOMAIN paths[p] : paths[p][g] # paths[q][g]
       /\ \A s \in DOMAIN splits : \A g \in splits[s].test_groups :
            \E p \in DOMAIN paths : paths[p][g] = s

(* Nothing a variant is scored on was known when it was chosen.             *)
SplitsDoNotLeak == TrainingKeepsItsDistance /\ PathsAreOutOfSample

(* A ranking that never changes is not called overfit, one that always      *)
(* turns over always is (probability_of_backtest_overfitting).             *)
PboMeasuresTheRanking ==
  run.phase = "judged" =>
    LET columns == Returns(run.pooled)
        blocks == Groups(Len(run.pooled.spans), PboBlocks)
        halves == kSubset(PboBlocks \div 2, 1 .. PboBlocks)
        scores(half) == Scores(columns, Rows(half, blocks))
        leads(v, half) == \A u \in DOMAIN columns \ {v} : Worse(scores(half)[u], scores(half)[v])
        trails(v, half) == \A u \in DOMAIN columns \ {v} : Worse(scores(half)[v], scores(half)[u])
        other(half) == (1 .. PboBlocks) \ half
    IN /\ (\E v \in DOMAIN columns : \A half \in halves : leads(v, half)) => run.misses = {}
       /\ \A half \in halves : (\E v \in DOMAIN columns : leads(v, half) /\ trails(v, other(half)))
            => half \in run.misses

(* A verdict is charged for the whole search: every trial that ever reached *)
(* the ledger for its family, its own among them, whatever died in between. *)
(* The count it may be discounted to lies between one look and all.        *)
VerdictChargesTheWholeSearch ==
  run.phase = "judged" =>
    /\ {t \in tried : t.family = run.family} = Range(run.charged)
    /\ {run.variants[v].label : v \in DOMAIN run.variants}
         = {t.label : t \in {t \in Range(run.charged) : t.run = run.id}}
    /\ run.looks \in 1 .. Len(run.charged)
=============================================================================
