--------------------------- MODULE CrossValidation --------------------------
(***************************************************************************)
(* lab/cv.py and the ranking half of lab/significance.py.  An observation  *)
(* is a row; its span is when it opened and how far its labels may reach.  *)
(* Rows and groups count from 1.                                           *)
(***************************************************************************)
EXTENDS Integers, Sequences, SequencesExt, FiniteSets, FiniteSetsExt

Total(seq) ==
  LET sum[k \in 0 .. Len(seq)] == IF k = 0 THEN 0 ELSE sum[k - 1] + seq[k]
  IN sum[Len(seq)]
InOrder(set, before(_, _)) ==
  [i \in 1 .. Cardinality(set) |-> CHOOSE x \in set : Cardinality({y \in set : before(y, x)}) = i - 1]
Ascending(set) == InOrder(set, LAMBDA a, b : a < b)

(* itertools.combinations of 1..n, k at a time, in its order. *)
Combinations(n, k) ==
  LET earlier(a, b) == a # b /\ Min((a \ b) \cup (b \ a)) \in a
  IN InOrder(kSubset(k, 1 .. n), earlier)

(* CombinatorialPurgedCV.groups: blocks in order, the first ones one longer. *)
Groups(rows, count) ==
  LET base == rows \div count
      extra == rows % count
      start(g) == (g - 1) * base + (IF g - 1 < extra THEN g - 1 ELSE extra)
  IN [g \in 1 .. count |-> start(g) + 1 .. start(g + 1)]

(* _contiguous_runs: the groups that touch are held out as one block. *)
ContiguousRuns(groups) ==
  {run \in (SUBSET groups) \ {{}} :
     /\ run = Min(run) .. Max(run)
     /\ Min(run) - 1 \notin groups /\ Max(run) + 1 \notin groups}
-----------------------------------------------------------------------------
(* purge_and_embargo.  A block is hidden from the first of its rows to open *)
(* until the last of their labels could close, and an embargo after.       *)
Hull(block, spans) ==
  [from |-> Min({spans[i].opened : i \in block}), until |-> Max({spans[i].closed : i \in block})]
HullOfEntries(block, spans) ==
  [from |-> Min({spans[i].opened : i \in block}), until |-> Max({spans[i].opened : i \in block})]

OpensInside(span, hull) == span.opened >= hull.from /\ span.opened <= hull.until
Overlaps(span, hull) == span.opened <= hull.until /\ span.closed >= hull.from
FollowsTooSoon(span, hull, embargo) ==
  hull.until < span.opened /\ span.opened <= hull.until + embargo

PurgeAndEmbargo(candidates, blocks, spans, embargo) ==
  LET hulls == {Hull(block, spans) : block \in blocks \ {{}}}
      purged == {i \in candidates : \E h \in hulls : Overlaps(spans[i], h)}
      embargoed == {i \in candidates \ purged : \E h \in hulls : FollowsTooSoon(spans[i], h, embargo)}
  IN [train |-> candidates \ (purged \cup embargoed), purged |-> purged, embargoed |-> embargoed]

(* CombinatorialPurgedCV.split. *)
Rows(groups, blocks) == UNION {blocks[g] : g \in groups}

Split(test_groups, blocks, spans, embargo) ==
  LET held_out == {Rows(run, blocks) : run \in ContiguousRuns(test_groups)}
      others == Rows(DOMAIN blocks \ test_groups, blocks)
      kept == PurgeAndEmbargo(others, held_out, spans, embargo)
  IN [train |-> kept.train, purged |-> kept.purged, embargoed |-> kept.embargoed,
      test |-> Rows(test_groups, blocks), test_groups |-> test_groups]

Splits(spans, cv) ==
  LET blocks == Groups(Len(spans), cv.n_groups)
      chosen == Combinations(cv.n_groups, cv.n_test_groups)
  IN [i \in DOMAIN chosen |-> Split(chosen[i], blocks, spans, cv.embargo)]

(* CombinatorialPurgedCV.paths: the p-th path takes each group from the     *)
(* p-th of the splits that held it out.                                    *)
Paths(cv) ==
  LET chosen == Combinations(cv.n_groups, cv.n_test_groups)
      holding(g) == Ascending({i \in DOMAIN chosen : g \in chosen[i]})
      n_paths == (Len(chosen) * cv.n_test_groups) \div cv.n_groups
  IN [p \in 1 .. n_paths |-> [g \in 1 .. cv.n_groups |-> holding(g)[p]]]
-----------------------------------------------------------------------------
(* sharpe_ratio, kept as <<sum, n times the sum of squares less its square>>: *)
(* enough to compare two columns of one length, exactly.                   *)
Moments(series) ==
  LET sum == Total(series)
  IN <<sum, Len(series) * Total([i \in DOMAIN series |-> series[i] * series[i]]) - sum * sum>>
HasSharpe(series) == Len(series) >= 2 /\ Moments(series)[2] > 0
SharpeOrFlat(series) == IF HasSharpe(series) THEN Moments(series) ELSE <<0, 1>>

SignedSquare(n) == IF n < 0 THEN -(n * n) ELSE n * n
Worse(a, b) == SignedSquare(a[1]) * b[2] < SignedSquare(b[1]) * a[2]

(* The first of the best: max() keeps the one it met first. *)
LastBest(scores) ==
  Max({c \in DOMAIN scores : \A d \in DOMAIN scores : ~Worse(scores[d], scores[c])})
FirstBest(scores) ==
  Min({c \in DOMAIN scores : \A d \in DOMAIN scores : ~Worse(scores[c], scores[d])})
Scores(columns, rows) ==
  LET order == Ascending(rows)
  IN [c \in DOMAIN columns |-> SharpeOrFlat([k \in DOMAIN order |-> columns[c][order[k]]])]

(* _path_sharpes: who is chosen on each split, and who then scores each row. *)
ChosenBy(spans, columns, cv) ==
  LET splits == Splits(spans, cv)
  IN [i \in DOMAIN splits |-> FirstBest(Scores(columns, splits[i].train))]

(* probability_of_backtest_overfitting: the halves whose winner is not in   *)
(* the upper half of the other half's ranking.                             *)
Misses(columns, rows, n_blocks) ==
  LET blocks == Groups(rows, n_blocks)
      halves == kSubset(n_blocks \div 2, 1 .. n_blocks)
      worse_than_winner(half) ==
        LET outside == Scores(columns, Rows((1 .. n_blocks) \ half, blocks))
            winner == FirstBest(Scores(columns, Rows(half, blocks)))
        IN Cardinality({c \in DOMAIN columns : Worse(outside[c], outside[winner])})
  IN {half \in halves : 2 * (worse_than_winner(half) + 1) <= Len(columns) + 1}
=============================================================================
