---------------------------- MODULE CrawlerProofs ----------------------------
(***************************************************************************)
(* What the crawler keeps for every universe, calendar, feed and number of *)
(* crashes.                                                                *)
(***************************************************************************)
EXTENDS Crawler, BackfillPlanning, FiniteSetTheorems, WellFoundedInduction, TLAPS

(* The answer being written came from the feed, and the cells left to      *)
(* write belong to the window it answers.                                  *)
Writing ==
    /\ phase \in {"storing", "rewriting"} =>
          /\ cellsLeft \subseteq current.days
          /\ \A b \in answer : b.ts \in Available[current.symbol]
    /\ phase = "rewriting" => cellsLeft # {}

(* Every stored bar closes on its session's grid.                          *)
OnGrid == \A s \in Symbols, d \in Days : \A b \in disk[s][d] : b.ts \in Grid(d)

(* A request is only made for a symbol that has not failed in the pass.    *)
AskedHasNotFailed == phase = "awaiting" => current.symbol \notin failed

(* A damaged corpus is seen by the plan that follows.                      *)
DamageStopsPasses == torn # {} => phase \in {"down", "planning"}

IndInv ==
    /\ TypeOK
    /\ Writing
    /\ OnGrid
    /\ FiledUnderOwnSession
    /\ OneBarPerTimestamp
    /\ AskedHasNotFailed
    /\ BreakerCountsDistinctSymbols
    /\ DamageStopsPasses

-----------------------------------------------------------------------------
(* The plan, for every corpus, calendar and cut of its days into spans. *)

(* A nonempty set of days has an oldest one: the shortest of the intervals *)
(* 1..d is minimal among finite sets.                                      *)
LEMMA OldestExists ==
    ASSUME NEW S \in SUBSET Nat, S # {}
    PROVE  Oldest(S) \in S /\ \A d \in S : Oldest(S) <= d
<1> DEFINE Below == {1..d : d \in S}
<1>1. Below \in SUBSET FiniteSubsetsOf(Nat) /\ Below # {}
  <2>1. \A d \in S : IsFiniteSet(1..d) /\ 1..d \in SUBSET Nat
    BY FS_Interval
  <2> QED
    BY <2>1 DEF FiniteSubsetsOf
<1>2. PICK D \in Below : \A E \in Below : ~(<<E, D>> \in StrictSubsetOrdering(Nat))
  BY <1>1, WFMin, FS_StrictSubsetOrderingWellFounded
<1>3. PICK d \in S : D = 1..d
  OBVIOUS
<1>4. \A e \in S : d <= e
  <2> SUFFICES ASSUME NEW e \in S, e < d PROVE FALSE
    OBVIOUS
  <2>1. 1..e \subseteq 1..d /\ d \in 1..d /\ d \notin 1..e
    OBVIOUS
  <2>2. <<1..e, D>> \in StrictSubsetOrdering(Nat)
    BY <1>3, <2>1 DEF StrictSubsetOrdering
  <2> QED
    BY <1>2, <2>2
<1>5. d \in S /\ \A e \in S : d <= e
  BY <1>4
<1> HIDE DEF Below
<1> QED
  BY <1>5, Zenon DEF Oldest

(* A finite one has a newest: what lies above it is minimal among the sets *)
(* of what lies above a day.                                               *)
LEMMA NewestExists ==
    ASSUME NEW S \in SUBSET Nat, IsFiniteSet(S), S # {}
    PROVE  Newest(S) \in S /\ \A d \in S : d <= Newest(S)
<1> DEFINE Later(d) == {e \in S : e > d}
           Above == {Later(d) : d \in S}
<1>0. \A d \in S : d \in Nat
  OBVIOUS
<1>1. Above \in SUBSET FiniteSubsetsOf(Nat) /\ Above # {}
  <2>1. \A d \in S : IsFiniteSet(Later(d)) /\ Later(d) \in SUBSET Nat
    BY FS_Subset
  <2> QED
    BY <2>1 DEF FiniteSubsetsOf
<1>2. PICK D \in Above : \A E \in Above : ~(<<E, D>> \in StrictSubsetOrdering(Nat))
  BY <1>1, WFMin, FS_StrictSubsetOrderingWellFounded
<1>3. PICK d \in S : D = Later(d)
  OBVIOUS
<1>4. \A e \in S : e <= d
  <2> SUFFICES ASSUME NEW e \in S, e > d PROVE FALSE
    OBVIOUS
  <2>1. (\A c \in Later(e) : c \in Later(d)) /\ e \in Later(d) /\ e \notin Later(e)
    BY <1>0
  <2>2. <<Later(e), D>> \in StrictSubsetOrdering(Nat)
    BY <1>3, <2>1 DEF StrictSubsetOrdering
  <2> QED
    BY <1>2, <2>2
<1>5. d \in S /\ \A e \in S : e <= d
  BY <1>4
<1> HIDE DEF Above, Later
<1> QED
  BY <1>5, Zenon DEF Newest

(* What the anchor of a day is, given the anchors of the days after it.    *)
Anchor(f, D, d) ==
    LET newer == {e \in D : e > d}
    IN  IF newer # {} /\ f[Oldest(newer)] - d < WindowDays THEN f[Oldest(newer)] ELSE d

(* The recursion that cuts the days into spans has a solution: a largest   *)
(* day from which on there is none would have one.                         *)
LEMMA SpansAreDefined ==
    ASSUME NEW D \in SUBSET Nat, IsFiniteSet(D)
    PROVE  SpanOf(D) = [d \in D |-> Anchor(SpanOf(D), D, d)]
<1> DEFINE From(n) == {d \in D : d >= n}
           Cuts(f, n) == f = [d \in From(n) |-> Anchor(f, D, d)]
           Good == {n \in Nat : \E f : Cuts(f, n)}
<1>0. \A d \in D : d \in Nat
  OBVIOUS
<1>1. Good # {}
  <2>1. PICK n \in Nat : \A d \in D : d < n
    <3>1. CASE D = {}
      BY <3>1
    <3>2. CASE D # {}
      <4> DEFINE n == Newest(D)
      <4>2. n \in Nat /\ \A d \in D : d <= n
        BY <3>2, <1>0, NewestExists
      <4> HIDE DEF n
      <4>1. n + 1 \in Nat /\ \A d \in D : d < n + 1
        BY <4>2, <1>0
      <4> QED
        BY <4>1
    <3> QED
      BY <3>1, <3>2
  <2>2. From(n) = {}
    <3>1. \A d \in D : ~(d >= n)
      BY <2>1, <1>0
    <3> QED
      BY <3>1
  <2>3. [d \in {} |-> d] = [d \in {} |-> Anchor([c \in {} |-> c], D, d)]
    OBVIOUS
  <2> QED
    BY <2>2, <2>3
<1>2. 0 \in Good
  <2> DEFINE n == Oldest(Good)
  <2>1. n \in Good /\ n \in Nat /\ \A m \in Good : n <= m
    <3> HIDE DEF Cuts
    <3> QED
      BY <1>1, OldestExists
  <2> HIDE DEF n
  <2>2. CASE n # 0
    <3> DEFINE m == n - 1
    <3>1. m \in Nat /\ m \notin Good
      <4> HIDE DEF Good
      <4> QED
        BY <2>1, <2>2
    <3>2. PICK f : Cuts(f, n)
      BY <2>1
    <3> DEFINE g == [d \in From(m) |-> Anchor(f, D, d)]
    <3>3. \A e \in From(n) : g[e] = f[e]
      BY <2>1, <3>1, <3>2
    <3>4. \A d \in From(m) : Anchor(g, D, d) = Anchor(f, D, d)
      <4> SUFFICES ASSUME NEW d \in From(m) PROVE Anchor(g, D, d) = Anchor(f, D, d)
        OBVIOUS
      <4> DEFINE newer == {e \in D : e > d}
      <4>1. newer # {} => Oldest(newer) \in newer
        BY OldestExists
      <4>2. \A e \in newer : e \in From(n)
        BY <1>0, <2>1
      <4>3. newer # {} => g[Oldest(newer)] = f[Oldest(newer)]
        BY <3>3, <4>1, <4>2
      <4> HIDE DEF g
      <4> QED
        BY <4>3 DEF Anchor
    <3>5. Cuts(g, m)
      BY <3>4
    <3> QED
      BY <3>1, <3>5
  <2> QED
    BY <2>1, <2>2
<1>3. From(0) = D
  <2>1. \A d \in D : d \in From(0)
    BY <1>0
  <2>2. \A d \in From(0) : d \in D
    OBVIOUS
  <2> HIDE DEF From
  <2> QED
    BY <2>1, <2>2
<1>4. \E f : f = [d \in D |-> Anchor(f, D, d)]
  BY <1>2, <1>3
<1>5. SpanOf(D) = CHOOSE f : f = [d \in D |-> Anchor(f, D, d)]
  BY DEF SpanOf, Anchor
<1> HIDE DEF Good, Cuts, From
<1> QED
  BY <1>4, <1>5

(* A day's span is anchored on it or on a later day, less than a window on. *)
LEMMA SpansReachBack ==
    ASSUME NEW D \in SUBSET Nat, IsFiniteSet(D), NEW d \in D
    PROVE  /\ SpanOf(D)[d] \in Nat
           /\ d <= SpanOf(D)[d]
           /\ SpanOf(D)[d] - d < WindowDays
<1> DEFINE f == SpanOf(D)
           newer(c) == {e \in D : e > c}
           Reaches(c) == f[c] \in Nat /\ c <= f[c]
           Bad == {c \in D : ~Reaches(c)}
<1> USE PlanAssumption
<1>1. \A c \in D : f[c] = IF newer(c) # {} /\ f[Oldest(newer(c))] - c < WindowDays
                          THEN f[Oldest(newer(c))] ELSE c
  BY SpansAreDefined DEF Anchor
<1>2. \A c \in D : newer(c) # {} => Oldest(newer(c)) \in D /\ Oldest(newer(c)) > c
  BY OldestExists
<1> HIDE DEF f
<1>3. Bad = {}
  <2> SUFFICES ASSUME Bad # {} PROVE FALSE
    OBVIOUS
  <2>1. IsFiniteSet(Bad)
    BY FS_Subset
  <2> DEFINE b == Newest(Bad)
  <2>2. b \in Bad /\ \A c \in Bad : c <= b
    BY <2>1, NewestExists
  <2> HIDE DEF b
  <2>3. \A c \in D : c > b => Reaches(c)
    BY <2>2
  <2>4. newer(b) # {} => Reaches(Oldest(newer(b))) /\ Oldest(newer(b)) \in Nat /\ Oldest(newer(b)) > b
    BY <1>2, <2>2, <2>3
  <2> QED
    BY <1>1, <2>2, <2>4
<1>4. Reaches(d)
  BY <1>3
<1>5. f[d] - d < WindowDays
  <2>1. d \in Nat /\ WindowDays \in Nat /\ d - d < WindowDays
    OBVIOUS
  <2>2. CASE newer(d) # {} /\ f[Oldest(newer(d))] - d < WindowDays
    <3>1. f[d] = f[Oldest(newer(d))]
      BY <1>1, <2>2
    <3> QED
      BY <2>2, <3>1
  <2>3. CASE ~(newer(d) # {} /\ f[Oldest(newer(d))] - d < WindowDays)
    <3>1. f[d] = d
      BY <1>1, <2>3
    <3> QED
      BY <2>1, <3>1
  <2> QED
    BY <2>2, <2>3
<1> QED
  BY <1>4, <1>5 DEF f

(* What every window of a plan is: short sessions of one instrument, all in *)
(* one span; and the instrument and the span determine the window.         *)
LEMMA PlannedWindows ==
    ASSUME NEW counts
    PROVE  LET windows == PlanWindows(counts)
           IN  /\ \A w \in windows :
                     /\ w.symbol \in Symbols
                     /\ w.days # {}
                     /\ w.days \subseteq Short(counts, w.symbol)
                     /\ w.span \in Nat
                     /\ \A d \in w.days :
                           /\ d \in Nat /\ d <= w.span /\ w.span - d < WindowDays
                           /\ w.span = SpanOf(ShortDays(counts))[d]
                     /\ w.untouched \in BOOLEAN
                     /\ w.untouched <=> \E d \in w.days : counts[w.symbol][d] = 0
               /\ \A v, w \in windows : v.symbol = w.symbol /\ v.span = w.span => v = w
               /\ IsFiniteSet(windows)
<1> DEFINE D == ShortDays(counts)
           span == SpanOf(D)
           days(c) == {d \in Short(counts, c[1]) : span[d] = span[c[2]]}
           W(c) == [symbol    |-> c[1],
                    span      |-> span[c[2]],
                    days      |-> days(c),
                    untouched |-> \E d \in Short(counts, c[1]) :
                                      span[d] = span[c[2]] /\ counts[c[1]][d] = 0]
           windows == PlanWindows(counts)
<1>1. windows = {W(c) : c \in Cells(counts)}
  BY DEF PlanWindows, WindowsOfSpans
<1>2. D \in SUBSET Nat /\ IsFiniteSet(D)
  <2>1. D \subseteq Days
    BY PlanAssumption DEF ShortDays, Short
  <2> QED
    BY <2>1, PlanAssumption, FS_Subset
<1>3. \A s \in Symbols : Short(counts, s) \subseteq D
  BY DEF ShortDays
<1>4. \A d \in D : span[d] \in Nat /\ d <= span[d] /\ span[d] - d < WindowDays /\ d \in Nat
  BY <1>2, SpansReachBack
<1>5. IsFiniteSet(Cells(counts))
  <2>1. IsFiniteSet(Symbols \X Days)
    BY PlanAssumption, FS_Product
  <2>2. Cells(counts) \in SUBSET (Symbols \X Days)
    BY DEF Cells
  <2> QED
    BY <2>1, <2>2, FS_Subset
<1>6. IsFiniteSet(windows)
  <2> DEFINE f == [c \in Cells(counts) |-> W(c)]
  <2>1. f \in Surjection(Cells(counts), windows)
    <3> HIDE DEF W, windows
    <3> QED
      BY <1>1 DEF Surjection
  <2> HIDE DEF f, windows
  <2> QED
    BY <1>5, <2>1, FS_Surjection
<1>7. \A c \in Cells(counts) : c[1] \in Symbols /\ c[2] \in Short(counts, c[1]) /\ c[2] \in days(c)
  BY DEF Cells
<1>8. ASSUME NEW c \in Cells(counts)
      PROVE  /\ W(c).symbol \in Symbols
             /\ W(c).days # {}
             /\ W(c).days \subseteq Short(counts, W(c).symbol)
             /\ W(c).span \in Nat
             /\ \A d \in W(c).days :
                   /\ d \in Nat /\ d <= W(c).span /\ W(c).span - d < WindowDays
                   /\ W(c).span = span[d]
             /\ W(c).untouched \in BOOLEAN
             /\ W(c).untouched <=> \E d \in W(c).days : counts[W(c).symbol][d] = 0
  <2> DEFINE w == W(c)
  <2>1. w.symbol = c[1] /\ w.span = span[c[2]] /\ w.days = days(c)
    OBVIOUS
  <2>2. /\ w.untouched \in BOOLEAN
        /\ w.untouched <=> \E d \in Short(counts, c[1]) :
                               span[d] = span[c[2]] /\ counts[c[1]][d] = 0
    BY Zenon
  <2>3. w.untouched <=> \E d \in days(c) : counts[c[1]][d] = 0
    BY <2>2
  <2> HIDE DEF w, span, D
  <2> QED
    BY <2>1, <2>2, <2>3, <1>3, <1>4, <1>7 DEF w
<1>9. ASSUME NEW b \in Cells(counts), NEW c \in Cells(counts),
             W(b).symbol = W(c).symbol, W(b).span = W(c).span
      PROVE  W(b) = W(c)
  <2>1. b[1] = c[1] /\ span[b[2]] = span[c[2]]
    BY <1>9
  <2> QED
    BY <2>1
<1> HIDE DEF W, windows
<1> QED
  BY <1>1, <1>6, <1>8, <1>9 DEF windows

(* No request spans more days than the feed answers for. *)
LEMMA PlanFitsTheFeed ==
    ASSUME NEW counts
    PROVE  \A w \in PlanWindows(counts) : Newest(w.days) - Oldest(w.days) + 1 <= WindowDays
<1> SUFFICES ASSUME NEW w \in PlanWindows(counts)
             PROVE  Newest(w.days) - Oldest(w.days) + 1 <= WindowDays
  OBVIOUS
<1> DEFINE n == Newest(w.days)
           o == Oldest(w.days)
<1>1. /\ w.days # {} /\ w.span \in Nat /\ w.symbol \in Symbols
      /\ w.days \subseteq Short(counts, w.symbol)
      /\ \A d \in w.days : d \in Nat /\ d <= w.span /\ w.span - d < WindowDays
  BY PlannedWindows
<1>2. w.days \in SUBSET Nat /\ IsFiniteSet(w.days)
  <2>1. w.days \subseteq Days
    BY <1>1, PlanAssumption DEF Short
  <2> QED
    BY <2>1, PlanAssumption, FS_Subset
<1>3. n \in w.days /\ o \in w.days
  BY <1>1, <1>2, NewestExists, OldestExists
<1> HIDE DEF n, o
<1>4. n <= w.span /\ w.span - o < WindowDays /\ n \in Nat /\ o \in Nat
  BY <1>1, <1>3
<1>5. n - o + 1 <= WindowDays
  BY <1>1, <1>4, PlanAssumption
<1> QED
  BY <1>5 DEF n, o

(* The offering order, told by numbers: the newest short session of the    *)
(* instrument and its rank decide what the spans leave open.               *)
LEMMA OfferingOrder ==
    ASSUME NEW counts, NEW v \in PlanWindows(counts), NEW w \in PlanWindows(counts)
    PROVE  LET newest(x) == Newest(Short(counts, x.symbol))
               rank(x) == Rank[x.symbol]
           IN  /\ newest(v) \in Nat /\ rank(v) \in Nat /\ v.span \in Nat
               /\ v.untouched \in BOOLEAN
               /\ rank(v) = rank(w) /\ v.span = w.span => v = w
               /\ OfferedBefore(counts, v, w) <=>
                    \/ v.untouched /\ ~w.untouched
                    \/ /\ v.untouched <=> w.untouched
                       /\ \/ v.span > w.span
                          \/ /\ v.span = w.span
                             /\ \/ newest(v) > newest(w)
                                \/ newest(v) = newest(w) /\ rank(v) < rank(w)
<1>1. /\ v.symbol \in Symbols /\ w.symbol \in Symbols
      /\ v.span \in Nat
      /\ v.untouched \in BOOLEAN /\ w.untouched \in BOOLEAN
      /\ v.days # {} /\ v.days \subseteq Short(counts, v.symbol)
      /\ v.symbol = w.symbol /\ v.span = w.span => v = w
  BY PlannedWindows
<1>2. Short(counts, v.symbol) \in SUBSET Nat /\ IsFiniteSet(Short(counts, v.symbol))
  <2>1. Short(counts, v.symbol) \subseteq Days
    BY <1>1, PlanAssumption DEF Short
  <2> QED
    BY <2>1, PlanAssumption, FS_Subset
<1>3. Newest(Short(counts, v.symbol)) \in Nat
  BY <1>1, <1>2, NewestExists
<1>4. Rank[v.symbol] \in Nat /\ (Rank[v.symbol] = Rank[w.symbol] => v.symbol = w.symbol)
  BY <1>1, PlanAssumption
<1>5. (v.untouched = w.untouched) <=> (v.untouched <=> w.untouched)
  BY <1>1, Zenon
<1> QED
  BY <1>1, <1>3, <1>4, <1>5 DEF OfferedBefore, PlannedBefore, FirstSeenBefore

(* It is a strict total order on the windows of a plan. *)
LEMMA OfferingIsTotal ==
    ASSUME NEW counts
    PROVE  LET windows == PlanWindows(counts)
           IN  \A v, w \in windows :
                 /\ v # w => OfferedBefore(counts, v, w) \/ OfferedBefore(counts, w, v)
                 /\ ~(OfferedBefore(counts, v, w) /\ OfferedBefore(counts, w, v))
                 /\ \A x \in windows :
                       OfferedBefore(counts, v, w) /\ OfferedBefore(counts, w, x)
                          => OfferedBefore(counts, v, x)
<1> DEFINE windows == PlanWindows(counts)
           newest(x) == Newest(Short(counts, x.symbol))
           rank(x) == Rank[x.symbol]
           Before(v, w) ==
               \/ v.untouched /\ ~w.untouched
               \/ /\ v.untouched <=> w.untouched
                  /\ \/ v.span > w.span
                     \/ /\ v.span = w.span
                        /\ \/ newest(v) > newest(w)
                           \/ newest(v) = newest(w) /\ rank(v) < rank(w)
<1>1. \A v, w \in windows :
          /\ newest(v) \in Nat /\ rank(v) \in Nat /\ v.span \in Nat
          /\ rank(v) = rank(w) /\ v.span = w.span => v = w
          /\ OfferedBefore(counts, v, w) <=> Before(v, w)
  BY OfferingOrder
<1> HIDE DEF windows, newest, rank
<1>2. ASSUME NEW v \in windows, NEW w \in windows, v # w PROVE Before(v, w) \/ Before(w, v)
  BY <1>1, <1>2
<1>3. ASSUME NEW v \in windows, NEW w \in windows PROVE ~(Before(v, w) /\ Before(w, v))
  BY <1>1
<1>4. ASSUME NEW v \in windows, NEW w \in windows, NEW x \in windows, Before(v, w), Before(w, x)
      PROVE  Before(v, x)
  BY <1>1, <1>4
<1> HIDE DEF Before
<1>5. \A v, w \in windows :
        /\ v # w => OfferedBefore(counts, v, w) \/ OfferedBefore(counts, w, v)
        /\ ~(OfferedBefore(counts, v, w) /\ OfferedBefore(counts, w, v))
        /\ \A x \in windows :
              OfferedBefore(counts, v, w) /\ OfferedBefore(counts, w, x)
                 => OfferedBefore(counts, v, x)
  BY <1>1, <1>2, <1>3, <1>4
<1> QED
  BY <1>5 DEF windows

(* Of two never-fetched sessions a window apart, the recent one is asked   *)
(* for first: the span it is in is anchored later.                         *)
LEMMA PlanIsRecencyMajor ==
    ASSUME NEW counts, NEW v \in PlanWindows(counts), NEW w \in PlanWindows(counts),
           NEW d \in v.days, NEW e \in w.days,
           d - e >= WindowDays, counts[v.symbol][d] = 0
    PROVE  OfferedBefore(counts, v, w)
<1>1. /\ v.untouched
      /\ v.span \in Nat /\ d \in Nat /\ d <= v.span
      /\ w.span \in Nat /\ e \in Nat /\ w.span - e < WindowDays
      /\ w.untouched \in BOOLEAN
  BY PlannedWindows
<1>2. v.span > w.span
  BY <1>1, PlanAssumption
<1> QED
  BY <1>1, <1>2, OfferingOrder

(* No instrument-session is in two windows of a plan. *)
LEMMA CellsAreAskedForOnce ==
    ASSUME NEW counts, NEW v \in Offered(counts), NEW w \in Offered(counts),
           v.symbol = w.symbol, NEW d \in v.days, d \in w.days
    PROVE  v = w
<1>1. v \in PlanWindows(counts) /\ w \in PlanWindows(counts)
  BY DEF Offered
<1>2. v.span = SpanOf(ShortDays(counts))[d] /\ w.span = SpanOf(ShortDays(counts))[d]
  BY <1>1, PlannedWindows
<1> QED
  BY <1>1, <1>2, PlannedWindows

(* In a strict total order, the windows with fewer than Limit before them  *)
(* are a prefix: the plan itself, or as many windows as the limit.         *)
LEMMA LimitCutsThePlan ==
    ASSUME NEW counts
    PROVE  LET windows == PlanWindows(counts)
               offered == Offered(counts)
           IN  /\ \A w \in offered, v \in windows : OfferedBefore(counts, v, w) => v \in offered
               /\ Limit # NoLimit =>
                     \/ Cardinality(offered) = Limit
                     \/ offered = windows /\ Cardinality(offered) < Limit
<1> DEFINE windows == PlanWindows(counts)
           offered == Offered(counts)
           Before(v, w) == OfferedBefore(counts, v, w)
           ahead(w) == {v \in windows : Before(v, w)}
           place(w) == Cardinality(ahead(w))
<1>1. /\ IsFiniteSet(windows)
      /\ \A v, w \in windows :
            /\ v # w => Before(v, w) \/ Before(w, v)
            /\ ~(Before(v, w) /\ Before(w, v))
            /\ \A x \in windows : Before(v, w) /\ Before(w, x) => Before(v, x)
  BY PlannedWindows, OfferingIsTotal
<1>2. offered = {w \in windows : Limit = NoLimit \/ place(w) < Limit}
  BY DEF Offered
<1> HIDE DEF windows, offered, Before
<1>3. \A w \in windows : IsFiniteSet(ahead(w)) /\ place(w) \in Nat
  BY <1>1, FS_Subset, FS_CardinalityType
<1>4. ASSUME NEW v \in windows, NEW w \in windows, Before(v, w)
      PROVE  place(v) < place(w)
  <2>1. ahead(v) \subseteq ahead(w) /\ v \in ahead(w) /\ v \notin ahead(v)
    BY <1>1, <1>4
  <2> HIDE DEF ahead
  <2>2. place(v) <= place(w) /\ (place(v) = place(w) => ahead(v) = ahead(w))
    BY <2>1, <1>3, FS_Subset
  <2> QED
    BY <2>1, <2>2, <1>3
<1>5. \A w \in offered, v \in windows : Before(v, w) => v \in offered
  <2> SUFFICES ASSUME NEW w \in offered, NEW v \in windows, Before(v, w), Limit # NoLimit
               PROVE  place(v) < Limit
    BY <1>2
  <2>1. place(v) < place(w) /\ place(w) < Limit /\ place(v) \in Nat /\ place(w) \in Nat
    BY <1>2, <1>3, <1>4
  <2> HIDE DEF place
  <2> QED
    BY <2>1, PlanAssumption
<1>6. ASSUME Limit # NoLimit
      PROVE  \/ Cardinality(offered) = Limit
             \/ offered = windows /\ Cardinality(offered) < Limit
  <2>1. Limit \in Nat \ {0}
    BY <1>6, PlanAssumption
  <2>2. /\ offered \subseteq windows /\ IsFiniteSet(offered) /\ Cardinality(offered) \in Nat
    BY <1>1, <1>2, FS_Subset, FS_CardinalityType
  <2>3. Cardinality(offered) <= Limit
    <3>1. CASE offered = {}
      BY <3>1, <2>1, FS_EmptySet
    <3>2. CASE offered # {}
      <4> DEFINE places == {place(w) : w \in offered}
      <4>1. places \in SUBSET Nat /\ IsFiniteSet(places) /\ places # {}
        <5>1. \A n \in places : n \in Nat /\ n <= Limit
          <6> SUFFICES ASSUME NEW w \in offered PROVE place(w) \in Nat /\ place(w) <= Limit
            OBVIOUS
          <6>1. place(w) \in Nat /\ place(w) < Limit
            BY <1>2, <1>3, <1>6, <2>2
          <6> HIDE DEF place
          <6> QED
            BY <6>1, <2>1
        <5> HIDE DEF places
        <5>2. IsFiniteSet(places)
          BY <5>1, <2>1, FS_BoundedSetOfNaturals
        <5> QED
          BY <5>1, <5>2, <3>2 DEF places
      <4>2. PICK w \in offered : \A v \in offered : place(v) <= place(w)
        <5>1. Newest(places) \in places /\ \A n \in places : n <= Newest(places)
          <6> HIDE DEF places
          <6> QED
            BY <4>1, NewestExists
        <5> QED
          BY <5>1
      <4>3. \A v \in offered \ {w} : v \in ahead(w)
        <5> SUFFICES ASSUME NEW v \in offered, v # w, Before(w, v) PROVE FALSE
          BY <1>1, <2>2
        <5>1. place(w) < place(v) /\ place(v) <= place(w) /\ place(v) \in Nat /\ place(w) \in Nat
          BY <1>3, <1>4, <2>2, <4>2
        <5> HIDE DEF place
        <5> QED
          BY <5>1
      <4>4. Cardinality(offered \ {w}) = Cardinality(offered) - 1
        BY <2>2, FS_RemoveElement
      <4>5. Cardinality(offered \ {w}) <= place(w)
        <5>1. offered \ {w} \in SUBSET ahead(w) /\ IsFiniteSet(ahead(w))
          BY <4>3, <1>3, <2>2
        <5> HIDE DEF ahead
        <5> QED
          BY <5>1, FS_Subset
      <4>6. place(w) < Limit /\ place(w) \in Nat
        BY <1>2, <1>3, <1>6, <2>2
      <4> HIDE DEF place
      <4> QED
        BY <4>4, <4>5, <4>6, <2>1, <2>2
    <3> QED
      BY <3>1, <3>2
  <2>4. CASE offered # windows
    <3> DEFINE out == windows \ offered
               places == {place(w) : w \in out}
    <3>1. places \in SUBSET Nat /\ places # {}
      BY <1>3, <2>2, <2>4
    <3>2. PICK w \in out : \A v \in out : place(w) <= place(v)
      <4>1. Oldest(places) \in places /\ \A n \in places : Oldest(places) <= n
        <5> HIDE DEF places
        <5> QED
          BY <3>1, OldestExists
      <4> QED
        BY <4>1
    <3>3. \A v \in ahead(w) : v \in offered
      <4> SUFFICES ASSUME NEW v \in windows, Before(v, w), v \in out PROVE FALSE
        OBVIOUS
      <4>1. place(v) < place(w) /\ place(w) <= place(v) /\ place(v) \in Nat /\ place(w) \in Nat
        BY <1>3, <1>4, <3>2
      <4> HIDE DEF place
      <4> QED
        BY <4>1
    <3>4. \A v \in offered : v \in ahead(w)
      BY <1>1, <1>5, <2>2
    <3>5. ahead(w) = offered
      BY <3>3, <3>4
    <3>6. ~(place(w) < Limit) /\ place(w) \in Nat
      BY <1>2, <1>3, <1>6
    <3> QED
      BY <3>5, <3>6, <2>1, <2>3
  <2> HIDE DEF offered
  <2> QED
    BY <2>1, <2>2, <2>3, <2>4
<1> QED
  BY <1>5, <1>6 DEF windows, offered, Before

(* Two windows of a plan that share a session of an instrument are one     *)
(* window: an instrument and a span determine it.                          *)
LEMMA WindowOfCell ==
    ASSUME NEW span, NEW s \in Symbols, NEW d \in Short(held, s)
    PROVE  \E w \in WindowsOfSpans(held, span) :
               \A v \in WindowsOfSpans(held, span) : v.symbol = s /\ d \in v.days <=> v = w
<1> DEFINE W(c) == [symbol    |-> c[1],
                    span      |-> span[c[2]],
                    days      |-> {e \in Short(held, c[1]) : span[e] = span[c[2]]},
                    untouched |-> \E e \in Short(held, c[1]) :
                                      span[e] = span[c[2]] /\ held[c[1]][e] = 0]
<1>1. WindowsOfSpans(held, span) = {W(c) : c \in Cells(held)}
  BY DEF WindowsOfSpans
<1>2. <<s, d>> \in Cells(held)
  BY PlanAssumption DEF Cells, Short
<1>3. W(<<s, d>>).symbol = s /\ d \in W(<<s, d>>).days
  OBVIOUS
<1>4. ASSUME NEW c \in Cells(held), W(c).symbol = s, d \in W(c).days
      PROVE  W(c) = W(<<s, d>>)
  <2>1. c[1] = s /\ span[c[2]] = span[d]
    BY <1>4
  <2> QED
    BY <2>1
<1> HIDE DEF W
<1> QED
  BY <1>1, <1>2, <1>3, <1>4

(* Every short instrument-session is asked for in exactly one request of a *)
(* pass, and no complete one is asked for.                                 *)
THEOREM PlanCoversOnce == PlanningSpec => []EachShortSessionInOneWindow
<1>1. EachShortSessionInOneWindow
  <2> DEFINE windows == WindowsOfSpans(held, SpanOf(ShortDays(held)))
  <2>1. ASSUME NEW s \in Symbols, NEW d \in Days, d \in Trades[s], held[s][d] < ExpectedBars(d)
        PROVE  \E w \in windows : \A v \in windows : v.symbol = s /\ d \in v.days <=> v = w
    BY <2>1, WindowOfCell DEF Short
  <2>2. ASSUME NEW s \in Symbols, NEW d \in Days, NEW w \in windows,
               ~(d \in Trades[s] /\ held[s][d] < ExpectedBars(d))
        PROVE  ~(w.symbol = s /\ d \in w.days)
    <3>1. d \notin Short(held, s)
      BY <2>2 DEF Short
    <3>2. w.days \subseteq Short(held, w.symbol)
      BY DEF WindowsOfSpans
    <3> QED
      BY <3>1, <3>2
  <2> QED
    BY <2>1, <2>2 DEF EachShortSessionInOneWindow, PlanWindows
<1> QED
  BY <1>1, PTL

(* The queue of a pass is a function of the corpus: a strict total order of *)
(* requests the feed can answer, recent sessions first, and a limit takes a *)
(* prefix of it (plan_windows, order_windows, crawl).                       *)
THEOREM QueueIsAlwaysInOrder == PlanningSpec => []QueueIsInOrder
<1>1. WindowsFitTheFeed
  BY PlanFitsTheFeed DEF WindowsFitTheFeed
<1>2. QueueIsReproducible
  BY OfferingIsTotal DEF QueueIsReproducible
<1>3. RecentSessionsFirst
  BY PlanIsRecencyMajor DEF RecentSessionsFirst
<1>4. LimitTakesAPrefix
  BY LimitCutsThePlan DEF LimitTakesAPrefix
<1>5. QueueIsInOrder
  BY <1>1, <1>2, <1>3, <1>4 DEF QueueIsInOrder
<1> QED
  BY <1>5, PTL

-----------------------------------------------------------------------------
(* Helpers. *)

(* The windows of a plan name listed instruments and short sessions of     *)
(* theirs, whatever the spans are.                                         *)
LEMMA PlannedWindowsAreWindows ==
    ASSUME NEW counts, NEW span
    PROVE  \A w \in WindowsOfSpans(counts, span) : IsWindow(w)
<1> SUFFICES ASSUME NEW w \in WindowsOfSpans(counts, span)
             PROVE  IsWindow(w)
  OBVIOUS
<1>1. PICK c \in Cells(counts) :
          /\ w.symbol = c[1]
          /\ w.days = {d \in Short(counts, c[1]) : span[d] = span[c[2]]}
  BY DEF WindowsOfSpans
<1>2. c[1] \in Symbols /\ c[2] \in Short(counts, c[1]) /\ Short(counts, c[1]) \subseteq Days
  BY PlanAssumption DEF Cells, Short
<1> QED
  BY <1>1, <1>2 DEF IsWindow

LEMMA OfferedAreWindows ==
    ASSUME NEW counts
    PROVE  \A w \in Offered(counts) : IsWindow(w)
BY PlannedWindowsAreWindows DEF Offered, PlanWindows

(* Merging keeps what was there, takes only what came, and stores a        *)
(* timestamp once.                                                         *)
LEMMA MergeKeepsFirstSightings ==
    ASSUME NEW existing, NEW incoming,
           \A a, b \in existing : a.ts = b.ts => a = b
    PROVE  /\ existing \subseteq Merge(existing, incoming)
           /\ Merge(existing, incoming) \subseteq existing \cup incoming
           /\ \A a, b \in Merge(existing, incoming) : a.ts = b.ts => a = b
<1> DEFINE new == {b.ts : b \in incoming} \ {b.ts : b \in existing}
           first(t) == CHOOSE b \in incoming : b.ts = t
<1>1. \A t \in new : first(t) \in incoming /\ first(t).ts = t
  OBVIOUS
<1>2. \A t \in new : \A b \in existing : b.ts # t
  OBVIOUS
<1>3. Merge(existing, incoming) = existing \cup {first(t) : t \in new}
  BY DEF Merge
<1> HIDE DEF new, first
<1> QED
  BY <1>1, <1>2, <1>3

(* Bars with distinct timestamps on a finite grid: there are no more of    *)
(* them than grid points, and as many only if every point has one.         *)
LEMMA CountingBars ==
    ASSUME NEW S, NEW G, IsFiniteSet(G),
           \A b \in S : b.ts \in G,
           \A a, b \in S : a.ts = b.ts => a = b
    PROVE  /\ IsFiniteSet(S)
           /\ Cardinality(S) <= Cardinality(G)
           /\ Cardinality(S) = Cardinality(G) => \A t \in G : \E b \in S : b.ts = t
<1> DEFINE f == [b \in S |-> b.ts]
<1>1. f \in Injection(S, G)
  BY DEF Injection, IsInjective
<1>2. Cardinality(S) = Cardinality(G) => f \in Surjection(S, G)
  BY <1>1, FS_Injection
<1>3. f \in Surjection(S, G) => \A t \in G : \E b \in S : b.ts = t
  BY DEF Surjection
<1> QED
  BY <1>1, <1>2, <1>3, FS_Injection

(* A session's grid has as many points as it expects bars.                 *)
LEMMA GridSize ==
    ASSUME NEW d \in Days
    PROVE  /\ IsFiniteSet(Grid(d)) /\ Cardinality(Grid(d)) <= ExpectedBars(d)
           /\ ExpectedBars(d) \in Nat
<1>1. /\ SessionTicks[d] \in Nat \ {0} /\ Interval \in Nat \ {0}
      /\ SessionTicks[d] \div Interval \in Nat
  BY PlanAssumption
<1>2. ExpectedBars(d) \in Nat
  BY <1>1 DEF ExpectedBars
<1>3. CASE Interval >= SessionTicks[d]
  <2>1. Grid(d) = {Close(d)} /\ ExpectedBars(d) = 1
    BY <1>3 DEF Grid, ExpectedBars
  <2>2. IsFiniteSet({Close(d)}) /\ Cardinality({Close(d)}) = 1
    BY FS_Singleton
  <2> QED
    BY <2>1, <2>2
<1>4. CASE ~(Interval >= SessionTicks[d])
  <2> DEFINE n == ExpectedBars(d)
             f == [i \in 1..n |-> Open(d) + i * Interval]
  <2>1. f \in Surjection(1..n, Grid(d))
    BY <1>4 DEF Surjection, Grid
  <2>2. IsFiniteSet(1..n) /\ Cardinality(1..n) = n
    BY <1>2, FS_Interval
  <2>3. IsFiniteSet(Grid(d)) /\ Cardinality(Grid(d)) <= n
    BY <2>1, <2>2, FS_Surjection
  <2> QED
    BY <1>2, <2>3
<1> QED
  BY <1>3, <1>4

(* What the corpus holds is countable.                                     *)
LEMMA HeldIsNatural ==
    ASSUME OnGrid, OneBarPerTimestamp
    PROVE  Held \in [Symbols -> [Days -> Nat]]
<1> SUFFICES ASSUME NEW s \in Symbols, NEW d \in Days
             PROVE  Cardinality(disk[s][d]) \in Nat
  BY DEF Held
<1>1. IsFiniteSet(disk[s][d])
  BY GridSize, CountingBars DEF OnGrid, OneBarPerTimestamp
<1> QED
  BY <1>1, FS_CardinalityType

-----------------------------------------------------------------------------
(* The invariant, one lemma per kind of step. *)

LEMMA InitIndInv == Init => IndInv
<1> SUFFICES ASSUME Init PROVE IndInv
  OBVIOUS
<1>1. TypeOK
  BY PlanAssumption, CrawlerAssumption DEF Init, TypeOK, NoCounts, NoOutcomes, Statuses, Bar
<1>2. Writing /\ OnGrid /\ FiledUnderOwnSession /\ OneBarPerTimestamp
  BY DEF Init, Writing, OnGrid, FiledUnderOwnSession, OneBarPerTimestamp
<1>3. AskedHasNotFailed /\ DamageStopsPasses
  BY DEF Init, AskedHasNotFailed, DamageStopsPasses
<1>4. BreakerCountsDistinctSymbols
  BY FS_EmptySet DEF Init, BreakerCountsDistinctSymbols
<1> QED
  BY <1>1, <1>2, <1>3, <1>4 DEF IndInv

(* The three parts about the corpus, while nothing is written.             *)
LEMMA CorpusUntouched ==
    ASSUME IndInv, UNCHANGED disk
    PROVE  OnGrid' /\ FiledUnderOwnSession' /\ OneBarPerTimestamp'
BY DEF IndInv, OnGrid, FiledUnderOwnSession, OneBarPerTimestamp

(* The process ends and the disk stays as it is.                           *)
LEMMA ForgetKeepsIndInv ==
    ASSUME IndInv, Forget, UNCHANGED onDisk, crashes' \in Nat
    PROVE  IndInv'
<1> USE DEF IndInv
<1>1. TypeOK'
  BY DEF TypeOK, Forget, onDisk, NoCounts, NoOutcomes, Statuses
<1>2. Writing' /\ AskedHasNotFailed' /\ DamageStopsPasses'
  BY DEF Forget, Writing, AskedHasNotFailed, DamageStopsPasses
<1>3. BreakerCountsDistinctSymbols'
  BY FS_EmptySet DEF Forget, BreakerCountsDistinctSymbols
<1> QED
  BY <1>1, <1>2, <1>3, CorpusUntouched DEF onDisk

LEMMA StartKeepsIndInv == ASSUME IndInv, Start PROVE IndInv'
<1> USE DEF IndInv
<1>1. TypeOK'
  BY CrawlerAssumption DEF Start, inPass, TypeOK
<1>2. Writing' /\ AskedHasNotFailed' /\ DamageStopsPasses' /\ BreakerCountsDistinctSymbols'
  BY DEF Start, inPass, Writing, AskedHasNotFailed, DamageStopsPasses,
         BreakerCountsDistinctSymbols
<1> QED
  BY <1>1, <1>2, CorpusUntouched DEF Start

LEMMA PlanKeepsIndInv == ASSUME IndInv, Plan PROVE IndInv'
<1> USE DEF IndInv
<1>1. CASE PlanWindows(Held) = {}
  BY <1>1, ForgetKeepsIndInv DEF Plan, TypeOK
<1>2. CASE PlanWindows(Held) # {}
  <2>1. /\ snapshot' = Held /\ todo' = Offered(Held) /\ phase' = "offering"
        /\ current' = NoWindow /\ answer' = {} /\ cellsLeft' = {}
        /\ failed' = {} /\ consecutive' = 0 /\ requests' = 0
        /\ outcome' = NoOutcomes
        /\ UNCHANGED <<passesLeft, disk, torn, crashes>>
    BY <1>2 DEF Plan, onDisk
  <2>2. torn = {}
    BY DEF Plan
  <2>3. TypeOK'
    BY <2>1, HeldIsNatural, OfferedAreWindows DEF TypeOK, NoOutcomes, Statuses
  <2>4. Writing' /\ AskedHasNotFailed' /\ DamageStopsPasses'
    BY <2>1, <2>2 DEF Writing, AskedHasNotFailed, DamageStopsPasses
  <2>5. BreakerCountsDistinctSymbols'
    BY <2>1, FS_EmptySet DEF BreakerCountsDistinctSymbols
  <2> QED
    BY <2>1, <2>3, <2>4, <2>5, CorpusUntouched
<1> QED
  BY <1>1, <1>2

LEMMA SkipKeepsIndInv == ASSUME IndInv, NEW w \in todo, Skip(w) PROVE IndInv'
<1> USE DEF IndInv
<1>1. TypeOK'
  BY DEF Skip, Record, onDisk, TypeOK, IsWindow, Statuses
<1>2. Writing' /\ AskedHasNotFailed' /\ DamageStopsPasses' /\ BreakerCountsDistinctSymbols'
  BY DEF Skip, onDisk, Writing, AskedHasNotFailed, DamageStopsPasses,
         BreakerCountsDistinctSymbols
<1> QED
  BY <1>1, <1>2, CorpusUntouched DEF Skip, onDisk

LEMMA RequestKeepsIndInv == ASSUME IndInv, NEW w \in todo, Request(w) PROVE IndInv'
<1> USE DEF IndInv
<1>1. TypeOK'
  BY DEF Request, onDisk, TypeOK
<1>2. Writing' /\ AskedHasNotFailed' /\ DamageStopsPasses' /\ BreakerCountsDistinctSymbols'
  BY DEF Request, onDisk, Writing, AskedHasNotFailed, DamageStopsPasses,
         BreakerCountsDistinctSymbols
<1> QED
  BY <1>1, <1>2, CorpusUntouched DEF Request, onDisk

(* Any answer made of bars the feed has.                                   *)
LEMMA ReceiveKeepsIndInv ==
    ASSUME IndInv, phase = "awaiting",
           NEW bars \in SUBSET [ts : Available[current.symbol], version : Versions],
           Receive(bars)
    PROVE  IndInv'
<1> USE DEF IndInv
<1>1. IsWindow(current) /\ Available[current.symbol] \subseteq Nat
  BY CrawlerAssumption DEF TypeOK, IsWindow
<1>2. TypeOK'
  <2>1. answer' \subseteq Bar /\ cellsLeft' \subseteq Days
    BY <1>1 DEF Receive, Bar, IsWindow
  <2> QED
    BY <1>1, <2>1 DEF Receive, onDisk, TypeOK
<1>3. Writing'
  BY DEF Receive, Writing
<1>4. AskedHasNotFailed' /\ DamageStopsPasses' /\ BreakerCountsDistinctSymbols'
  BY DEF Receive, onDisk, AskedHasNotFailed, DamageStopsPasses, BreakerCountsDistinctSymbols
<1> QED
  BY <1>2, <1>3, <1>4, CorpusUntouched DEF Receive, onDisk

LEMMA AnswerKeepsIndInv == ASSUME IndInv, AnswerInFull \/ AnswerOtherwise PROVE IndInv'
<1>1. PICK bars \in SUBSET [ts : Available[current.symbol], version : Versions] :
          phase = "awaiting" /\ Receive(bars)
  BY DEF AnswerInFull, AnswerOtherwise
<1> QED
  BY <1>1, ReceiveKeepsIndInv

(* The symbol that fails has not failed before, so both counters of the    *)
(* breaker move together.                                                  *)
LEMMA FailKeepsIndInv == ASSUME IndInv, Fail PROVE IndInv'
<1> USE DEF IndInv
<1>1. CASE consecutive + 1 >= MaxFailures
  BY <1>1, ForgetKeepsIndInv DEF Fail, TypeOK
<1>2. CASE ~(consecutive + 1 >= MaxFailures)
  <2>1. /\ phase = "awaiting" /\ phase' = "offering"
        /\ failed' = failed \cup {current.symbol}
        /\ consecutive' = consecutive + 1 /\ requests' = requests + 1
        /\ Record(current, "failed") /\ current' = NoWindow
        /\ UNCHANGED <<disk, torn, passesLeft, snapshot, todo, answer, cellsLeft, crashes>>
    BY <1>2 DEF Fail, onDisk
  <2>2. IsWindow(current) /\ current.symbol \notin failed
    BY <2>1 DEF TypeOK, AskedHasNotFailed
  <2>3. TypeOK'
    BY <2>1, <2>2 DEF TypeOK, Record, IsWindow, Statuses
  <2>4. Writing' /\ AskedHasNotFailed' /\ DamageStopsPasses'
    BY <2>1 DEF Writing, AskedHasNotFailed, DamageStopsPasses
  <2>5. BreakerCountsDistinctSymbols'
    <3>1. IsFiniteSet(failed)
      BY PlanAssumption, FS_Subset DEF TypeOK
    <3>2. Cardinality(failed') = Cardinality(failed) + 1 /\ Cardinality(failed) \in Nat
      BY <2>1, <2>2, <3>1, FS_AddElement, FS_CardinalityType
    <3> QED
      BY <2>1, <3>2 DEF BreakerCountsDistinctSymbols, TypeOK
  <2> QED
    BY <2>1, <2>3, <2>4, <2>5, CorpusUntouched
<1> QED
  BY <1>1, <1>2

LEMMA LeaveEmptyKeepsIndInv == ASSUME IndInv, LeaveEmpty PROVE IndInv'
<1> USE DEF IndInv
<1>1. IsWindow(current) /\ cellsLeft \subseteq current.days
  BY DEF TypeOK, Writing, LeaveEmpty
<1>2. TypeOK'
  BY <1>1 DEF TypeOK, LeaveEmpty, onDisk, Statuses, IsWindow
<1>3. Writing' /\ AskedHasNotFailed' /\ DamageStopsPasses' /\ BreakerCountsDistinctSymbols'
  BY DEF LeaveEmpty, onDisk, Writing, AskedHasNotFailed, DamageStopsPasses,
         BreakerCountsDistinctSymbols
<1> QED
  BY <1>2, <1>3, CorpusUntouched DEF LeaveEmpty, onDisk

LEMMA BeginRewriteKeepsIndInv == ASSUME IndInv, BeginRewrite PROVE IndInv'
<1> USE DEF IndInv
<1>1. TypeOK'
  BY DEF TypeOK, BeginRewrite, onDisk, inPass
<1>2. Writing' /\ AskedHasNotFailed' /\ DamageStopsPasses' /\ BreakerCountsDistinctSymbols'
  BY DEF BeginRewrite, onDisk, inPass, Writing, AskedHasNotFailed, DamageStopsPasses,
         BreakerCountsDistinctSymbols
<1> QED
  BY <1>1, <1>2, CorpusUntouched DEF BeginRewrite, onDisk

LEMMA SettleKeepsIndInv == ASSUME IndInv, Settle PROVE IndInv'
<1> USE DEF IndInv
<1>1. TypeOK'
  BY DEF TypeOK, Settle, onDisk
<1>2. Writing' /\ AskedHasNotFailed' /\ DamageStopsPasses'
  BY DEF Settle, onDisk, Writing, AskedHasNotFailed, DamageStopsPasses
<1>3. BreakerCountsDistinctSymbols'
  <2>1. Cardinality(failed) \in Nat
    BY PlanAssumption, FS_Subset, FS_CardinalityType DEF TypeOK
  <2> QED
    BY <2>1 DEF Settle, TypeOK, BreakerCountsDistinctSymbols
<1> QED
  BY <1>1, <1>2, <1>3, CorpusUntouched DEF Settle, onDisk

LEMMA EndPassKeepsIndInv == ASSUME IndInv, EndPass PROVE IndInv'
<1> USE DEF IndInv
<1>1. CASE passesLeft = 0
  BY <1>1, ForgetKeepsIndInv DEF EndPass, TypeOK
<1>2. CASE passesLeft # 0
  <2>1. /\ phase = "offering" /\ phase' = "planning" /\ passesLeft' = passesLeft - 1
        /\ UNCHANGED inPass /\ UNCHANGED <<disk, torn, crashes>>
    BY <1>2 DEF EndPass, onDisk
  <2>2. TypeOK'
    BY <1>2, <2>1 DEF TypeOK, inPass
  <2>3. Writing' /\ AskedHasNotFailed' /\ DamageStopsPasses' /\ BreakerCountsDistinctSymbols'
    BY <2>1 DEF inPass, Writing, AskedHasNotFailed, DamageStopsPasses,
           BreakerCountsDistinctSymbols
  <2> QED
    BY <2>1, <2>2, <2>3, CorpusUntouched
<1> QED
  BY <1>1, <1>2

(* What is about to be written fits the partition it is written to.        *)
LEMMA FreshFits ==
    ASSUME IndInv, phase = "rewriting"
    PROVE  /\ current.symbol \in Symbols /\ NextCell \in cellsLeft /\ NextCell \in Days
           /\ \A b \in Fresh :
                 b \in Bar /\ HoldsBar(NextCell, b.ts) /\ b.ts \in Grid(NextCell)
<1> USE DEF IndInv
<1>1. /\ IsWindow(current) /\ cellsLeft \subseteq current.days /\ cellsLeft # {}
      /\ \A b \in answer : b \in Bar /\ b.ts \in Available[current.symbol]
  BY DEF TypeOK, Writing
<1>2. cellsLeft \in SUBSET Nat /\ current.days \subseteq Days /\ current.symbol \in Symbols
  BY <1>1, PlanAssumption DEF IsWindow
<1>3. NextCell \in cellsLeft
  BY <1>1, <1>2, OldestExists DEF NextCell
<1>4. \A b \in Fresh : b \in answer /\ HoldsBar(NextCell, b.ts)
  BY DEF Fresh, InSession
<1>5. \A b \in Fresh : b.ts \in Grid(NextCell)
  BY <1>1, <1>2, <1>3, <1>4, CrawlerAssumption DEF HoldsBar
<1> QED
  BY <1>1, <1>2, <1>3, <1>4, <1>5

(* Every partition other than the one rewritten stays as it is.            *)
LEMMA RewriteOfOnePartition ==
    ASSUME IndInv, EndRewrite
    PROVE  /\ disk' \in [Symbols -> [Days -> SUBSET Bar]]
           /\ \A s \in Symbols, d \in Days :
                 disk'[s][d] = IF s = current.symbol /\ d = NextCell
                               THEN Merge(disk[s][d], Fresh) ELSE disk[s][d]
<1>1. /\ current.symbol \in Symbols /\ NextCell \in Days /\ Fresh \subseteq Bar
      /\ disk \in [Symbols -> [Days -> SUBSET Bar]]
  BY FreshFits DEF EndRewrite, IndInv, TypeOK
<1>2. disk' = [disk EXCEPT ![current.symbol][NextCell] =
                  Merge(disk[current.symbol][NextCell], Fresh)]
  BY DEF EndRewrite
<1>3. Merge(disk[current.symbol][NextCell], Fresh) \subseteq Bar
  BY <1>1, MergeKeepsFirstSightings DEF IndInv, OneBarPerTimestamp
<1> QED
  BY <1>1, <1>2, <1>3

LEMMA EndRewriteKeepsIndInv == ASSUME IndInv, EndRewrite PROVE IndInv'
<1> USE DEF IndInv
<1> DEFINE s0 == current.symbol
           d0 == NextCell
<1>1. /\ s0 \in Symbols /\ d0 \in cellsLeft /\ d0 \in Days
      /\ \A b \in Fresh : b \in Bar /\ HoldsBar(d0, b.ts) /\ b.ts \in Grid(d0)
  BY FreshFits DEF EndRewrite
<1>2. /\ disk' \in [Symbols -> [Days -> SUBSET Bar]]
      /\ \A s \in Symbols, d \in Days :
            disk'[s][d] = IF s = s0 /\ d = d0 THEN Merge(disk[s][d], Fresh) ELSE disk[s][d]
  BY RewriteOfOnePartition
<1>3. /\ Merge(disk[s0][d0], Fresh) \subseteq disk[s0][d0] \cup Fresh
      /\ \A a, b \in Merge(disk[s0][d0], Fresh) : a.ts = b.ts => a = b
  BY <1>1, MergeKeepsFirstSightings DEF OneBarPerTimestamp
<1>4. OnGrid'
  BY <1>1, <1>2, <1>3 DEF OnGrid
<1>5. FiledUnderOwnSession'
  BY <1>1, <1>2, <1>3 DEF FiledUnderOwnSession
<1>6. OneBarPerTimestamp'
  BY <1>1, <1>2, <1>3 DEF OneBarPerTimestamp
<1>7. TypeOK'
  BY <1>1, <1>2 DEF TypeOK, EndRewrite, Statuses
<1>8. Writing' /\ AskedHasNotFailed' /\ DamageStopsPasses' /\ BreakerCountsDistinctSymbols'
  BY DEF EndRewrite, Writing, AskedHasNotFailed, DamageStopsPasses,
         BreakerCountsDistinctSymbols
<1> QED
  BY <1>4, <1>5, <1>6, <1>7, <1>8

(* A partition that lost its rows breaks no promise about rows.            *)
LEMMA TearKeepsIndInv == ASSUME IndInv, Tear PROVE IndInv'
<1> USE DEF IndInv
<1>1. current.symbol \in Symbols /\ NextCell \in Days
  BY FreshFits DEF Tear
<1>2. /\ disk' \in [Symbols -> [Days -> SUBSET Bar]]
      /\ \A s \in Symbols, d \in Days : disk'[s][d] \subseteq disk[s][d]
  BY <1>1 DEF Tear, TypeOK
<1>3. OnGrid' /\ FiledUnderOwnSession' /\ OneBarPerTimestamp'
  BY <1>2 DEF OnGrid, FiledUnderOwnSession, OneBarPerTimestamp
<1>4. TypeOK'
  <2>1. torn' \subseteq Symbols \X Days /\ crashes' \in Nat
    BY <1>1 DEF Tear, TypeOK
  <2> QED
    BY <1>2, <2>1 DEF Tear, Forget, TypeOK, NoCounts, NoOutcomes, Statuses
<1>5. Writing' /\ AskedHasNotFailed' /\ DamageStopsPasses'
  BY DEF Tear, Forget, Writing, AskedHasNotFailed, DamageStopsPasses
<1>6. BreakerCountsDistinctSymbols'
  BY FS_EmptySet DEF Tear, Forget, BreakerCountsDistinctSymbols
<1> QED
  BY <1>3, <1>4, <1>5, <1>6

LEMMA NextIndInv == IndInv /\ [Next]_vars => IndInv'
<1> SUFFICES ASSUME IndInv, [Next]_vars PROVE IndInv'
  OBVIOUS
<1>1. crashes \in Nat
  BY DEF IndInv, TypeOK
<1>2. CASE Start
  BY <1>2, StartKeepsIndInv
<1>3. CASE Plan
  BY <1>3, PlanKeepsIndInv
<1>4. CASE PlanRaises
  BY <1>1, <1>4, ForgetKeepsIndInv DEF PlanRaises
<1>5. ASSUME NEW w \in todo, Skip(w) PROVE IndInv'
  BY <1>5, SkipKeepsIndInv
<1>6. ASSUME NEW w \in todo, Request(w) PROVE IndInv'
  BY <1>6, RequestKeepsIndInv
<1>7. CASE AnswerInFull \/ AnswerOtherwise
  BY <1>7, AnswerKeepsIndInv
<1>8. CASE Fail
  BY <1>8, FailKeepsIndInv
<1>9. CASE AnswerForeign
  BY <1>1, <1>9, ForgetKeepsIndInv DEF AnswerForeign, onDisk
<1>10. CASE LeaveEmpty
  BY <1>10, LeaveEmptyKeepsIndInv
<1>11. CASE BeginRewrite
  BY <1>11, BeginRewriteKeepsIndInv
<1>12. CASE EndRewrite
  BY <1>12, EndRewriteKeepsIndInv
<1>13. CASE Settle
  BY <1>13, SettleKeepsIndInv
<1>14. CASE EndPass
  BY <1>14, EndPassKeepsIndInv
<1>15. CASE Kill
  BY <1>1, <1>15, ForgetKeepsIndInv DEF Kill, onDisk
<1>16. CASE Tear
  BY <1>16, TearKeepsIndInv
<1>17. CASE UNCHANGED vars
  BY <1>17 DEF vars, IndInv, TypeOK, Writing, OnGrid, FiledUnderOwnSession,
     OneBarPerTimestamp, AskedHasNotFailed, BreakerCountsDistinctSymbols, DamageStopsPasses,
     Fresh, NextCell
<1> QED
  BY <1>2, <1>3, <1>4, <1>5, <1>6, <1>7, <1>8, <1>9, <1>10, <1>11, <1>12, <1>13, <1>14,
     <1>15, <1>16, <1>17 DEF Next, Step

LEMMA Invariance == Spec => []IndInv
BY InitIndInv, NextIndInv, PTL DEF Spec

-----------------------------------------------------------------------------
(* The theorems. *)

(* The crawler's variables keep their types.                               *)
THEOREM CrawlerTypeOK == Spec => []TypeOK
<1>1. IndInv => TypeOK
  BY DEF IndInv
<1> QED
  BY <1>1, Invariance, PTL

(* Counting bars is enough to call a session complete: with at most one    *)
(* bar per timestamp and every bar on the session's grid, as many bars as  *)
(* expected are all of them.                                               *)
THEOREM CompletenessByCount == Spec => []CompleteMeansWhole
<1>1. ASSUME IndInv PROVE CompleteMeansWhole
  <2> SUFFICES ASSUME NEW s \in Symbols, NEW d \in Trades[s] \ Short(Held, s)
               PROVE  \A t \in Grid(d) : \E b \in disk[s][d] : b.ts = t
    BY DEF CompleteMeansWhole
  <2> DEFINE B == disk[s][d]
  <2>1. d \in Days
    BY PlanAssumption
  <2>2. ~(Cardinality(B) < ExpectedBars(d))
    BY <2>1 DEF Short, Held
  <2>3. /\ IsFiniteSet(Grid(d)) /\ Cardinality(Grid(d)) <= ExpectedBars(d)
        /\ ExpectedBars(d) \in Nat
    BY <2>1, GridSize
  <2>4. /\ \A b \in B : b.ts \in Grid(d)
        /\ \A a, b \in B : a.ts = b.ts => a = b
    BY <1>1, <2>1 DEF IndInv, OnGrid, OneBarPerTimestamp
  <2> HIDE DEF B
  <2>5. /\ IsFiniteSet(B) /\ Cardinality(B) <= Cardinality(Grid(d))
        /\ Cardinality(B) = Cardinality(Grid(d)) => \A t \in Grid(d) : \E b \in B : b.ts = t
    BY <2>3, <2>4, CountingBars
  <2>6. Cardinality(B) \in Nat /\ Cardinality(Grid(d)) \in Nat
    BY <2>3, <2>5, FS_CardinalityType
  <2>7. Cardinality(B) = Cardinality(Grid(d))
    BY <2>2, <2>3, <2>5, <2>6
  <2> QED
    BY <2>5, <2>7 DEF B
<1> QED
  BY <1>1, Invariance, PTL

(* The breaker counts different symbols.                                   *)
THEOREM BreakerIsAboutTheConnection == Spec => []BreakerCountsDistinctSymbols
<1>1. IndInv => BreakerCountsDistinctSymbols
  BY DEF IndInv
<1> QED
  BY <1>1, Invariance, PTL

(* While a file is damaged nothing is planned and nothing is written.      *)
THEOREM DamageStopsTheCrawler == Spec => DamageIsLoud
<1> DEFINE Loud == torn # {} => UNCHANGED onDisk /\ phase' \in {"down", "planning"}
<1>1. ASSUME IndInv, [Next]_vars PROVE [Loud]_vars
  <2> SUFFICES ASSUME torn # {}, Next
               PROVE  UNCHANGED onDisk /\ phase' \in {"down", "planning"}
    BY <1>1
  <2>1. phase \in {"down", "planning"}
    BY <1>1 DEF IndInv, DamageStopsPasses
  <2>2. CASE phase = "down"
    BY <2>2 DEF Next, Step, Start, Plan, PlanRaises, Skip, Request, AnswerInFull,
       AnswerOtherwise, Fail, AnswerForeign, LeaveEmpty, BeginRewrite, EndRewrite, Settle,
       EndPass, Kill, Tear, onDisk
  <2>3. CASE phase = "planning"
    BY <2>3 DEF Next, Step, Start, Plan, PlanRaises, Skip, Request, AnswerInFull,
       AnswerOtherwise, Fail, AnswerForeign, LeaveEmpty, BeginRewrite, EndRewrite, Settle,
       EndPass, Kill, Tear, onDisk, Forget
  <2> QED
    BY <2>1, <2>2, <2>3
<1> QED
  BY <1>1, Invariance, PTL DEF Spec, DamageIsLoud

-----------------------------------------------------------------------------
(* The corpus the crawler fills is a Corpus, provided no rewrite of a file *)
(* ends half-way.                                                          *)

LEMMA InitRefines == Init => Stored!Init
BY DEF Init, Stored!Init

LEMMA RewriteRefines == ASSUME IndInv, EndRewrite PROVE Stored!Next
<1> USE DEF IndInv
<1> DEFINE s0 == current.symbol
           d0 == NextCell
           stored == disk[s0][d0]
<1>1. /\ s0 \in Symbols /\ d0 \in Days
      /\ \A b \in Fresh : b \in Bar /\ HoldsBar(d0, b.ts)
  BY FreshFits DEF EndRewrite
<1>2. stored \subseteq Bar /\ disk \in [Symbols -> [Days -> SUBSET Bar]]
  BY <1>1 DEF TypeOK
<1>3. /\ stored \subseteq Merge(stored, Fresh)
      /\ Merge(stored, Fresh) \subseteq stored \cup Fresh
      /\ \A a, b \in Merge(stored, Fresh) : a.ts = b.ts => a = b
  BY <1>1, MergeKeepsFirstSightings DEF OneBarPerTimestamp
<1>4. disk' = [disk EXCEPT ![s0][d0] = Merge(stored, Fresh)]
  BY DEF EndRewrite
<1>5. disk'[s0][d0] = Merge(stored, Fresh)
  BY <1>1, <1>2, <1>4
<1>6. Stored!Grow(s0, d0)
  BY <1>1, <1>2, <1>3, <1>4, <1>5 DEF Stored!Grow, Stored!OnePerTimestamp
<1> QED
  BY <1>1, <1>6 DEF Stored!Next

LEMMA StepRefines == ASSUME ~MayTear, IndInv, [Next]_vars PROVE [Stored!Next]_disk
<1>1. CASE EndRewrite
  BY <1>1, RewriteRefines
<1>2. CASE UNCHANGED disk
  BY <1>2
<1>3. EndRewrite \/ UNCHANGED disk
  BY DEF Next, Step, Start, Plan, PlanRaises, Skip, Request, AnswerInFull, AnswerOtherwise,
     Receive, Fail, AnswerForeign, LeaveEmpty, BeginRewrite, Settle, EndPass, Kill, Tear,
     onDisk, vars
<1> QED
  BY <1>1, <1>2, <1>3

(* Whatever the feed answers and wherever the process is killed, a reader  *)
(* of the corpus sees bars only added, one per timestamp, each under its   *)
(* own session, and the first sighting of each kept.                       *)
THEOREM CrawlerImplementsCorpus == ASSUME ~MayTear PROVE Spec => ImplementsCorpus
<1>1. IndInv /\ [Next]_vars => [Stored!Next]_disk
  BY StepRefines
<1> QED
  BY <1>1, InitRefines, Invariance, PTL DEF Spec, ImplementsCorpus, Stored!Spec

-----------------------------------------------------------------------------
(* What a pass reports. *)

Underway == phase \in {"offering", "awaiting", "storing", "rewriting"}
InFlight == phase \in {"awaiting", "storing", "rewriting"}

(* The pass is still to answer for a session: it is in a window not yet    *)
(* offered, or in the one being fetched and not yet written.               *)
Asks(w, s, d) == w.symbol = s /\ d \in w.days
Due(s, d) ==
    \/ \E w \in todo : Asks(w, s, d)
    \/ phase = "awaiting" /\ Asks(current, s, d)
    \/ phase \in {"storing", "rewriting"} /\ current.symbol = s /\ d \in cellsLeft

QueueComesFromThePlan ==
    Underway => /\ todo \subseteq Offered(snapshot)
                /\ InFlight => current \in Offered(snapshot) /\ current \notin todo

ReportedUnlessDue ==
    Underway => \A s \in Symbols, d \in Days :
        outcome[s][d] # "none" <=>
            (\E w \in Offered(snapshot) : Asks(w, s, d)) /\ ~Due(s, d)

BlameIsForFailures ==
    Underway => \A s \in Symbols, d \in Days :
        outcome[s][d] \in {"failed", "skipped"} => s \in failed

RewritesSomething == phase = "rewriting" => Fresh # {}

ReportInv ==
    /\ QueueComesFromThePlan
    /\ ReportedUnlessDue
    /\ BlameIsForFailures
    /\ RewritesSomething
    /\ ReportMatchesCorpus

(* Two windows on offer that ask for one session are one window.           *)
LEMMA OneWindowAsks ==
    ASSUME NEW counts, NEW s, NEW d,
           NEW v \in Offered(counts), Asks(v, s, d),
           NEW w \in Offered(counts), Asks(w, s, d)
    PROVE  v = w
BY CellsAreAskedForOnce DEF Asks

(* The sessions E of instrument s0 are answered for, and nothing else.     *)
Settles(s0, E, status) ==
    /\ status \in Statuses \ {"none"}
    /\ UNCHANGED snapshot
    /\ failed \subseteq failed'
    /\ \A s \in Symbols, d \in Days :
          outcome'[s][d] = IF s = s0 /\ d \in E THEN status ELSE outcome[s][d]
    /\ \A s \in Symbols, d \in Days : Due(s, d)' <=> Due(s, d) /\ ~(s = s0 /\ d \in E)
    /\ \A d \in E : d \in Days /\ Due(s0, d)

(* What is due is on offer and has no outcome yet.                         *)
LEMMA DueIsAsked ==
    ASSUME IndInv, ReportInv, Underway, NEW s \in Symbols, NEW d \in Days, Due(s, d)
    PROVE  /\ \E w \in Offered(snapshot) : Asks(w, s, d)
           /\ outcome[s][d] = "none"
           /\ Held[s][d] = snapshot[s][d]
<1>1. \E w \in Offered(snapshot) : Asks(w, s, d)
  BY DEF Due, ReportInv, QueueComesFromThePlan, InFlight, IndInv, Writing, Asks
<1>2. outcome[s][d] = "none"
  BY DEF ReportInv, ReportedUnlessDue
<1>3. Held[s][d] = snapshot[s][d]
  BY <1>2 DEF ReportInv, ReportMatchesCorpus, Underway
<1> QED
  BY <1>1, <1>2, <1>3

LEMMA SettlingKeepsTheReport ==
    ASSUME IndInv, ReportInv, Underway, NEW s0 \in Symbols, NEW E, NEW status,
           Settles(s0, E, status)
    PROVE  /\ ReportedUnlessDue'
           /\ (status \in {"failed", "skipped"} => s0 \in failed') => BlameIsForFailures'
           /\ UNCHANGED disk /\ status # "filled" => ReportMatchesCorpus'
<1> DEFINE asked(s, d) == \E w \in Offered(snapshot) : Asks(w, s, d)
<1>1. \A d \in E : d \in Days /\ asked(s0, d) /\ outcome[s0][d] = "none"
                   /\ Held[s0][d] = snapshot[s0][d]
  BY DueIsAsked DEF Settles
<1>2. \A s \in Symbols, d \in Days : outcome[s][d] # "none" <=> asked(s, d) /\ ~Due(s, d)
  BY DEF ReportInv, ReportedUnlessDue
<1>3. snapshot' = snapshot /\ status # "none" /\ failed \subseteq failed'
  BY DEF Settles
<1>4. /\ \A s \in Symbols, d \in Days :
            outcome'[s][d] = IF s = s0 /\ d \in E THEN status ELSE outcome[s][d]
      /\ \A s \in Symbols, d \in Days : Due(s, d)' <=> Due(s, d) /\ ~(s = s0 /\ d \in E)
  BY DEF Settles
<1>5. ReportedUnlessDue'
  <2> SUFFICES ASSUME NEW s \in Symbols, NEW d \in Days
               PROVE  outcome'[s][d] # "none" <=>
                        (\E w \in Offered(snapshot') : Asks(w, s, d)) /\ ~Due(s, d)'
    BY DEF ReportedUnlessDue, Asks
  <2>1. (\E w \in Offered(snapshot') : Asks(w, s, d)) <=> asked(s, d)
    BY <1>3
  <2> HIDE DEF asked
  <2>2. CASE s = s0 /\ d \in E
    BY <1>1, <1>3, <1>4, <2>1, <2>2
  <2>3. CASE ~(s = s0 /\ d \in E)
    BY <1>2, <1>4, <2>1, <2>3
  <2> QED
    BY <2>2, <2>3
<1>6. ASSUME status \in {"failed", "skipped"} => s0 \in failed' PROVE BlameIsForFailures'
  BY <1>3, <1>4, <1>6 DEF BlameIsForFailures, ReportInv
<1>7. ASSUME UNCHANGED disk, status # "filled" PROVE ReportMatchesCorpus'
  <2> SUFFICES ASSUME NEW s \in Symbols, NEW d \in Days
               PROVE  IF outcome'[s][d] = "filled" THEN Held'[s][d] >= 1
                      ELSE Held'[s][d] = snapshot'[s][d]
    BY DEF ReportMatchesCorpus
  <2>1. Held' = Held
    BY <1>7 DEF Held
  <2>2. IF outcome[s][d] = "filled" THEN Held[s][d] >= 1 ELSE Held[s][d] = snapshot[s][d]
    BY DEF ReportInv, ReportMatchesCorpus, Underway
  <2>3. CASE s = s0 /\ d \in E
    BY <1>1, <1>3, <1>4, <1>7, <2>1, <2>3
  <2>4. CASE ~(s = s0 /\ d \in E)
    BY <1>3, <1>4, <2>1, <2>2, <2>4
  <2> QED
    BY <2>3, <2>4
<1> QED
  BY <1>5, <1>6, <1>7

LEMMA NotUnderway ==
    ASSUME phase' \in {"down", "planning"}
    PROVE  ReportInv'
BY DEF ReportInv, QueueComesFromThePlan, ReportedUnlessDue, BlameIsForFailures,
       RewritesSomething, ReportMatchesCorpus, Underway

LEMMA PlanReports == ASSUME IndInv, Plan, PlanWindows(Held) # {} PROVE ReportInv'
<1>1. /\ snapshot' = Held /\ todo' = Offered(Held) /\ phase' = "offering"
      /\ outcome' = NoOutcomes /\ UNCHANGED disk
  BY DEF Plan, onDisk
<1>2. QueueComesFromThePlan' /\ RewritesSomething'
  BY <1>1 DEF QueueComesFromThePlan, RewritesSomething, InFlight
<1>3. \A s \in Symbols, d \in Days : outcome'[s][d] = "none"
  BY <1>1 DEF NoOutcomes
<1>4. ReportedUnlessDue'
  BY <1>1, <1>3 DEF ReportedUnlessDue, Due
<1>5. BlameIsForFailures'
  BY <1>3 DEF BlameIsForFailures
<1>6. ReportMatchesCorpus'
  BY <1>1, <1>3 DEF ReportMatchesCorpus, Held
<1> QED
  BY <1>2, <1>4, <1>5, <1>6 DEF ReportInv

(* Outcomes, disk and plan stay; what was due stays due.                   *)
LEMMA NothingReported ==
    ASSUME ReportInv, Underway, Underway', UNCHANGED <<disk, snapshot, outcome, failed>>,
           \A s \in Symbols, d \in Days : Due(s, d)' <=> Due(s, d)
    PROVE  ReportedUnlessDue' /\ BlameIsForFailures' /\ ReportMatchesCorpus'
<1>1. ReportedUnlessDue'
  <2> SUFFICES ASSUME NEW s \in Symbols, NEW d \in Days
               PROVE  outcome'[s][d] # "none" <=>
                        (\E w \in Offered(snapshot') : Asks(w, s, d)) /\ ~Due(s, d)'
    BY DEF ReportedUnlessDue, Asks
  <2>1. outcome[s][d] # "none" <=> (\E w \in Offered(snapshot) : Asks(w, s, d)) /\ ~Due(s, d)
    BY DEF ReportInv, ReportedUnlessDue
  <2> QED
    BY <2>1
<1>2. BlameIsForFailures'
  BY DEF ReportInv, BlameIsForFailures
<1>3. Held' = Held
  BY DEF Held
<1>4. ReportMatchesCorpus'
  BY <1>3 DEF ReportInv, ReportMatchesCorpus, Underway
<1> QED
  BY <1>1, <1>2, <1>4

(* The sessions of one window of the queue, or of the one in flight, are   *)
(* settled together.                                                       *)
LEMMA SkipReports == ASSUME IndInv, ReportInv, NEW w \in todo, Skip(w) PROVE ReportInv'
<1> USE DEF Asks
<1>1. /\ Underway /\ phase = "offering" /\ phase' = "offering" /\ todo' = todo \ {w}
      /\ w.symbol \in failed /\ Record(w, "skipped")
      /\ UNCHANGED <<disk, snapshot, current, failed>>
  BY DEF Skip, onDisk, Underway
<1>2. IsWindow(w) /\ outcome \in [Symbols -> [Days -> Statuses]]
  BY DEF IndInv, TypeOK
<1>3. todo \subseteq Offered(snapshot)
  BY <1>1 DEF ReportInv, QueueComesFromThePlan
<1>4. \A s \in Symbols, d \in Days : Due(s, d) <=> \E v \in todo : Asks(v, s, d)
  BY <1>1 DEF Due
<1>5. \A s \in Symbols, d \in Days : Due(s, d)' <=> \E v \in todo \ {w} : Asks(v, s, d)
  BY <1>1 DEF Due
<1>6. \A s \in Symbols, d \in Days : \A v \in todo : Asks(v, s, d) /\ Asks(w, s, d) => v = w
  BY <1>3, OneWindowAsks
<1>7. Settles(w.symbol, w.days, "skipped")
  <2>1. \A s \in Symbols, d \in Days :
            outcome'[s][d] = IF s = w.symbol /\ d \in w.days THEN "skipped" ELSE outcome[s][d]
    BY <1>1, <1>2 DEF Record, IsWindow
  <2>2. \A s \in Symbols, d \in Days :
            Due(s, d)' <=> Due(s, d) /\ ~(s = w.symbol /\ d \in w.days)
    <3> SUFFICES ASSUME NEW s \in Symbols, NEW d \in Days
                 PROVE  Due(s, d)' <=> Due(s, d) /\ ~(s = w.symbol /\ d \in w.days)
      OBVIOUS
    <3>1. Due(s, d) <=> \E v \in todo : Asks(v, s, d)
      BY <1>4
    <3>2. Due(s, d)' <=> \E v \in todo \ {w} : Asks(v, s, d)
      BY <1>5
    <3>3. \A v \in todo : Asks(v, s, d) /\ Asks(w, s, d) => v = w
      BY <1>6
    <3> QED
      BY <3>1, <3>2, <3>3
  <2>3. \A d \in w.days : d \in Days /\ Due(w.symbol, d)
    BY <1>2, <1>4 DEF IsWindow
  <2> QED
    BY <1>1, <2>1, <2>2, <2>3 DEF Settles, Statuses
<1>8. ReportedUnlessDue' /\ BlameIsForFailures' /\ ReportMatchesCorpus'
  BY <1>1, <1>2, <1>7, SettlingKeepsTheReport DEF IsWindow
<1>9. QueueComesFromThePlan' /\ RewritesSomething'
  BY <1>1, <1>3 DEF QueueComesFromThePlan, RewritesSomething, InFlight
<1> QED
  BY <1>8, <1>9 DEF ReportInv

LEMMA RequestReports == ASSUME IndInv, ReportInv, NEW w \in todo, Request(w) PROVE ReportInv'
<1>1. /\ phase = "offering" /\ phase' = "awaiting" /\ todo' = todo \ {w} /\ current' = w
      /\ UNCHANGED <<disk, snapshot, outcome, failed>>
  BY DEF Request, onDisk
<1>2. Underway /\ Underway' /\ todo \subseteq Offered(snapshot)
  BY <1>1 DEF ReportInv, QueueComesFromThePlan, Underway
<1>3. \A s \in Symbols, d \in Days : Due(s, d)' <=> Due(s, d)
  BY <1>1 DEF Due, Asks
<1>4. QueueComesFromThePlan' /\ RewritesSomething'
  BY <1>1, <1>2 DEF QueueComesFromThePlan, RewritesSomething
<1> QED
  BY <1>1, <1>2, <1>3, <1>4, NothingReported DEF ReportInv

LEMMA AnswerReports ==
    ASSUME IndInv, ReportInv, AnswerInFull \/ AnswerOtherwise
    PROVE  ReportInv'
<1>1. /\ phase = "awaiting" /\ phase' = "storing" /\ cellsLeft' = current.days
      /\ UNCHANGED <<disk, todo, current, snapshot, outcome, failed>>
  BY DEF AnswerInFull, AnswerOtherwise, Receive, onDisk
<1>2. Underway /\ Underway'
  BY <1>1 DEF Underway
<1>3. \A s \in Symbols, d \in Days : Due(s, d)' <=> Due(s, d)
  BY <1>1 DEF Due, Asks
<1>4. QueueComesFromThePlan' /\ RewritesSomething'
  BY <1>1, <1>2 DEF ReportInv, QueueComesFromThePlan, RewritesSomething, InFlight
<1> QED
  BY <1>1, <1>2, <1>3, <1>4, NothingReported DEF ReportInv

LEMMA BeginRewriteReports == ASSUME IndInv, ReportInv, BeginRewrite PROVE ReportInv'
<1>1. /\ phase = "storing" /\ phase' = "rewriting" /\ Fresh # {}
      /\ UNCHANGED <<disk, todo, current, snapshot, outcome, failed, answer, cellsLeft>>
  BY DEF BeginRewrite, onDisk, inPass
<1>2. Underway /\ Underway'
  BY <1>1 DEF Underway
<1>3. \A s \in Symbols, d \in Days : Due(s, d)' <=> Due(s, d)
  BY <1>1 DEF Due, Asks
<1>4. QueueComesFromThePlan'
  BY <1>1, <1>2 DEF ReportInv, QueueComesFromThePlan, InFlight
<1>5. RewritesSomething'
  BY <1>1 DEF RewritesSomething, Fresh, NextCell, InSession
<1> QED
  BY <1>1, <1>2, <1>3, <1>4, <1>5, NothingReported DEF ReportInv

LEMMA SettleReports == ASSUME IndInv, ReportInv, Settle PROVE ReportInv'
<1>1. /\ phase = "storing" /\ phase' = "offering" /\ cellsLeft = {}
      /\ UNCHANGED <<disk, todo, snapshot, outcome, failed>>
  BY DEF Settle, onDisk
<1>2. Underway /\ Underway'
  BY <1>1 DEF Underway
<1>3. \A s \in Symbols, d \in Days : Due(s, d)' <=> Due(s, d)
  BY <1>1 DEF Due, Asks
<1>4. QueueComesFromThePlan' /\ RewritesSomething'
  BY <1>1, <1>2 DEF ReportInv, QueueComesFromThePlan, RewritesSomething, InFlight
<1> QED
  BY <1>1, <1>2, <1>3, <1>4, NothingReported DEF ReportInv

LEMMA FailReports ==
    ASSUME IndInv, ReportInv, Fail, ~(consecutive + 1 >= MaxFailures)
    PROVE  ReportInv'
<1>1. /\ Underway /\ phase = "awaiting" /\ phase' = "offering"
      /\ failed' = failed \cup {current.symbol} /\ Record(current, "failed")
      /\ UNCHANGED <<disk, snapshot, todo>>
  BY DEF Fail, onDisk, Underway
<1>2. IsWindow(current) /\ outcome \in [Symbols -> [Days -> Statuses]]
  BY <1>1 DEF IndInv, TypeOK
<1>3. todo \subseteq Offered(snapshot) /\ current \in Offered(snapshot) /\ current \notin todo
  BY <1>1 DEF ReportInv, QueueComesFromThePlan, InFlight
<1>4. \A s \in Symbols, d \in Days :
          Due(s, d) <=> (\E v \in todo : Asks(v, s, d)) \/ Asks(current, s, d)
  BY <1>1 DEF Due
<1>5. \A s \in Symbols, d \in Days : Due(s, d)' <=> \E v \in todo : Asks(v, s, d)
  BY <1>1 DEF Due, Asks
<1>6. \A s \in Symbols, d \in Days : \A v \in todo : ~(Asks(v, s, d) /\ Asks(current, s, d))
  BY <1>3, OneWindowAsks
<1>7. Settles(current.symbol, current.days, "failed")
  <2>1. \A s \in Symbols, d \in Days : outcome'[s][d] =
            IF s = current.symbol /\ d \in current.days THEN "failed" ELSE outcome[s][d]
    BY <1>1, <1>2 DEF Record, IsWindow
  <2>2. \A s \in Symbols, d \in Days :
            Due(s, d)' <=> Due(s, d) /\ ~(s = current.symbol /\ d \in current.days)
    <3> SUFFICES ASSUME NEW s \in Symbols, NEW d \in Days
                 PROVE  Due(s, d)' <=> Due(s, d) /\ ~(s = current.symbol /\ d \in current.days)
      OBVIOUS
    <3>1. Asks(current, s, d) <=> s = current.symbol /\ d \in current.days
      BY DEF Asks
    <3>2. Due(s, d) <=> (\E v \in todo : Asks(v, s, d)) \/ Asks(current, s, d)
      BY <1>4
    <3>3. Due(s, d)' <=> \E v \in todo : Asks(v, s, d)
      BY <1>5
    <3>4. \A v \in todo : ~(Asks(v, s, d) /\ Asks(current, s, d))
      BY <1>6
    <3> QED
      BY <3>1, <3>2, <3>3, <3>4
  <2>3. \A d \in current.days : d \in Days /\ Due(current.symbol, d)
    BY <1>2, <1>4 DEF IsWindow, Asks
  <2> QED
    BY <1>1, <2>1, <2>2, <2>3 DEF Settles, Statuses
<1>8. ReportedUnlessDue' /\ BlameIsForFailures' /\ ReportMatchesCorpus'
  BY <1>1, <1>2, <1>7, SettlingKeepsTheReport DEF IsWindow
<1>9. QueueComesFromThePlan' /\ RewritesSomething'
  BY <1>1, <1>3 DEF QueueComesFromThePlan, RewritesSomething, InFlight
<1> QED
  BY <1>8, <1>9 DEF ReportInv

(* One session of the window in flight is settled.                         *)
LEMMA CellSettles ==
    ASSUME IndInv, ReportInv, phase \in {"storing", "rewriting"}, phase' = "storing",
           cellsLeft # {}, cellsLeft' = cellsLeft \ {NextCell},
           NEW status \in Statuses \ {"none"},
           outcome' = [outcome EXCEPT ![current.symbol][NextCell] = status],
           UNCHANGED <<todo, current, snapshot, failed>>
    PROVE  /\ current.symbol \in Symbols /\ NextCell \in cellsLeft
           /\ Settles(current.symbol, {NextCell}, status)
           /\ QueueComesFromThePlan' /\ RewritesSomething'
<1>1. IsWindow(current) /\ cellsLeft \subseteq current.days
      /\ outcome \in [Symbols -> [Days -> Statuses]]
  BY DEF IndInv, TypeOK, Writing
<1>2. NextCell \in cellsLeft /\ NextCell \in Days /\ current.symbol \in Symbols
  <2>1. cellsLeft \in SUBSET Nat /\ current.days \subseteq Days
    BY <1>1, PlanAssumption DEF IsWindow
  <2> QED
    BY <1>1, <2>1, OldestExists DEF NextCell, IsWindow
<1>3. Underway /\ todo \subseteq Offered(snapshot)
      /\ current \in Offered(snapshot) /\ current \notin todo
  BY DEF ReportInv, QueueComesFromThePlan, InFlight, Underway
<1>4. \A s \in Symbols, d \in Days :
          Due(s, d) <=> (\E v \in todo : Asks(v, s, d)) \/ (s = current.symbol /\ d \in cellsLeft)
  BY DEF Due
<1>5. \A s \in Symbols, d \in Days :
          Due(s, d)' <=> (\E v \in todo : Asks(v, s, d))
                         \/ (s = current.symbol /\ d \in cellsLeft \ {NextCell})
  BY DEF Due, Asks
<1>6. \A d \in Days : \A v \in todo : d \in cellsLeft => ~Asks(v, current.symbol, d)
  <2> SUFFICES ASSUME NEW d \in cellsLeft, NEW v \in todo, Asks(v, current.symbol, d)
               PROVE  FALSE
    OBVIOUS
  <2>1. Asks(current, current.symbol, d)
    BY <1>1 DEF Asks
  <2> QED
    BY <1>3, <2>1, OneWindowAsks
<1>7. \A s \in Symbols, d \in Days : outcome'[s][d] =
          IF s = current.symbol /\ d \in {NextCell} THEN status ELSE outcome[s][d]
  BY <1>1, <1>2
<1>8. \A s \in Symbols, d \in Days :
          Due(s, d)' <=> Due(s, d) /\ ~(s = current.symbol /\ d \in {NextCell})
  <2> SUFFICES ASSUME NEW s \in Symbols, NEW d \in Days
               PROVE  Due(s, d)' <=> Due(s, d) /\ ~(s = current.symbol /\ d \in {NextCell})
    OBVIOUS
  <2>1. Due(s, d) <=> (\E v \in todo : Asks(v, s, d)) \/ (s = current.symbol /\ d \in cellsLeft)
    BY <1>4
  <2>2. Due(s, d)' <=> (\E v \in todo : Asks(v, s, d))
                         \/ (s = current.symbol /\ d \in cellsLeft \ {NextCell})
    BY <1>5
  <2>3. d \in cellsLeft => \A v \in todo : ~Asks(v, current.symbol, d)
    BY <1>6
  <2> QED
    BY <1>2, <2>1, <2>2, <2>3
<1>9. Settles(current.symbol, {NextCell}, status)
  BY <1>2, <1>4, <1>7, <1>8 DEF Settles
<1>10. QueueComesFromThePlan' /\ RewritesSomething'
  BY <1>3 DEF QueueComesFromThePlan, RewritesSomething, InFlight
<1> QED
  BY <1>2, <1>9, <1>10

LEMMA LeaveEmptyReports == ASSUME IndInv, ReportInv, LeaveEmpty PROVE ReportInv'
<1>1. /\ phase = "storing" /\ phase' = "storing" /\ cellsLeft # {}
      /\ cellsLeft' = cellsLeft \ {NextCell}
      /\ outcome' = [outcome EXCEPT ![current.symbol][NextCell] = "empty"]
      /\ UNCHANGED <<disk, todo, current, snapshot, failed>>
  BY DEF LeaveEmpty, onDisk
<1>2. /\ current.symbol \in Symbols /\ Settles(current.symbol, {NextCell}, "empty")
      /\ QueueComesFromThePlan' /\ RewritesSomething'
  BY <1>1, CellSettles DEF Statuses
<1>3. Underway
  BY <1>1 DEF Underway
<1>4. ReportedUnlessDue' /\ BlameIsForFailures' /\ ReportMatchesCorpus'
  BY <1>1, <1>2, <1>3, SettlingKeepsTheReport
<1> QED
  BY <1>2, <1>4 DEF ReportInv

(* Only the session rewritten gained bars, and it holds some.              *)
LEMMA EndRewriteReports == ASSUME IndInv, ReportInv, EndRewrite PROVE ReportInv'
<1> DEFINE s0 == current.symbol
           d0 == NextCell
<1>1. /\ phase = "rewriting" /\ phase' = "storing" /\ cellsLeft # {}
      /\ cellsLeft' = cellsLeft \ {NextCell}
      /\ outcome' = [outcome EXCEPT ![current.symbol][NextCell] = "filled"]
      /\ UNCHANGED <<todo, current, snapshot, failed>>
  BY DEF EndRewrite, IndInv, Writing
<1>2. /\ s0 \in Symbols /\ d0 \in cellsLeft /\ Settles(s0, {d0}, "filled")
      /\ QueueComesFromThePlan' /\ RewritesSomething'
  BY <1>1, CellSettles DEF Statuses
<1>3. Underway /\ Underway'
  BY <1>1 DEF Underway
<1>4. ReportedUnlessDue' /\ BlameIsForFailures'
  BY <1>1, <1>2, <1>3, SettlingKeepsTheReport
<1>5. /\ \A s \in Symbols, d \in Days :
            disk'[s][d] = IF s = s0 /\ d = d0 THEN Merge(disk[s][d], Fresh) ELSE disk[s][d]
      /\ d0 \in Days
  BY RewriteOfOnePartition, FreshFits, <1>1
<1>6. Merge(disk[s0][d0], Fresh) # {}
  <2>1. PICK b \in Fresh : TRUE
    BY <1>1 DEF ReportInv, RewritesSomething
  <2>2. b.ts \in {a.ts : a \in disk[s0][d0]} \/
        b.ts \in {a.ts : a \in Fresh} \ {a.ts : a \in disk[s0][d0]}
    BY <2>1
  <2> QED
    BY <2>2 DEF Merge
<1>7. Cardinality(disk'[s0][d0]) >= 1
  <2>1. IndInv'
    BY EndRewriteKeepsIndInv
  <2>2. /\ \A b \in disk'[s0][d0] : b.ts \in Grid(d0)
        /\ \A a, b \in disk'[s0][d0] : a.ts = b.ts => a = b
    BY <1>2, <1>5, <2>1 DEF IndInv, OnGrid, OneBarPerTimestamp
  <2>3. IsFiniteSet(disk'[s0][d0])
    BY <1>5, <2>2, GridSize, CountingBars
  <2>4. disk'[s0][d0] # {}
    BY <1>2, <1>5, <1>6
  <2> QED
    BY <2>3, <2>4, FS_CardinalityType, FS_EmptySet
<1>8. ReportMatchesCorpus'
  <2> SUFFICES ASSUME NEW s \in Symbols, NEW d \in Days
               PROVE  IF outcome'[s][d] = "filled" THEN Held'[s][d] >= 1
                      ELSE Held'[s][d] = snapshot'[s][d]
    BY DEF ReportMatchesCorpus
  <2>1. Held'[s][d] = Cardinality(disk'[s][d]) /\ Held[s][d] = Cardinality(disk[s][d])
    BY DEF Held
  <2>2. outcome'[s][d] = IF s = s0 /\ d = d0 THEN "filled" ELSE outcome[s][d]
    BY <1>2 DEF Settles
  <2>3. IF outcome[s][d] = "filled" THEN Held[s][d] >= 1 ELSE Held[s][d] = snapshot[s][d]
    BY <1>3 DEF ReportInv, ReportMatchesCorpus, Underway
  <2> HIDE DEF s0, d0
  <2>4. CASE s = s0 /\ d = d0
    BY <1>7, <2>1, <2>2, <2>4
  <2>5. CASE ~(s = s0 /\ d = d0)
    <3>1. disk'[s][d] = disk[s][d]
      BY <1>5, <2>5
    <3> QED
      BY <1>1, <2>1, <2>2, <2>3, <2>5, <3>1
  <2> QED
    BY <2>4, <2>5
<1> QED
  BY <1>2, <1>4, <1>8 DEF ReportInv

LEMMA NextReportInv == ASSUME IndInv, ReportInv, [Next]_vars PROVE ReportInv'
<1>1. CASE phase' \in {"down", "planning"}
  BY <1>1, NotUnderway
<1>2. CASE Plan /\ PlanWindows(Held) # {}
  BY <1>2, PlanReports
<1>3. ASSUME NEW w \in todo, Skip(w) PROVE ReportInv'
  BY <1>3, SkipReports
<1>4. ASSUME NEW w \in todo, Request(w) PROVE ReportInv'
  BY <1>4, RequestReports
<1>5. CASE AnswerInFull \/ AnswerOtherwise
  BY <1>5, AnswerReports
<1>6. CASE Fail /\ ~(consecutive + 1 >= MaxFailures)
  BY <1>6, FailReports
<1>7. CASE LeaveEmpty
  BY <1>7, LeaveEmptyReports
<1>8. CASE BeginRewrite
  BY <1>8, BeginRewriteReports
<1>9. CASE EndRewrite
  BY <1>9, EndRewriteReports
<1>10. CASE Settle
  BY <1>10, SettleReports
<1>11. CASE UNCHANGED vars
  BY <1>11 DEF vars, ReportInv, QueueComesFromThePlan, ReportedUnlessDue, BlameIsForFailures,
     RewritesSomething, ReportMatchesCorpus, Underway, InFlight, Due, Asks, Held, Fresh, NextCell
<1>12. Start \/ (Plan /\ PlanWindows(Held) = {}) \/ PlanRaises \/ AnswerForeign
       \/ (Fail /\ consecutive + 1 >= MaxFailures) \/ EndPass \/ Kill \/ Tear
       => phase' \in {"down", "planning"}
  BY DEF Start, Plan, PlanRaises, AnswerForeign, Fail, EndPass, Kill, Tear, Forget
<1> QED
  BY <1>1, <1>2, <1>3, <1>4, <1>5, <1>6, <1>7, <1>8, <1>9, <1>10, <1>11, <1>12 DEF Next, Step

(* What a pass reports is true of the corpus at every step of it, and a    *)
(* pass that ran out of work has reported exactly the sessions it offered. *)
THEOREM ReportIsAlwaysTrue == Spec => []ReportIsTrue
<1>1. Init => ReportInv
  BY DEF Init, ReportInv, QueueComesFromThePlan, ReportedUnlessDue, BlameIsForFailures,
     RewritesSomething, ReportMatchesCorpus, Underway
<1>2. ASSUME ReportInv PROVE ReportIsTrue
  <2>1. ASSUME phase = "offering", todo = {}, NEW s \in Symbols, NEW d \in Days
        PROVE  ~Due(s, d) /\ Underway
    BY <2>1 DEF Due, Underway
  <2>2. ReportIsComplete
    BY <1>2, <2>1 DEF ReportIsComplete, ReportInv, ReportedUnlessDue, BlameIsForFailures, Asks
  <2> QED
    BY <1>2, <2>2 DEF ReportInv, ReportIsTrue
<1>3. IndInv /\ ReportInv /\ [Next]_vars => ReportInv'
  BY NextReportInv
<1> QED
  BY <1>1, <1>2, <1>3, Invariance, PTL DEF Spec
=============================================================================
