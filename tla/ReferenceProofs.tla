--------------------------- MODULE ReferenceProofs --------------------------
(***************************************************************************)
(* What the desks that keep the corpus honest hold for every universe,     *)
(* calendar, market and file: corporate actions, the screen of the         *)
(* universe, sectors, the samples of the seed vendors, the audit.          *)
(***************************************************************************)
EXTENDS MCReference, FiniteSetTheorems, TLAPS
-----------------------------------------------------------------------------
(* The file of corporate actions. *)

PassInv ==
  /\ pass = [at |-> pass.at, collected |-> pass.collected, failures |-> pass.failures, said |-> pass.said]
  /\ pass.at \in 0 .. Len(Universe) + 1
  /\ DOMAIN pass.collected \cup pass.failures = {Universe[i] : i \in 1 .. pass.at - 1}
  /\ DOMAIN pass.collected \cap pass.failures = {}
  /\ pass.collected = pass.said

FileInv == PassInv /\ FileIsOneWholePass

LEMMA FileInit == Init => FileInv
<1> SUFFICES ASSUME Init PROVE FileInv
  OBVIOUS
<1>1. pass = Idle /\ stored = Absent
  BY DEF Init, ActionsInit
<1>2. DOMAIN Empty = {} /\ Len(Universe) \in Nat
  BY UniverseAssumption DEF Empty
<1>3. PassInv
  <2>1. /\ pass.at = 0 /\ pass.collected = Empty /\ pass.failures = {} /\ pass.said = Empty
    BY <1>1 DEF Idle
  <2>2. pass = [at |-> pass.at, collected |-> pass.collected, failures |-> pass.failures, said |-> pass.said]
    BY <1>1 DEF Idle
  <2>3. {Universe[i] : i \in 1 .. 0 - 1} = {}
    OBVIOUS
  <2> QED
    BY <1>2, <2>1, <2>2, <2>3 DEF PassInv
<1> QED
  BY <1>1, <1>3 DEF FileInv, FileIsOneWholePass, Absent

LEMMA AskingKeepsThePass == ASSUME PassInv, FetchOne PROVE PassInv'
<1> DEFINE s == Universe[pass.at]
           before == {Universe[i] : i \in 1 .. pass.at - 1}
<1>1. pass.at \in 1 .. Len(Universe) /\ Len(Universe) \in Nat /\ DOMAIN Universe = 1 .. Len(Universe)
  BY UniverseAssumption DEF FetchOne
<1>2. s \notin before
  BY <1>1, UniverseAssumption
<1>3. {Universe[i] : i \in 1 .. (pass.at + 1) - 1} = before \cup {s}
  BY <1>1
<1>4. /\ s \notin DOMAIN pass.collected /\ s \notin pass.failures
      /\ DOMAIN pass.collected \cup pass.failures = before
      /\ DOMAIN pass.collected \cap pass.failures = {}
      /\ pass.collected = pass.said
  BY <1>2 DEF PassInv
<1>5. pass = [at |-> pass.at, collected |-> pass.collected, failures |-> pass.failures, said |-> pass.said]
  BY DEF PassInv
<1> HIDE DEF s, before
<1>6. CASE pass' = Refused(pass, s)
  <2>1. pass' = [at |-> pass.at + 1, collected |-> pass.collected,
                 failures |-> pass.failures \cup {s}, said |-> pass.said]
    BY <1>5, <1>6 DEF Refused
  <2>2. pass'.at \in 0 .. Len(Universe) + 1
    BY <1>1, <2>1
  <2>3. DOMAIN pass'.collected \cup pass'.failures = before \cup {s}
        /\ DOMAIN pass'.collected \cap pass'.failures = {}
    BY <1>4, <2>1
  <2> QED
    BY <1>3, <1>4, <2>1, <2>2, <2>3 DEF PassInv
<1>7. ASSUME NEW actions, pass' = Answered(pass, s, actions) PROVE PassInv'
  <2> DEFINE more == With(pass.collected, s, actions)
  <2>1. pass' = [at |-> pass.at + 1, collected |-> more, failures |-> pass.failures, said |-> more]
    BY <1>4, <1>5, <1>7 DEF Answered
  <2>2. DOMAIN more = DOMAIN pass.collected \cup {s}
    BY DEF With
  <2> HIDE DEF more
  <2>3. pass'.at \in 0 .. Len(Universe) + 1
    BY <1>1, <2>1
  <2>4. DOMAIN pass'.collected \cup pass'.failures = before \cup {s}
        /\ DOMAIN pass'.collected \cap pass'.failures = {}
    BY <1>4, <2>1, <2>2
  <2> QED
    BY <1>3, <2>1, <2>3, <2>4 DEF PassInv
<1> QED
  BY <1>6, <1>7 DEF FetchOne, s

LEMMA FileStep == ASSUME FileInv, [Next]_vars PROVE FileInv'
<1>1. CASE UNCHANGED <<stored, pass>>
  <2>1. PassInv'
    BY <1>1 DEF FileInv, PassInv
  <2> QED
    BY <1>1, <2>1 DEF FileInv, FileIsOneWholePass
<1>2. ASSUME pass' = Idle PROVE PassInv'
  <2>1. /\ pass'.at = 0 /\ pass'.collected = Empty /\ pass'.failures = {} /\ pass'.said = Empty
        /\ DOMAIN Empty = {}
    BY <1>2 DEF Idle, Empty
  <2>2. pass' = [at |-> pass'.at, collected |-> pass'.collected, failures |-> pass'.failures, said |-> pass'.said]
    BY <1>2 DEF Idle
  <2>3. {Universe[i] : i \in 1 .. 0 - 1} = {} /\ Len(Universe) \in Nat
    BY UniverseAssumption
  <2> QED
    BY <2>1, <2>2, <2>3 DEF PassInv
<1>3. CASE BeginFetch
  <2>1. pass' = [at |-> 1, collected |-> Empty, failures |-> {}, said |-> Empty]
    BY <1>3 DEF BeginFetch, Idle
  <2>2. {Universe[i] : i \in 1 .. 1 - 1} = {} /\ Len(Universe) \in Nat /\ DOMAIN Empty = {}
    BY UniverseAssumption DEF Empty
  <2>3. PassInv'
    BY <2>1, <2>2 DEF PassInv
  <2> QED
    BY <1>3, <2>3 DEF BeginFetch, FileInv, FileIsOneWholePass
<1>4. CASE FetchOne
  BY <1>4, AskingKeepsThePass DEF FetchOne, FileInv, FileIsOneWholePass
<1>5. CASE GiveUp \/ DieFetching
  BY <1>2, <1>5 DEF GiveUp, DieFetching, FileInv, FileIsOneWholePass
<1>6. CASE BeginWrite
  <2>1. stored'.state = "torn"
    BY <1>6 DEF BeginWrite, Absent
  <2>2. PassInv'
    BY <1>6 DEF BeginWrite, FileInv, PassInv
  <2> QED
    BY <2>1, <2>2 DEF FileInv, FileIsOneWholePass
<1>7. CASE EndWrite
  <2>1. pass.at - 1 = Len(Universe) /\ DOMAIN Universe = 1 .. Len(Universe)
    BY <1>7, UniverseAssumption DEF EndWrite
  <2>2. {Universe[i] : i \in 1 .. pass.at - 1} = Traded
    BY <2>1 DEF Traded, Range
  <2>3. stored' = [state |-> "whole", known |-> pass.collected, failures |-> pass.failures, said |-> pass.said]
    BY <1>7 DEF EndWrite
  <2>4. FileIsOneWholePass'
    BY <2>2, <2>3 DEF FileInv, PassInv, FileIsOneWholePass
  <2> QED
    BY <1>2, <1>7, <2>4 DEF EndWrite, FileInv
<1> QED
  BY <1>1, <1>3, <1>4, <1>5, <1>6, <1>7
  DEF Next, vars, actionVars, FillsToday, DayEnds, FetchesActions, ReadsPrices, ChecksActions, BuildsUniverse,
      ReadsSectors, AuditsCorpus, FetchesSamples, IngestsSamples, ReadAdjusted, Check

(* However often a fetch is refused, starved or killed, for every universe *)
(* and whatever companies declare: a file of actions that can be read is   *)
(* one pass over all of it, and says "never split" only of an instrument   *)
(* the feed said so of (ingest/actions.py, actions_parquet.py).            *)
THEOREM ActionsAreOfOnePass == Spec => []FileIsOneWholePass
<1>1. Spec => []FileInv
  BY FileInit, FileStep, PTL DEF Spec
<1>2. FileInv => FileIsOneWholePass
  BY DEF FileInv
<1> QED
  BY <1>1, <1>2, PTL
-----------------------------------------------------------------------------
(* Reading prices on the basis of a day. *)

Upto(actions, as_of) == {a \in actions : a.on <= as_of}

LEMMA AdjustingIsPointInTime ==
  ASSUME NEW bars, NEW actions, NEW others, NEW as_of, NEW total_return, NEW prior_close,
         Upto(actions, as_of) = Upto(others, as_of)
  PROVE  AdjustBars(bars, actions, as_of, total_return, prior_close)
           = AdjustBars(bars, others, as_of, total_return, prior_close)
<1>1. ASSUME NEW observed PROVE Between(actions, observed, as_of) = Between(others, observed, as_of)
  BY DEF Upto, Between
<1>2. ASSUME NEW observed PROVE PriceFactor(actions, observed, as_of) = PriceFactor(others, observed, as_of)
  BY <1>1 DEF PriceFactor
<1>3. ASSUME NEW observed
      PROVE  TotalReturnFactor(actions, observed, as_of, prior_close)
               = TotalReturnFactor(others, observed, as_of, prior_close)
  BY <1>1 DEF TotalReturnFactor
<1> QED
  BY <1>2, <1>3 DEF AdjustBars
LEMMA PrintsStay ==
  ASSUME truth' = truth
  PROVE  /\ \A s, last : Printed(s, last)' = Printed(s, last)
         /\ \A s : PriorClose(s)' = PriorClose(s)
<1>1. \A s, d, basis : OnBasis(s, d, basis)' = OnBasis(s, d, basis)
  BY DEF OnBasis
<1> QED
  BY <1>1 DEF Printed, PriorClose

TruthIsSettled == truth' = truth
Before(known, s, as_of) == Upto(Known(known, s), as_of)

LEMMA NobodyChangesTheTruth == Next => TruthIsSettled
BY DEF Next, TruthIsSettled, dailyVars, FillsToday, BackfillDaily, DayEnds, NextDay, FetchesActions, ReadsPrices,
       ChecksActions, BuildsUniverse, ReadsSectors, AuditsCorpus, FetchesSamples, IngestsSamples

(* What was read is what the file, as it was then, makes of the prints. *)
ReadInv ==
  \/ reading = NoReading
  \/ /\ reading.as_of \in Nat \ {0}
     /\ reading.bars = [s \in Traded |-> AdjustedRead(s, reading.known, reading.as_of, reading.total_return)]

LEMMA ReadIsKept == ASSUME ReadInv, TruthIsSettled, UNCHANGED reading PROVE ReadInv'
<1>1. \A s, known, as_of, total_return :
         AdjustedRead(s, known, as_of, total_return)' = AdjustedRead(s, known, as_of, total_return)
  BY PrintsStay DEF AdjustedRead, TruthIsSettled
<1> QED
  BY <1>1 DEF ReadInv

LEMMA ReadStep == ASSUME ReadInv, [Next]_vars PROVE ReadInv'
<1>1. TruthIsSettled
  BY NobodyChangesTheTruth DEF TruthIsSettled, vars, dailyVars
<1>2. CASE UNCHANGED reading
  BY <1>1, <1>2, ReadIsKept
<1>3. ASSUME NEW end, Check(end) PROVE ReadInv'
  BY <1>3 DEF Check, ReadInv
<1>4. ASSUME NEW as_of \in 1 .. today, NEW total_return \in BOOLEAN, ReadAdjusted(as_of, total_return)
      PROVE  ReadInv'
  <2>1. /\ reading'.as_of = as_of /\ reading'.known = stored.known /\ reading'.total_return = total_return
        /\ reading'.bars = [s \in Traded |-> AdjustedRead(s, stored.known, as_of, total_return)]
    BY <1>4 DEF ReadAdjusted
  <2>2. \A s : AdjustedRead(s, reading.known, reading.as_of, reading.total_return)'
                 = AdjustedRead(s, reading'.known, reading'.as_of, reading'.total_return)
    BY <1>1, PrintsStay DEF AdjustedRead, TruthIsSettled
  <2>3. as_of \in Nat \ {0}
    OBVIOUS
  <2> QED
    BY <2>1, <2>2, <2>3 DEF ReadInv
<1> QED
  BY <1>2, <1>3, <1>4
  DEF Next, vars, actionVars, FillsToday, DayEnds, FetchesActions, ReadsPrices, ChecksActions, BuildsUniverse,
      ReadsSectors, AuditsCorpus, FetchesSamples, IngestsSamples, BeginFetch, FetchOne, GiveUp, BeginWrite, EndWrite,
      DieFetching

SameBasis ==
  /\ reading'.as_of = reading.as_of /\ reading'.total_return = reading.total_return
LEMMA SameBasisSamePrices ==
  ASSUME ReadInv, ReadInv', TruthIsSettled, SameBasis, NEW s \in Traded,
         Before(reading'.known, s, reading.as_of) = Before(reading.known, s, reading.as_of)
  PROVE  reading'.bars[s] = reading.bars[s]
<1>1. CASE reading = NoReading \/ reading' = NoReading
  <2>1. NoReading.as_of = 0
    BY DEF NoReading
  <2> QED
    BY <1>1, <2>1 DEF SameBasis, ReadInv
<1>2. CASE reading # NoReading /\ reading' # NoReading
  <2> DEFINE x == reading.as_of
             r == reading.total_return
  <2>1. reading.bars[s] = AdjustedRead(s, reading.known, x, r)
    BY <1>2 DEF ReadInv
  <2>2. reading'.bars[s] = AdjustedRead(s, reading'.known, x, r)
    <3>1. reading'.bars = [z \in Traded |-> AdjustedRead(z, reading.known, reading.as_of, reading.total_return)']
      BY <1>2 DEF ReadInv
    <3>2. reading'.bars[s] = AdjustedRead(s, reading.known, reading.as_of, reading.total_return)'
      BY <3>1
    <3>3. \A k, a, t : AdjustedRead(s, k, a, t)' = AdjustedRead(s, k, a, t)
      BY PrintsStay DEF AdjustedRead, TruthIsSettled
    <3>4. AdjustedRead(s, reading.known, reading.as_of, reading.total_return)'
            = AdjustedRead(s, reading'.known, reading'.as_of, reading'.total_return)
      BY PrintsStay DEF AdjustedRead, TruthIsSettled
    <3> QED
      BY <3>2, <3>4 DEF SameBasis
  <2>3. AdjustedRead(s, reading'.known, x, r) = AdjustedRead(s, reading.known, x, r)
    BY AdjustingIsPointInTime DEF AdjustedRead, Before
  <2> QED
    BY <2>1, <2>2, <2>3
<1> QED
  BY <1>1, <1>2

(* For every market and whatever companies declare when: prices read on    *)
(* the basis of a day stay what they are while the file learns of later    *)
(* days, with and without dividends (core/actions.py, lab/feed.py).        *)
THEOREM ReadsArePointInTime == Spec => ReadIsPointInTime
<1>1. Init => ReadInv
  BY DEF Init, ActionsInit, ReadInv
<1>2. Spec => []ReadInv
  BY <1>1, ReadStep, PTL DEF Spec
<1>3. ReadInv /\ ReadInv' /\ [Next]_vars =>
        [\A s \in Traded :
           LET told(known, as_of) == {a \in Known(known, s) : a.on <= as_of}
           IN (/\ reading'.as_of = reading.as_of /\ reading'.total_return = reading.total_return
               /\ told(reading'.known, reading.as_of) = told(reading.known, reading.as_of))
              => reading'.bars[s] = reading.bars[s]]_reading
  <2> SUFFICES ASSUME ReadInv, ReadInv', [Next]_vars, NEW s \in Traded, SameBasis,
                      Before(reading'.known, s, reading.as_of) = Before(reading.known, s, reading.as_of)
               PROVE  reading'.bars[s] = reading.bars[s]
    BY DEF SameBasis, Before, Upto
  <2>1. TruthIsSettled
    BY NobodyChangesTheTruth DEF TruthIsSettled, vars, dailyVars
  <2> QED
    BY <2>1, SameBasisSamePrices
<1> QED
  BY <1>2, <1>3, PTL DEF Spec, ReadIsPointInTime
-----------------------------------------------------------------------------
(* Counting places in an order. *)

(* below gives, for each member of S, what comes no later than it. *)
Ordering(S, below) ==
  /\ below \in [S -> SUBSET S]
  /\ \A a \in S : a \in below[a]
  /\ \A a, b \in S : a \in below[b] \/ b \in below[a]
  /\ \A a, b \in S : a \in below[b] /\ b \in below[a] => a = b
  /\ \A a, b, c \in S : a \in below[b] /\ b \in below[c] => a \in below[c]

LEMMA RankIsAPlace ==
  ASSUME NEW S, IsFiniteSet(S), NEW below, Ordering(S, below), NEW a \in S
  PROVE  /\ IsFiniteSet(below[a])
         /\ Cardinality(below[a]) \in 1 .. Cardinality(S)
<1>1. below[a] \in SUBSET S /\ a \in below[a]
  BY DEF Ordering
<1>2. IsFiniteSet(below[a]) /\ Cardinality(below[a]) <= Cardinality(S)
  BY <1>1, FS_Subset
<1>3. Cardinality(below[a]) # 0
  BY <1>1, <1>2, FS_EmptySet
<1>4. Cardinality(S) \in Nat /\ Cardinality(below[a]) \in Nat
  BY <1>2, FS_CardinalityType
<1> QED
  BY <1>2, <1>3, <1>4

LEMMA RankIsItsOwn ==
  ASSUME NEW S, IsFiniteSet(S), NEW below, Ordering(S, below), NEW a \in S, NEW b \in S,
         Cardinality(below[a]) = Cardinality(below[b])
  PROVE  a = b
<1>1. ASSUME NEW x \in S, NEW y \in S, x \in below[y], Cardinality(below[x]) = Cardinality(below[y])
      PROVE  x = y
  <2>1. below[x] \in SUBSET below[y]
    BY <1>1 DEF Ordering
  <2>2. IsFiniteSet(below[y])
    BY RankIsAPlace
  <2>3. below[x] = below[y]
    BY <1>1, <2>1, <2>2, FS_Subset
  <2> QED
    BY <1>1, <2>3 DEF Ordering
<1> QED
  BY <1>1 DEF Ordering

LEMMA EveryRankIsTaken ==
  ASSUME NEW S, IsFiniteSet(S), NEW below, Ordering(S, below), NEW n \in 1 .. Cardinality(S)
  PROVE  \E c \in S : Cardinality(below[c]) = n
<1> DEFINE N == Cardinality(S)
           rank == [c \in S |-> Cardinality(below[c])]
<1>1. N \in Nat /\ IsFiniteSet(1 .. N) /\ Cardinality(1 .. N) = N
  BY FS_CardinalityType, FS_Interval
<1>2. rank \in [S -> 1 .. N]
  BY RankIsAPlace
<1>3. \A a, b \in S : rank[a] = rank[b] => a = b
  BY RankIsItsOwn
<1>4. rank \in Injection(S, 1 .. N)
  BY <1>2, <1>3 DEF Injection, IsInjective
<1>5. rank \in Surjection(S, 1 .. N)
  <2> HIDE DEF rank
  <2> QED
    BY <1>1, <1>4, FS_Injection
<1> QED
  BY <1>5 DEF Surjection

LEMMA EndsOfAnOrder ==
  ASSUME NEW S, IsFiniteSet(S), S # {}, NEW below, Ordering(S, below)
  PROVE  \E first, last \in S : \A x \in S : first \in below[x] /\ x \in below[last]
<1>1. 1 \in 1 .. Cardinality(S) /\ Cardinality(S) \in 1 .. Cardinality(S)
  BY FS_CardinalityType, FS_EmptySet
<1>2. \A n \in 1 .. Cardinality(S) : \E c \in S : Cardinality(below[c]) = n
  BY EveryRankIsTaken
<1>3. PICK first \in S : Cardinality(below[first]) = 1
  BY <1>1, <1>2
<1>4. PICK last \in S : Cardinality(below[last]) = Cardinality(S)
  BY <1>1, <1>2
<1>5. \A x \in S : first \in below[x]
  <2>1. IsFiniteSet(below[first])
    BY RankIsAPlace
  <2>2. PICK y : below[first] = {y}
    BY <1>3, <2>1, FS_Singleton
  <2> QED
    BY <2>2 DEF Ordering
<1>6. \A x \in S : x \in below[last]
  <2>1. below[last] \in SUBSET S
    BY DEF Ordering
  <2>2. below[last] = S
    BY <1>4, <2>1, FS_Subset
  <2> QED
    BY <2>2
<1> QED
  BY <1>5, <1>6

Upward(S) == [a \in S |-> {x \in S : x <= a}]

LEMMA EndsOfNumbers ==
  ASSUME NEW S \in SUBSET Int, IsFiniteSet(S), S # {}
  PROVE  /\ Min(S) \in S /\ \A x \in S : Min(S) <= x
         /\ Max(S) \in S /\ \A x \in S : Max(S) >= x
<1>1. Ordering(S, Upward(S))
  BY DEF Ordering, Upward
<1>2. PICK first, last \in S : \A x \in S : first \in Upward(S)[x] /\ x \in Upward(S)[last]
  BY <1>1, EndsOfAnOrder
<1>3. \A x \in S : first <= x /\ x <= last
  BY <1>2 DEF Upward
<1> QED
  BY <1>3 DEF Min, Max
-----------------------------------------------------------------------------
(* The plan of an ingest. *)

Place(files, n) ==
  (IF \E d \in Covered(files) : HeldOf(n, d) = 0 THEN 0 ELSE Len(Samples))
    + (CHOOSE i \in DOMAIN Samples : Samples[i] = n)
Sooner(files, c) ==
  {x \in ShortOf(files) : Place(files, x[1]) < Place(files, c[1]) \/ (x[1] = c[1] /\ x[2] <= c[2])}

LEMMA PlacesAreApart ==
  ASSUME NEW files
  PROVE  /\ \A n \in Names : Place(files, n) \in Int
         /\ \A m, n \in Names : Place(files, m) = Place(files, n) => m = n
<1> DEFINE index(n) == CHOOSE i \in DOMAIN Samples : Samples[i] = n
           late(n) == IF \E d \in Covered(files) : HeldOf(n, d) = 0 THEN 0 ELSE Len(Samples)
<1>1. Len(Samples) \in Nat /\ DOMAIN Samples = 1 .. Len(Samples)
  BY SamplesAssumption
<1>2. \A n \in Names : index(n) \in 1 .. Len(Samples) /\ Samples[index(n)] = n
  <2>1. \A n \in Names : \E i \in DOMAIN Samples : Samples[i] = n
    BY DEF Names, Range
  <2> QED
    BY <1>1, <2>1
<1>3. \A n \in Names : late(n) \in {0, Len(Samples)}
  OBVIOUS
<1>4. \A n \in Names : Place(files, n) = late(n) + index(n)
  BY DEF Place
<1> HIDE DEF index, late
<1>5. ASSUME NEW m \in Names, NEW n \in Names, Place(files, m) = Place(files, n) PROVE m = n
  <2>1. index(m) = index(n)
    BY <1>1, <1>2, <1>3, <1>4, <1>5
  <2> QED
    BY <1>2, <2>1
<1> QED
  BY <1>1, <1>2, <1>3, <1>4, <1>5

LEMMA NamesAreFinite == IsFiniteSet(Names)
<1>1. IsFiniteSet(DOMAIN Samples)
  BY SamplesAssumption, FS_Interval
<1> DEFINE at == [i \in DOMAIN Samples |-> Samples[i]]
<1>2. at \in Surjection(DOMAIN Samples, Names)
  BY DEF Surjection, Names, Range
<1> QED
  BY <1>1, <1>2, FS_Surjection

LEMMA ShortIsFinite ==
  ASSUME NEW files, DOMAIN files \in SUBSET Names, \A n \in DOMAIN files : files[n] \in FirstTick .. LastTick
  PROVE  /\ IsFiniteSet(ShortOf(files))
         /\ ShortOf(files) \subseteq (DOMAIN files) \X Int
         /\ \A n \in DOMAIN files : \A t \in BarsIn(files[n]) : SessionOf(t) \in Covered(files)
<1> DEFINE bars == UNION {BarsIn(files[n]) : n \in DOMAIN files}
           days == {SessionOf(t) : t \in bars}
<1>1. FirstTick \in Nat /\ LastTick \in Nat /\ Span \in Nat \ {0}
  BY SamplesAssumption
<1>2. IsFiniteSet(Names)
  BY NamesAreFinite
<1>3. IsFiniteSet(DOMAIN files)
  BY <1>2, FS_Subset
<1>4. days \in SUBSET Int /\ IsFiniteSet(days)
  <2>1. \A t \in bars : t \in (FirstTick - Span) .. (LastTick - 1)
    BY <1>1 DEF BarsIn
  <2>2. \A t \in bars : SessionOf(t) \in SessionOf(FirstTick - Span) .. SessionOf(LastTick - 1)
    <3> HIDE DEF bars
    <3> QED
      BY <1>1, <2>1 DEF SessionOf
  <2>3. SessionOf(FirstTick - Span) \in Int /\ SessionOf(LastTick - 1) \in Int
    BY <1>1 DEF SessionOf
  <2>4. days \in SUBSET (SessionOf(FirstTick - Span) .. SessionOf(LastTick - 1))
    BY <2>2
  <2> HIDE DEF days
  <2>5. IsFiniteSet(days)
    BY <2>3, <2>4, FS_Interval, FS_Subset
  <2>6. \A a \in Int, b \in Int : a .. b \in SUBSET Int
    OBVIOUS
  <2> QED
    BY <2>3, <2>4, <2>5, <2>6
<1>5. Covered(files) = Min(days) .. Max(days)
  BY DEF Covered
<1>6. CASE DOMAIN files = {}
  <2>1. ShortOf(files) = {}
    BY <1>6 DEF ShortOf
  <2> QED
    BY <1>6, <2>1, FS_EmptySet
<1>7. CASE DOMAIN files # {}
  <2>0. days # {}
    <3>1. PICK n \in DOMAIN files : TRUE
      BY <1>7
    <3>2. files[n] - 1 \in BarsIn(files[n])
      BY <1>1 DEF BarsIn
    <3> QED
      BY <3>2
  <2> HIDE DEF days
  <2>1. Min(days) \in days /\ Max(days) \in days /\ \A x \in days : Min(days) <= x /\ Max(days) >= x
    BY <1>4, <2>0, EndsOfNumbers
  <2>2. IsFiniteSet(Covered(files)) /\ Covered(files) \subseteq Int
    <3>1. Min(days) \in Int /\ Max(days) \in Int
      BY <1>4, <2>1
    <3>2. \A a \in Int, b \in Int : a .. b \subseteq Int /\ IsFiniteSet(a .. b)
      BY FS_Interval
    <3> QED
      BY <1>5, <3>1, <3>2
  <2>3. IsFiniteSet((DOMAIN files) \X Covered(files))
    BY <1>3, <2>2, FS_Product
  <2>4. ShortOf(files) \in SUBSET ((DOMAIN files) \X Covered(files))
    BY DEF ShortOf
  <2>5. IsFiniteSet(ShortOf(files))
    BY <2>3, <2>4, FS_Subset
  <2>6. \A n \in DOMAIN files : \A t \in BarsIn(files[n]) : SessionOf(t) \in days
    BY DEF days
  <2>7. \A x \in days : x \in Covered(files)
    BY <1>4, <1>5, <2>1
  <2> QED
    BY <2>2, <2>4, <2>5, <2>6, <2>7
<1> QED
  BY <1>6, <1>7

SentFiles(files) == DOMAIN files \in SUBSET Names /\ \A n \in DOMAIN files : files[n] \in FirstTick .. LastTick

(* The instruments with most to gain go first, each in the order of days;   *)
(* nothing that is short is left out.                                       *)
LEMMA PlanTakesAll ==
  ASSUME NEW files, SentFiles(files)
  PROVE  /\ PlanOf(files) \in Seq((DOMAIN files) \X Int)
         /\ \A c \in ShortOf(files) : \E i \in 1 .. Len(PlanOf(files)) : PlanOf(files)[i] = c
<1> DEFINE short == ShortOf(files)
           sooner == [c \in short |-> Sooner(files, c)]
           plan == [i \in 1 .. Cardinality(short) |-> CHOOSE c \in short : Cardinality(Sooner(files, c)) = i]
<1>1. IsFiniteSet(short) /\ short \subseteq (DOMAIN files) \X Int /\ Cardinality(short) \in Nat
  BY ShortIsFinite, FS_CardinalityType DEF SentFiles
<1>2. Ordering(short, sooner)
  <2>1. \A c \in short : c[1] \in Names /\ c[2] \in Int /\ Place(files, c[1]) \in Int
    BY <1>1, PlacesAreApart DEF SentFiles
  <2>2. \A a, b \in short : Place(files, a[1]) = Place(files, b[1]) => a[1] = b[1]
    BY <2>1, PlacesAreApart
  <2>3. \A a, b \in short : a[1] = b[1] /\ a[2] = b[2] => a = b
    BY <1>1
  <2>4. \A a, b \in short : a \in sooner[b] <=> Place(files, a[1]) < Place(files, b[1]) \/ (a[1] = b[1] /\ a[2] <= b[2])
    BY DEF Sooner
  <2>5. sooner \in [short -> SUBSET short]
    BY DEF Sooner
  <2> HIDE DEF short, sooner
  <2>6. \A a \in short : a \in sooner[a]
    BY <2>1, <2>4
  <2>7. \A a, b \in short : a \in sooner[b] \/ b \in sooner[a]
    BY <2>1, <2>2, <2>4
  <2>8. \A a, b \in short : a \in sooner[b] /\ b \in sooner[a] => a = b
    BY <2>1, <2>2, <2>3, <2>4
  <2>9. \A a, b, c \in short : a \in sooner[b] /\ b \in sooner[c] => a \in sooner[c]
    BY <2>1, <2>4
  <2> QED
    BY <2>5, <2>6, <2>7, <2>8, <2>9 DEF Ordering
<1>3. PlanOf(files) = plan
  BY DEF PlanOf, Sooner, Place
<1> HIDE DEF short, sooner
<1>4. \A i \in 1 .. Cardinality(short) : \E c \in short : Cardinality(sooner[c]) = i
  BY <1>1, <1>2, EveryRankIsTaken
<1>5. \A i \in 1 .. Cardinality(short) : plan[i] \in short /\ Cardinality(sooner[plan[i]]) = i
  BY <1>4 DEF sooner
<1>6. plan \in Seq((DOMAIN files) \X Int) /\ Len(plan) = Cardinality(short)
  <2>1. plan \in [1 .. Cardinality(short) -> (DOMAIN files) \X Int]
    BY <1>1, <1>5
  <2> HIDE DEF plan
  <2> QED
    BY <1>1, <2>1
<1>7. ASSUME NEW c \in short PROVE \E i \in 1 .. Len(plan) : plan[i] = c
  <2>1. Cardinality(sooner[c]) \in 1 .. Cardinality(short)
    BY <1>1, <1>2, RankIsAPlace
  <2>2. plan[Cardinality(sooner[c])] = c
    BY <1>1, <1>2, <1>5, <2>1, RankIsItsOwn
  <2> QED
    BY <1>6, <2>1, <2>2
<1> QED
  BY <1>3, <1>6, <1>7 DEF short

(* A bar the corpus lacks makes its session short.                          *)
LEMMA LackingIsShort ==
  ASSUME NEW files, SentFiles(files), NEW n \in DOMAIN files, NEW t \in BarsIn(files[n]),
         <<n, t>> \notin DOMAIN seeded
  PROVE  <<n, SessionOf(t)>> \in ShortOf(files)
<1> DEFINE d == SessionOf(t)
           had == {x \in TicksOf(d) : <<n, x>> \in DOMAIN seeded}
<1>1. t \in Int
  BY SamplesAssumption DEF BarsIn, SentFiles
<1>2. d \in Covered(files)
  BY ShortIsFinite DEF SentFiles
<1>3. PICK other : TicksOf(d) = {t, other}
  <2>1. t = 2 * d \/ t = 2 * d + 1
    BY <1>1 DEF SessionOf
  <2> QED
    BY <2>1 DEF TicksOf
<1>4. had \in SUBSET {other}
  BY <1>3
<1>5. Cardinality(had) <= 1 /\ Cardinality(had) \in Nat
  <2>1. IsFiniteSet({other}) /\ Cardinality({other}) = 1
    BY FS_Singleton
  <2> HIDE DEF had
  <2>2. IsFiniteSet(had) /\ Cardinality(had) <= Cardinality({other})
    BY <1>4, <2>1, FS_Subset
  <2> QED
    BY <2>1, <2>2, FS_CardinalityType
<1>6. HeldOf(n, d) < 2
  <2>1. HeldOf(n, d) = Cardinality(had)
    BY DEF HeldOf
  <2> HIDE DEF had
  <2> QED
    BY <1>5, <2>1
<1> QED
  BY <1>2, <1>6 DEF ShortOf
-----------------------------------------------------------------------------
(* The samples of the seed vendors. *)

Sent == FirstTick .. LastTick
FolderShape == [made : BOOLEAN, files : [Names -> Sent \cup {0}], manifest : [Names -> Sent \cup {0}]]

FoldersInv ==
  /\ tick \in Sent
  /\ folders \in [Sessions -> FolderShape]
  /\ \A d \in Sessions : ~folders[d].made => folders[d] = NoFolder
  /\ \A d \in Sessions, n \in Names : folders[d].manifest[n] \in {0, folders[d].files[n]}

(* A name is taken from the request on, or looked at when the file is to   *)
(* be written; and what is entered is what was stored.                     *)
FetchInv ==
  /\ fetching \in [phase : {"none", "asking", "storing", "listing"}, day : Int, todo : Seq(Names), data : Int]
  /\ fetching.phase # "none" => fetching.day \in Sessions
  /\ fetching.phase \in {"storing", "listing"} => fetching.todo # <<>> /\ fetching.data \in Sent
  /\ fetching.phase = "storing" /\ ReservedFirst => Free(fetching.day, Head(fetching.todo))
  /\ fetching.phase = "listing" =>
       /\ folders[fetching.day].made
       /\ folders[fetching.day].files[Head(fetching.todo)] = fetching.data

Kept(n, file) == \E d \in Sessions : folders[d].files[n] = file

SeededInv ==
  \A bar \in DOMAIN seeded :
    /\ bar = <<bar[1], bar[2]>> /\ bar[1] \in Names
    /\ seeded[bar] \in Sent /\ bar[2] \in BarsIn(seeded[bar])
    /\ Kept(bar[1], seeded[bar])

(* What an ingest has yet to look at is in its plan. *)
IngestInv ==
  /\ ingesting = [files |-> ingesting.files, todo |-> ingesting.todo]
  /\ SentFiles(ingesting.files)
  /\ \A n \in DOMAIN ingesting.files : Kept(n, ingesting.files[n])
  /\ ingesting.todo \in Seq((DOMAIN ingesting.files) \X Int)
  /\ \A n \in DOMAIN ingesting.files : \A t \in BarsIn(ingesting.files[n]) :
       \/ <<n, t>> \in DOMAIN seeded
       \/ \E i \in 1 .. Len(ingesting.todo) : ingesting.todo[i] = <<n, SessionOf(t)>>

SamplesInv == FoldersInv /\ FetchInv /\ SeededInv /\ IngestInv

LEMMA SamplesInvIsEnough == SamplesInv => SamplesAreKept
<1> SUFFICES ASSUME SamplesInv PROVE SamplesAreKept
  OBVIOUS
<1>1. SeedsTypeOK
  BY DEF SamplesInv, FoldersInv, FetchInv, SeededInv, SeedsTypeOK, Sent
<1>2. RowsHaveTheirFile
  BY DEF SamplesInv, FoldersInv, SeededInv, RowsHaveTheirFile, Kept
<1>3. IngestTakesTheSnapshot
  <2> SUFFICES ASSUME ingesting.todo = <<>>,
                      NEW n \in DOMAIN ingesting.files, NEW t \in BarsIn(ingesting.files[n])
               PROVE  <<n, t>> \in DOMAIN seeded
    BY DEF IngestTakesTheSnapshot
  <2>1. Len(ingesting.todo) = 0
    OBVIOUS
  <2>2. ~\E i \in 1 .. Len(ingesting.todo) : ingesting.todo[i] = <<n, SessionOf(t)>>
    BY <2>1
  <2> QED
    BY <2>2 DEF SamplesInv, IngestInv
<1> QED
  BY <1>1, <1>2, <1>3 DEF SamplesAreKept

LEMMA DaysAreSessions == ASSUME NEW t \in Sent PROVE SessionOf(t) \in Sessions /\ t \in Nat \ {0}
BY SamplesAssumption DEF Sent, SessionOf, Sessions

LEMMA SamplesInit == Init => SamplesInv
<1> SUFFICES ASSUME Init PROVE SamplesInv
  OBVIOUS
<1>1. SeedsInit
  BY DEF Init
<1>2. NoFolder \in FolderShape
  BY DEF NoFolder, FolderShape
<1>3. FoldersInv
  BY <1>1, <1>2, SamplesAssumption DEF SeedsInit, FoldersInv, Sent, NoFolder
<1>4. FetchInv
  <2>1. <<>> \in Seq(Names)
    OBVIOUS
  <2> QED
    BY <1>1, <2>1 DEF SeedsInit, FetchInv, NoFetch
<1>5. SeededInv
  BY <1>1 DEF SeedsInit, SeededInv, NoBar
<1>6. IngestInv
  <2>1. /\ ingesting.files = [n \in {} |-> 0] /\ ingesting.todo = <<>>
        /\ ingesting = [files |-> ingesting.files, todo |-> ingesting.todo]
    BY <1>1 DEF SeedsInit, NoIngest
  <2>2. DOMAIN ingesting.files = {} /\ ingesting.todo \in Seq((DOMAIN ingesting.files) \X Int)
    BY <2>1
  <2> QED
    BY <2>1, <2>2 DEF IngestInv, SentFiles
<1> QED
  BY <1>3, <1>4, <1>5, <1>6 DEF SamplesInv

(* What was stored is never stored again, so nothing that came of it is     *)
(* left without it.                                                         *)
FilesAreKept == \A d \in Sessions, n \in Names : folders[d].files[n] # 0 => folders'[d].files[n] = folders[d].files[n]

LEMMA KeptIsKept ==
  ASSUME FilesAreKept, NEW n \in Names, NEW file \in Sent, Kept(n, file)
  PROVE  Kept(n, file)'
BY DaysAreSessions DEF FilesAreKept, Kept

LEMMA CorpusIsKept ==
  ASSUME SamplesInv, FilesAreKept, UNCHANGED <<seeded, ingesting>>
  PROVE  SeededInv' /\ IngestInv'
<1>1. SeededInv'
  <2> SUFFICES ASSUME NEW bar \in DOMAIN seeded
               PROVE  /\ bar = <<bar[1], bar[2]>> /\ bar[1] \in Names
                      /\ seeded[bar] \in Sent /\ bar[2] \in BarsIn(seeded[bar])
                      /\ Kept(bar[1], seeded[bar])'
    BY DEF SeededInv, Kept
  <2>1. /\ bar = <<bar[1], bar[2]>> /\ bar[1] \in Names
        /\ seeded[bar] \in Sent /\ bar[2] \in BarsIn(seeded[bar])
        /\ Kept(bar[1], seeded[bar])
    BY DEF SamplesInv, SeededInv
  <2>2. \E d \in Sessions : folders'[d].files[bar[1]] = seeded[bar]
    BY <2>1, DaysAreSessions DEF FilesAreKept, Kept
  <2> QED
    BY <2>1, <2>2 DEF Kept
<1>2. IngestInv'
  <2>1. ASSUME NEW n \in DOMAIN ingesting.files
        PROVE  \E d \in Sessions : folders'[d].files[n] = ingesting.files[n]
    <3>1. n \in Names /\ ingesting.files[n] \in Sent /\ Kept(n, ingesting.files[n])
      BY DEF SamplesInv, IngestInv, SentFiles, Sent
    <3> QED
      BY <3>1, DaysAreSessions DEF FilesAreKept, Kept
  <2> QED
    BY <2>1 DEF SamplesInv, IngestInv, Kept, SentFiles
<1> QED
  BY <1>1, <1>2

LEMMA FetchStep ==
  ASSUME SamplesInv,
         TimePasses \/ BeginSeedFetch \/ Ask \/ Overwrites \/ Store \/ Enter \/ FetchOver
  PROVE  SamplesInv'
<1> DEFINE day == fetching.day
           name == Head(fetching.todo)
           data == fetching.data
<1>1. /\ fetching \in [phase : {"none", "asking", "storing", "listing"}, day : Int, todo : Seq(Names), data : Int]
      /\ folders \in [Sessions -> FolderShape] /\ tick \in Sent
  BY DEF SamplesInv, FetchInv, FoldersInv
<1>2. fetching.phase # "none" /\ fetching.todo # <<>> =>
        day \in Sessions /\ name \in Names /\ Tail(fetching.todo) \in Seq(Names)
  BY <1>1 DEF SamplesInv, FetchInv
<1>3. NoFetch \in [phase : {"none", "asking", "storing", "listing"}, day : Int, todo : Seq(Names), data : Int]
      /\ NoFetch.phase = "none"
  BY DEF NoFetch
<1>4. UNCHANGED <<vendor, seeded, ingesting>>
  BY DEF TimePasses, BeginSeedFetch, Ask, Overwrites, Store, Enter, FetchOver
<1>5. ASSUME UNCHANGED <<folders, tick>> PROVE FoldersInv' /\ FilesAreKept
  BY <1>5 DEF SamplesInv, FoldersInv, FilesAreKept
<1>6. ASSUME fetching' = NoFetch PROVE FetchInv'
  BY <1>3, <1>6 DEF FetchInv
<1>7. ASSUME FoldersInv', FilesAreKept, FetchInv' PROVE SamplesInv'
  BY <1>4, <1>7, CorpusIsKept DEF SamplesInv
<1>8. CASE TimePasses
  <2>1. FoldersInv'
    BY <1>8, SamplesAssumption DEF TimePasses, SamplesInv, FoldersInv, Sent
  <2>2. FilesAreKept /\ FetchInv'
    BY <1>8 DEF TimePasses, SamplesInv, FetchInv, FilesAreKept, Free, ReservedFirst
  <2> QED
    BY <1>7, <2>1, <2>2
<1>9. CASE BeginSeedFetch
  <2>1. PICK links \in Links(vendor) :
          fetching' = [phase |-> "asking", day |-> SessionOf(tick), todo |-> links, data |-> 0]
    BY <1>9 DEF BeginSeedFetch
  <2>2. links \in Seq(Names)
    <3>1. CASE vendor = "firstrate"
      BY <2>1, <3>1, SamplesAssumption DEF Links
    <3>2. CASE vendor # "firstrate"
      <4>1. PICK linked \in SUBSET Names : links \in [1 .. Cardinality(linked) -> linked]
        BY <2>1, <3>2 DEF Links, SetToSeqs
      <4>2. IsFiniteSet(linked)
        BY NamesAreFinite, FS_Subset
      <4>3. Cardinality(linked) \in Nat
        BY <4>2, FS_CardinalityType
      <4>4. links \in [1 .. Cardinality(linked) -> Names]
        BY <4>1
      <4> QED
        BY <4>3, <4>4
    <3> QED
      BY <3>1, <3>2
  <2>3. SessionOf(tick) \in Sessions /\ SessionOf(tick) \in Int
    BY <1>1, DaysAreSessions, SamplesAssumption DEF Sessions, SessionOf
  <2>4. FetchInv'
    BY <2>1, <2>2, <2>3 DEF FetchInv
  <2> QED
    BY <1>5, <1>7, <1>9, <2>4 DEF BeginSeedFetch
<1>10. CASE Ask
  <2>1. /\ fetching.phase = "asking" /\ fetching.todo # <<>> /\ UNCHANGED tick
        /\ folders' = IF ReservedFirst THEN Made(day) ELSE folders
        /\ ReservedFirst => Free(day, name)
    BY <1>10 DEF Ask
  <2>2. day \in Sessions /\ name \in Names
    BY <1>2, <2>1
  <2>3. \A d \in Sessions : /\ folders'[d].files = folders[d].files
                            /\ folders'[d].manifest = folders[d].manifest
                            /\ folders'[d].made \in BOOLEAN
                            /\ folders'[d].made \/ folders'[d] = folders[d]
    BY <1>1, <2>1, <2>2 DEF Made, FolderShape
  <2>4. folders' \in [Sessions -> FolderShape]
    BY <1>1, <2>1, <2>2 DEF Made, FolderShape
  <2>5. FoldersInv' /\ FilesAreKept
    BY <2>1, <2>3, <2>4 DEF SamplesInv, FoldersInv, FilesAreKept
  <2>6. FetchInv'
    <3>1. CASE fetching' = NoFetch
      BY <1>6, <3>1
    <3>2. CASE fetching' = [fetching EXCEPT !.phase = "storing", !.data = tick]
      <4>1. /\ fetching' \in [phase : {"none", "asking", "storing", "listing"}, day : Int, todo : Seq(Names), data : Int]
            /\ fetching'.phase = "storing" /\ fetching'.data = tick
            /\ fetching'.day = day /\ fetching'.todo = fetching.todo
        <5>1. tick \in Int
          BY <1>1, DaysAreSessions
        <5>2. fetching' = [phase |-> "storing", day |-> day, todo |-> fetching.todo, data |-> tick]
          BY <1>1, <3>2
        <5> QED
          BY <1>1, <5>1, <5>2
      <4>2. ReservedFirst => folders'[day].files[name] = 0
        BY <2>1, <2>2, <2>3 DEF Free
      <4>3. ReservedFirst' = ReservedFirst
        BY <1>4 DEF ReservedFirst
      <4> QED
        BY <1>1, <2>1, <2>2, <4>1, <4>2, <4>3 DEF FetchInv, Free
    <3> QED
      BY <1>10, <3>1, <3>2 DEF Ask
  <2> QED
    BY <1>7, <2>5, <2>6
<1>11. CASE Overwrites \/ FetchOver
  BY <1>5, <1>6, <1>7, <1>11 DEF Overwrites, FetchOver
<1>12. CASE Store
  <2>1. /\ fetching.phase = "storing" /\ UNCHANGED tick
        /\ folders' = [Made(day) EXCEPT ![day].files[name] = data]
        /\ fetching' = [fetching EXCEPT !.phase = "listing"]
    BY <1>12 DEF Store
  <2>2. fetching.todo # <<>> /\ data \in Sent /\ day \in Sessions /\ name \in Names
    BY <1>2, <2>1 DEF SamplesInv, FetchInv
  <2>3. folders[day].files[name] = 0 /\ folders[day].manifest[name] = 0
    <3>1. Free(day, name)
      BY <1>12 DEF Store, SamplesInv, FetchInv
    <3> QED
      BY <2>2, <3>1 DEF Free, SamplesInv, FoldersInv
  <2>4. \A d \in Sessions : d # day => folders'[d] = folders[d]
    BY <1>1, <2>1, <2>2 DEF Made
  <2>5. folders'[day] = [made |-> TRUE, files |-> [folders[day].files EXCEPT ![name] = data],
                         manifest |-> folders[day].manifest]
    BY <1>1, <2>1, <2>2 DEF Made, FolderShape
  <2>6. folders' \in [Sessions -> FolderShape]
    <3>1. folders[day] \in FolderShape
      BY <1>1, <2>2
    <3>2. folders'[day] \in FolderShape
      BY <2>2, <2>5, <3>1 DEF FolderShape
    <3>3. folders' = [d \in Sessions |-> folders'[d]]
      BY <1>1, <2>1 DEF Made
    <3> QED
      BY <1>1, <2>4, <3>2, <3>3
  <2>7. folders'[day].files \in [Names -> Sent \cup {0}] /\ folders[day].files \in [Names -> Sent \cup {0}]
    BY <1>1, <2>2, <2>6 DEF FolderShape
  <2>8. /\ folders'[day].files[name] = data
        /\ \A n \in Names : n # name => folders'[day].files[n] = folders[day].files[n]
    BY <2>2, <2>5, <2>7
  <2>9. FilesAreKept
    BY <2>3, <2>4, <2>8 DEF FilesAreKept
  <2>10. \A d \in Sessions, n \in Names : folders'[d].manifest[n] \in {0, folders'[d].files[n]}
    <3>1. \A d \in Sessions, n \in Names : folders[d].manifest[n] \in {0, folders[d].files[n]}
      BY DEF SamplesInv, FoldersInv
    <3>2. folders'[day].manifest = folders[day].manifest
      BY <2>5
    <3> QED
      BY <2>3, <2>4, <2>8, <3>1, <3>2
  <2>11. FoldersInv'
    <3>1. tick' \in Sent
      BY <2>1 DEF SamplesInv, FoldersInv
    <3>2. \A d \in Sessions : ~folders'[d].made => folders'[d] = NoFolder
      <4>1. \A d \in Sessions : ~folders[d].made => folders[d] = NoFolder
        BY DEF SamplesInv, FoldersInv
      <4>2. folders'[day].made
        BY <2>5
      <4> QED
        BY <2>4, <4>1, <4>2
    <3> QED
      BY <2>6, <2>10, <3>1, <3>2 DEF FoldersInv
  <2>12. FetchInv'
    <3>1. /\ fetching' \in [phase : {"none", "asking", "storing", "listing"}, day : Int, todo : Seq(Names), data : Int]
          /\ fetching'.phase = "listing" /\ fetching'.data = data
          /\ fetching'.day = day /\ fetching'.todo = fetching.todo
      BY <1>1, <2>1
    <3>2. folders'[day].made
      BY <2>5
    <3>3. /\ fetching'.todo # <<>> /\ fetching'.data \in Sent /\ fetching'.day \in Sessions
          /\ folders'[fetching'.day].made /\ folders'[fetching'.day].files[Head(fetching'.todo)] = fetching'.data
      BY <2>2, <2>8, <3>1, <3>2
    <3> HIDE DEF day, name, data
    <3> QED
      BY <3>1, <3>3 DEF FetchInv
  <2> QED
    BY <1>7, <2>9, <2>11, <2>12
<1>13. CASE Enter
  <2>1. /\ fetching.phase = "listing" /\ UNCHANGED tick
        /\ folders' = [folders EXCEPT ![day].manifest[name] = data]
        /\ fetching' = [fetching EXCEPT !.phase = "asking", !.todo = Tail(fetching.todo)]
    BY <1>13 DEF Enter
  <2>2. /\ fetching.todo # <<>> /\ data \in Sent /\ day \in Sessions /\ name \in Names
        /\ folders[day].made /\ folders[day].files[name] = data /\ Tail(fetching.todo) \in Seq(Names)
    BY <1>2, <2>1 DEF SamplesInv, FetchInv
  <2>3. \A d \in Sessions : d # day => folders'[d] = folders[d]
    BY <1>1, <2>1, <2>2
  <2>4. folders'[day] = [made |-> TRUE, files |-> folders[day].files,
                         manifest |-> [folders[day].manifest EXCEPT ![name] = data]]
    BY <1>1, <2>1, <2>2 DEF FolderShape
  <2>5. folders' \in [Sessions -> FolderShape]
    <3>1. folders[day] \in FolderShape
      BY <1>1, <2>2
    <3>2. folders'[day] \in FolderShape
      BY <2>2, <2>4, <3>1 DEF FolderShape
    <3>3. folders' = [d \in Sessions |-> folders'[d]]
      BY <1>1, <2>1
    <3> QED
      BY <1>1, <2>3, <3>2, <3>3
  <2>6. FilesAreKept
    BY <2>3, <2>4 DEF FilesAreKept
  <2>7. \A d \in Sessions, n \in Names : folders'[d].manifest[n] \in {0, folders'[d].files[n]}
    <3>1. \A d \in Sessions, n \in Names : folders[d].manifest[n] \in {0, folders[d].files[n]}
      BY DEF SamplesInv, FoldersInv
    <3>2. folders[day].manifest \in [Names -> Sent \cup {0}]
      BY <1>1, <2>2 DEF FolderShape
    <3>3. \A n \in Names : folders'[day].manifest[n] = IF n = name THEN data ELSE folders[day].manifest[n]
      BY <2>4, <3>2
    <3>4. folders'[day].files = folders[day].files
      BY <2>4
    <3> QED
      BY <2>2, <2>3, <3>1, <3>3, <3>4
  <2>8. FoldersInv'
    BY <2>1, <2>3, <2>4, <2>5, <2>7 DEF SamplesInv, FoldersInv
  <2>9. FetchInv'
    <3>1. /\ fetching' \in [phase : {"none", "asking", "storing", "listing"}, day : Int, todo : Seq(Names), data : Int]
          /\ fetching'.phase = "asking" /\ fetching'.day = day
      BY <1>1, <2>1, <2>2
    <3> QED
      BY <2>2, <3>1 DEF FetchInv
  <2> QED
    BY <1>7, <2>6, <2>8, <2>9
<1> QED
  BY <1>8, <1>9, <1>10, <1>11, <1>12, <1>13

LEMMA BeginIngestStep == ASSUME SamplesInv, NEW day \in Sessions, BeginIngest(day) PROVE SamplesInv'
<1> DEFINE files == Present(folders[day])
<1>1. /\ ingesting' = [files |-> files, todo |-> PlanOf(files)]
      /\ UNCHANGED <<vendor, tick, folders, fetching, seeded>>
  BY DEF BeginIngest
<1>2. FoldersInv' /\ FetchInv' /\ SeededInv'
  BY <1>1 DEF SamplesInv, FoldersInv, FetchInv, SeededInv, Kept, Free, ReservedFirst
<1>3. /\ DOMAIN files = {m \in Names : folders[day].files[m] # 0}
      /\ \A n \in DOMAIN files : files[n] = folders[day].files[n]
  BY DEF Present
<1>4. folders[day] \in FolderShape
  BY DEF SamplesInv, FoldersInv
<1> HIDE DEF files
<1>5. SentFiles(files)
  BY <1>3, <1>4 DEF SentFiles, FolderShape, Sent
<1>6. \A n \in DOMAIN files : \E d \in Sessions : folders'[d].files[n] = files[n]
  BY <1>1, <1>3
<1>7. PlanOf(files) \in Seq((DOMAIN files) \X Int)
  BY <1>5, PlanTakesAll
<1>8. \A n \in DOMAIN files : \A t \in BarsIn(files[n]) :
        \/ <<n, t>> \in DOMAIN seeded
        \/ \E i \in 1 .. Len(PlanOf(files)) : PlanOf(files)[i] = <<n, SessionOf(t)>>
  BY <1>5, PlanTakesAll, LackingIsShort
<1>9. ingesting'.files = files /\ ingesting'.todo = PlanOf(files)
  BY <1>1
<1>10. IngestInv'
  <2>1. ingesting' = [files |-> ingesting'.files, todo |-> ingesting'.todo]
    BY <1>1
  <2> QED
    BY <1>1, <1>5, <1>6, <1>7, <1>8, <1>9, <2>1 DEF IngestInv, Kept, SentFiles
<1> QED
  BY <1>2, <1>10 DEF SamplesInv

LEMMA IngestOneStep == ASSUME SamplesInv, IngestOne PROVE SamplesInv'
<1> DEFINE cell == Head(ingesting.todo)
           n == cell[1]
           file == ingesting.files[n]
           found == {<<n, t>> : t \in TicksOf(cell[2]) \cap BarsIn(file)}
           rest == Tail(ingesting.todo)
<1>1. /\ ingesting.todo # <<>>
      /\ seeded' = [bar \in DOMAIN seeded \cup found |-> IF bar \in DOMAIN seeded THEN seeded[bar] ELSE file]
      /\ ingesting' = [ingesting EXCEPT !.todo = rest]
      /\ UNCHANGED <<vendor, tick, folders, fetching>>
  BY DEF IngestOne
<1>2. FoldersInv' /\ FetchInv'
  BY <1>1 DEF SamplesInv, FoldersInv, FetchInv, Free, ReservedFirst
<1>3. /\ ingesting.todo \in Seq((DOMAIN ingesting.files) \X Int) /\ SentFiles(ingesting.files)
      /\ ingesting = [files |-> ingesting.files, todo |-> ingesting.todo]
  BY DEF SamplesInv, IngestInv
<1>4. /\ cell \in (DOMAIN ingesting.files) \X Int /\ rest \in Seq((DOMAIN ingesting.files) \X Int)
      /\ Len(rest) = Len(ingesting.todo) - 1 /\ \A i \in 1 .. Len(rest) : rest[i] = ingesting.todo[i + 1]
      /\ Len(ingesting.todo) \in Nat /\ ingesting.todo[1] = cell
  <2> DEFINE S == (DOMAIN ingesting.files) \X Int
  <2> HIDE DEF S
  <2>1. ingesting.todo \in Seq(S)
    BY <1>3 DEF S
  <2>2. /\ cell \in S /\ rest \in Seq(S)
        /\ Len(rest) = Len(ingesting.todo) - 1 /\ \A i \in 1 .. Len(rest) : rest[i] = ingesting.todo[i + 1]
        /\ Len(ingesting.todo) \in Nat /\ ingesting.todo[1] = cell
    BY <1>1, <2>1
  <2> QED
    BY <2>2 DEF S
<1>5. n \in DOMAIN ingesting.files /\ n \in Names /\ file \in Sent /\ Kept(n, file) /\ cell = <<n, cell[2]>> /\ cell[2] \in Int
  BY <1>3, <1>4 DEF SamplesInv, IngestInv, SentFiles, Sent
<1>6. ingesting'.files = ingesting.files /\ ingesting'.todo = rest
      /\ ingesting' = [files |-> ingesting'.files, todo |-> ingesting'.todo]
  BY <1>1, <1>3
<1>7. /\ DOMAIN seeded' = DOMAIN seeded \cup found
      /\ \A bar \in DOMAIN seeded : seeded'[bar] = seeded[bar]
      /\ \A bar \in found : bar \notin DOMAIN seeded => seeded'[bar] = file
      /\ \A bar \in found : bar = <<n, bar[2]>> /\ bar[1] = n /\ bar[2] \in BarsIn(file)
      /\ \A t \in TicksOf(cell[2]) \cap BarsIn(file) : <<n, t>> \in found
  <2>1. /\ DOMAIN seeded' = DOMAIN seeded \cup found
        /\ \A bar \in DOMAIN seeded : seeded'[bar] = seeded[bar]
        /\ \A bar \in found : bar \notin DOMAIN seeded => seeded'[bar] = file
    BY <1>1
  <2>2. \A bar \in found : bar = <<n, bar[2]>> /\ bar[1] = n /\ bar[2] \in BarsIn(file)
    OBVIOUS
  <2>3. \A t \in TicksOf(cell[2]) \cap BarsIn(file) : <<n, t>> \in found
    OBVIOUS
  <2> QED
    BY <2>1, <2>2, <2>3
<1> HIDE DEF found, rest, cell, n, file
<1>8. \A m, x : Kept(m, x)' <=> Kept(m, x)
  BY <1>1 DEF Kept
<1>9. SeededInv'
  <2> SUFFICES ASSUME NEW bar \in DOMAIN seeded'
               PROVE  /\ bar = <<bar[1], bar[2]>> /\ bar[1] \in Names
                      /\ seeded'[bar] \in Sent /\ bar[2] \in BarsIn(seeded'[bar])
                      /\ \E d \in Sessions : folders'[d].files[bar[1]] = seeded'[bar]
    BY DEF SeededInv, Kept
  <2>1. CASE bar \in DOMAIN seeded
    <3>1. /\ bar = <<bar[1], bar[2]>> /\ bar[1] \in Names
          /\ seeded[bar] \in Sent /\ bar[2] \in BarsIn(seeded[bar])
          /\ Kept(bar[1], seeded[bar])
      BY <2>1 DEF SamplesInv, SeededInv
    <3> QED
      BY <1>1, <1>7, <2>1, <3>1 DEF Kept
  <2>2. CASE bar \notin DOMAIN seeded
    <3>1. /\ seeded'[bar] = file /\ bar[1] = n /\ bar[2] \in BarsIn(file) /\ bar = <<bar[1], bar[2]>>
      BY <1>7, <2>2
    <3> QED
      BY <1>1, <1>5, <3>1 DEF Kept
  <2> QED
    BY <2>1, <2>2
<1>10. IngestInv'
  <2>1. ASSUME NEW m \in DOMAIN ingesting.files, NEW t \in BarsIn(ingesting.files[m])
        PROVE  \/ <<m, t>> \in DOMAIN seeded'
               \/ \E i \in 1 .. Len(rest) : rest[i] = <<m, SessionOf(t)>>
    <3>1. \/ <<m, t>> \in DOMAIN seeded
          \/ \E i \in 1 .. Len(ingesting.todo) : ingesting.todo[i] = <<m, SessionOf(t)>>
      BY DEF SamplesInv, IngestInv
    <3>2. ASSUME NEW i \in 1 .. Len(ingesting.todo), ingesting.todo[i] = <<m, SessionOf(t)>>, i # 1
          PROVE  \E j \in 1 .. Len(rest) : rest[j] = <<m, SessionOf(t)>>
      <4>1. i - 1 \in 1 .. Len(rest) /\ rest[i - 1] = ingesting.todo[i]
        BY <1>4, <3>2
      <4> QED
        BY <3>2, <4>1
    <3>3. ASSUME cell = <<m, SessionOf(t)>> PROVE <<m, t>> \in DOMAIN seeded'
      <4>1. m = n /\ SessionOf(t) = cell[2] /\ ingesting.files[m] = file
        BY <1>5, <3>3 DEF n, file
      <4>2. t \in Int
        BY <1>3, SamplesAssumption DEF BarsIn, SentFiles
      <4>3. t \in TicksOf(SessionOf(t))
        <5>1. t = 2 * SessionOf(t) \/ t = 2 * SessionOf(t) + 1
          BY <4>2 DEF SessionOf
        <5> QED
          BY <5>1 DEF TicksOf
      <4> QED
        BY <1>7, <4>1, <4>3
    <3> QED
      BY <1>4, <1>7, <3>1, <3>2, <3>3
  <2>2. \A m \in DOMAIN ingesting.files : Kept(m, ingesting.files[m])'
    BY <1>1 DEF SamplesInv, IngestInv, Kept
  <2> QED
    BY <1>3, <1>4, <1>6, <2>1, <2>2 DEF IngestInv, SentFiles, Kept
<1> QED
  BY <1>2, <1>9, <1>10 DEF SamplesInv

LEMMA SamplesStep == ASSUME SamplesInv, [Next]_vars PROVE SamplesInv'
<1>1. CASE FetchesSamples
  BY <1>1, FetchStep DEF FetchesSamples
<1>2. CASE IngestsSamples
  <2>1. ASSUME ingesting' = NoIngest, UNCHANGED <<vendor, tick, folders, fetching, seeded>> PROVE SamplesInv'
    <3>1. FoldersInv' /\ FetchInv' /\ SeededInv'
      BY <2>1 DEF SamplesInv, FoldersInv, FetchInv, SeededInv, Kept, Free, ReservedFirst
    <3>2. /\ NoIngest.files = [n \in {} |-> 0] /\ NoIngest.todo = <<>>
          /\ NoIngest = [files |-> NoIngest.files, todo |-> NoIngest.todo]
      BY DEF NoIngest
    <3>3. DOMAIN NoIngest.files = {} /\ NoIngest.todo \in Seq((DOMAIN NoIngest.files) \X Int)
      BY <3>2
    <3>4. IngestInv'
      BY <2>1, <3>2, <3>3 DEF IngestInv, SentFiles
    <3> QED
      BY <3>1, <3>4 DEF SamplesInv
  <2>2. CASE IngestDone \/ DieIngesting
    BY <2>1, <2>2 DEF IngestDone, DieIngesting
  <2> QED
    BY <1>2, <2>2, BeginIngestStep, IngestOneStep DEF IngestsSamples
<1>3. CASE UNCHANGED seedVars
  <2>1. FoldersInv' /\ FetchInv' /\ SeededInv'
    BY <1>3 DEF seedVars, SamplesInv, FoldersInv, FetchInv, SeededInv, Kept, Free, ReservedFirst
  <2>2. IngestInv'
    BY ZenonT(60), <1>3 DEF seedVars, SamplesInv, IngestInv, Kept, SentFiles
  <2> QED
    BY <2>1, <2>2 DEF SamplesInv
<1> QED
  BY <1>1, <1>2, <1>3
  DEF Next, vars, FillsToday, DayEnds, FetchesActions, ReadsPrices, ChecksActions, BuildsUniverse, ReadsSectors, AuditsCorpus

(* For every window and every configuration of files, and whatever is      *)
(* asked for twice and killed when: no row of a seeded corpus has lost the *)
(* file it was taken from, no manifest speaks of another file, and an      *)
(* ingest that was not cut short took every bar of its folder              *)
(* (vendor_download.py, cli.py seed ingest).                               *)
THEOREM SamplesAreAlwaysKept == Spec => []SamplesAreKept
<1> QED
  BY SamplesInit, SamplesStep, SamplesInvIsEnough, PTL DEF Spec
-----------------------------------------------------------------------------
(* Sectors. *)

LEMMA AtMostOne ==
  ASSUME NEW S, IsFiniteSet(S)
  PROVE  Cardinality(S) <= 1 <=> \A a, b \in S : a = b
<1>1. ASSUME Cardinality(S) <= 1, NEW a \in S, NEW b \in S, a # b PROVE FALSE
  <2>1. IsFiniteSet({a, b}) /\ Cardinality({a, b}) = 2
    <3>1. IsFiniteSet({a}) /\ Cardinality({a}) = 1
      BY FS_Singleton
    <3>2. {a, b} = {a} \cup {b} /\ b \notin {a}
      BY <1>1
    <3> QED
      BY <3>1, <3>2, FS_AddElement
  <2>2. {a, b} \in SUBSET S
    BY <1>1
  <2>3. Cardinality({a, b}) <= Cardinality(S)
    BY <2>2, FS_Subset
  <2>4. Cardinality(S) \in Nat
    BY FS_CardinalityType
  <2> QED
    BY <1>1, <2>1, <2>3, <2>4
<1>2. ASSUME \A a, b \in S : a = b PROVE Cardinality(S) <= 1
  <2>1. CASE S = {}
    BY <2>1, FS_EmptySet
  <2>2. CASE S # {}
    <3>1. PICK a \in S : TRUE
      BY <2>2
    <3>2. S = {a}
      BY <1>2, <3>1
    <3>3. Cardinality(S) = 1
      BY <3>2, FS_Singleton
    <3> QED
      BY <3>3
  <2> QED
    BY <2>1, <2>2
<1> QED
  BY <1>1, <1>2

Dated(rows) == \A row \in rows : row.from \in Nat /\ row.until \in 0 .. Forever
NeverTwice(rows) ==
  \A a, b \in rows : a.symbol = b.symbol /\ a # b => ~\E d \in 0 .. Forever - 1 : Holds(a, d) /\ Holds(b, d)

(* Only neighbours are compared: that is enough, for the assignment that    *)
(* comes next after a begins no later than any that overlaps it.            *)
LEMMA NeighboursAreEnough ==
  ASSUME NEW rows, Dated(rows), \A row \in rows : WellFormed(row),
         \A a, b \in rows : Neighbours(rows, a, b) => ~Overlap(a, b)
  PROVE  NeverTwice(rows)
<1>1. Forever \in Nat
  BY SectorFilesAssumption
<1>2. ASSUME NEW a \in rows, NEW b \in rows, a.symbol = b.symbol, a # b, a.from <= b.from,
             NEW d \in 0 .. Forever - 1, Holds(a, d), Holds(b, d)
      PROVE  FALSE
  <2>1. b.from < a.until /\ a.from \in Nat /\ b.from \in Nat /\ a.until \in Nat
    BY <1>1, <1>2 DEF Holds, Dated
  <2>2. CASE Neighbours(rows, a, b)
    BY <2>1, <2>2 DEF Overlap
  <2>3. CASE ~Neighbours(rows, a, b)
    <3> DEFINE after == {c \in rows : c.symbol = a.symbol /\ a.from < c.from}
               starts == {c.from : c \in after}
    <3>1. PICK c \in after : c.from < b.from
      BY <1>2, <2>1, <2>3 DEF Neighbours, Later, Dated
    <3>2. starts \in SUBSET Nat /\ starts # {} /\ \A x \in starts : x <= Forever
      <4>1. \A x \in after : x.from \in Nat /\ x.from <= Forever
        BY <1>1 DEF Dated, WellFormed
      <4> QED
        BY <3>1, <4>1
    <3> HIDE DEF starts
    <3>3. IsFiniteSet(starts)
      BY <1>1, <3>2, FS_BoundedSetOfNaturals
    <3>4. starts \in SUBSET Int
      BY <3>2
    <3>5. Min(starts) \in starts /\ \A x \in starts : Min(starts) <= x
      BY <3>2, <3>3, <3>4, EndsOfNumbers
    <3>6. PICK next \in after : next.from = Min(starts)
      BY <3>5 DEF starts
    <3>7. \A x \in after : next.from <= x.from
      BY <3>5, <3>6 DEF starts
    <3>8. next \in rows /\ a.from < next.from /\ next.symbol = a.symbol /\ next.from < b.from
      BY <2>1, <3>1, <3>6, <3>7 DEF Dated
    <3>9. Neighbours(rows, a, next)
      <4>1. Later(a, next)
        BY <2>1, <3>8 DEF Later, Dated
      <4>2. ASSUME NEW e \in rows, Later(a, e), Later(e, next), ~Later(e, a), ~Later(next, e) PROVE FALSE
        <5>1. e.from \in Nat /\ next.from \in Nat
          BY <3>8 DEF Dated
        <5>2. e # a /\ e # next /\ e.symbol = a.symbol
          BY <4>2 DEF Later
        <5>3. a.from < e.from /\ e.from < next.from
          BY <2>1, <3>8, <4>2, <5>1, <5>2 DEF Later
        <5> QED
          BY <3>7, <5>1, <5>2, <5>3
      <4> QED
        BY <4>1, <4>2 DEF Neighbours
    <3> QED
      BY <2>1, <3>8, <3>9 DEF Overlap, Dated
  <2> QED
    BY <2>2, <2>3
<1> QED
  BY <1>2 DEF NeverTwice, Dated

LEMMA OverlapsAreSeen ==
  ASSUME NEW rows, Dated(rows), \A row \in rows : WellFormed(row), NeverTwice(rows),
         NEW a \in rows, NEW b \in rows, Neighbours(rows, a, b)
  PROVE  ~Overlap(a, b)
<1>1. /\ a.symbol = b.symbol /\ a.from <= b.from /\ a # b
      /\ a.from \in Nat /\ b.from \in Nat /\ a.until \in 0 .. Forever /\ b.until \in 0 .. Forever
      /\ a.from < a.until /\ b.from < b.until /\ Forever \in Nat
  BY SectorFilesAssumption DEF Neighbours, Later, Dated, WellFormed
<1>2. ASSUME Overlap(a, b) PROVE Holds(a, b.from) /\ Holds(b, b.from) /\ b.from \in 0 .. Forever - 1
  BY <1>1, <1>2 DEF Overlap, Holds
<1> QED
  BY <1>1, <1>2 DEF NeverTwice

LEMMA SectorsOfAnyFile ==
  ASSUME NEW rows \in SectorFiles
  PROVE  Accepts(rows) <=>
           /\ \A row \in rows : WellFormed(row)
           /\ \A s \in {row.symbol : row \in rows}, d \in 0 .. Forever - 1 :
                Cardinality({row \in rows : row.symbol = s /\ Holds(row, d)}) <= 1
<1>1. IsFiniteSet(rows) /\ Dated(rows)
  BY SectorFilesAssumption DEF Dated
<1> DEFINE on(s, d) == {row \in rows : row.symbol = s /\ Holds(row, d)}
<1>2. \A s, d : Cardinality(on(s, d)) <= 1 <=> \A a, b \in on(s, d) : a = b
  <2>1. \A s, d : on(s, d) \in SUBSET rows
    OBVIOUS
  <2> HIDE DEF on
  <2>2. \A s, d : IsFiniteSet(on(s, d))
    BY <1>1, <2>1, FS_Subset
  <2> QED
    BY <2>2, AtMostOne
<1>3. NeverTwice(rows) <=> \A s \in {row.symbol : row \in rows}, d \in 0 .. Forever - 1 : \A a, b \in on(s, d) : a = b
  BY DEF NeverTwice
<1>4. NeverTwice(rows) <=> \A s \in {row.symbol : row \in rows}, d \in 0 .. Forever - 1 : Cardinality(on(s, d)) <= 1
  <2> HIDE DEF on
  <2> QED
    BY <1>2, <1>3
<1>5. Accepts(rows) <=> (\A row \in rows : WellFormed(row)) /\ NeverTwice(rows)
  BY <1>1, NeighboursAreEnough, OverlapsAreSeen DEF Accepts
<1> QED
  BY <1>4, <1>5
-----------------------------------------------------------------------------
(* The history of the universe. *)

SomeVenueDays == UNION {SessionsOf[v] : v \in Venues}

(* A screen: who was in, on each day some venue trades. *)
AreRows(rows) ==
  /\ rows = [d \in DOMAIN rows |-> rows[d]]
  /\ DOMAIN rows \subseteq Days
  /\ \A d \in DOMAIN rows : rows[d] \subseteq Traded /\ \A s \in rows[d] : d \in SessionDays(s)

ScreenInv ==
  /\ history.state \in {"absent", "torn", "whole"}
  /\ built.writing \in BOOLEAN /\ loaded.given \in BOOLEAN /\ sectors.accepted \in BOOLEAN
  /\ AreRows(built.rows) /\ AreRows(loaded.rows)
  /\ built = [start |-> built.start, end |-> built.end, corpus |-> built.corpus, rows |-> built.rows,
              writing |-> built.writing]
  /\ history.state = "whole" => AreRows(history.digest) /\ Decoded(history.rows) = history.digest
  /\ sectors.file = {} \/ (sectors.file \in SectorFiles /\ sectors.accepted = Accepts(sectors.file))

(* What is written reads back, and a day with no member is still a day.     *)
LEMMA DecodedIsEncoded == ASSUME NEW rows, AreRows(rows) PROVE Decoded(Encoded(rows)) = rows
<1> DEFINE file == Encoded(rows)
           days == {r[1] : r \in file}
<1>1. ASSUME NEW d \in DOMAIN rows PROVE d \in days
  <2>1. CASE rows[d] = {}
    <3>1. <<d, Nobody>> \in file
      BY <2>1 DEF Encoded
    <3> QED
      BY <3>1
  <2>2. CASE rows[d] # {}
    <3>1. PICK s \in rows[d] : s \in Traded
      BY <2>2 DEF AreRows
    <3>2. <<d, s>> \in file
      BY <3>1, NobodyAssumption DEF Encoded
    <3> QED
      BY <3>2
  <2> QED
    BY <2>1, <2>2
<1>2. days = DOMAIN rows
  <2>1. \A d \in days : d \in DOMAIN rows
    BY DEF Encoded
  <2> HIDE DEF days
  <2> QED
    BY <1>1, <2>1
<1>3. \A d \in DOMAIN rows, s \in Traded : <<d, s>> \in file <=> s \in rows[d]
  BY NobodyAssumption DEF Encoded
<1>4. Decoded(file) = [d \in days |-> {s \in Traded : <<d, s>> \in file}]
  BY DEF Decoded
<1> HIDE DEF file, days
<1>5. \A d \in DOMAIN rows : {s \in Traded : <<d, s>> \in file} = rows[d]
  BY <1>3 DEF AreRows
<1>6. Decoded(file) = [d \in DOMAIN rows |-> rows[d]]
  BY <1>2, <1>4, <1>5
<1> QED
  BY <1>6 DEF AreRows, file

LEMMA LatestIsToday == ASSUME NEW rows, AreRows(rows), NEW d \in DOMAIN rows PROVE AsOf(rows, d) = rows[d]
<1> DEFINE upTo == {e \in DOMAIN rows : e <= d}
<1>1. d \in upTo /\ upTo \in SUBSET Int /\ \A e \in upTo : d >= e
  BY DaysAssumption DEF AreRows, Days
<1> HIDE DEF upTo
<1>2. Max(upTo) \in upTo /\ \A e \in upTo : Max(upTo) >= e
  BY <1>1 DEF Max
<1>3. Max(upTo) = d
  BY <1>1, <1>2
<1> QED
  BY <1>3 DEF AsOf, upTo

LEMMA ScreenIsRows == ASSUME NEW start, NEW end PROVE AreRows(Screen(start, end))
<1>1. SomeVenueDays \subseteq Days
  BY DaysAssumption DEF SomeVenueDays, Venues, SessionDays
<1> QED
  BY <1>1 DEF AreRows, Screen, InSession, SomeVenueDays

LEMMA NoRowsIsRows == AreRows(NoRows)
BY DEF AreRows, NoRows

LEMMA ScreenInitInv == ScreenInit => ScreenInv
<1> SUFFICES ASSUME ScreenInit PROVE ScreenInv
  OBVIOUS
<1>1. history.state = "absent" /\ built = NotBuilt /\ loaded = NotLoaded /\ sectors = NoSectors
  BY DEF ScreenInit, NoHistory
<1> QED
  BY <1>1, NoRowsIsRows DEF ScreenInv, NotBuilt, NotLoaded, NoSectors

LEMMA ScreenStep == ASSUME ScreenInv, [Next]_vars PROVE ScreenInv'
<1>1. ASSUME UNCHANGED screenVars PROVE ScreenInv'
  BY <1>1 DEF screenVars, ScreenInv, AreRows
<1>2. ASSUME NEW start \in Starts, Build(start, today) PROVE ScreenInv'
  <2>1. AreRows(Screen(start, today))
    BY ScreenIsRows
  <2>2. /\ built' = [start |-> start, end |-> today, corpus |-> daily, rows |-> Screen(start, today), writing |-> TRUE]
        /\ history'.state = "torn" /\ UNCHANGED <<loaded, sectors>>
    BY <1>2 DEF Build, NoHistory
  <2> HIDE DEF Screen
  <2> QED
    BY <2>1, <2>2 DEF ScreenInv, AreRows
<1>3. CASE FinishBuild
  <2>1. built' = [built EXCEPT !.writing = FALSE] /\ UNCHANGED <<loaded, sectors>>
        /\ history' = [state |-> "whole", rows |-> Encoded(built.rows), digest |-> built.rows]
    BY <1>3 DEF FinishBuild
  <2>2. Decoded(Encoded(built.rows)) = built.rows
    BY DecodedIsEncoded DEF ScreenInv
  <2>3. /\ built'.rows = built.rows /\ built'.writing = FALSE /\ built'.start = built.start
        /\ built'.end = built.end /\ built'.corpus = built.corpus
        /\ history'.state = "whole" /\ history'.digest = built.rows /\ history'.rows = Encoded(built.rows)
        /\ built' = [start |-> built'.start, end |-> built'.end, corpus |-> built'.corpus, rows |-> built'.rows,
                     writing |-> built'.writing]
    BY <2>1 DEF ScreenInv
  <2> QED
    BY <2>1, <2>2, <2>3 DEF ScreenInv, AreRows, Decoded
<1>4. CASE DieBuilding
  <2>1. built' = [built EXCEPT !.writing = FALSE] /\ UNCHANGED <<loaded, sectors, history>>
    BY <1>4 DEF DieBuilding
  <2>2. /\ built'.rows = built.rows /\ built'.writing = FALSE /\ built'.start = built.start
        /\ built'.end = built.end /\ built'.corpus = built.corpus
        /\ built' = [start |-> built'.start, end |-> built'.end, corpus |-> built'.corpus, rows |-> built'.rows,
                     writing |-> built'.writing]
    BY <2>1 DEF ScreenInv
  <2> QED
    BY <2>1, <2>2 DEF ScreenInv, AreRows
<1>5. CASE Load
  <2>1. history.state = "whole" /\ UNCHANGED <<history, built, sectors>>
        /\ loaded' = IF Decoded(history.rows) = history.digest THEN [given |-> TRUE, rows |-> Decoded(history.rows)]
                                                               ELSE NotLoaded
    BY <1>5 DEF Load
  <2>2. loaded' = [given |-> TRUE, rows |-> history.digest] /\ AreRows(history.digest)
    BY <2>1 DEF ScreenInv
  <2> QED
    BY <2>1, <2>2 DEF ScreenInv, AreRows
<1>6. CASE LoadSectors
  <2>1. PICK rows \in SectorFiles : sectors' = [file |-> rows, accepted |-> Accepts(rows)]
    BY <1>6 DEF LoadSectors
  <2>2. Accepts(rows) \in BOOLEAN
    BY DEF Accepts
  <2>3. sectors'.file = rows /\ sectors'.accepted = Accepts(rows) /\ UNCHANGED <<history, built, loaded>>
    BY <1>6, <2>1 DEF LoadSectors
  <2> QED
    BY <2>2, <2>3 DEF ScreenInv, AreRows, Accepts
<1>7. CASE UNCHANGED vars
  BY <1>1, <1>7 DEF vars
<1> QED
  BY <1>1, <1>2, <1>3, <1>4, <1>5, <1>6, <1>7
  DEF Next, FillsToday, DayEnds, FetchesActions, ReadsPrices, ChecksActions, BuildsUniverse, ReadsSectors, AuditsCorpus,
      FetchesSamples, IngestsSamples

LEMMA DailyInitOK == DailyInit => DailyTypeOK
<1> SUFFICES ASSUME DailyInit PROVE DailyTypeOK
  OBVIOUS
<1>1. 1 \in Days /\ today = 1 /\ truth \in Truths
  BY DaysAssumption DEF DailyInit, Days
<1>2. daily \in [Traded -> [Days -> {0}]]
  BY DEF DailyInit
<1>3. daily \in [Traded -> [Days -> 0 .. today]] /\ \A s \in Traded, d \in Days : daily[s][d] = 0
  BY <1>1, <1>2
<1> QED
  BY <1>1, <1>3 DEF DailyTypeOK

LEMMA DailyStep == ASSUME DailyTypeOK, [Next]_vars PROVE DailyTypeOK'
<1>1. CASE UNCHANGED dailyVars
  BY <1>1 DEF dailyVars, DailyTypeOK
<1>2. CASE NextDay
  <2>1. /\ today \in Nat /\ today' = today + 1 /\ today' \in Days /\ truth' = truth /\ daily' = daily
    BY <1>2, DaysAssumption DEF NextDay, DailyTypeOK, Days
  <2>2. \A n \in 0 .. today : n \in 0 .. today'
    BY <2>1
  <2>3. daily \in [Traded -> [Days -> 0 .. today']]
    BY <2>2 DEF DailyTypeOK
  <2> QED
    BY <2>1, <2>3 DEF DailyTypeOK
<1>3. ASSUME NEW s \in Traded, BackfillDaily(s) PROVE DailyTypeOK'
  <2>1. PICK holes : /\ daily' = [daily EXCEPT ![s] = [d \in Days |->
                                    IF daily[s][d] = 0 /\ d \in Matched(s, Rows(s, today, holes)) THEN today ELSE daily[s][d]]]
                     /\ UNCHANGED <<truth, today>>
    BY <1>3 DEF BackfillDaily
  <2> DEFINE came == Matched(s, Rows(s, today, holes))
  <2>2. \A d \in came : d \in SessionDays(s) /\ d <= today
    BY DEF Matched, Rows
  <2> HIDE DEF came
  <2>3. today \in Days /\ today \in 0 .. today
    BY DaysAssumption DEF DailyTypeOK, Days
  <2>4. /\ daily' \in [Traded -> [Days -> 0 .. today]]
        /\ \A r \in Traded : r # s => daily'[r] = daily[r]
        /\ \A d \in Days : daily'[s][d] = IF daily[s][d] = 0 /\ d \in came THEN today ELSE daily[s][d]
    BY <2>1, <2>3 DEF DailyTypeOK, came
  <2>5. \A r \in Traded, d \in Days : daily'[r][d] # 0 => d \in SessionDays(r) /\ d <= daily'[r][d]
    BY <2>2, <2>4 DEF DailyTypeOK
  <2> QED
    BY <2>1, <2>4, <2>5 DEF DailyTypeOK
<1> QED
  BY <1>1, <1>2, <1>3
  DEF Next, vars, FillsToday, DayEnds, FetchesActions, ReadsPrices, ChecksActions, BuildsUniverse, ReadsSectors,
      AuditsCorpus, FetchesSamples, IngestsSamples

(* For every universe, calendar, corpus and file of sectors: who is in the *)
(* universe on a day was screened for that very day, from a file that      *)
(* reads back as it was written, the days with nobody in it included; and  *)
(* a file of sectors is accepted exactly when no instrument is ever in two *)
(* sectors (universe_history_parquet.py, core/universe.py, core/sectors.py).*)
THEOREM AnswersAreAlwaysOfTheirDay == Spec => []AnswersAreOfTheirDay
<1>1. Init => DailyTypeOK /\ ScreenInv
  BY DailyInitOK, ScreenInitInv DEF Init
<1>2. DailyTypeOK /\ ScreenInv /\ [Next]_vars => DailyTypeOK' /\ ScreenInv'
  BY DailyStep, ScreenStep
<1>3. DailyTypeOK /\ ScreenInv => AnswersAreOfTheirDay
  <2> SUFFICES ASSUME DailyTypeOK, ScreenInv PROVE AnswersAreOfTheirDay
    OBVIOUS
  <2>1. ScreenTypeOK
    BY DEF ScreenInv, ScreenTypeOK, AreRows
  <2>2. FinishedFileReadsBack
    BY DEF ScreenInv, FinishedFileReadsBack
  <2>3. NobodyIsCarriedForward
    <3>1. \A d \in DOMAIN loaded.rows : AsOf(loaded.rows, d) = loaded.rows[d]
      BY LatestIsToday DEF ScreenInv
    <3> QED
      BY <3>1 DEF ScreenInv, AreRows, NobodyIsCarriedForward
  <2>4. SectorIsUnique
    BY SectorsOfAnyFile DEF ScreenInv, SectorIsUnique
  <2> QED
    BY <2>1, <2>2, <2>3, <2>4 DEF AnswersAreOfTheirDay, HistoryAnswersForItsDay
<1> QED
  BY <1>1, <1>2, <1>3, PTL DEF Spec
-----------------------------------------------------------------------------
(* What a screen is made of. *)

DaysOf(corpus, s, first, last) == {d \in Days : first <= d /\ d <= last /\ corpus[s][d] # 0}
BarsOf(corpus, s, days) ==
  [i \in 1 .. Cardinality(days) |-> OnBasis(s, InOrderOfDay(days)[i], corpus[s][InOrderOfDay(days)[i]])]

(* The bars a screen of the day looks at, whatever day its corpus ends on.  *)
PastOf(corpus, s, first, d) == BarsOf(corpus, s, DaysOf(corpus, s, first, d - 1))

LEMMA DaysAreFinite == ASSUME NEW days \in SUBSET Days PROVE IsFiniteSet(days) /\ days \in SUBSET Int
<1>1. IsFiniteSet(Days) /\ Days \subseteq Int
  BY DaysAssumption, FS_Interval DEF Days
<1> QED
  BY <1>1, FS_Subset

(* A day's place among the days is the number of them up to it. *)
LEMMA PlaceOfADay ==
  ASSUME NEW days \in SUBSET Days
  PROVE  /\ Cardinality(days) \in Nat
         /\ \A i \in 1 .. Cardinality(days) :
              /\ InOrderOfDay(days)[i] \in days
              /\ Cardinality({e \in days : e <= InOrderOfDay(days)[i]}) = i
         /\ \A d \in days : /\ Cardinality({e \in days : e <= d}) \in 1 .. Cardinality(days)
                            /\ InOrderOfDay(days)[Cardinality({e \in days : e <= d})] = d
<1> DEFINE up == Upward(days)
<1>1. IsFiniteSet(days) /\ days \in SUBSET Int /\ Cardinality(days) \in Nat
  BY DaysAreFinite, FS_CardinalityType
<1>2. Ordering(days, up) /\ \A d \in days : up[d] = {e \in days : e <= d}
  BY <1>1 DEF Ordering, Upward
<1> HIDE DEF up
<1>3. \A i \in 1 .. Cardinality(days) : \E d \in days : Cardinality(up[d]) = i
  BY <1>1, <1>2, EveryRankIsTaken
<1>4. \A i \in 1 .. Cardinality(days) : \E d \in days : Cardinality({e \in days : e <= d}) = i
  BY <1>2, <1>3
<1>5. ASSUME NEW i \in 1 .. Cardinality(days)
      PROVE  InOrderOfDay(days)[i] \in days /\ Cardinality({e \in days : e <= InOrderOfDay(days)[i]}) = i
  <2>1. InOrderOfDay(days)[i] = CHOOSE d \in days : Cardinality({e \in days : e <= d}) = i
    BY DEF InOrderOfDay
  <2> QED
    BY <1>4, <2>1
<1>6. \A d \in days : Cardinality(up[d]) \in 1 .. Cardinality(days)
  BY <1>1, <1>2, RankIsAPlace
<1>7. ASSUME NEW d \in days PROVE InOrderOfDay(days)[Cardinality(up[d])] = d
  <2> DEFINE found == InOrderOfDay(days)[Cardinality(up[d])]
  <2>1. found \in days /\ Cardinality({e \in days : e <= found}) = Cardinality(up[d])
    BY <1>5, <1>6
  <2> HIDE DEF found
  <2>2. Cardinality(up[found]) = Cardinality(up[d])
    BY <1>2, <2>1
  <2>3. found = d
    BY <1>1, <1>2, <2>1, <2>2, RankIsItsOwn
  <2> QED
    BY <2>3 DEF found
<1> QED
  BY <1>1, <1>2, <1>5, <1>6, <1>7

(* The days before one come first, in the order they have by themselves.    *)
LEMMA EarlierDaysComeFirst ==
  ASSUME NEW days \in SUBSET Days, NEW d \in Int, NEW before, before = {e \in days : e < d}
  PROVE  /\ Cardinality(before) \in Nat /\ Cardinality(before) <= Cardinality(days)
         /\ \A i \in 1 .. Cardinality(before) : InOrderOfDay(days)[i] = InOrderOfDay(before)[i]
         /\ \A i \in 1 .. Cardinality(days) : InOrderOfDay(days)[i] < d <=> i <= Cardinality(before)
<1>1. before \in SUBSET Days /\ before \in SUBSET days /\ days \in SUBSET Int /\ IsFiniteSet(days)
  BY DaysAreFinite
<1>2. Cardinality(before) \in Nat /\ Cardinality(before) <= Cardinality(days)
  BY <1>1, PlaceOfADay, FS_Subset
<1>3. ASSUME NEW x \in before PROVE {e \in days : e <= x} = {e \in before : e <= x}
  <2>1. \A e \in days : e <= x => e < d
    BY <1>1
  <2>2. \A e \in days : e <= x => e \in before
    BY <2>1
  <2> QED
    BY <1>1, <2>2
<1>4. ASSUME NEW i \in 1 .. Cardinality(before) PROVE InOrderOfDay(days)[i] = InOrderOfDay(before)[i]
  <2> DEFINE x == InOrderOfDay(before)[i]
  <2>1. x \in before /\ Cardinality({e \in before : e <= x}) = i
    BY <1>1, PlaceOfADay
  <2> HIDE DEF x
  <2>2. Cardinality({e \in days : e <= x}) = i
    BY <1>3, <2>1
  <2>3. InOrderOfDay(days)[Cardinality({e \in days : e <= x})] = x
    BY <1>1, <2>1, PlaceOfADay
  <2> QED
    BY <2>2, <2>3 DEF x
<1>5. ASSUME NEW i \in 1 .. Cardinality(days), InOrderOfDay(days)[i] < d PROVE i <= Cardinality(before)
  <2> DEFINE x == InOrderOfDay(days)[i]
  <2>1. x \in days /\ Cardinality({e \in days : e <= x}) = i
    BY PlaceOfADay
  <2>2. x \in before
    BY <1>5, <2>1
  <2> HIDE DEF x
  <2>3. Cardinality({e \in before : e <= x}) = i
    BY <1>3, <2>1, <2>2
  <2>4. Cardinality({e \in before : e <= x}) \in 1 .. Cardinality(before)
    BY <1>1, <2>2, PlaceOfADay
  <2> QED
    BY <1>2, <2>3, <2>4
<1>6. ASSUME NEW i \in 1 .. Cardinality(days), i <= Cardinality(before) PROVE InOrderOfDay(days)[i] < d
  <2>1. i \in 1 .. Cardinality(before)
    BY <1>2, <1>6
  <2>2. InOrderOfDay(before)[i] \in before
    BY <1>1, <2>1, PlaceOfADay
  <2> QED
    BY <1>4, <2>1, <2>2
<1> QED
  BY <1>2, <1>4, <1>5, <1>6

LEMMA PastIsOfThePast ==
  ASSUME NEW corpus, NEW s, NEW first, NEW last \in Int, NEW d \in Int, d - 1 <= last
  PROVE  Past(BarsOf(corpus, s, DaysOf(corpus, s, first, last)), d) = PastOf(corpus, s, first, d)
<1> DEFINE days == DaysOf(corpus, s, first, last)
           before == DaysOf(corpus, s, first, d - 1)
           bars == BarsOf(corpus, s, days)
           n == Cardinality(before)
<1>1. days \in SUBSET Days /\ before = {e \in days : e < d}
  <2>1. days \in SUBSET Days /\ Days \subseteq Int
    BY DaysAssumption DEF DaysOf, Days
  <2>2. \A e \in Days : e <= d - 1 <=> e <= last /\ e < d
    BY <2>1
  <2> QED
    BY <2>1, <2>2 DEF DaysOf
<1>2. /\ DOMAIN bars = 1 .. Cardinality(days)
      /\ \A i \in 1 .. Cardinality(days) :
           bars[i] = OnBasis(s, InOrderOfDay(days)[i], corpus[s][InOrderOfDay(days)[i]])
  BY DEF BarsOf
<1>3. \A x, basis : OnBasis(s, x, basis).day = x
  BY DEF OnBasis, After
<1>4. PastOf(corpus, s, first, d) =
        [i \in 1 .. n |-> OnBasis(s, InOrderOfDay(before)[i], corpus[s][InOrderOfDay(before)[i]])]
  BY DEF PastOf, BarsOf
<1>5. bars = [i \in 1 .. Cardinality(days) |-> bars[i]]
  BY DEF BarsOf
<1> HIDE DEF days, before, bars
<1>6. /\ n \in Nat /\ n <= Cardinality(days) /\ Cardinality(days) \in Nat
      /\ \A i \in 1 .. n : InOrderOfDay(days)[i] = InOrderOfDay(before)[i]
      /\ \A i \in 1 .. Cardinality(days) : InOrderOfDay(days)[i] < d <=> i <= n
  BY <1>1, EarlierDaysComeFirst, PlaceOfADay
<1>7. {i \in DOMAIN bars : bars[i].day < d} = 1 .. n
  <2>1. \A i \in DOMAIN bars : bars[i].day < d <=> i <= n
    BY <1>2, <1>3, <1>6
  <2> HIDE DEF n
  <2> QED
    BY <1>2, <1>6, <2>1
<1>8. Cardinality(1 .. n) = n
  BY <1>6, FS_Interval
<1>9. Past(bars, d) = SubSeq(bars, 1, n)
  BY <1>7, <1>8 DEF Past
<1>10. SubSeq(bars, 1, n) = [i \in 1 .. n |-> bars[i]]
  <2> DEFINE S == {bars[i] : i \in 1 .. Cardinality(days)}
             len == Cardinality(days)
  <2>1. bars \in [1 .. len -> S]
    BY <1>5
  <2> HIDE DEF S, len, n
  <2>2. len \in Nat /\ n \in Nat /\ n <= len
    BY <1>6 DEF len
  <2>3. bars \in Seq(S) /\ Len(bars) = len
    BY <2>1, <2>2
  <2>4. /\ SubSeq(bars, 1, n) \in Seq(S) /\ Len(SubSeq(bars, 1, n)) = n
        /\ \A i \in 1 .. n : SubSeq(bars, 1, n)[i] = bars[i]
    BY <2>2, <2>3
  <2> QED
    BY <2>4
<1>11. [i \in 1 .. n |-> bars[i]]
         = [i \in 1 .. n |-> OnBasis(s, InOrderOfDay(before)[i], corpus[s][InOrderOfDay(before)[i]])]
  <2>1. \A i \in 1 .. n : bars[i] = OnBasis(s, InOrderOfDay(before)[i], corpus[s][InOrderOfDay(before)[i]])
    BY <1>2, <1>6
  <2> QED
    BY <2>1
<1> QED
  BY <1>4, <1>9, <1>10, <1>11 DEF days, bars

(* Two corpora with the same earlier sessions have the same past.           *)
LEMMA SamePast ==
  ASSUME NEW corpus, NEW other, NEW s, NEW first, NEW d \in Int,
         \A e \in 1 .. d - 1 : corpus[s][e] = other[s][e]
  PROVE  PastOf(corpus, s, first, d) = PastOf(other, s, first, d)
<1> DEFINE days == DaysOf(corpus, s, first, d - 1)
<1>1. \A e \in Days : e <= d - 1 => corpus[s][e] = other[s][e]
  BY DaysAssumption DEF Days
<1>2. days = DaysOf(other, s, first, d - 1)
  BY <1>1 DEF DaysOf
<1>3. \A e \in days : corpus[s][e] = other[s][e] /\ e \in Days
  BY <1>1 DEF DaysOf
<1> HIDE DEF days
<1>4. \A i \in 1 .. Cardinality(days) : corpus[s][InOrderOfDay(days)[i]] = other[s][InOrderOfDay(days)[i]]
  BY <1>3, PlaceOfADay
<1>5. BarsOf(corpus, s, days) = BarsOf(other, s, days)
  BY <1>4 DEF BarsOf
<1> QED
  BY <1>2, <1>5 DEF PastOf, days

PassesOn(s, past) ==
  LET window == SubSeq(past, Len(past) - Lookback + 1, Len(past))
      floor == FloorOf[VenueOf[s]]
  IN /\ Len(past) >= Lookback
     /\ window[Lookback].close >= floor.close
     /\ TwiceMedian([i \in 1 .. Lookback |-> window[i].close * window[i].volume]) >= 2 * floor.value

Eligible(corpus, s, first, d) == InSession(s, d) /\ PassesOn(s, PastOf(corpus, s, first, d))

(* Whatever was built is what the sessions before each of its days made of *)
(* the corpus that the build saw.                                          *)
BuiltInv ==
  \A d \in DOMAIN built.rows :
    /\ d \in Int
    /\ \A s \in Traded : s \in built.rows[d] <=> Eligible(built.corpus, s, ReachBack(built.start), d)

LEMMA EligibilityStays ==
  ASSUME TruthIsSettled
  PROVE  \A corpus, s, first, d : Eligible(corpus, s, first, d)' = Eligible(corpus, s, first, d)
<1>1. \A s, d, basis : OnBasis(s, d, basis)' = OnBasis(s, d, basis)
  BY DEF OnBasis, TruthIsSettled
<1>2. \A corpus, s, days : BarsOf(corpus, s, days)' = BarsOf(corpus, s, days)
  BY <1>1 DEF BarsOf
<1>3. \A corpus, s, first, d : PastOf(corpus, s, first, d)' = PastOf(corpus, s, first, d)
  BY <1>2 DEF PastOf
<1> QED
  BY <1>3 DEF Eligible

LEMMA ScreenIsOfThePast ==
  ASSUME NEW start \in Int, NEW end \in Int, NEW d \in DOMAIN Screen(start, end), NEW s \in Traded
  PROVE  d \in Int /\ (s \in Screen(start, end)[d] <=> Eligible(daily, s, ReachBack(start), d))
<1> DEFINE bars == BarsOf(daily, s, DaysOf(daily, s, ReachBack(start), end))
<1>1. d \in Int /\ d - 1 <= end
  BY DEF Screen
<1>2. ReadDaily(s, ReachBack(start), end) = bars
  BY DEF ReadDaily, BarsOf, DaysOf, InOrderOfDay
<1> HIDE DEF bars
<1>3. Past(bars, d) = PastOf(daily, s, ReachBack(start), d)
  BY <1>1, PastIsOfThePast DEF bars
<1>4. Passes(s, bars, d) <=> PassesOn(s, Past(bars, d))
  BY DEF Passes, PassesOn, Window
<1>5. s \in Screen(start, end)[d] <=> InSession(s, d) /\ Passes(s, bars, d)
  BY <1>2 DEF Screen
<1> QED
  BY <1>1, <1>3, <1>4, <1>5 DEF Eligible

LEMMA BuiltStep == ASSUME DailyTypeOK, ScreenInv, BuiltInv, [Next]_vars PROVE BuiltInv'
<1>1. TruthIsSettled
  BY NobodyChangesTheTruth DEF TruthIsSettled, vars, dailyVars
<1>2. \A corpus, s, first, d : Eligible(corpus, s, first, d)' = Eligible(corpus, s, first, d)
  BY <1>1, EligibilityStays
<1>3. ASSUME built'.rows = built.rows, built'.corpus = built.corpus, built'.start = built.start PROVE BuiltInv'
  <2>1. \A d, s : Eligible(built.corpus, s, ReachBack(built.start), d)' = Eligible(built.corpus, s, ReachBack(built.start), d)
    BY <1>2, <1>3 DEF ReachBack
  <2> QED
    BY <1>3, <2>1 DEF BuiltInv
<1>4. CASE FinishBuild \/ DieBuilding
  <2>1. built' = [built EXCEPT !.writing = FALSE]
    BY <1>4 DEF FinishBuild, DieBuilding
  <2>2. built'.rows = built.rows /\ built'.corpus = built.corpus /\ built'.start = built.start
    BY <2>1 DEF ScreenInv
  <2> QED
    BY <1>3, <2>2
<1>5. CASE UNCHANGED built
  BY <1>3, <1>5
<1>6. ASSUME NEW start \in Starts, Build(start, today) PROVE BuiltInv'
  <2>1. built'.rows = Screen(start, today) /\ built'.corpus = daily /\ built'.start = start
    BY <1>6 DEF Build
  <2>2. start \in Int /\ today \in Int
    BY StartsAssumption, DaysAssumption DEF DailyTypeOK, Days
  <2>3. \A d \in DOMAIN built'.rows :
          /\ d \in Int
          /\ \A s \in Traded : s \in built'.rows[d] <=> Eligible(built'.corpus, s, ReachBack(built'.start), d)
    <3>1. \A d \in DOMAIN Screen(start, today) :
            \A s \in Traded : d \in Int /\ (s \in Screen(start, today)[d] <=> Eligible(daily, s, ReachBack(start), d))
      BY <2>2, ScreenIsOfThePast
    <3>2. \A d \in DOMAIN Screen(start, today) : d \in Int
      BY <2>2 DEF Screen
    <3> QED
      BY <2>1, <3>1, <3>2
  <2>4. \A d, s : Eligible(built.corpus, s, ReachBack(built.start), d)'
                    = Eligible(built'.corpus, s, ReachBack(built'.start), d)
    BY <1>1, <2>1 DEF Eligible, PastOf, BarsOf, DaysOf, OnBasis, TruthIsSettled, ReachBack
  <2> QED
    BY <2>3, <2>4 DEF BuiltInv
<1> QED
  BY <1>4, <1>5, <1>6
  DEF Next, vars, screenVars, FillsToday, DayEnds, FetchesActions, ReadsPrices, ChecksActions, BuildsUniverse, ReadsSectors,
      AuditsCorpus, FetchesSamples, IngestsSamples, Load, LoadSectors

(* For every market, calendar and corpus: who was eligible on a day is     *)
(* settled by the sessions before it, whatever has been filled in for the  *)
(* day itself or later (the point-in-time rule of universe_history.py).    *)
THEOREM ScreenIsPointInTime == Spec => RowsComeFromTheirPast
<1> DEFINE Inv == DailyTypeOK /\ ScreenInv /\ BuiltInv
<1>1. Init => Inv
  <2>1. Init => BuiltInv
    <3>1. DOMAIN NoRows = {}
      BY DEF NoRows
    <3> QED
      BY <3>1 DEF Init, ScreenInit, NotBuilt, BuiltInv
  <2> QED
    BY <2>1, DailyInitOK, ScreenInitInv DEF Init
<1>2. Inv /\ [Next]_vars => Inv'
  BY DailyStep, ScreenStep, BuiltStep
<1>3. Inv /\ Inv' /\ [Next]_vars =>
        [(built'.start = built.start) =>
           \A d \in DOMAIN built.rows \cap DOMAIN built'.rows : \A s \in Traded :
             (\A e \in 1 .. d - 1 : built.corpus[s][e] = built'.corpus[s][e])
             => (s \in built.rows[d] <=> s \in built'.rows[d])]_built
  <2> SUFFICES ASSUME Inv, Inv', [Next]_vars, built'.start = built.start,
                      NEW d \in DOMAIN built.rows \cap DOMAIN built'.rows, NEW s \in Traded,
                      \A e \in 1 .. d - 1 : built.corpus[s][e] = built'.corpus[s][e]
               PROVE  s \in built.rows[d] <=> s \in built'.rows[d]
    OBVIOUS
  <2> DEFINE first == ReachBack(built.start)
  <2>1. TruthIsSettled
    BY NobodyChangesTheTruth DEF TruthIsSettled, vars, dailyVars
  <2>2. d \in Int /\ (s \in built.rows[d] <=> Eligible(built.corpus, s, first, d))
    BY DEF BuiltInv
  <2>3. s \in built'.rows[d] <=> Eligible(built.corpus, s, ReachBack(built.start), d)'
    BY DEF BuiltInv
  <2>4. Eligible(built.corpus, s, ReachBack(built.start), d)' = Eligible(built'.corpus, s, ReachBack(built'.start), d)
    BY <2>1 DEF Eligible, PastOf, BarsOf, DaysOf, OnBasis, TruthIsSettled, ReachBack
  <2>5. PastOf(built.corpus, s, first, d) = PastOf(built'.corpus, s, first, d)
    <3> DEFINE one == built.corpus
               two == built'.corpus
    <3>1. \A e \in 1 .. d - 1 : one[s][e] = two[s][e]
      OBVIOUS
    <3> HIDE DEF one, two, first
    <3>2. PastOf(one, s, first, d) = PastOf(two, s, first, d)
      BY <2>2, <3>1, SamePast
    <3> QED
      BY <3>2 DEF one, two
  <2>6. Eligible(built.corpus, s, first, d) = Eligible(built'.corpus, s, first, d)
    BY <2>5 DEF Eligible
  <2>7. ReachBack(built'.start) = first
    OBVIOUS
  <2> QED
    BY <2>2, <2>3, <2>4, <2>6, <2>7
<1> QED
  BY <1>1, <1>2, <1>3, PTL DEF Spec, RowsComeFromTheirPast
-----------------------------------------------------------------------------
(* The times of a session's bars.                                          *)

IsSession(session) == session.open \in Int /\ session.close \in Int /\ session.open < session.close
BarAt(session, i) == session.open + i * BarTicks
Inside(session, x, y) == {ts \in Grid(session) : x < ts /\ ts < y}

LEMMA WholeAndRest ==
  ASSUME NEW a \in Int, NEW b \in Nat \ {0}
  PROVE  /\ a = b * (a \div b) + (a % b) /\ a \div b \in Int
         /\ a % b \in Int /\ 0 <= a % b /\ a % b < b
OBVIOUS

LEMMA BarsFollowOneAnother ==
  ASSUME NEW i \in Int, NEW j \in Int, NEW b \in Nat \ {0}, i < j
  PROVE  i * b + b <= j * b
OBVIOUS

LEMMA SpanOfBars ==
  ASSUME NEW n \in Int, NEW b \in Nat \ {0}
  PROVE  (n * b) \div b = n /\ (n * b) % b = 0
OBVIOUS

(* A session longer than a bar has its bars one interval after another.    *)
LEMMA BarsOfALongSession ==
  ASSUME NEW session, IsSession(session), ~(BarTicks >= session.close - session.open)
  PROVE  /\ ExpectedBars(session) \in Nat \ {0}
         /\ \A ts \in Grid(session) : \E i \in 1 .. ExpectedBars(session) : ts = BarAt(session, i)
         /\ \A i \in 1 .. ExpectedBars(session) : BarAt(session, i) \in Grid(session)
         /\ \A i, j \in Int : i < j <=> BarAt(session, i) < BarAt(session, j)
<1> DEFINE span == session.close - session.open
           n == ExpectedBars(session)
           B == BarTicks
           whole == span \div B
<1>1. /\ B \in Nat \ {0} /\ B \in Int /\ B > 0
      /\ session.open \in Int /\ session.close \in Int /\ span \in Int /\ span > B
  BY AuditAssumption DEF IsSession
<1>2. n = whole
  BY <1>1 DEF ExpectedBars
<1>3. span = B * whole + (span % B) /\ whole \in Int /\ 0 <= span % B /\ span % B < B /\ span % B \in Int
  BY <1>1, WholeAndRest
<1>4. Grid(session) = {ts \in session.open + 1 .. session.close : (ts - session.open) % B = 0}
  BY <1>1 DEF Grid
<1> HIDE DEF B, n, whole
<1>5. whole >= 1
  <2>1. CASE whole < 0
    <3>1. whole * B + B <= 0 * B
      BY <1>1, <1>3, <2>1, BarsFollowOneAnother
    <3> QED
      BY <1>1, <1>3, <3>1
  <2>2. CASE whole = 0
    BY <1>1, <1>3, <2>2
  <2> QED
    BY <1>3, <2>1, <2>2
<1>6. \A i, j \in Int : i < j => i * B + B <= j * B
  BY <1>1, BarsFollowOneAnother
<1>7. \A i \in Int : i * B \in Int /\ BarAt(session, i) = session.open + i * B
  BY <1>1 DEF BarAt, B
<1>8. \A i, j \in Int : i < j <=> BarAt(session, i) < BarAt(session, j)
  <2> SUFFICES ASSUME NEW i \in Int, NEW j \in Int PROVE i < j <=> BarAt(session, i) < BarAt(session, j)
    OBVIOUS
  <2>1. /\ BarAt(session, i) = session.open + i * B /\ i * B \in Int
        /\ BarAt(session, j) = session.open + j * B /\ j * B \in Int
    BY <1>7
  <2> HIDE DEF BarAt
  <2>2. CASE i < j
    <3>1. i * B + B <= j * B
      BY <1>6, <2>2
    <3> DEFINE x == i * B
               y == j * B
    <3> HIDE DEF x, y
    <3>2. /\ BarAt(session, i) = session.open + x /\ x \in Int
          /\ BarAt(session, j) = session.open + y /\ y \in Int /\ x + B <= y
      BY <2>1, <3>1 DEF x, y
    <3> QED
      BY <1>1, <2>2, <3>2
  <2>3. CASE j < i
    <3>1. j * B + B <= i * B
      BY <1>6, <2>3
    <3> DEFINE x == i * B
               y == j * B
    <3> HIDE DEF x, y
    <3>2. /\ BarAt(session, i) = session.open + x /\ x \in Int
          /\ BarAt(session, j) = session.open + y /\ y \in Int /\ y + B <= x
      BY <2>1, <3>1 DEF x, y
    <3> QED
      BY <1>1, <2>3, <3>2
  <2>4. CASE i = j
    <3>1. BarAt(session, i) = BarAt(session, j) /\ BarAt(session, i) \in Int
      BY <1>1, <2>1, <2>4
    <3> QED
      BY <2>4, <3>1
  <2> QED
    BY <2>2, <2>3, <2>4
<1>9. ASSUME NEW i \in 1 .. n PROVE BarAt(session, i) \in Grid(session)
  <2>1. i \in Int /\ 0 < i /\ i <= whole
    BY <1>2, <1>3, <1>9
  <2>2. i * B \in Int /\ 0 * B + B <= i * B /\ whole * B \in Int
    BY <1>6, <1>7, <1>3, <2>1
  <2>3. i * B <= whole * B
    <3>1. CASE i = whole
      BY <2>2, <3>1
    <3>2. CASE i < whole
      BY <1>1, <1>3, <1>6, <2>1, <2>2, <3>2
    <3> QED
      BY <2>1, <1>3, <3>1, <3>2
  <2>4. whole * B = B * whole
    BY <1>1, <1>3
  <2>5. BarAt(session, i) \in session.open + 1 .. session.close
    <3>1. i * B >= 1 /\ i * B <= span
      BY <1>1, <1>3, <2>2, <2>3, <2>4
    <3> QED
      BY <1>1, <1>7, <2>1, <2>2, <3>1
  <2>6. (BarAt(session, i) - session.open) % B = 0
    <3>1. BarAt(session, i) - session.open = i * B
      BY <1>1, <1>7, <2>1, <2>2
    <3> QED
      BY <1>1, <2>1, <3>1, SpanOfBars
  <2> QED
    BY <1>4, <2>5, <2>6
<1>10. ASSUME NEW ts \in Grid(session) PROVE \E i \in 1 .. n : ts = BarAt(session, i)
  <2> DEFINE at == ts - session.open
             i == at \div B
  <2>1. ts \in Int /\ at \in Int /\ at >= 1 /\ at <= span /\ at % B = 0
    BY <1>1, <1>4, <1>10
  <2>2. at = B * i + (at % B) /\ i \in Int
    BY <1>1, <2>1, WholeAndRest
  <2> HIDE DEF i
  <2>3. at = i * B
    BY <1>1, <2>1, <2>2
  <2>4. i >= 1
    <3>1. CASE i < 0
      <4>1. i * B + B <= 0 * B
        BY <1>6, <2>2, <3>1
      <4> QED
        BY <1>1, <2>1, <2>3, <4>1
    <3>2. CASE i = 0
      BY <1>1, <2>1, <2>3, <3>2
    <3> QED
      BY <2>2, <3>1, <3>2
  <2>5. i <= whole
    <3>1. CASE whole < i
      <4>1. whole * B + B <= i * B
        BY <1>3, <1>6, <2>2, <3>1
      <4>2. whole * B = B * whole /\ whole * B \in Int
        BY <1>1, <1>3
      <4> QED
        BY <1>1, <1>3, <2>1, <2>3, <4>1, <4>2
    <3> QED
      BY <1>3, <2>2, <3>1
  <2>6. ts = BarAt(session, i)
    BY <1>1, <1>7, <2>1, <2>2, <2>3
  <2> QED
    BY <1>2, <1>3, <2>2, <2>4, <2>5, <2>6
<1> QED
  BY <1>2, <1>3, <1>5, <1>8, <1>9, <1>10 DEF n

(* Between two of its moments there are as many bars as it counts.         *)
LEMMA BarsInside ==
  ASSUME NEW session, IsSession(session), ~(BarTicks >= session.close - session.open),
         NEW i \in 0 .. ExpectedBars(session), NEW j \in 1 .. ExpectedBars(session) + 1, i < j
  PROVE  LET inside == Inside(session, BarAt(session, i), BarAt(session, j))
         IN IsFiniteSet(inside) /\ Cardinality(inside) = j - i - 1
<1> DEFINE n == ExpectedBars(session)
           between == Inside(session, BarAt(session, i), BarAt(session, j))
           f == [k \in i + 1 .. j - 1 |-> BarAt(session, k)]
<1>1. /\ n \in Nat \ {0}
      /\ \A ts \in Grid(session) : \E k \in 1 .. n : ts = BarAt(session, k)
      /\ \A k \in 1 .. n : BarAt(session, k) \in Grid(session)
      /\ \A k, l \in Int : k < l <=> BarAt(session, k) < BarAt(session, l)
  BY BarsOfALongSession
<1> HIDE DEF n
<1>2. i \in 0 .. n /\ j \in 1 .. n + 1 /\ i \in Int /\ j \in Int
  BY <1>1 DEF n
<1>3. ASSUME NEW k \in i + 1 .. j - 1 PROVE BarAt(session, k) \in between
  <2>1. k \in 1 .. n /\ k \in Int /\ i < k /\ k < j
    BY <1>1, <1>2, <1>3
  <2> QED
    BY <1>1, <1>2, <2>1 DEF Inside
<1>4. ASSUME NEW ts \in between PROVE \E k \in i + 1 .. j - 1 : ts = BarAt(session, k)
  <2>1. PICK k \in 1 .. n : ts = BarAt(session, k)
    BY <1>1, <1>4 DEF Inside
  <2>2. BarAt(session, i) < BarAt(session, k) /\ BarAt(session, k) < BarAt(session, j)
    BY <1>4, <2>1 DEF Inside
  <2>3. i < k /\ k < j /\ k \in Int
    BY <1>1, <1>2, <2>1, <2>2
  <2> QED
    BY <1>2, <2>1, <2>3
<1>5. \A k, l \in i + 1 .. j - 1 : BarAt(session, k) = BarAt(session, l) => k = l
  <2> SUFFICES ASSUME NEW k \in i + 1 .. j - 1, NEW l \in i + 1 .. j - 1, BarAt(session, k) = BarAt(session, l)
               PROVE  k = l
    OBVIOUS
  <2>1. k \in Int /\ l \in Int
    BY <1>2
  <2>2. BarAt(session, k) \in Int /\ BarAt(session, l) \in Int
    BY AuditAssumption, <2>1 DEF BarAt, IsSession
  <2>3. ~(k < l) /\ ~(l < k)
    BY <1>1, <2>1, <2>2
  <2> QED
    BY <2>1, <2>3
<1> HIDE DEF between
<1>6. f \in Bijection(i + 1 .. j - 1, between)
  <2>1. f \in Injection(i + 1 .. j - 1, between)
    BY <1>3, <1>5 DEF Injection, IsInjective
  <2>2. f \in Surjection(i + 1 .. j - 1, between)
    BY <1>3, <1>4 DEF Surjection
  <2> QED
    BY <2>1, <2>2 DEF Bijection
<1>7. IsFiniteSet(i + 1 .. j - 1) /\ Cardinality(i + 1 .. j - 1) = j - i - 1
  <2>1. i + 1 \in Int /\ j - 1 \in Int
    BY <1>2
  <2>2. /\ IsFiniteSet(i + 1 .. j - 1)
        /\ Cardinality(i + 1 .. j - 1) = IF i + 1 > j - 1 THEN 0 ELSE (j - 1) - (i + 1) + 1
    BY <2>1, FS_Interval
  <2> HIDE DEF f
  <2>3. (IF i + 1 > j - 1 THEN 0 ELSE (j - 1) - (i + 1) + 1) = j - i - 1
    BY <1>2
  <2> QED
    BY <2>2, <2>3
<1>8. ExistsBijection(i + 1 .. j - 1, between)
  BY <1>6 DEF ExistsBijection
<1> QED
  BY <1>7, <1>8, FS_Bijection DEF between

(* A session's grid has as many points as it expects bars.                 *)
LEMMA GridIsWhatIsExpected ==
  ASSUME NEW session, IsSession(session)
  PROVE  /\ IsFiniteSet(Grid(session)) /\ Cardinality(Grid(session)) = ExpectedBars(session)
         /\ ExpectedBars(session) \in Nat \ {0}
         /\ Grid(session) \in SUBSET Int
         /\ \A ts \in Grid(session) : HoldsBar(session, ts)
<1>1. /\ session.open \in Int /\ session.close \in Int /\ session.open < session.close
      /\ BarTicks \in Nat \ {0}
  BY AuditAssumption DEF IsSession
<1>2. CASE BarTicks >= session.close - session.open
  <2>1. Grid(session) = {session.close} /\ ExpectedBars(session) = 1
    BY <1>2 DEF Grid, ExpectedBars
  <2>2. IsFiniteSet({session.close}) /\ Cardinality({session.close}) = 1
    BY FS_Singleton
  <2>3. \A ts \in {session.close} : HoldsBar(session, ts)
    BY <1>1 DEF HoldsBar
  <2>4. {session.close} \in SUBSET Int /\ 1 \in Nat \ {0}
    BY <1>1
  <2> QED
    BY <2>1, <2>2, <2>3, <2>4
<1>3. CASE ~(BarTicks >= session.close - session.open)
  <2> DEFINE n == ExpectedBars(session)
  <2>1. /\ n \in Nat \ {0} /\ \A ts \in Grid(session) : \E k \in 1 .. n : ts = BarAt(session, k)
        /\ \A k, l \in Int : k < l <=> BarAt(session, k) < BarAt(session, l)
    BY <1>3, BarsOfALongSession
  <2>2. Grid(session) \in SUBSET Int /\ \A ts \in Grid(session) : HoldsBar(session, ts)
    BY <1>1, <1>3 DEF Grid, HoldsBar
  <2>3. Inside(session, BarAt(session, 0), BarAt(session, n + 1)) = Grid(session)
    <3>1. ASSUME NEW ts \in Grid(session) PROVE BarAt(session, 0) < ts /\ ts < BarAt(session, n + 1)
      <4>1. PICK k \in 1 .. n : ts = BarAt(session, k)
        BY <2>1
      <4>2. 0 < k /\ k < n + 1 /\ k \in Int /\ 0 \in Int /\ n + 1 \in Int
        BY <2>1
      <4> QED
        BY <2>1, <4>1, <4>2
    <3> QED
      BY <3>1 DEF Inside
  <2>4. 0 \in 0 .. n /\ n + 1 \in 1 .. n + 1 /\ 0 < n + 1 /\ (n + 1) - 0 - 1 = n
    BY <2>1
  <2>5. /\ IsFiniteSet(Inside(session, BarAt(session, 0), BarAt(session, n + 1)))
        /\ Cardinality(Inside(session, BarAt(session, 0), BarAt(session, n + 1))) = (n + 1) - 0 - 1
    BY <1>3, <2>4, BarsInside
  <2> QED
    BY <2>1, <2>2, <2>3, <2>4, <2>5
<1> QED
  BY <1>2, <1>3
-----------------------------------------------------------------------------
(* The audit.                                                              *)

CellOK(session, cell) ==
  /\ cell = [copies |-> cell.copies, traded |-> cell.traded]
  /\ cell.copies = [ts \in DOMAIN cell.copies |-> cell.copies[ts]]
  /\ DOMAIN cell.copies \in SUBSET Grid(session)
  /\ \A ts \in DOMAIN cell.copies : cell.copies[ts] \in 1 .. 2
  /\ cell.traded \in {"normally", "flat", "halted"}
  /\ cell.traded = "flat" => \E a, b \in Grid(session) : a # b

CellsOK ==
  /\ cells = [s \in Held |-> [d \in DOMAIN Calendar[VenueHeld[s]] |-> cells[s][d]]]
  /\ \A s \in Held : \A d \in DOMAIN Calendar[VenueHeld[s]] : CellOK(Calendar[VenueHeld[s]][d], cells[s][d])

(* What a report says is of the corpus as it is.                           *)
AuditInv == CellsOK /\ edits \in 0 .. MaxEdits /\ (report = NoReport \/ report = Findings)

LEMMA SessionsAreSessions ==
  ASSUME NEW s \in Held, NEW d \in DOMAIN Calendar[VenueHeld[s]]
  PROVE  IsSession(Calendar[VenueHeld[s]][d]) /\ d \in Int
BY AuditAssumption DEF IsSession

LEMMA AuditInitInv == AuditInit => AuditInv
<1> SUFFICES ASSUME AuditInit PROVE AuditInv
  OBVIOUS
<1>1. cells = [s \in Held |-> [d \in DOMAIN Calendar[VenueHeld[s]] |-> Whole(Calendar[VenueHeld[s]][d])]]
  BY DEF AuditInit
<1>2. \A session : CellOK(session, Whole(session))
  BY DEF CellOK, Whole
<1>3. CellsOK
  BY <1>1, <1>2 DEF CellsOK
<1> QED
  BY <1>3, AuditAssumption DEF AuditInit, AuditInv

LEMMA EditStep ==
  ASSUME AuditInv, NEW s \in Held, NEW d \in DOMAIN Calendar[VenueHeld[s]], NEW cell,
         CellOK(Calendar[VenueHeld[s]][d], cell), Edit(s, d, cell)
  PROVE  AuditInv'
<1>1. cells = [x \in Held |-> [e \in DOMAIN Calendar[VenueHeld[x]] |-> cells[x][e]]]
  BY DEF AuditInv, CellsOK
<1>2. \A x \in Held : \A e \in DOMAIN Calendar[VenueHeld[x]] :
        cells'[x][e] = IF x = s /\ e = d THEN cell ELSE cells[x][e]
  BY <1>1 DEF Edit
<1>3. cells' = [x \in Held |-> [e \in DOMAIN Calendar[VenueHeld[x]] |-> cells'[x][e]]]
  BY <1>1 DEF Edit
<1>4. \A x \in Held : \A e \in DOMAIN Calendar[VenueHeld[x]] : CellOK(Calendar[VenueHeld[x]][e], cells[x][e])
  BY DEF AuditInv, CellsOK
<1>5. \A x \in Held : \A e \in DOMAIN Calendar[VenueHeld[x]] : CellOK(Calendar[VenueHeld[x]][e], cells'[x][e])
  BY <1>2, <1>4
<1>6. CellsOK'
  BY <1>3, <1>5 DEF CellsOK, Held
<1>7. edits' \in 0 .. MaxEdits /\ report' = NoReport
  BY AuditAssumption DEF AuditInv, Edit
<1> QED
  BY <1>6, <1>7 DEF AuditInv, NoReport

(* Two moments of a set that has more than one.                            *)
LEMMA MoreThanOne ==
  ASSUME NEW S, IsFiniteSet(S), Cardinality(S) > 1
  PROVE  \E a, b \in S : a # b
<1>1. Cardinality(S) # 0 /\ Cardinality(S) # 1
  BY FS_CardinalityType
<1>2. S # {}
  BY <1>1, FS_EmptySet
<1>3. PICK a : a \in S
  BY <1>2
<1>4. S # {a}
  BY <1>1, FS_Singleton
<1> QED
  BY <1>3, <1>4

LEMMA CellStep ==
  ASSUME AuditInv, NEW s \in Held, NEW d \in DOMAIN Calendar[VenueHeld[s]],
         LeftUnfilled(s, d) \/ LostBar(s, d) \/ SecondCopy(s, d) \/ NotTraded(s, d)
  PROVE  AuditInv'
<1> DEFINE session == Calendar[VenueHeld[s]][d]
           cell == cells[s][d]
<1>1. CellOK(session, cell)
  BY DEF AuditInv, CellsOK
<1>2. IsSession(session)
  BY SessionsAreSessions
<1> HIDE DEF session, cell
<1>3. /\ cell = [copies |-> cell.copies, traded |-> cell.traded]
      /\ DOMAIN cell.copies \in SUBSET Grid(session)
      /\ \A ts \in DOMAIN cell.copies : cell.copies[ts] \in 1 .. 2
      /\ cell.traded \in {"normally", "flat", "halted"}
      /\ cell.traded = "flat" => \E a, b \in Grid(session) : a # b
      /\ cell.copies = [ts \in DOMAIN cell.copies |-> cell.copies[ts]]
  BY <1>1 DEF CellOK
<1>4. ASSUME NEW next, CellOK(session, next), Edit(s, d, next) PROVE AuditInv'
  BY <1>4, EditStep DEF session
<1>5. CASE LeftUnfilled(s, d)
  <2>1. CellOK(session, NoBars)
    BY DEF CellOK, NoBars
  <2> QED
    BY <1>4, <1>5, <2>1 DEF LeftUnfilled
<1>6. CASE LostBar(s, d)
  <2>1. PICK ts \in DOMAIN cell.copies :
          Edit(s, d, [cell EXCEPT !.copies = [t \in DOMAIN cell.copies \ {ts} |-> cell.copies[t]]])
    BY <1>6 DEF LostBar, cell
  <2> DEFINE left == [t \in DOMAIN cell.copies \ {ts} |-> cell.copies[t]]
             next == [cell EXCEPT !.copies = left]
  <2>2. DOMAIN left = DOMAIN cell.copies \ {ts} /\ \A t \in DOMAIN left : left[t] = cell.copies[t]
    OBVIOUS
  <2>3. left = [t \in DOMAIN left |-> left[t]]
    OBVIOUS
  <2> HIDE DEF left
  <2>4. next = [copies |-> left, traded |-> cell.traded]
    BY <1>3
  <2> HIDE DEF next
  <2>5. CellOK(session, next)
    BY <1>3, <2>2, <2>3, <2>4 DEF CellOK
  <2> QED
    BY <1>4, <2>1, <2>5 DEF next, left
<1>7. CASE SecondCopy(s, d)
  <2>1. PICK ts \in DOMAIN cell.copies : Edit(s, d, [cell EXCEPT !.copies[ts] = 2])
    BY <1>7 DEF SecondCopy, cell
  <2> DEFINE twice == [cell.copies EXCEPT ![ts] = 2]
             next == [cell EXCEPT !.copies[ts] = 2]
  <2>2. next = [copies |-> twice, traded |-> cell.traded]
    BY <1>3
  <2>3. DOMAIN twice = DOMAIN cell.copies /\ \A t \in DOMAIN twice : twice[t] \in 1 .. 2
    BY <1>3
  <2>4. twice = [t \in DOMAIN twice |-> twice[t]]
    OBVIOUS
  <2> HIDE DEF twice, next
  <2>5. CellOK(session, next)
    BY <1>3, <2>2, <2>3, <2>4 DEF CellOK
  <2> QED
    BY <1>4, <2>1, <2>5 DEF next
<1>8. CASE NotTraded(s, d)
  <2>1. PICK how \in {"flat", "halted"} :
          /\ how = "flat" => Cardinality(DOMAIN cell.copies) > 1
          /\ Edit(s, d, [cell EXCEPT !.traded = how])
    BY <1>8 DEF NotTraded, cell
  <2> DEFINE next == [cell EXCEPT !.traded = how]
  <2>2. next = [copies |-> cell.copies, traded |-> how]
    BY <1>3
  <2> HIDE DEF next
  <2>3. ASSUME how = "flat" PROVE \E a, b \in Grid(session) : a # b
    <3>1. IsFiniteSet(DOMAIN cell.copies)
      BY <1>2, <1>3, GridIsWhatIsExpected, FS_Subset
    <3>2. \E a, b \in DOMAIN cell.copies : a # b
      BY <2>1, <2>3, <3>1, MoreThanOne
    <3> QED
      BY <1>3, <3>2
  <2>4. CellOK(session, next)
    BY <1>3, <2>2, <2>3 DEF CellOK
  <2> QED
    BY <1>4, <2>1, <2>4 DEF next
<1> QED
  BY <1>5, <1>6, <1>7, <1>8

LEMMA FindingsStay == ASSUME UNCHANGED cells PROVE Findings' = Findings
<1>1. \A s, d : (Duplicates(s, d)' = Duplicates(s, d)) /\ (Short(s, d)' = Short(s, d))
  BY DEF Duplicates, Short
<1>2. \A s : HeldDays(s)' = HeldDays(s)
  BY DEF HeldDays
<1>3. \A s : LateListing(s)' = LateListing(s)
  BY <1>2 DEF LateListing
<1>4. Findings'.missing = Findings.missing
  BY <1>2 DEF Findings
<1>5. Findings'.short = Findings.short
  BY <1>1 DEF Findings
<1>6. Findings'.gaps = Findings.gaps
  BY DEF Findings
<1>7. Findings'.duplicates = Findings.duplicates
  BY <1>1 DEF Findings
<1>8. Findings'.suspect = Findings.suspect
  BY DEF Findings
<1>9. Findings'.late = Findings.late
  BY <1>3 DEF Findings
<1>10. \E m, h, g, u, p, l : Findings = [made |-> TRUE, missing |-> m, short |-> h, gaps |-> g, duplicates |-> u,
                                        suspect |-> p, late |-> l]
  BY DEF Findings
<1>11. \E m, h, g, u, p, l : Findings' = [made |-> TRUE, missing |-> m, short |-> h, gaps |-> g, duplicates |-> u,
                                         suspect |-> p, late |-> l]
  BY DEF Findings
<1> QED
  BY <1>4, <1>5, <1>6, <1>7, <1>8, <1>9, <1>10, <1>11

LEMMA AuditStep == ASSUME AuditInv, [Next]_vars PROVE AuditInv'
<1>1. CASE UNCHANGED auditVars
  <2>1. cells' = cells /\ edits' = edits /\ report' = report
    BY <1>1 DEF auditVars
  <2>2. CellsOK'
    BY ZenonT(60), <2>1 DEF AuditInv, CellsOK, CellOK, Held
  <2>3. Findings' = Findings
    BY <2>1, FindingsStay
  <2> QED
    BY <2>1, <2>2, <2>3 DEF AuditInv
<1>2. CASE AuditsCorpus
  <2>1. ASSUME NEW s \in Held, NEW d \in DOMAIN Calendar[VenueHeld[s]],
               LeftUnfilled(s, d) \/ LostBar(s, d) \/ SecondCopy(s, d) \/ NotTraded(s, d)
        PROVE  AuditInv'
    BY <2>1, CellStep
  <2>2. CASE Audit
    <3>1. report' = Findings /\ cells' = cells /\ edits' = edits
      BY <2>2 DEF Audit
    <3>2. CellsOK'
      BY ZenonT(60), <3>1 DEF AuditInv, CellsOK, CellOK, Held
    <3>3. Findings' = Findings
      BY <3>1, FindingsStay
    <3> QED
      BY <3>1, <3>2, <3>3 DEF AuditInv
  <2> QED
    BY <1>2, <2>1, <2>2 DEF AuditsCorpus
<1> QED
  BY <1>1, <1>2
  DEF Next, vars, FillsToday, DayEnds, FetchesActions, ReadsPrices, ChecksActions, BuildsUniverse, ReadsSectors,
      FetchesSamples, IngestsSamples

(* Two bars of a session further apart than one interval have one between. *)
LEMMA NoHoleInAGrid ==
  ASSUME NEW session, IsSession(session), NEW x \in Grid(session), NEW y \in Grid(session), y - x > BarTicks
  PROVE  \E ts \in Grid(session) : x < ts /\ ts < y
<1>1. BarTicks \in Nat \ {0} /\ session.open \in Int
  BY AuditAssumption DEF IsSession
<1>2. CASE BarTicks >= session.close - session.open
  <2>1. x = y /\ x \in Int
    BY <1>2 DEF Grid, IsSession
  <2> QED
    BY <1>1, <2>1
<1>3. CASE ~(BarTicks >= session.close - session.open)
  <2> DEFINE n == ExpectedBars(session)
             B == BarTicks
  <2>1. /\ n \in Nat \ {0} /\ \A ts \in Grid(session) : \E k \in 1 .. n : ts = BarAt(session, k)
        /\ \A i \in 1 .. n : BarAt(session, i) \in Grid(session)
        /\ \A k, l \in Int : k < l <=> BarAt(session, k) < BarAt(session, l)
    BY <1>3, BarsOfALongSession
  <2>2. PICK i \in 1 .. n : x = BarAt(session, i)
    BY <2>1
  <2>3. PICK j \in 1 .. n : y = BarAt(session, j)
    BY <2>1
  <2> HIDE DEF n, B
  <2>4. i \in Int /\ j \in Int /\ i >= 1 /\ j <= n /\ i + 1 \in Int /\ n \in Int
    BY <2>1, <2>2, <2>3
  <2>5. B \in Int /\ B > 0 /\ B \in Nat \ {0}
    BY <1>1 DEF B
  <2>6. /\ x = session.open + i * B /\ i * B \in Int
        /\ y = session.open + j * B /\ j * B \in Int
    BY <1>1, <2>2, <2>3, <2>4, <2>5 DEF BarAt, B
  <2>7. i < j
    <3>1. x < y
      BY <1>1, <2>6
    <3> QED
      BY <2>1, <2>2, <2>3, <2>4, <3>1
  <2>8. j # i + 1
    <3>1. CASE j = i + 1
      <4>1. (i + 1) * B = i * B + B
        BY <2>4, <2>5
      <4> QED
        BY <1>1, <2>4, <2>5, <2>6, <3>1, <4>1 DEF B
    <3> QED
      BY <3>1
  <2>9. i < i + 1 /\ i + 1 < j /\ i + 1 \in 1 .. n
    BY <2>4, <2>7, <2>8
  <2>10. BarAt(session, i) < BarAt(session, i + 1) /\ BarAt(session, i + 1) < BarAt(session, j)
         /\ BarAt(session, i + 1) \in Grid(session)
    BY <2>1, <2>4, <2>9
  <2> QED
    BY <2>2, <2>3, <2>10
<1> QED
  BY <1>2, <1>3

(* Bars held once each are as many rows.                                   *)
LEMMA RowsOfSingles ==
  ASSUME NEW copies, IsFiniteSet(DOMAIN copies), \A ts \in DOMAIN copies : copies[ts] = 1
  PROVE  RowCount(copies) = Cardinality(DOMAIN copies)
<1> DEFINE times == DOMAIN copies
           rows == UNION {{ts} \X (1 .. copies[ts]) : ts \in times}
           f == [ts \in times |-> <<ts, 1>>]
<1>1. \A r : r \in rows <=> \E ts \in times : r = <<ts, 1>>
  <2>1. \A ts \in times : {ts} \X (1 .. copies[ts]) = {<<ts, 1>>}
    <3> SUFFICES ASSUME NEW ts \in times PROVE {ts} \X (1 .. copies[ts]) = {<<ts, 1>>}
      OBVIOUS
    <3>1. 1 .. copies[ts] = {1}
      OBVIOUS
    <3> QED
      BY <3>1
  <2> QED
    BY <2>1
<1> HIDE DEF rows
<1>2. f \in Bijection(times, rows)
  BY <1>1 DEF Bijection, Injection, IsInjective, Surjection
<1>3. ExistsBijection(times, rows)
  BY <1>2 DEF ExistsBijection
<1>4. Cardinality(rows) = Cardinality(times)
  BY <1>3, FS_Bijection
<1> QED
  BY <1>4 DEF rows, RowCount

LEMMA RowsOfACell ==
  ASSUME NEW session, NEW cell, IsSession(session), CellOK(session, cell), \A ts \in DOMAIN cell.copies : cell.copies[ts] = 1
  PROVE  /\ IsFiniteSet(DOMAIN cell.copies) /\ RowCount(cell.copies) = Cardinality(DOMAIN cell.copies)
         /\ RowCount(cell.copies) \in Nat
         /\ RowCount(cell.copies) >= ExpectedBars(session) => DOMAIN cell.copies = Grid(session)
<1>1. /\ IsFiniteSet(Grid(session)) /\ Cardinality(Grid(session)) = ExpectedBars(session)
      /\ ExpectedBars(session) \in Nat \ {0}
  BY GridIsWhatIsExpected
<1>2. DOMAIN cell.copies \in SUBSET Grid(session)
  BY DEF CellOK
<1>3. /\ IsFiniteSet(DOMAIN cell.copies) /\ Cardinality(DOMAIN cell.copies) <= Cardinality(Grid(session))
      /\ Cardinality(Grid(session)) = Cardinality(DOMAIN cell.copies) => Grid(session) = DOMAIN cell.copies
  BY <1>1, <1>2, FS_Subset
<1>4. RowCount(cell.copies) = Cardinality(DOMAIN cell.copies)
  BY <1>3, RowsOfSingles
<1>5. Cardinality(DOMAIN cell.copies) \in Nat
  BY <1>3, FS_CardinalityType
<1> QED
  BY <1>1, <1>3, <1>4, <1>5

LEMMA AskedIsInRange ==
  ASSUME NEW symbols \in SUBSET Held, NEW s \in symbols, NEW d \in InRange(s)
  PROVE  <<s, d>> \in AskedOf(symbols) /\ s \in Held /\ d \in DOMAIN Calendar[VenueHeld[s]]
<1>1. d \in DOMAIN Calendar[VenueHeld[s]] /\ Asked[1] <= d /\ d <= Asked[2]
  BY DEF InRange, SessionsBetween
<1>2. d \in Asked[1] .. Asked[2]
  BY <1>1, AuditAssumption, SessionsAreSessions
<1> QED
  BY <1>1, <1>2 DEF AskedOf

(* A clean report is of whole sessions.                                    *)
LEMMA CleanIsOfWhole == ASSUME AuditInv PROVE CleanMeansWhole
<1> SUFFICES ASSUME report.made, Clean(report), NEW s \in Audited, NEW d \in InRange(s) PROVE Sound(s, d)
  BY DEF CleanMeansWhole
<1> DEFINE session == Calendar[VenueHeld[s]][d]
           cell == cells[s][d]
<1>1. report = Findings
  BY DEF AuditInv, NoReport
<1>2. /\ <<s, d>> \in AskedOf(Audited) /\ <<s, d>> \in AskedOf(Held)
      /\ s \in Held /\ d \in DOMAIN Calendar[VenueHeld[s]]
  BY AskedIsInRange DEF Held
<1>3. IsSession(session) /\ CellOK(session, cell)
  BY <1>2, SessionsAreSessions DEF AuditInv, CellsOK
<1>4. d \in HeldDays(s)
  <2>1. Findings.missing = {}
    BY <1>1 DEF Clean
  <2> QED
    BY <1>2, <2>1 DEF Findings
<1>5. ~Short(s, d)
  <2>1. Findings.short = {}
    BY <1>1 DEF Clean
  <2> QED
    BY <1>2, <2>1 DEF Findings
<1>6. Duplicates(s, d) = {}
  <2>1. Findings.duplicates = {}
    BY <1>1 DEF Clean
  <2> QED
    BY <1>2, <2>1 DEF Findings
<1>7. ~Suspect(cell)
  <2>1. Findings.suspect = {}
    BY <1>1 DEF Clean
  <2> QED
    BY <1>2, <2>1 DEF Findings
<1>8. RowCount(cell.copies) # 0
  BY <1>4 DEF HeldDays
<1>9. ~(RowCount(cell.copies) # 0 /\ RowCount(cell.copies) < ExpectedBars(session))
  BY <1>5 DEF Short
<1>10. \A ts \in DOMAIN cell.copies : cell.copies[ts] = 1
  <2> SUFFICES ASSUME NEW ts \in DOMAIN cell.copies PROVE cell.copies[ts] = 1
    OBVIOUS
  <2>1. ~(cell.copies[ts] > 1)
    BY <1>6 DEF Duplicates
  <2>2. cell.copies[ts] \in 1 .. 2
    BY <1>3 DEF CellOK
  <2> QED
    BY <2>1, <2>2
<1> HIDE DEF session, cell
<1>11. /\ RowCount(cell.copies) = Cardinality(DOMAIN cell.copies) /\ RowCount(cell.copies) \in Nat
       /\ RowCount(cell.copies) >= ExpectedBars(session) => DOMAIN cell.copies = Grid(session)
  BY <1>3, <1>10, RowsOfACell
<1>12. /\ IsFiniteSet(Grid(session)) /\ Cardinality(Grid(session)) = ExpectedBars(session)
       /\ ExpectedBars(session) \in Nat \ {0}
  BY <1>3, GridIsWhatIsExpected
<1>13. DOMAIN cell.copies = Grid(session)
  BY <1>8, <1>9, <1>11, <1>12
<1>14. cell.traded = "normally"
  <2>1. cell.traded # "halted"
    <3>1. Grid(session) # {}
      BY <1>12, FS_EmptySet
    <3> QED
      BY <1>7, <1>13, <3>1 DEF Suspect
  <2>2. ASSUME cell.traded = "flat" PROVE FALSE
    <3>1. PICK a, b \in Grid(session) : a # b
      BY <1>3, <2>2 DEF CellOK
    <3>2. Cardinality(Grid(session)) # 1
      BY <1>12, <3>1, FS_Singleton
    <3>3. RowCount(cell.copies) > 1
      BY <1>11, <1>12, <1>13, <3>2
    <3> QED
      BY <1>7, <2>2, <3>3 DEF Suspect
  <2> QED
    BY <1>3, <2>1, <2>2 DEF CellOK
<1>15. cell = Whole(session)
  <2>1. cell.copies = [ts \in Grid(session) |-> 1]
    BY <1>3, <1>10, <1>13 DEF CellOK
  <2> QED
    BY <1>3, <1>14, <2>1 DEF CellOK, Whole
<1> QED
  BY <1>15 DEF Sound, session, cell

(* And whole sessions make a clean report.                                 *)
LEMMA WholeIsClean == ASSUME AuditInv PROVE WholeMeansClean
<1> SUFFICES ASSUME report.made, \A s \in Held : \A d \in InRange(s) : Sound(s, d) PROVE Clean(report)
  BY DEF WholeMeansClean
<1>1. report = Findings
  BY DEF AuditInv, NoReport
<1>2. ASSUME NEW c \in AskedOf(Held)
      PROVE  /\ cells[c[1]][c[2]].copies = [ts \in Grid(Calendar[VenueHeld[c[1]]][c[2]]) |-> 1]
             /\ cells[c[1]][c[2]].traded = "normally"
             /\ c[1] \in Held /\ c[2] \in DOMAIN Calendar[VenueHeld[c[1]]]
             /\ IsSession(Calendar[VenueHeld[c[1]]][c[2]])
             /\ RowCount(cells[c[1]][c[2]].copies) = ExpectedBars(Calendar[VenueHeld[c[1]]][c[2]])
             /\ ExpectedBars(Calendar[VenueHeld[c[1]]][c[2]]) \in Nat \ {0}
  <2> DEFINE s == c[1]
             d == c[2]
             session == Calendar[VenueHeld[s]][d]
             cell == cells[s][d]
  <2>1. s \in Held /\ d \in InRange(s) /\ d \in DOMAIN Calendar[VenueHeld[s]]
    BY DEF AskedOf, InRange, SessionsBetween
  <2>2. cell = Whole(session) /\ IsSession(session) /\ CellOK(session, cell)
    BY <2>1, SessionsAreSessions DEF Sound, AuditInv, CellsOK
  <2> HIDE DEF s, d, session, cell
  <2>3. cell.copies = [ts \in Grid(session) |-> 1] /\ cell.traded = "normally"
    BY <2>2 DEF Whole
  <2>4. RowCount(cell.copies) = Cardinality(DOMAIN cell.copies)
    BY <2>2, <2>3, RowsOfACell
  <2>5. Cardinality(Grid(session)) = ExpectedBars(session) /\ ExpectedBars(session) \in Nat \ {0}
    BY <2>2, GridIsWhatIsExpected
  <2> QED
    BY <2>1, <2>2, <2>3, <2>4, <2>5 DEF s, d, session, cell
<1>3. AskedOf(Audited) \in SUBSET AskedOf(Held)
  BY DEF AskedOf, Held
<1>4. Findings.missing = {}
  <2>1. \A c \in AskedOf(Audited) : c[2] \in HeldDays(c[1])
    BY <1>2, <1>3 DEF HeldDays
  <2> QED
    BY <2>1 DEF Findings
<1>5. Findings.short = {}
  <2>1. \A c \in AskedOf(Audited) : ~Short(c[1], c[2])
    <3> SUFFICES ASSUME NEW c \in AskedOf(Audited) PROVE ~Short(c[1], c[2])
      OBVIOUS
    <3> DEFINE n == ExpectedBars(Calendar[VenueHeld[c[1]]][c[2]])
    <3>1. RowCount(cells[c[1]][c[2]].copies) = n /\ n \in Nat \ {0}
      BY <1>2, <1>3
    <3>2. ~(n < n)
      BY <3>1
    <3> QED
      BY <3>1, <3>2 DEF Short
  <2> QED
    BY <2>1 DEF Findings
<1>6. Findings.gaps = {}
  <2>1. \A c \in AskedOf(Audited) : Gaps(cells[c[1]][c[2]].copies) = {}
    <3> SUFFICES ASSUME NEW c \in AskedOf(Audited), NEW gap \in Gaps(cells[c[1]][c[2]].copies) PROVE FALSE
      OBVIOUS
    <3> DEFINE session == Calendar[VenueHeld[c[1]]][c[2]]
               copies == cells[c[1]][c[2]].copies
    <3>1. copies = [ts \in Grid(session) |-> 1] /\ IsSession(session)
      BY <1>2, <1>3
    <3> HIDE DEF session
    <3>2. /\ gap[1] \in Grid(session) /\ gap[2] \in Grid(session) /\ gap[2] - gap[1] > BarTicks
          /\ \A ts \in Grid(session) : ~(gap[1] < ts /\ ts < gap[2])
      BY <3>1 DEF Gaps
    <3> QED
      BY <3>1, <3>2, NoHoleInAGrid
  <2> QED
    BY <2>1 DEF Findings
<1>7. Findings.duplicates = {}
  <2>1. \A c \in AskedOf(Held) : Duplicates(c[1], c[2]) = {}
    <3> SUFFICES ASSUME NEW c \in AskedOf(Held) PROVE Duplicates(c[1], c[2]) = {}
      OBVIOUS
    <3>1. \A ts \in DOMAIN cells[c[1]][c[2]].copies : cells[c[1]][c[2]].copies[ts] = 1
      BY <1>2
    <3>2. ~(1 > 1)
      OBVIOUS
    <3> QED
      BY <3>1, <3>2 DEF Duplicates
  <2> QED
    BY <2>1 DEF Findings
<1>8. Findings.suspect = {}
  <2>1. \A c \in AskedOf(Held) : ~Suspect(cells[c[1]][c[2]])
    BY <1>2 DEF Suspect
  <2> QED
    BY <2>1 DEF Findings
<1> QED
  BY <1>1, <1>4, <1>5, <1>6, <1>7, <1>8 DEF Clean

(* Two bars of a session with a time of its grid between them are further  *)
(* apart than one interval.                                                *)
LEMMA NeighboursAreOneApart ==
  ASSUME NEW session, IsSession(session), NEW x \in Grid(session), NEW ts \in Grid(session), NEW y \in Grid(session),
         x < ts, ts < y
  PROVE  y - x > BarTicks
<1>1. BarTicks \in Nat \ {0} /\ session.open \in Int
  BY AuditAssumption DEF IsSession
<1>2. CASE BarTicks >= session.close - session.open
  <2>1. x = y /\ x = ts /\ x \in Int
    BY <1>2 DEF Grid, IsSession
  <2> QED
    BY <2>1
<1>3. CASE ~(BarTicks >= session.close - session.open)
  <2> DEFINE n == ExpectedBars(session)
             B == BarTicks
  <2>1. /\ n \in Nat \ {0} /\ \A t \in Grid(session) : \E k \in 1 .. n : t = BarAt(session, k)
        /\ \A k, l \in Int : k < l <=> BarAt(session, k) < BarAt(session, l)
    BY <1>3, BarsOfALongSession
  <2>2. PICK i \in 1 .. n : x = BarAt(session, i)
    BY <2>1
  <2>3. PICK j \in 1 .. n : y = BarAt(session, j)
    BY <2>1
  <2>4. PICK k \in 1 .. n : ts = BarAt(session, k)
    BY <2>1
  <2> HIDE DEF n, B
  <2>5. i \in Int /\ j \in Int /\ k \in Int
    BY <2>1, <2>2, <2>3, <2>4
  <2>6. i < k /\ k < j
    BY <2>1, <2>2, <2>3, <2>4, <2>5
  <2>7. /\ x = session.open + i * B /\ i * B \in Int
        /\ ts = session.open + k * B /\ k * B \in Int
        /\ y = session.open + j * B /\ j * B \in Int
    BY <1>1, <2>2, <2>3, <2>4, <2>5 DEF BarAt, B
  <2>8. i * B + B <= k * B /\ k * B + B <= j * B /\ B \in Int /\ B > 0
    BY <1>1, <2>5, <2>6, BarsFollowOneAnother DEF B
  <2> DEFINE p == i * B
             q == k * B
             r == j * B
  <2> HIDE DEF p, q, r
  <2>9. /\ x = session.open + p /\ y = session.open + r /\ p \in Int /\ q \in Int /\ r \in Int
        /\ p + B <= q /\ q + B <= r
    BY <2>7, <2>8 DEF p, q, r
  <2>10. y - x > B
    BY <1>1, <2>8, <2>9
  <2> QED
    BY <2>10 DEF B
<1> QED
  BY <1>2, <1>3

(* A hole says how many bars of the session are in it.                     *)
LEMMA HoleIsOfItsBars ==
  ASSUME NEW session, IsSession(session), NEW x \in Grid(session), NEW y \in Grid(session), x < y
  PROVE  MissingBars(<<x, y>>) = Cardinality(Inside(session, x, y))
<1>1. BarTicks \in Nat \ {0} /\ session.open \in Int
  BY AuditAssumption DEF IsSession
<1>2. CASE BarTicks >= session.close - session.open
  <2>1. x = y /\ x \in Int
    BY <1>2 DEF Grid, IsSession
  <2> QED
    BY <2>1
<1>3. CASE ~(BarTicks >= session.close - session.open)
  <2> DEFINE n == ExpectedBars(session)
             B == BarTicks
  <2>1. /\ n \in Nat \ {0} /\ \A ts \in Grid(session) : \E k \in 1 .. n : ts = BarAt(session, k)
        /\ \A k, l \in Int : k < l <=> BarAt(session, k) < BarAt(session, l)
    BY <1>3, BarsOfALongSession
  <2>2. PICK i \in 1 .. n : x = BarAt(session, i)
    BY <2>1
  <2>3. PICK j \in 1 .. n : y = BarAt(session, j)
    BY <2>1
  <2>4. i \in Int /\ j \in Int /\ i \in 0 .. n /\ j \in 1 .. n + 1
    BY <2>1, <2>2, <2>3
  <2>5. i < j
    BY <2>1, <2>2, <2>3, <2>4
  <2>6. Cardinality(Inside(session, x, y)) = j - i - 1
    BY <1>3, <2>2, <2>3, <2>4, <2>5, BarsInside
  <2> HIDE DEF n, B
  <2>7. /\ x = session.open + i * B /\ i * B \in Int
        /\ y = session.open + j * B /\ j * B \in Int
    BY <1>1, <2>2, <2>3, <2>4 DEF BarAt, B
  <2>8. y - x = (j - i) * B
    <3>1. j * B - i * B = (j - i) * B
      BY <1>1, <2>4 DEF B
    <3>2. y - x = j * B - i * B
      BY <1>1, <2>7
    <3> QED
      BY <3>1, <3>2
  <2>9. (y - x) \div B = j - i
    <3>1. j - i \in Int /\ B \in Nat \ {0}
      BY <1>1, <2>4 DEF B
    <3> QED
      BY <2>8, <3>1, SpanOfBars
  <2> QED
    BY <2>6, <2>9 DEF MissingBars, B
<1> QED
  BY <1>2, <1>3

(* Where the bars that a session lacks are: copies are the bars it has.    *)
LEMMA LackingBarsAreInHoles ==
  ASSUME NEW session, IsSession(session), NEW copies, DOMAIN copies \in SUBSET Grid(session), DOMAIN copies # {},
         NEW ts \in Grid(session) \ DOMAIN copies,
         NEW early \in DOMAIN copies, early < ts, NEW late \in DOMAIN copies, ts < late
  PROVE  \E gap \in Gaps(copies) : ts \in Inside(session, gap[1], gap[2])
<1> DEFINE earlier == {t \in DOMAIN copies : t < ts}
           later == {t \in DOMAIN copies : ts < t}
           x == Max(earlier)
           y == Min(later)
<1>1. IsFiniteSet(Grid(session)) /\ Grid(session) \in SUBSET Int /\ BarTicks \in Nat \ {0}
  BY GridIsWhatIsExpected, AuditAssumption
<1>2. earlier \in SUBSET Grid(session) /\ later \in SUBSET Grid(session) /\ earlier # {} /\ later # {}
  OBVIOUS
<1>3. IsFiniteSet(earlier) /\ IsFiniteSet(later) /\ earlier \in SUBSET Int /\ later \in SUBSET Int
  BY <1>1, <1>2, FS_Subset
<1>4. x \in earlier /\ \A t \in earlier : x >= t
  BY <1>2, <1>3, EndsOfNumbers
<1>5. y \in later /\ \A t \in later : y <= t
  BY <1>2, <1>3, EndsOfNumbers
<1> HIDE DEF x, y
<1>6. x \in DOMAIN copies /\ y \in DOMAIN copies /\ x < ts /\ ts < y /\ x \in Int /\ y \in Int /\ ts \in Int
  BY <1>1, <1>3, <1>4, <1>5
<1>7. \A t \in DOMAIN copies : ~(x < t /\ t < y)
  <2> SUFFICES ASSUME NEW t \in DOMAIN copies, x < t, t < y PROVE FALSE
    OBVIOUS
  <2>1. t \in Int /\ t # ts
    BY <1>1
  <2>2. CASE t < ts
    BY <1>4, <1>6, <2>1, <2>2
  <2>3. CASE ts < t
    BY <1>5, <1>6, <2>1, <2>3
  <2> QED
    BY <1>6, <2>1, <2>2, <2>3
<1>8. y - x > BarTicks
  <2>1. x \in Grid(session) /\ y \in Grid(session) /\ x < ts /\ ts < y
    BY <1>6
  <2> QED
    BY <1>1, <1>6, <2>1, NeighboursAreOneApart
<1>9. <<x, y>> \in Gaps(copies)
  BY <1>6, <1>7, <1>8 DEF Gaps
<1>10. ts \in Inside(session, x, y)
  BY <1>6 DEF Inside
<1> QED
  BY <1>9, <1>10

LEMMA HolesAreAccountedFor == ASSUME AuditInv PROVE HolesAccountForTheCount
<1> SUFFICES ASSUME report.made, NEW s \in Audited, NEW d \in InRange(s),
                    cells[s][d].copies # NoBars.copies,
                    \A ts \in DOMAIN cells[s][d].copies : cells[s][d].copies[ts] = 1
             PROVE  LET session == Calendar[VenueHeld[s]][d]
                        copies == cells[s][d].copies
                        lacks == Grid(session) \ DOMAIN copies
                        before == {ts \in lacks : \A t \in DOMAIN copies : ts < t}
                        after == {ts \in lacks : \A t \in DOMAIN copies : ts > t}
                        holes == {g \in report.gaps : g[1] = s /\ g[2] = d}
                        in(g) == {ts \in Grid(session) : g[3][1] < ts /\ ts < g[3][2]}
                    IN /\ lacks = before \cup after \cup UNION {in(g) : g \in holes}
                       /\ \A g \in holes :
                            MissingBars(g[3]) = Cardinality(in(g)) /\ in(g) \subseteq lacks \ (before \cup after)
                       /\ \A g, h \in holes : g # h => in(g) \cap in(h) = {}
                       /\ RowCount(copies) + Cardinality(lacks) = ExpectedBars(session)
  BY ZenonT(60) DEF HolesAccountForTheCount
<1> DEFINE session == Calendar[VenueHeld[s]][d]
           copies == cells[s][d].copies
           lacks == Grid(session) \ DOMAIN copies
           before == {ts \in lacks : \A t \in DOMAIN copies : ts < t}
           after == {ts \in lacks : \A t \in DOMAIN copies : ts > t}
           holes == {g \in report.gaps : g[1] = s /\ g[2] = d}
           in(g) == {ts \in Grid(session) : g[3][1] < ts /\ ts < g[3][2]}
<1>1. report = Findings
  BY DEF AuditInv, NoReport
<1>2. /\ <<s, d>> \in AskedOf(Audited) /\ s \in Held /\ d \in DOMAIN Calendar[VenueHeld[s]]
  BY AskedIsInRange DEF Held
<1>3. IsSession(session) /\ CellOK(session, cells[s][d])
  BY <1>2, SessionsAreSessions DEF AuditInv, CellsOK
<1>4. /\ DOMAIN copies \in SUBSET Grid(session)
      /\ copies = [ts \in DOMAIN copies |-> copies[ts]]
  BY <1>3 DEF CellOK
<1>5. DOMAIN copies # {}
  BY <1>4 DEF NoBars
<1>6. /\ IsFiniteSet(Grid(session)) /\ Cardinality(Grid(session)) = ExpectedBars(session)
      /\ Grid(session) \in SUBSET Int /\ ExpectedBars(session) \in Nat
  BY <1>3, GridIsWhatIsExpected
<1>7. IsFiniteSet(DOMAIN copies) /\ RowCount(copies) = Cardinality(DOMAIN copies) /\ RowCount(copies) \in Nat
  BY <1>3, RowsOfACell
<1>8. \A g : g \in holes <=> \E gap \in Gaps(copies) : g = <<s, d, gap>>
  <2>1. \A g : g \in report.gaps <=> \E c \in AskedOf(Audited) : \E gap \in Gaps(cells[c[1]][c[2]].copies) : g = <<c[1], c[2], gap>>
    BY <1>1 DEF Findings
  <2>2. ASSUME NEW g \in holes PROVE \E gap \in Gaps(copies) : g = <<s, d, gap>>
    <3>1. PICK c \in AskedOf(Audited) : \E gap \in Gaps(cells[c[1]][c[2]].copies) : g = <<c[1], c[2], gap>>
      BY <2>1, <2>2
    <3>2. c[1] = s /\ c[2] = d
      BY <2>2, <3>1
    <3> QED
      BY <3>1, <3>2
  <2>3. ASSUME NEW gap \in Gaps(copies) PROVE <<s, d, gap>> \in holes
    <3>1. <<s, d>>[1] = s /\ <<s, d>>[2] = d
      OBVIOUS
    <3>2. <<s, d, gap>> \in report.gaps
      BY <1>2, <2>1, <2>3, <3>1
    <3> QED
      BY <3>2
  <2> QED
    BY <2>2, <2>3
<1> HIDE DEF session, copies, holes
<1>9. \A gap \in Gaps(copies) :
        /\ gap[1] \in DOMAIN copies /\ gap[2] \in DOMAIN copies /\ gap = <<gap[1], gap[2]>>
        /\ gap[2] - gap[1] > BarTicks
        /\ \A ts \in DOMAIN copies : ~(gap[1] < ts /\ ts < gap[2])
  BY DEF Gaps
<1>10. BarTicks \in Nat \ {0}
  BY AuditAssumption
<1>11. \A g : in(g) = Inside(session, g[3][1], g[3][2])
  BY DEF Inside
<1>12. \A g \in holes : in(g) \subseteq lacks \ (before \cup after)
  <2> SUFFICES ASSUME NEW g \in holes, NEW ts \in in(g) PROVE ts \in lacks /\ ts \notin before /\ ts \notin after
    OBVIOUS
  <2>1. PICK gap \in Gaps(copies) : g = <<s, d, gap>>
    BY <1>8
  <2>2. /\ gap[1] \in DOMAIN copies /\ gap[2] \in DOMAIN copies
        /\ \A t \in DOMAIN copies : ~(gap[1] < t /\ t < gap[2])
    BY <1>9
  <2>3. ts \in Grid(session) /\ gap[1] < ts /\ ts < gap[2]
    BY <2>1
  <2>4. ts \in Int /\ gap[1] \in Int /\ gap[2] \in Int
    BY <1>4, <1>6, <2>2, <2>3
  <2> QED
    BY <2>2, <2>3, <2>4
<1>13. lacks = before \cup after \cup UNION {in(g) : g \in holes}
  <2>1. ASSUME NEW ts \in lacks, ts \notin before, ts \notin after PROVE \E g \in holes : ts \in in(g)
    <3>1. ts \in Int /\ ts \in Grid(session) \ DOMAIN copies
      BY <1>6
    <3>2. PICK early \in DOMAIN copies : ~(ts > early)
      BY <2>1
    <3>3. PICK late \in DOMAIN copies : ~(ts < late)
      BY <2>1
    <3>4. late \in Int /\ early \in Int /\ late # ts /\ early # ts
      BY <1>4, <1>6, <3>1
    <3>5. late < ts /\ ts < early
      BY <3>1, <3>2, <3>3, <3>4
    <3>6. PICK gap \in Gaps(copies) : ts \in Inside(session, gap[1], gap[2])
      BY <1>3, <1>4, <1>5, <3>1, <3>5, LackingBarsAreInHoles
    <3>7. <<s, d, gap>> \in holes
      BY <1>8
    <3>8. ts \in in(<<s, d, gap>>)
      BY <3>6 DEF Inside
    <3> QED
      BY <3>7, <3>8
  <2> QED
    BY <1>12, <2>1
<1>14. \A g \in holes : MissingBars(g[3]) = Cardinality(in(g))
  <2> SUFFICES ASSUME NEW g \in holes PROVE MissingBars(g[3]) = Cardinality(in(g))
    OBVIOUS
  <2>1. PICK gap \in Gaps(copies) : g = <<s, d, gap>>
    BY <1>8
  <2>2. gap[1] \in Grid(session) /\ gap[2] \in Grid(session) /\ gap = <<gap[1], gap[2]>> /\ gap[2] - gap[1] > BarTicks
    BY <1>4, <1>9
  <2>3. gap[1] < gap[2]
    BY <1>6, <1>10, <2>2
  <2>4. MissingBars(<<gap[1], gap[2]>>) = Cardinality(Inside(session, gap[1], gap[2]))
    BY <1>3, <2>2, <2>3, HoleIsOfItsBars
  <2> QED
    BY <1>11, <2>1, <2>2, <2>4
<1>15. \A g, h \in holes : g # h => in(g) \cap in(h) = {}
  <2> SUFFICES ASSUME NEW g \in holes, NEW h \in holes, NEW ts \in in(g), ts \in in(h) PROVE g = h
    OBVIOUS
  <2>1. PICK gap \in Gaps(copies) : g = <<s, d, gap>>
    BY <1>8
  <2>2. PICK hole \in Gaps(copies) : h = <<s, d, hole>>
    BY <1>8
  <2> DEFINE a == gap[1]
             b == gap[2]
             u == hole[1]
             v == hole[2]
  <2>3. /\ a \in DOMAIN copies /\ b \in DOMAIN copies /\ gap = <<a, b>> /\ \A t \in DOMAIN copies : ~(a < t /\ t < b)
        /\ u \in DOMAIN copies /\ v \in DOMAIN copies /\ hole = <<u, v>> /\ \A t \in DOMAIN copies : ~(u < t /\ t < v)
    BY <1>9
  <2>4. a < ts /\ ts < b /\ u < ts /\ ts < v /\ ts \in Int
    BY <1>6, <2>1, <2>2
  <2>5. a \in Int /\ b \in Int /\ u \in Int /\ v \in Int
    BY <1>4, <1>6, <2>3
  <2> HIDE DEF a, b, u, v
  <2>6. a = u
    BY <2>3, <2>4, <2>5
  <2>7. b = v
    BY <2>3, <2>4, <2>5
  <2> QED
    BY <2>1, <2>2, <2>3, <2>6, <2>7
<1>16. RowCount(copies) + Cardinality(lacks) = ExpectedBars(session)
  <2>1. Cardinality(lacks) = Cardinality(Grid(session)) - Cardinality(Grid(session) \cap DOMAIN copies)
    BY <1>6, FS_Difference
  <2>2. Grid(session) \cap DOMAIN copies = DOMAIN copies
    BY <1>4
  <2> QED
    BY <1>6, <1>7, <2>1, <2>2
<1> QED
  BY <1>12, <1>13, <1>14, <1>15, <1>16 DEF session, copies, holes

(* For every calendar, corpus and way of going wrong: what the report says *)
(* is wrong with the corpus is, and nothing else (audit_corpus).           *)
THEOREM CleanIsAlwaysWhole == Spec => []CleanIsWhole
<1>1. Init => AuditInv
  BY AuditInitInv DEF Init
<1>2. AuditInv /\ [Next]_vars => AuditInv'
  BY AuditStep
<1>3. AuditInv => CleanIsWhole
  <2> SUFFICES ASSUME AuditInv PROVE CleanIsWhole
    OBVIOUS
  <2>1. ASSUME NEW s \in Held, NEW d \in DOMAIN Calendar[VenueHeld[s]]
        PROVE  /\ \A ts \in DOMAIN cells[s][d].copies :
                    HoldsBar(Calendar[VenueHeld[s]][d], ts) /\ cells[s][d].copies[ts] \in 1 .. 2
               /\ cells[s][d].traded \in {"normally", "flat", "halted"}
    <3>1. CellOK(Calendar[VenueHeld[s]][d], cells[s][d])
      BY DEF AuditInv, CellsOK
    <3>2. \A ts \in Grid(Calendar[VenueHeld[s]][d]) : HoldsBar(Calendar[VenueHeld[s]][d], ts)
      BY SessionsAreSessions, GridIsWhatIsExpected
    <3> QED
      BY <3>1, <3>2 DEF CellOK
  <2>2. report.made \in BOOLEAN
    <3>1. Findings.made = TRUE /\ NoReport.made = FALSE
      BY DEF Findings, NoReport
    <3> QED
      BY <3>1 DEF AuditInv
  <2>3. AuditTypeOK
    BY <2>1, <2>2 DEF AuditTypeOK, AuditInv
  <2> QED
    BY <2>3, CleanIsOfWhole, WholeIsClean, HolesAreAccountedFor DEF CleanIsWhole
<1> QED
  BY <1>1, <1>2, <1>3, PTL DEF Spec
=============================================================================
