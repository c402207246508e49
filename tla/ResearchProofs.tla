--------------------------- MODULE ResearchProofs ---------------------------
(***************************************************************************)
(* What a verdict on a strategy may be trusted for, for any corpus, sweep, *)
(* cost model and split: what purging and the embargo keep apart, what a   *)
(* label knows, and what the search is charged for.                        *)
(***************************************************************************)
EXTENDS Research, FiniteSetTheorems, SequenceTheorems, WellFoundedInduction, TLAPS

(* A set of naturals has a least member, a finite one a greatest: the       *)
(* interval up to it, or what is left of the set above it, is minimal among *)
(* finite sets.                                                            *)
LEMMA LeastMember ==
  ASSUME NEW S \in SUBSET Nat, S # {}
  PROVE  Min(S) \in S /\ \A x \in S : Min(S) <= x
<1> DEFINE Below == {1..d : d \in S}
<1>1. Below \in SUBSET FiniteSubsetsOf(Nat) /\ Below # {}
  <2>1. \A d \in S : IsFiniteSet(1..d) /\ 1..d \in SUBSET Nat
    BY FS_Interval
  <2> QED
    BY <2>1 DEF FiniteSubsetsOf
<1>2. PICK B \in Below : \A E \in Below : ~(<<E, B>> \in StrictSubsetOrdering(Nat))
  BY <1>1, WFMin, FS_StrictSubsetOrderingWellFounded
<1>3. PICK least \in S : B = 1..least
  OBVIOUS
<1>4. \A x \in S : least <= x
  <2> SUFFICES ASSUME NEW x \in S, x < least PROVE FALSE
    OBVIOUS
  <2>1. 1..x \subseteq 1..least /\ least \in 1..least /\ least \notin 1..x
    OBVIOUS
  <2>2. <<1..x, B>> \in StrictSubsetOrdering(Nat)
    BY <1>3, <2>1 DEF StrictSubsetOrdering
  <2> QED
    BY <1>2, <2>2
<1>5. least \in S /\ \A x \in S : least <= x
  BY <1>4
<1> HIDE DEF Below
<1> QED
  BY <1>5, Zenon DEF Min

LEMMA GreatestMember ==
  ASSUME NEW S \in SUBSET Nat, IsFiniteSet(S), S # {}
  PROVE  Max(S) \in S /\ \A x \in S : Max(S) >= x
<1> DEFINE Above == {{y \in S : y > d} : d \in S}
<1>1. Above \in SUBSET FiniteSubsetsOf(Nat) /\ Above # {}
  <2>1. \A d \in S : IsFiniteSet({y \in S : y > d})
    BY FS_Subset
  <2> QED
    BY <2>1 DEF FiniteSubsetsOf
<1>2. PICK A \in Above : \A E \in Above : ~(<<E, A>> \in StrictSubsetOrdering(Nat))
  BY <1>1, WFMin, FS_StrictSubsetOrderingWellFounded
<1>3. PICK greatest \in S : A = {y \in S : y > greatest}
  OBVIOUS
<1>4. \A x \in S : greatest >= x
  <2> SUFFICES ASSUME NEW x \in S, x > greatest PROVE FALSE
    OBVIOUS
  <2> DEFINE E == {y \in S : y > x}
  <2>1. E \in Above
    OBVIOUS
  <2>2. E \subseteq A
    <3>1. \A y \in S : y > x => y > greatest
      OBVIOUS
    <3> QED
      BY <1>3, <3>1
  <2>3. x \in A /\ x \notin E
    BY <1>3
  <2>4. <<E, A>> \in StrictSubsetOrdering(Nat)
    BY <1>3, <2>2, <2>3 DEF StrictSubsetOrdering
  <2> QED
    BY <1>2, <2>1, <2>4
<1>5. greatest \in S /\ \A x \in S : greatest >= x
  BY <1>4
<1> HIDE DEF Above
<1> QED
  BY <1>5, Zenon DEF Max

-----------------------------------------------------------------------------
(* An interval is all between its least and its greatest member. *)
LEMMA EndsOfAnInterval ==
  ASSUME NEW lo \in Nat, NEW hi \in Nat, lo <= hi
  PROVE  Min(lo .. hi) = lo /\ Max(lo .. hi) = hi
<1>1. lo .. hi \in SUBSET Nat /\ lo .. hi # {} /\ IsFiniteSet(lo .. hi)
  <2>1. IsFiniteSet(lo .. hi)
    BY FS_Interval
  <2> QED
    BY <2>1
<1>2. Min(lo .. hi) \in lo .. hi /\ \A x \in lo .. hi : Min(lo .. hi) <= x
  BY <1>1, LeastMember
<1>3. Max(lo .. hi) \in lo .. hi /\ \A x \in lo .. hi : Max(lo .. hi) >= x
  BY <1>1, GreatestMember
<1> QED
  BY <1>2, <1>3

(* Every group held out is in one of the runs that are held out as blocks: *)
(* _contiguous_runs loses none of them.                                    *)
LEMMA RunsCoverTheHeldOut ==
  ASSUME NEW count \in Nat, NEW held \in SUBSET (1 .. count), NEW g \in held
  PROVE  \E block \in ContiguousRuns(held) : g \in block
<1> DEFINE Beneath == {x \in 0 .. g : x \notin held}
           Beyond == {x \in g .. count + 1 : x \notin held}
           lo == Max(Beneath) + 1
           hi == Min(Beyond) - 1
<1>1. Max(Beneath) \in Beneath /\ \A x \in Beneath : Max(Beneath) >= x
  <2>1. 0 \in Beneath /\ Beneath \in SUBSET Nat
    OBVIOUS
  <2>2. IsFiniteSet(Beneath)
    <3>1. IsFiniteSet(0 .. g)
      BY FS_Interval
    <3> QED
      BY <3>1, FS_Subset
  <2> HIDE DEF Beneath
  <2> QED
    BY <2>1, <2>2, GreatestMember
<1>2. Min(Beyond) \in Beyond /\ \A x \in Beyond : Min(Beyond) <= x
  <2>1. count + 1 \in Beyond /\ Beyond \in SUBSET Nat
    OBVIOUS
  <2> HIDE DEF Beyond
  <2> QED
    BY <2>1, LeastMember
<1>3. lo \in Nat /\ hi \in Nat /\ lo <= g /\ g <= hi
  BY <1>1, <1>2
<1>4. \A x \in lo .. hi : x \in held
  <2> SUFFICES ASSUME NEW x \in lo .. hi, x \notin held PROVE FALSE
    OBVIOUS
  <2>1. CASE x <= g
    BY <1>1, <1>3, <2>1
  <2>2. CASE x > g
    BY <1>2, <1>3, <2>2
  <2> QED
    BY <1>3, <2>1, <2>2
<1>5. lo - 1 \notin held /\ hi + 1 \notin held
  BY <1>1, <1>2
<1>6. Min(lo .. hi) = lo /\ Max(lo .. hi) = hi
  <2> HIDE DEF lo, hi
  <2> QED
    BY <1>3, EndsOfAnInterval
<1>7. lo .. hi \in (SUBSET held) \ {{}} /\ g \in lo .. hi
  BY <1>3, <1>4
<1> HIDE DEF lo, hi
<1>8. lo .. hi \in ContiguousRuns(held)
  BY <1>5, <1>6, <1>7 DEF ContiguousRuns
<1> QED
  BY <1>7, <1>8

(* purge_and_embargo: what stays is over before a row of the block opens,   *)
(* or opens more than an embargo after that row's labels have closed.      *)
LEMMA PurgeKeepsApart ==
  ASSUME NEW n \in Nat, NEW spans \in [1 .. n -> [opened : Nat, closed : Nat]],
         NEW candidates \in SUBSET (1 .. n), NEW blocks \in SUBSET SUBSET (1 .. n),
         NEW embargo \in Nat,
         NEW i \in PurgeAndEmbargo(candidates, blocks, spans, embargo).train,
         NEW block \in blocks, NEW j \in block
  PROVE  \/ spans[i].closed < spans[j].opened
         \/ spans[i].opened > spans[j].closed + embargo
<1> DEFINE hull == Hull(block, spans)
           opens == {spans[k].opened : k \in block}
           closes == {spans[k].closed : k \in block}
<1>1. /\ spans[i] \in [opened : Nat, closed : Nat]
      /\ spans[j] \in [opened : Nat, closed : Nat]
      /\ i \in candidates
  BY DEF PurgeAndEmbargo
<1>2. ~Overlaps(spans[i], hull) /\ ~FollowsTooSoon(spans[i], hull, embargo)
  BY DEF PurgeAndEmbargo
<1>3. IsFiniteSet(closes)
  <2>1. IsFiniteSet(block)
    <3>1. IsFiniteSet(1 .. n)
      BY FS_Interval
    <3> QED
      BY <3>1, FS_Subset
  <2> DEFINE closeOf == [k \in block |-> spans[k].closed]
  <2>2. closes = {closeOf[k] : k \in block}
    OBVIOUS
  <2>3. closeOf \in Surjection(block, closes)
    BY <2>2, Zenon DEF Surjection
  <2> HIDE DEF closeOf, closes
  <2> QED
    BY <2>1, <2>3, FS_Surjection
<1>4. hull.from \in Nat /\ hull.from <= spans[j].opened
  <2>1. opens \in SUBSET Nat /\ spans[j].opened \in opens
    <3>1. \A k \in block : k \in 1 .. n /\ spans[k].opened \in Nat
      OBVIOUS
    <3> QED
      BY <3>1
  <2>2. Min(opens) \in Nat /\ Min(opens) <= spans[j].opened
    <3> HIDE DEF opens
    <3> QED
      BY <2>1, LeastMember
  <2> QED
    BY <2>2 DEF Hull
<1>5. hull.until \in Nat /\ hull.until >= spans[j].closed
  <2>1. closes \in SUBSET Nat /\ spans[j].closed \in closes
    <3>1. \A k \in block : k \in 1 .. n /\ spans[k].closed \in Nat
      OBVIOUS
    <3> QED
      BY <3>1
  <2>2. Max(closes) \in Nat /\ Max(closes) >= spans[j].closed
    <3> HIDE DEF closes
    <3> QED
      BY <1>3, <2>1, GreatestMember
  <2> QED
    BY <2>2 DEF Hull
<1> HIDE DEF hull
<1> QED
  BY <1>1, <1>2, <1>4, <1>5 DEF Overlaps, FollowsTooSoon

-----------------------------------------------------------------------------
(* CombinatorialPurgedCV.split: whatever groups it holds out, however the   *)
(* rows are shared among the groups and however long the labels, no row it *)
(* trains on has a label reaching the entry of a row it tests on, or opens  *)
(* within an embargo of the close of one.                                  *)
THEOREM SplitsKeepTheirDistance ==
  ASSUME NEW n \in Nat, NEW spans \in [1 .. n -> [opened : Nat, closed : Nat]],
         NEW count \in Nat, NEW blocks \in [1 .. count -> SUBSET (1 .. n)],
         NEW test_groups \in SUBSET (1 .. count), NEW embargo \in Nat,
         NEW i \in Split(test_groups, blocks, spans, embargo).train,
         NEW j \in Split(test_groups, blocks, spans, embargo).test
  PROVE  \/ spans[i].closed < spans[j].opened
         \/ spans[i].opened > spans[j].closed + embargo
<1> DEFINE held_out == {Rows(block, blocks) : block \in ContiguousRuns(test_groups)}
           others == Rows(DOMAIN blocks \ test_groups, blocks)
<1>1. i \in PurgeAndEmbargo(others, held_out, spans, embargo).train
  BY DEF Split
<1>2. PICK g \in test_groups : j \in blocks[g]
  BY DEF Split, Rows
<1>3. PICK block \in ContiguousRuns(test_groups) : g \in block
  BY RunsCoverTheHeldOut
<1>4. j \in Rows(block, blocks) /\ Rows(block, blocks) \in held_out
  BY <1>2, <1>3 DEF Rows
<1>5. others \in SUBSET (1 .. n) /\ held_out \in SUBSET SUBSET (1 .. n)
  BY DEF Rows, ContiguousRuns
<1> HIDE DEF held_out, others
<1> QED
  BY <1>1, <1>4, <1>5, PurgeKeepsApart
-----------------------------------------------------------------------------
(* Counting places in an order. *)

(* below gives, for each member of S, what comes no later than it. *)
Ordering(S, below) ==
  /\ below \in [S -> SUBSET S]
  /\ \A a \in S : a \in below[a]
  /\ \A a, b \in S : a \in below[b] \/ b \in below[a]
  /\ \A a, b \in S : a \in below[b] /\ b \in below[a] => a = b
  /\ \A a, b, c \in S : a \in below[b] /\ b \in below[c] => a \in below[c]

LEMMA RankIsAPlace ==
  ASSUME NEW S, IsFiniteSet(S), NEW below, Ordering(S, below), NEW a \in S
  PROVE  /\ IsFiniteSet(below[a])
         /\ Cardinality(below[a]) \in 1 .. Cardinality(S)
<1>1. below[a] \in SUBSET S /\ a \in below[a]
  BY DEF Ordering
<1>2. IsFiniteSet(below[a]) /\ Cardinality(below[a]) <= Cardinality(S)
  BY <1>1, FS_Subset
<1>3. Cardinality(below[a]) # 0
  BY <1>1, <1>2, FS_EmptySet
<1>4. Cardinality(S) \in Nat /\ Cardinality(below[a]) \in Nat
  BY <1>2, FS_CardinalityType
<1> QED
  BY <1>2, <1>3, <1>4

LEMMA RankIsItsOwn ==
  ASSUME NEW S, IsFiniteSet(S), NEW below, Ordering(S, below), NEW a \in S, NEW b \in S,
         Cardinality(below[a]) = Cardinality(below[b])
  PROVE  a = b
<1>1. ASSUME NEW x \in S, NEW y \in S, x \in below[y], Cardinality(below[x]) = Cardinality(below[y])
      PROVE  x = y
  <2>1. below[x] \in SUBSET below[y]
    BY <1>1 DEF Ordering
  <2>2. IsFiniteSet(below[y])
    BY RankIsAPlace
  <2>3. below[x] = below[y]
    BY <1>1, <2>1, <2>2, FS_Subset
  <2> QED
    BY <1>1, <2>3 DEF Ordering
<1> QED
  BY <1>1 DEF Ordering

LEMMA EveryRankIsTaken ==
  ASSUME NEW S, IsFiniteSet(S), NEW below, Ordering(S, below), NEW n \in 1 .. Cardinality(S)
  PROVE  \E c \in S : Cardinality(below[c]) = n
<1> DEFINE N == Cardinality(S)
           rank == [c \in S |-> Cardinality(below[c])]
<1>1. N \in Nat /\ IsFiniteSet(1 .. N) /\ Cardinality(1 .. N) = N
  BY FS_CardinalityType, FS_Interval
<1>2. rank \in [S -> 1 .. N]
  BY RankIsAPlace
<1>3. \A a, b \in S : rank[a] = rank[b] => a = b
  BY RankIsItsOwn
<1>4. rank \in Injection(S, 1 .. N)
  BY <1>2, <1>3 DEF Injection, IsInjective
<1>5. rank \in Surjection(S, 1 .. N)
  <2> HIDE DEF rank
  <2> QED
    BY <1>1, <1>4, FS_Injection
<1> QED
  BY <1>5 DEF Surjection

Ranked(seq, S, below) ==
  /\ seq = [i \in 1 .. Cardinality(S) |-> seq[i]]
  /\ \A i \in 1 .. Cardinality(S) : seq[i] \in S /\ Cardinality(below[seq[i]]) = i
Lists(seq, S) ==
  /\ seq \in Seq(S) /\ Len(seq) = Cardinality(S)
  /\ \A x \in S : \E i \in 1 .. Cardinality(S) : seq[i] = x
  /\ \A i, j \in 1 .. Cardinality(S) : seq[i] = seq[j] => i = j

(* A list of what has each rank is a list of everything, each at its place. *)
LEMMA PlacesOfRanks ==
  ASSUME NEW S, IsFiniteSet(S), NEW below, Ordering(S, below), NEW seq, Ranked(seq, S, below)
  PROVE  Lists(seq, S)
<1> USE DEF Ranked
<1>1. Cardinality(S) \in Nat
  BY FS_CardinalityType
<1>2. ASSUME NEW x \in S
      PROVE  Cardinality(below[x]) \in 1 .. Cardinality(S) /\ seq[Cardinality(below[x])] = x
  <2>1. Cardinality(below[x]) \in 1 .. Cardinality(S)
    BY RankIsAPlace
  <2>2. seq[Cardinality(below[x])] \in S /\ Cardinality(below[seq[Cardinality(below[x])]]) = Cardinality(below[x])
    BY <2>1
  <2> QED
    BY <2>1, <2>2, RankIsItsOwn
<1>3. seq \in Seq(S) /\ Len(seq) = Cardinality(S)
  <2>1. seq \in [1 .. Cardinality(S) -> S]
    OBVIOUS
  <2> QED
    BY <1>1, <2>1
<1>4. \A x \in S : \E i \in 1 .. Cardinality(S) : seq[i] = x
  BY <1>2
<1>5. \A i, j \in 1 .. Cardinality(S) : seq[i] = seq[j] => i = j
  OBVIOUS
<1> QED
  BY <1>3, <1>4, <1>5 DEF Lists

Precedes(S, below, ahead) == \A x \in S : ahead[x] = below[x] \ {x}
Chosen(seq, S, ahead) ==
  /\ seq = [i \in 1 .. Cardinality(S) |-> seq[i]]
  /\ \A i \in 1 .. Cardinality(S) :
       (\E z \in S : Cardinality(ahead[z]) = i - 1) => seq[i] \in S /\ Cardinality(ahead[seq[i]]) = i - 1

(* The list that chooses for each place what has that many ahead of it has  *)
(* each at its rank, so it is a list of all.                                *)
LEMMA ChoiceIsRanked ==
  ASSUME NEW S, IsFiniteSet(S), NEW below, Ordering(S, below), NEW ahead,
         Precedes(S, below, ahead), NEW seq, Chosen(seq, S, ahead)
  PROVE  Ranked(seq, S, below)
<1> USE DEF Precedes, Chosen
<1>1. ASSUME NEW x \in S PROVE Cardinality(ahead[x]) = Cardinality(below[x]) - 1
  <2>1. IsFiniteSet(below[x]) /\ x \in below[x]
    BY RankIsAPlace DEF Ordering
  <2> QED
    BY <2>1, FS_RemoveElement
<1>2. Cardinality(S) \in Nat /\ \A x \in S : Cardinality(below[x]) \in 1 .. Cardinality(S)
  BY FS_CardinalityType, RankIsAPlace
<1>3. ASSUME NEW i \in 1 .. Cardinality(S) PROVE seq[i] \in S /\ Cardinality(below[seq[i]]) = i
  <2>1. PICK x \in S : Cardinality(below[x]) = i
    BY EveryRankIsTaken
  <2>2. seq[i] \in S /\ Cardinality(ahead[seq[i]]) = i - 1
    BY <1>1, <2>1
  <2> QED
    BY <1>1, <1>2, <2>2
<1> QED
  BY <1>3 DEF Ranked

LEMMA ChoiceTakesAll ==
  ASSUME NEW S, IsFiniteSet(S), NEW below, Ordering(S, below), NEW ahead,
         Precedes(S, below, ahead), NEW seq, Chosen(seq, S, ahead)
  PROVE  Lists(seq, S)
BY ChoiceIsRanked, PlacesOfRanks

Numbers(S) == S \subseteq Int
Upward(S) == [a \in S |-> {x \in S : x <= a}]
Smaller(S) == [a \in S |-> {x \in S : x < a}]

LEMMA NumbersAreOrdered ==
  ASSUME NEW S, Numbers(S)
  PROVE  Ordering(S, Upward(S)) /\ Precedes(S, Upward(S), Smaller(S))
<1>1. Ordering(S, Upward(S))
  BY DEF Ordering, Upward, Numbers
<1>2. ASSUME NEW x \in S PROVE {y \in S : y < x} = {y \in S : y <= x} \ {x}
  <2>1. \A y \in S : y < x <=> y <= x /\ y # x
    BY DEF Numbers
  <2> QED
    BY <2>1, Zenon
<1>3. Precedes(S, Upward(S), Smaller(S))
  BY <1>2 DEF Precedes, Upward, Smaller
<1> QED
  BY <1>1, <1>3

(* Numbers in order: each of them, and none twice. *)
LEMMA AscendingTakesAll ==
  ASSUME NEW S, Numbers(S), IsFiniteSet(S)
  PROVE  Lists(Ascending(S), S)
<1> DEFINE seq == [i \in 1 .. Cardinality(S) |-> CHOOSE x \in S : Cardinality({y \in S : y < x}) = i - 1]
<1>1. Ascending(S) = seq
  BY DEF Ascending, InOrder
<1>2. ASSUME NEW i \in 1 .. Cardinality(S), NEW z \in S, Cardinality(Smaller(S)[z]) = i - 1
      PROVE  seq[i] \in S /\ Cardinality(Smaller(S)[seq[i]]) = i - 1
  <2>1. Cardinality({y \in S : y < z}) = i - 1
    BY <1>2 DEF Smaller
  <2>2. seq[i] \in S /\ Cardinality({y \in S : y < seq[i]}) = i - 1
    BY <2>1
  <2> HIDE DEF seq
  <2> QED
    BY <2>2 DEF Smaller
<1>3. seq = [i \in 1 .. Cardinality(S) |-> seq[i]]
  OBVIOUS
<1> HIDE DEF seq
<1>4. Chosen(seq, S, Smaller(S))
  BY <1>2, <1>3 DEF Chosen
<1>5. Lists(seq, S)
  BY <1>4, NumbersAreOrdered, ChoiceTakesAll
<1> QED
  BY <1>1, <1>5
-----------------------------------------------------------------------------
(* A file that is only appended to: what it still holds of what it was given. *)
LinesOf(rows) == {Garbled} \cup {Line(t) : t \in rows}
Holds(file, rows) ==
  /\ file.lines \in Seq(LinesOf(rows)) /\ file.ended \in BOOLEAN
  /\ file.ended \/ Len(file.lines) > 0
  /\ Legible(file) => \A t \in rows : \E i \in DOMAIN file.lines : file.lines[i] = Line(t)

LEMMA LinesRead ==
  ASSUME NEW t, NEW u
  PROVE  Line(t).readable /\ ~Garbled.readable /\ Line(t).row = t /\ (Line(t) = Line(u) => t = u)
<1>1. Line(t).row = t /\ Line(u).row = u
  BY DEF Line
<1> QED
  BY <1>1 DEF Line, Garbled

LEMMA MoreRowsMoreLines ==
  ASSUME NEW rows, NEW more, rows \subseteq more, NEW lines \in Seq(LinesOf(rows))
  PROVE  lines \in Seq(LinesOf(more))
<1>1. LinesOf(rows) \subseteq LinesOf(more)
  BY DEF LinesOf
<1> HIDE DEF LinesOf
<1> QED
  BY <1>1

(* An append goes at the end of a file that was ended, or spoils the line   *)
(* that was not.                                                           *)
LEMMA AppendAddsARow ==
  ASSUME NEW rows, NEW more, rows \subseteq more, NEW lines \in Seq(LinesOf(rows)), NEW line \in LinesOf(more)
  PROVE  /\ Append(lines, line) \in Seq(LinesOf(more)) /\ Len(Append(lines, line)) = Len(lines) + 1
         /\ \A i \in DOMAIN lines : i \in DOMAIN Append(lines, line) /\ Append(lines, line)[i] = lines[i]
         /\ Len(lines) + 1 \in DOMAIN Append(lines, line) /\ Append(lines, line)[Len(lines) + 1] = line
<1>1. lines \in Seq(LinesOf(more))
  BY MoreRowsMoreLines
<1> DEFINE L == LinesOf(more)
<1> HIDE DEF L
<1>2. lines \in Seq(L) /\ line \in L
  BY <1>1 DEF L
<1>3. Append(lines, line) \in Seq(L)
  BY <1>2
<1>4. Len(Append(lines, line)) = Len(lines) + 1
  BY <1>2
<1>5. \A i \in DOMAIN lines : i \in DOMAIN Append(lines, line) /\ Append(lines, line)[i] = lines[i]
  BY <1>2
<1>6. Len(lines) + 1 \in DOMAIN Append(lines, line) /\ Append(lines, line)[Len(lines) + 1] = line
  BY <1>2
<1> QED
  BY <1>3, <1>4, <1>5, <1>6 DEF L

LEMMA SpoilingALine ==
  ASSUME NEW rows, NEW more, rows \subseteq more, NEW lines \in Seq(LinesOf(rows)), Len(lines) > 0
  PROVE  LET spoilt == [lines EXCEPT ![Len(lines)] = Garbled]
         IN /\ spoilt \in Seq(LinesOf(more)) /\ Len(spoilt) = Len(lines)
            /\ Len(lines) \in DOMAIN spoilt /\ spoilt[Len(lines)] = Garbled
<1>1. lines \in Seq(LinesOf(more)) /\ Garbled \in LinesOf(more)
  BY MoreRowsMoreLines DEF LinesOf
<1> DEFINE L == LinesOf(more)
           spoilt == [lines EXCEPT ![Len(lines)] = Garbled]
<1> HIDE DEF L
<1>2. lines \in Seq(L) /\ Garbled \in L
  BY <1>1 DEF L
<1>3. spoilt \in [1 .. Len(lines) -> L]
  BY <1>2
<1>4. spoilt \in Seq(L) /\ Len(spoilt) = Len(lines)
  BY <1>2, <1>3
<1>5. Len(lines) \in DOMAIN lines
  BY <1>2
<1>6. Len(lines) \in DOMAIN spoilt /\ spoilt[Len(lines)] = Garbled
  BY <1>5
<1> QED
  BY <1>4, <1>6 DEF L

(* Whatever an append makes of a file, finished or cut short, the file has  *)
(* the row, or a line that does not read.                                  *)
LEMMA AppendedIsHeld ==
  ASSUME NEW file, NEW rows, Holds(file, rows), NEW t, NEW ended \in BOOLEAN, NEW line \in {Line(t), Garbled},
         NEW after, file.ended, after.ended = ended, after.lines = Append(file.lines, line)
  PROVE  Holds(after, rows \cup {t})
<1> DEFINE more == rows \cup {t}
<1>1. line \in LinesOf(more) /\ rows \subseteq more /\ file.lines \in Seq(LinesOf(rows)) /\ Len(file.lines) \in Nat
  BY DEF LinesOf, Holds
<1>2. /\ after.lines \in Seq(LinesOf(more)) /\ Len(after.lines) = Len(file.lines) + 1
      /\ \A i \in DOMAIN file.lines : i \in DOMAIN after.lines /\ after.lines[i] = file.lines[i]
      /\ Len(file.lines) + 1 \in DOMAIN after.lines /\ after.lines[Len(file.lines) + 1] = line
  <2> HIDE DEF more
  <2> QED
    BY <1>1, AppendAddsARow
<1>3. ASSUME Legible(after), NEW u \in more PROVE \E i \in DOMAIN after.lines : after.lines[i] = Line(u)
  <2>1. line = Line(t)
    BY <1>2, <1>3, LinesRead DEF Legible
  <2>2. CASE u = t
    BY <1>2, <2>1, <2>2
  <2>3. CASE u \in rows
    <3>1. Legible(file)
      BY <1>2, <1>3 DEF Legible
    <3>2. PICK i \in DOMAIN file.lines : file.lines[i] = Line(u)
      BY <2>3, <3>1 DEF Holds
    <3> QED
      BY <1>2, <3>2
  <2> QED
    BY <2>2, <2>3
<1> QED
  BY <1>1, <1>2, <1>3 DEF Holds

LEMMA SpoiltIsHeld ==
  ASSUME NEW file, NEW rows, Holds(file, rows), NEW t, NEW ended \in BOOLEAN,
         NEW after, ~file.ended, after.ended = ended,
         after.lines = [file.lines EXCEPT ![Len(file.lines)] = Garbled]
  PROVE  Holds(after, rows \cup {t})
<1> DEFINE more == rows \cup {t}
<1>1. rows \subseteq more /\ file.lines \in Seq(LinesOf(rows)) /\ Len(file.lines) > 0
  BY DEF Holds
<1>2. /\ after.lines \in Seq(LinesOf(more)) /\ Len(after.lines) = Len(file.lines)
      /\ Len(file.lines) \in DOMAIN after.lines /\ after.lines[Len(file.lines)] = Garbled
  <2> HIDE DEF more
  <2> QED
    BY <1>1, SpoilingALine
<1>3. ~Legible(after)
  BY <1>2, LinesRead DEF Legible
<1> QED
  BY <1>1, <1>2, <1>3 DEF Holds

LEMMA WrittenIsHeld ==
  ASSUME NEW file, NEW rows, Holds(file, rows), NEW t
  PROVE  Holds(Written(file, t), rows \cup {t})
<1>1. file.ended \in BOOLEAN
  BY DEF Holds
<1>2. CASE file.ended
  <2>1. Written(file, t).ended = TRUE /\ Written(file, t).lines = Append(file.lines, Line(t))
    BY <1>2 DEF Written
  <2> HIDE DEF Written
  <2> QED
    BY <1>2, <2>1, AppendedIsHeld
<1>3. CASE ~file.ended
  <2>1. /\ Written(file, t).ended = TRUE
        /\ Written(file, t).lines = [file.lines EXCEPT ![Len(file.lines)] = Garbled]
    BY <1>3 DEF Written
  <2> QED
    BY <1>3, <2>1, SpoiltIsHeld
<1> QED
  BY <1>1, <1>2, <1>3

LEMMA CutShortIsHeld ==
  ASSUME NEW file, NEW rows, Holds(file, rows), NEW t, NEW left \in CutShort(file, t)
  PROVE  left = file \/ Holds(left, rows \cup {t})
<1> DEFINE joined == [file.lines EXCEPT ![Len(file.lines)] = Garbled]
           partly == [lines |-> IF file.ended THEN Append(file.lines, Garbled) ELSE joined, ended |-> FALSE]
           unended == [Written(file, t) EXCEPT !.ended = FALSE]
<1>1. left \in {file, partly, unended}
  BY DEF CutShort
<1>2. file.ended \in BOOLEAN
  BY DEF Holds
<1>3. Holds(partly, rows \cup {t})
  <2>1. CASE file.ended
    <3>1. partly.ended = FALSE /\ partly.lines = Append(file.lines, Garbled)
      BY <2>1
    <3> HIDE DEF partly
    <3> QED
      BY <2>1, <3>1, AppendedIsHeld
  <2>2. CASE ~file.ended
    <3>1. partly.ended = FALSE /\ partly.lines = joined
      BY <2>2
    <3> HIDE DEF partly
    <3> QED
      BY <2>2, <3>1, SpoiltIsHeld
  <2> QED
    BY <1>2, <2>1, <2>2
<1>4. Holds(unended, rows \cup {t})
  <2>1. unended.ended = FALSE /\ unended.lines = Written(file, t).lines
    BY DEF Written
  <2>2. CASE file.ended
    <3>1. unended.lines = Append(file.lines, Line(t))
      BY <2>1, <2>2 DEF Written
    <3> HIDE DEF unended
    <3> QED
      BY <2>1, <2>2, <3>1, AppendedIsHeld
  <2>3. CASE ~file.ended
    <3>1. unended.lines = joined
      BY <2>1, <2>3 DEF Written
    <3> HIDE DEF unended
    <3> QED
      BY <2>1, <2>3, <3>1, SpoiltIsHeld
  <2> QED
    BY <1>2, <2>2, <2>3
<1> HIDE DEF partly, unended
<1> QED
  BY <1>1, <1>3, <1>4
(* A file that reads is read whole, line by line. *)
LEMMA EveryRowIsRead ==
  ASSUME NEW file, NEW rows, Holds(file, rows), Legible(file)
  PROVE  /\ Len(file.lines) \in Nat /\ DOMAIN RowsOf(file) = 1 .. Len(file.lines)
         /\ \A k \in 1 .. Len(file.lines) : file.lines[k] = Line(RowsOf(file)[k]) /\ RowsOf(file)[k] \in rows
         /\ \A t \in rows : \E k \in 1 .. Len(file.lines) : RowsOf(file)[k] = t
<1> DEFINE N == Len(file.lines)
           read == {i \in DOMAIN file.lines : file.lines[i].readable}
           nth(k) == CHOOSE i \in read : Cardinality({j \in read : j < i}) = k - 1
<1>1. N \in Nat /\ DOMAIN file.lines = 1 .. N
  BY DEF Holds
<1>2. read = 1 .. N
  BY <1>1 DEF Legible
<1>3. Cardinality(read) = N
  <2>1. \A n \in Nat : Cardinality(1 .. n) = n
    BY FS_Interval
  <2> HIDE DEF read, N
  <2> QED
    BY <1>1, <1>2, <2>1
<1>4. ASSUME NEW i \in 1 .. N PROVE Cardinality({j \in 1 .. N : j < i}) = i - 1
  <2>1. {j \in 1 .. N : j < i} = 1 .. (i - 1)
    BY <1>1
  <2>2. Cardinality(1 .. (i - 1)) = i - 1
    BY FS_Interval
  <2> QED
    BY <2>1, <2>2
<1>5. ASSUME NEW k \in 1 .. N PROVE nth(k) = k
  <2> DEFINE Ahead(i) == Cardinality({j \in read : j < i})
  <2>1. \A i \in 1 .. N : Ahead(i) = i - 1
    BY <1>2, <1>4
  <2> HIDE DEF Ahead, read
  <2>2. nth(k) = CHOOSE i \in read : Ahead(i) = k - 1
    BY DEF Ahead
  <2> HIDE DEF nth
  <2>3. \E i \in read : Ahead(i) = k - 1
    BY <1>2, <2>1
  <2>4. nth(k) \in read /\ Ahead(nth(k)) = k - 1
    BY <2>2, <2>3
  <2> QED
    BY <1>2, <2>1, <2>4
<1>6. RowsOf(file) = [k \in 1 .. Cardinality(read) |-> file.lines[nth(k)].row]
  BY DEF RowsOf
<1> HIDE DEF read, nth, N
<1>7. ASSUME NEW k \in 1 .. N
      PROVE  file.lines[k] = Line(RowsOf(file)[k]) /\ RowsOf(file)[k] \in rows
  <2>1. RowsOf(file)[k] = file.lines[k].row
    BY <1>3, <1>5, <1>6
  <2>2. file.lines[k] \in LinesOf(rows)
    BY <1>1 DEF Holds
  <2>3. file.lines[k].readable
    BY <1>1 DEF Legible
  <2>4. PICK t \in rows : file.lines[k] = Line(t)
    BY <2>2, <2>3, LinesRead DEF LinesOf
  <2> QED
    BY <2>1, <2>4, LinesRead
<1>8. ASSUME NEW t \in rows PROVE \E k \in 1 .. N : RowsOf(file)[k] = t
  <2>1. PICK i \in DOMAIN file.lines : file.lines[i] = Line(t)
    BY DEF Holds
  <2>2. i \in 1 .. N /\ Line(RowsOf(file)[i]) = Line(t)
    BY <1>1, <1>7, <2>1
  <2> QED
    BY <2>2, LinesRead
<1>9. DOMAIN RowsOf(file) = 1 .. N
  BY <1>3, <1>6
<1> QED
  BY <1>1, <1>7, <1>8, <1>9 DEF N

(* TrialLedgerStore.trials: all of the family's rows, and no others. *)
LEMMA TrialsAreTheFamilys ==
  ASSUME Holds(ledger, tried), Legible(ledger), NEW family
  PROVE  /\ Range(Trials(family)) = {t \in tried : t.family = family}
         /\ Trials(family) \in Seq({t \in tried : t.family = family})
<1> DEFINE rows == RowsOf(ledger)
           N == Len(ledger.lines)
           places == {i \in DOMAIN rows : rows[i].family = family}
           theirs == Ascending(places)
<1>1. /\ N \in Nat /\ DOMAIN rows = 1 .. N
      /\ \A k \in 1 .. N : rows[k] \in tried
      /\ \A t \in tried : \E k \in 1 .. N : rows[k] = t
  BY EveryRowIsRead
<1>2. IsFiniteSet(places) /\ Numbers(places)
  <2>1. places \subseteq 1 .. N /\ IsFiniteSet(1 .. N)
    BY <1>1, FS_Interval
  <2> HIDE DEF places
  <2>2. IsFiniteSet(places)
    BY <2>1, FS_Subset
  <2>3. places \subseteq Int
    BY <2>1
  <2> QED
    BY <2>2, <2>3 DEF Numbers
<1>3. Lists(theirs, places)
  <2> HIDE DEF places
  <2> QED
    BY <1>2, AscendingTakesAll
<1>4. Trials(family) = [k \in DOMAIN theirs |-> rows[theirs[k]]]
  BY DEF Trials
<1>5. /\ DOMAIN theirs = 1 .. Cardinality(places) /\ Cardinality(places) \in Nat
      /\ \A k \in DOMAIN theirs : theirs[k] \in places
      /\ \A x \in places : \E k \in DOMAIN theirs : theirs[k] = x
  <2>1. Cardinality(places) \in Nat
    BY <1>2, FS_CardinalityType
  <2> HIDE DEF places, theirs
  <2> QED
    BY <1>3, <2>1 DEF Lists
<1> HIDE DEF rows, theirs
<1>6. \A k \in DOMAIN theirs : rows[theirs[k]] \in tried /\ rows[theirs[k]].family = family
  BY <1>1, <1>5
<1>7. ASSUME NEW t \in tried, t.family = family PROVE \E k \in DOMAIN theirs : rows[theirs[k]] = t
  <2>1. PICK i \in 1 .. N : rows[i] = t
    BY <1>1
  <2>2. i \in places
    BY <1>1, <1>7, <2>1
  <2> QED
    BY <1>5, <2>1, <2>2
<1> DEFINE own == {t \in tried : t.family = family}
<1>8. \A k \in DOMAIN theirs : rows[theirs[k]] \in own
  BY <1>6
<1>9. Range(Trials(family)) = own
  <2>1. DOMAIN Trials(family) = DOMAIN theirs /\ \A k \in DOMAIN theirs : Trials(family)[k] = rows[theirs[k]]
    BY <1>4
  <2>2. \A t \in own : \E k \in DOMAIN theirs : rows[theirs[k]] = t
    BY <1>7
  <2> HIDE DEF own
  <2> QED
    BY <1>8, <2>1, <2>2 DEF Range
<1>10. Trials(family) \in Seq(own)
  <2> HIDE DEF own, places
  <2> QED
    BY <1>4, <1>5, <1>8
<1> QED
  BY <1>9, <1>10
-----------------------------------------------------------------------------
(* The ledger and the verdict. *)

(* n of the run's variants have reached the ledger, each under its name. *)
Tried(n) ==
  /\ \A t \in tried : t.run = run.id =>
       t.family = run.family /\ \E v \in 1 .. n : t.label = run.variants[v].label
  /\ \A v \in 1 .. n : \E t \in tried : t.run = run.id /\ t.label = run.variants[v].label
Sweeping == {"family", "variants"} \subseteq DOMAIN run /\ run.variants \in Seq(Range(run.variants))

RunsAreCounted ==
  /\ run.id \in Nat /\ {"id", "phase"} \subseteq DOMAIN run /\ (run.id = 0 => run.phase = "idle")
  /\ \A t \in tried : t.run \in 1 .. run.id
SweepIsFresh == run.phase = "labelling" => Sweeping /\ Tried(0)
TrialsComeInTurn ==
  run.phase = "recording" =>
    /\ Sweeping /\ "recorded" \in DOMAIN run
    /\ Len(run.variants) >= 2 /\ run.recorded \in 0 .. Len(run.variants) /\ Tried(run.recorded)

SearchInv ==
  /\ RunsAreCounted /\ Holds(ledger, tried) /\ SweepIsFresh /\ TrialsComeInTurn
  /\ VerdictChargesTheWholeSearch

LEMMA SearchInit == Init => SearchInv
<1> SUFFICES ASSUME Init PROVE SearchInv
  OBVIOUS
<1>1. run.id = 0 /\ run.phase = "idle" /\ DOMAIN run = {"id", "phase"} /\ tried = {} /\ ledger = EmptyFile
  BY DEF Init, NoRun
<1>2. Holds(ledger, tried)
  BY <1>1 DEF Holds, EmptyFile, Legible
<1> QED
  BY <1>1, <1>2 DEF SearchInv, RunsAreCounted, SweepIsFresh, TrialsComeInTurn, VerdictChargesTheWholeSearch

(* A run that ends without a verdict. *)
LEMMA SearchOver ==
  ASSUME SearchInv, run.phase # "idle", NEW phase \in {"died", "raised", "refused"}, Over(phase), Holds(ledger, tried)',
         \A t \in tried' : t.run \in 1 .. run.id
  PROVE  SearchInv'
<1>1. run'.phase = phase /\ run'.id = run.id /\ DOMAIN run' = DOMAIN run
  BY DEF SearchInv, RunsAreCounted, Over
<1>2. RunsAreCounted'
  BY <1>1 DEF SearchInv, RunsAreCounted
<1> QED
  BY <1>1, <1>2 DEF SearchInv, SweepIsFresh, TrialsComeInTurn, VerdictChargesTheWholeSearch

LEMMA SearchMeasure == ASSUME SearchInv, Measure PROVE SearchInv'
<1>1. run.id \in Nat /\ run.id < Len(Requests) /\ ledger' = ledger /\ tried' = tried
  BY DEF SearchInv, RunsAreCounted, Measure
<1>2. PICK request \in Requests[run.id + 1] : run' = Asked(request)
  BY DEF Measure
<1>3. /\ run'.id = run.id + 1 /\ run'.phase = "labelling" /\ run'.variants = request.variants
      /\ {"id", "phase", "family", "variants"} \subseteq DOMAIN run'
  BY <1>2 DEF Asked
<1>4. request.variants \in Seq(Range(request.variants))
  <2>1. run.id + 1 \in DOMAIN Requests
    BY <1>1, RequestsAssumption
  <2> QED
    BY <2>1, RequestsAssumption
<1>5. \A t \in tried : t.run \in 1 .. run.id + 1 /\ t.run # run.id + 1
  BY <1>1 DEF SearchInv, RunsAreCounted
<1>6. RunsAreCounted'
  BY <1>1, <1>3, <1>5 DEF RunsAreCounted
<1>7. Holds(ledger, tried)'
  BY <1>1 DEF SearchInv
<1>8. SweepIsFresh'
  BY <1>1, <1>3, <1>4, <1>5 DEF SweepIsFresh, Sweeping, Tried
<1> QED
  BY <1>3, <1>6, <1>7, <1>8 DEF SearchInv, TrialsComeInTurn, VerdictChargesTheWholeSearch

(* What labelling changes of the run is no part of the search. *)
LEMMA SearchLabelling ==
  ASSUME SearchInv, run.phase = "labelling", UNCHANGED <<ledger, tried>>,
         run'.phase = run.phase, run'.id = run.id, run'.family = run.family, run'.variants = run.variants,
         DOMAIN run' = DOMAIN run
  PROVE  SearchInv'
<1>1. Holds(ledger, tried)'
  BY DEF SearchInv
<1>2. RunsAreCounted'
  BY DEF SearchInv, RunsAreCounted
<1>3. SweepIsFresh'
  BY DEF SearchInv, SweepIsFresh, Sweeping, Tried
<1> QED
  BY <1>1, <1>2, <1>3 DEF SearchInv, TrialsComeInTurn, VerdictChargesTheWholeSearch

LEMMA SearchPassOver == ASSUME SearchInv, PassOver PROVE SearchInv'
<1>1. {"id", "phase", "family", "variants"} \subseteq DOMAIN run
  BY DEF SearchInv, RunsAreCounted, SweepIsFresh, Sweeping, PassOver
<1> DEFINE row == SymbolRun([spans |-> <<>>, trades |-> [v \in DOMAIN run.variants |-> <<>>]])
<1>2. run' = [run EXCEPT !.todo = Tail(run.todo), !.runs = Append(@, row)]
  BY DEF PassOver
<1> HIDE DEF row
<1>3. /\ run'.phase = run.phase /\ run'.id = run.id /\ run'.family = run.family /\ run'.variants = run.variants
      /\ DOMAIN run' = DOMAIN run
  BY <1>1, <1>2
<1> QED
  BY <1>3, SearchLabelling DEF PassOver

LEMMA SearchLabelSymbol == ASSUME SearchInv, LabelSymbol PROVE SearchInv'
<1>1. {"id", "phase", "family", "variants"} \subseteq DOMAIN run
  BY DEF SearchInv, RunsAreCounted, SweepIsFresh, Sweeping, LabelSymbol
<1>2. PICK todo, runs, parts, curve :
        run' = [run EXCEPT !.todo = todo, !.runs = runs, !.parts = parts, !.curve = curve]
  <2> DEFINE observations == LabelledAt(Models[1])
             bars == corpus[Symbol]
             scored == [l \in DOMAIN run.curve |-> LabelledAt(Models[l + 1])]
             part == [key |-> Symbol, timestamps |-> [i \in DOMAIN bars |-> bars[i].ts],
                      observations |-> observations]
             row == SymbolRun(observations)
             curve == [l \in DOMAIN run.curve |-> [v \in DOMAIN run.variants |->
                         AddTallies(run.curve[l][v], Tally(scored[l].trades[v]))]]
  <2>1. run' = [run EXCEPT !.todo = Tail(run.todo), !.runs = Append(run.runs, row),
                           !.parts = Append(run.parts, part), !.curve = curve]
    BY DEF LabelSymbol
  <2> HIDE DEF observations, bars, scored, part, row, curve
  <2> QED
    BY <2>1
<1>3. /\ run'.phase = run.phase /\ run'.id = run.id /\ run'.family = run.family /\ run'.variants = run.variants
      /\ DOMAIN run' = DOMAIN run
  BY <1>1, <1>2
<1> QED
  BY <1>3, SearchLabelling DEF LabelSymbol

LEMMA SearchPoolParts == ASSUME SearchInv, PoolParts PROVE SearchInv'
<1> DEFINE pooled == Pool(run.parts, Len(run.variants))
           found == [phase |-> "recording", recorded |-> 0, pooled |-> pooled]
<1>1. UNCHANGED <<ledger, tried>> /\ run.phase = "labelling"
  BY DEF PoolParts
<1>2. \/ WhyNot(pooled) /\ Over("refused")
      \/ ~WhyNot(pooled) /\ run' = Having(found)
  BY DEF PoolParts
<1>3. Holds(ledger, tried)' /\ \A t \in tried' : t.run \in 1 .. run.id
  BY <1>1 DEF SearchInv, RunsAreCounted
<1> HIDE DEF pooled
<1>4. CASE Over("refused")
  BY <1>1, <1>3, <1>4, SearchOver
<1>5. CASE ~WhyNot(pooled) /\ run' = Having(found)
  <2>1. Sweeping /\ Tried(0) /\ RunsAreCounted
    BY <1>1 DEF SearchInv, SweepIsFresh
  <2>2. Len(run.variants) >= 2
    BY <1>5, <2>1 DEF WhyNot, Sweeping
  <2>3. /\ run'.phase = "recording" /\ run'.recorded = 0 /\ DOMAIN run \subseteq DOMAIN run'
        /\ "recorded" \in DOMAIN run'
        /\ run'.id = run.id /\ run'.family = run.family /\ run'.variants = run.variants
    BY <1>5, <2>1 DEF Having, RunsAreCounted, Sweeping
  <2>4. RunsAreCounted'
    BY <1>1, <2>1, <2>3 DEF RunsAreCounted
  <2>5. TrialsComeInTurn'
    <3>1. Sweeping'
      BY <2>1, <2>3 DEF Sweeping
    <3>2. Tried(run.recorded)'
      BY <1>1, <2>1, <2>3 DEF Tried
    <3>3. run'.recorded \in 0 .. Len(run'.variants) /\ Len(run'.variants) >= 2
      BY <2>1, <2>2, <2>3 DEF Sweeping
    <3> QED
      BY <2>3, <3>1, <3>2, <3>3 DEF TrialsComeInTurn
  <2> QED
    BY <1>3, <2>3, <2>4, <2>5 DEF SearchInv, SweepIsFresh, VerdictChargesTheWholeSearch
<1> QED
  BY <1>2, <1>4, <1>5

LEMMA SearchRecordTrial == ASSUME SearchInv, RecordTrial PROVE SearchInv'
<1> DEFINE t == TrialNow
           n == run.recorded + 1
<1>1. /\ run.phase = "recording" /\ run.recorded < Len(run.variants)
      /\ \/ /\ ledger' = Written(ledger, t) /\ tried' = tried \cup {t}
            /\ run' = [run EXCEPT !.recorded = @ + 1, !.clock = @ + 1]
         \/ Over("raised") /\ UNCHANGED <<ledger, tried>>
  BY DEF RecordTrial
<1>2. t.run = run.id /\ t.family = run.family /\ t.label = run.variants[n].label
  BY DEF TrialNow, Turn
<1> HIDE DEF t
<1>3. CASE Over("raised") /\ UNCHANGED <<ledger, tried>>
  <2>1. Holds(ledger, tried)' /\ \A u \in tried' : u.run \in 1 .. run.id
    BY <1>3 DEF SearchInv, RunsAreCounted
  <2> QED
    BY <1>1, <1>3, <2>1, SearchOver
<1>4. CASE /\ ledger' = Written(ledger, t) /\ tried' = tried \cup {t}
           /\ run' = [run EXCEPT !.recorded = @ + 1, !.clock = @ + 1]
  <2>1. RunsAreCounted /\ Sweeping /\ "recorded" \in DOMAIN run /\ Tried(run.recorded)
    BY <1>1 DEF SearchInv, TrialsComeInTurn
  <2>2. Len(run.variants) \in Nat /\ Len(run.variants) >= 2 /\ run.recorded \in 0 .. Len(run.variants)
    BY <1>1 DEF SearchInv, TrialsComeInTurn, Sweeping
  <2>3. /\ run'.phase = "recording" /\ run'.recorded = n /\ DOMAIN run' = DOMAIN run
        /\ run'.id = run.id /\ run'.family = run.family /\ run'.variants = run.variants
    BY <1>1, <1>4, <2>1 DEF RunsAreCounted, Sweeping
  <2>4. Holds(ledger, tried)'
    <3>1. Holds(Written(ledger, t), tried \cup {t})
      BY WrittenIsHeld DEF SearchInv
    <3> QED
      BY <1>4, <3>1 DEF Holds, Legible, LinesOf
  <2>5. RunsAreCounted'
    <3>1. \A u \in tried' : u.run \in 1 .. run.id
      <4>1. run.id \in 1 .. run.id
        BY <1>1, <2>1 DEF RunsAreCounted
      <4> QED
        BY <1>2, <1>4, <2>1, <4>1 DEF RunsAreCounted
    <3> QED
      BY <1>1, <2>1, <2>3, <3>1 DEF RunsAreCounted
  <2>6. Tried(run.recorded)'
    <3>1. ASSUME NEW u \in tried', u.run = run.id
          PROVE  u.family = run.family /\ \E v \in 1 .. n : u.label = run.variants[v].label
      <4>1. CASE u = t
        BY <1>2, <2>2, <4>1
      <4>2. CASE u \in tried
        BY <2>1, <2>2, <3>1, <4>2 DEF Tried
      <4> QED
        BY <1>4, <4>1, <4>2
    <3>2. ASSUME NEW v \in 1 .. n
          PROVE  \E u \in tried' : u.run = run.id /\ u.label = run.variants[v].label
      <4>1. CASE v = n
        BY <1>2, <1>4, <4>1
      <4>2. CASE v \in 1 .. run.recorded
        BY <1>4, <2>1, <4>2 DEF Tried
      <4> QED
        BY <2>2, <4>1, <4>2
    <3> HIDE DEF n
    <3> QED
      BY <2>3, <3>1, <3>2 DEF Tried
  <2>7. TrialsComeInTurn'
    BY <1>1, <2>1, <2>2, <2>3, <2>6 DEF TrialsComeInTurn, Sweeping
  <2> QED
    BY <2>3, <2>4, <2>5, <2>7 DEF SearchInv, SweepIsFresh, VerdictChargesTheWholeSearch
<1> QED
  BY <1>1, <1>3, <1>4

(* FirstBest and the rest of the verdict are of no account here.            *)
LEMMA LooksAreBounded ==
  ASSUME NEW a \in Nat, NEW b \in Nat, NEW c \in Nat, a <= c, b >= 1
  PROVE  Max({1, a + b - c}) \in 1 .. b
<1> DEFINE x == a + b - c
           S == {1, x}
<1>1. x \in Int /\ x <= b
  OBVIOUS
<1>2. \E m \in S : \A y \in S : m >= y
  <2> HIDE DEF x
  <2>1. CASE x >= 1
    BY <1>1, <2>1
  <2>2. CASE ~(x >= 1)
    BY <1>1, <2>2
  <2> QED
    BY <2>1, <2>2
<1>3. Max(S) \in S /\ \A y \in S : Max(S) >= y
  <2> HIDE DEF S
  <2> QED
    BY <1>2, Zenon DEF Max
<1> HIDE DEF x
<1>4. Max(S) \in 1 .. b
  BY <1>1, <1>3
<1> QED
  BY <1>4 DEF x

LEMMA SearchJudge == ASSUME SearchInv, Judge PROVE SearchInv'
<1>1. run.phase = "recording" /\ run.recorded = Len(run.variants) /\ UNCHANGED <<ledger, tried>>
  BY DEF Judge
<1>2. Holds(ledger, tried)' /\ \A t \in tried' : t.run \in 1 .. run.id
  BY <1>1 DEF SearchInv, RunsAreCounted
<1>3. CASE ~Legible(ledger)
  <2>1. Over("raised")
    BY <1>3 DEF Judge
  <2> QED
    BY <1>1, <1>2, <2>1, SearchOver
<1>4. CASE Legible(ledger)
  <2>1. PICK independent, best, clusters, misses, chosen, tally, coverage, costs :
          /\ independent \in 1 .. Len(run.variants)
          /\ run' = Having([phase |-> "judged", best |-> best, charged |-> Trials(run.family),
                            looks |-> Max({1, independent + Len(Trials(run.family)) - Len(run.variants)}),
                            clusters |-> clusters, misses |-> misses, chosen |-> chosen, tally |-> tally,
                            coverage |-> coverage, costs |-> costs])
    <3> HIDE DEF Having, Trials
    <3>1. PICK independent \in 1 .. Len(run.variants) :
            LET pooled == run.pooled
                columns == Columns
                best == FirstBest([v \in DOMAIN columns |-> Moments(columns[v])])
                charged == Trials(run.family)
            IN run' = Having([phase |-> "judged", best |-> best, charged |-> charged,
                       looks |-> Max({1, independent + Len(charged) - Len(run.variants)}),
                       clusters |-> Cardinality({DayOf(pooled.spans[i].opened) : i \in DOMAIN pooled.spans}),
                       misses |-> Misses(columns, Len(pooled.spans), PboBlocks),
                       chosen |-> ChosenBy(pooled.spans, columns, CV),
                       tally |-> Tally(pooled.trades[best]),
                       coverage |-> CoverageOf(pooled, best),
                       costs |-> CurveOf(run.curve, best)])
      BY <1>4 DEF Judge
    <3> QED
      BY <3>1
  <2> DEFINE charged == Trials(run.family)
             looks == Max({1, independent + Len(charged) - Len(run.variants)})
             own == {t \in tried : t.family = run.family}
  <2>2. RunsAreCounted /\ Sweeping /\ Tried(Len(run.variants)) /\ Len(run.variants) >= 2
    BY <1>1 DEF SearchInv, TrialsComeInTurn
  <2>3. Range(charged) = own /\ charged \in Seq(own)
    BY <1>4, TrialsAreTheFamilys DEF SearchInv
  <2> HIDE DEF charged
  <2>4. /\ run'.phase = "judged" /\ run'.charged = charged /\ run'.looks = looks
        /\ run'.id = run.id /\ run'.family = run.family /\ run'.variants = run.variants
        /\ DOMAIN run \subseteq DOMAIN run'
    <3> HIDE DEF looks
    <3>1. run' = Having([phase |-> "judged", best |-> best, charged |-> charged, looks |-> looks,
                         clusters |-> clusters, misses |-> misses, chosen |-> chosen, tally |-> tally,
                         coverage |-> coverage, costs |-> costs])
      BY <2>1 DEF charged, looks
    <3> QED
      BY <2>2, <3>1 DEF Having, RunsAreCounted, Sweeping
  <2>5. {t.label : t \in {t \in Range(charged) : t.run = run.id}}
          = {run.variants[v].label : v \in DOMAIN run.variants}
    <3>1. DOMAIN run.variants = 1 .. Len(run.variants)
      BY <2>2 DEF Sweeping
    <3>2. ASSUME NEW t \in Range(charged), t.run = run.id
          PROVE  \E v \in DOMAIN run.variants : t.label = run.variants[v].label
      BY <2>2, <2>3, <3>1, <3>2 DEF Tried
    <3>3. ASSUME NEW v \in DOMAIN run.variants
          PROVE  \E t \in Range(charged) : t.run = run.id /\ t.label = run.variants[v].label
      BY <2>2, <2>3, <3>1 DEF Tried
    <3> QED
      BY <3>2, <3>3
  <2>6. Len(charged) \in Nat /\ Len(charged) >= 1
    <3>1. \E t : t \in own
      <4>1. 1 \in 1 .. Len(run.variants)
        BY <2>2 DEF Sweeping
      <4> QED
        BY <2>2, <4>1 DEF Tried
    <3> HIDE DEF own
    <3>2. charged # <<>>
      BY <2>3, <3>1 DEF Range
    <3> QED
      BY <2>3, <3>2
  <2>7. looks \in 1 .. Len(charged)
    <3>1. independent \in Nat /\ Len(run.variants) \in Nat /\ independent <= Len(run.variants)
      BY <2>1, <2>2 DEF Sweeping
    <3> QED
      BY <2>6, <3>1, LooksAreBounded
  <2> HIDE DEF looks
  <2>8. VerdictChargesTheWholeSearch'
    <3>1. {t \in tried' : t.family = run'.family} = Range(run'.charged)
      BY <1>1, <2>3, <2>4
    <3>2. {run'.variants[v].label : v \in DOMAIN run'.variants}
            = {t.label : t \in {t \in Range(run'.charged) : t.run = run'.id}}
      <4>1. run'.variants = run.variants
        BY <2>4
      <4>2. run'.id = run.id
        BY <2>4
      <4>3. run'.charged = charged
        BY <2>4
      <4> HIDE DEF charged
      <4> QED
        BY ZenonT(60), <2>5, <4>1, <4>2, <4>3
    <3>3. run'.looks \in 1 .. Len(run'.charged)
      BY <2>4, <2>7
    <3> QED
      BY <3>1, <3>2, <3>3 DEF VerdictChargesTheWholeSearch
  <2>9. RunsAreCounted'
    BY <1>1, <2>2, <2>4 DEF RunsAreCounted
  <2> QED
    BY <1>2, <2>4, <2>8, <2>9 DEF SearchInv, SweepIsFresh, TrialsComeInTurn
<1> QED
  BY <1>3, <1>4

LEMMA SearchDie == ASSUME SearchInv, Die \/ DieJournalling PROVE SearchInv'
<1>1. Over("died") /\ UNCHANGED <<ledger, tried>> /\ run.phase # "idle"
  BY DEF Die, DieJournalling, UnderWay
<1>2. Holds(ledger, tried)' /\ \A t \in tried' : t.run \in 1 .. run.id
  BY <1>1 DEF SearchInv, RunsAreCounted
<1> QED
  BY <1>1, <1>2, SearchOver

LEMMA SearchDieRecording == ASSUME SearchInv, DieRecording PROVE SearchInv'
<1> DEFINE t == TrialNow
<1>1. run.phase = "recording" /\ Over("died")
  BY DEF DieRecording
<1>2. PICK left \in CutShort(ledger, t) :
        ledger' = left /\ tried' = IF left = ledger THEN tried ELSE tried \cup {t}
  BY DEF DieRecording
<1>3. t.run = run.id
  BY DEF TrialNow
<1> HIDE DEF t
<1>4. Holds(left, IF left = ledger THEN tried ELSE tried \cup {t})
  BY CutShortIsHeld DEF SearchInv
<1>5. Holds(ledger, tried)'
  BY <1>2, <1>4 DEF Holds, Legible, LinesOf
<1>6. \A u \in tried' : u.run \in 1 .. run.id
  BY <1>1, <1>2, <1>3 DEF SearchInv, RunsAreCounted
<1> QED
  BY <1>1, <1>5, <1>6, SearchOver

LEMMA SearchStep == SearchInv /\ [Next]_vars => SearchInv'
<1>1. ASSUME SearchInv, UNCHANGED vars PROVE SearchInv'
  <2>1. RunsAreCounted' /\ SweepIsFresh' /\ TrialsComeInTurn'
    BY <1>1 DEF vars, SearchInv, RunsAreCounted, SweepIsFresh, TrialsComeInTurn, Sweeping, Tried
  <2>2. Holds(ledger, tried)'
    BY <1>1 DEF vars, SearchInv
  <2>3. VerdictChargesTheWholeSearch'
    BY <1>1 DEF vars, SearchInv, VerdictChargesTheWholeSearch
  <2> QED
    BY <2>1, <2>2, <2>3 DEF SearchInv
<1>2. SearchInv /\ Next => SearchInv'
  BY SearchMeasure, SearchPassOver, SearchLabelSymbol, SearchPoolParts, SearchRecordTrial, SearchJudge,
     SearchDie, SearchDieRecording DEF Next
<1> QED
  BY <1>1, <1>2

(* TrialLedger and assess: whatever died before, in an append too, a verdict *)
(* is charged for every trial its family ever left in the ledger, has each *)
(* of its own variants among them, and counts at least one look and no     *)
(* more than there were trials.                                            *)
THEOREM VerdictIsChargedForTheWholeSearch == Spec => []VerdictChargesTheWholeSearch
<1>1. SearchInv => VerdictChargesTheWholeSearch
  BY DEF SearchInv
<1> QED
  BY <1>1, SearchInit, SearchStep, PTL DEF Spec
-----------------------------------------------------------------------------
(* The groups held out, in the order itertools.combinations gives them. *)
Before(a, b) == a # b /\ Min((a \ b) \cup (b \ a)) \in a
Leading(S) == [x \in S |-> {y \in S : Before(y, x)}]
UpTo(S) == [x \in S |-> {y \in S : y = x \/ Before(y, x)}]

(* One set comes before another when, at the least number they differ in,   *)
(* the number is in it.                                                    *)
LEMMA BeforeAtADifference ==
  ASSUME NEW a \in SUBSET Nat, NEW b \in SUBSET Nat
  PROVE  /\ Before(a, b) <=>
              \E m \in Nat : m \in a /\ m \notin b /\ \A x \in Nat : x < m => (x \in a <=> x \in b)
         /\ a # b => Before(a, b) \/ Before(b, a)
<1> DEFINE D == (a \ b) \cup (b \ a)
           least == Min(D)
<1>1. D \in SUBSET Nat /\ (b \ a) \cup (a \ b) = D
  OBVIOUS
<1>2. ASSUME a # b PROVE least \in D /\ \A x \in D : least <= x
  <2>1. D # {}
    BY <1>2
  <2> HIDE DEF D
  <2> QED
    BY <1>1, <2>1, LeastMember
<1>3. ASSUME Before(a, b)
      PROVE  \E m \in Nat : m \in a /\ m \notin b /\ \A x \in Nat : x < m => (x \in a <=> x \in b)
  <2>1. least \in a /\ a # b
    BY <1>3 DEF Before
  <2> HIDE DEF least
  <2>2. least \in a /\ least \notin b /\ \A x \in Nat : x < least => (x \in a <=> x \in b)
    BY <1>2, <2>1
  <2> QED
    BY <2>2
<1>4. ASSUME NEW m \in Nat, m \in a, m \notin b, \A x \in Nat : x < m => (x \in a <=> x \in b)
      PROVE  Before(a, b)
  <2>1. a # b
    BY <1>4
  <2>2. least = m
    <3>1. least \in D /\ least <= m /\ least \in Nat
      BY <1>1, <1>2, <1>4, <2>1
    <3> HIDE DEF least
    <3>2. ~(least < m)
      BY <1>4, <3>1
    <3> HIDE DEF D
    <3> QED
      BY <3>1, <3>2
  <2> HIDE DEF least
  <2> QED
    BY <1>4, <2>1, <2>2 DEF Before, least
<1>5. ASSUME a # b PROVE Before(a, b) \/ Before(b, a)
  <2>1. Min(D) \in a \/ Min(D) \in b
    BY <1>2, <1>5 DEF least
  <2> QED
    BY <1>1, <1>5, <2>1 DEF Before
<1> QED
  BY <1>3, <1>4, <1>5

LEMMA BeforeIsAnOrder ==
  ASSUME NEW a \in SUBSET Nat, NEW b \in SUBSET Nat, NEW c \in SUBSET Nat
  PROVE  ~(Before(a, b) /\ Before(b, a)) /\ (Before(a, b) /\ Before(b, c) => Before(a, c))
<1>1. ASSUME Before(a, b), Before(b, a) PROVE FALSE
  <2>1. PICK m \in Nat : m \in a /\ m \notin b /\ \A x \in Nat : x < m => (x \in a <=> x \in b)
    BY <1>1, BeforeAtADifference
  <2>2. PICK l \in Nat : l \in b /\ l \notin a /\ \A x \in Nat : x < l => (x \in b <=> x \in a)
    BY <1>1, BeforeAtADifference
  <2> QED
    BY <2>1, <2>2
<1>2. ASSUME Before(a, b), Before(b, c) PROVE Before(a, c)
  <2>1. PICK m \in Nat : m \in a /\ m \notin b /\ \A x \in Nat : x < m => (x \in a <=> x \in b)
    BY <1>2, BeforeAtADifference
  <2>2. PICK l \in Nat : l \in b /\ l \notin c /\ \A x \in Nat : x < l => (x \in b <=> x \in c)
    BY <1>2, BeforeAtADifference
  <2>3. m # l
    BY <2>1, <2>2
  <2>4. CASE m < l
    <3>1. m \in a /\ m \notin c /\ \A x \in Nat : x < m => (x \in a <=> x \in c)
      BY <2>1, <2>2, <2>4
    <3> QED
      BY <3>1, BeforeAtADifference
  <2>5. CASE l < m
    <3>1. l \in a /\ l \notin c /\ \A x \in Nat : x < l => (x \in a <=> x \in c)
      BY <2>1, <2>2, <2>5
    <3> QED
      BY <3>1, BeforeAtADifference
  <2> QED
    BY <2>3, <2>4, <2>5
<1> QED
  BY <1>1, <1>2

LEMMA CombinationsAreOrdered ==
  ASSUME NEW S \in SUBSET SUBSET Nat
  PROVE  Ordering(S, UpTo(S)) /\ Precedes(S, UpTo(S), Leading(S))
<1>1. /\ UpTo(S) \in [S -> SUBSET S]
      /\ \A a, b \in S : a \in UpTo(S)[b] <=> a = b \/ Before(a, b)
  BY DEF UpTo
<1>2. \A a, b \in S : (a # b => Before(a, b) \/ Before(b, a)) /\ ~(Before(a, b) /\ Before(b, a))
  BY BeforeAtADifference, BeforeIsAnOrder
<1>3. \A a, b, c \in S : Before(a, b) /\ Before(b, c) => Before(a, c)
  BY BeforeIsAnOrder
<1>4. Ordering(S, UpTo(S))
  BY <1>1, <1>2, <1>3 DEF Ordering
<1>5. ASSUME NEW x \in S PROVE Leading(S)[x] = UpTo(S)[x] \ {x}
  <2>1. ~Before(x, x)
    BY DEF Before
  <2> QED
    BY <2>1 DEF Leading, UpTo
<1> QED
  BY <1>4, <1>5 DEF Precedes

Holdouts(n, k) == kSubset(k, 1 .. n)

LEMMA HoldoutsAreFinite ==
  ASSUME NEW n \in Nat, NEW k \in Nat
  PROVE  /\ IsFiniteSet(Holdouts(n, k)) /\ Holdouts(n, k) \in SUBSET SUBSET Nat
         /\ \A s : s \in Holdouts(n, k) <=> s \in SUBSET (1 .. n) /\ Cardinality(s) = k
<1>1. \A s : s \in Holdouts(n, k) <=> s \in SUBSET (1 .. n) /\ Cardinality(s) = k
  BY DEF Holdouts, kSubset
<1>2. IsFiniteSet(1 .. n)
  BY FS_Interval
<1>3. IsFiniteSet(SUBSET (1 .. n))
  BY <1>2, FS_SUBSET
<1>4. Holdouts(n, k) \subseteq SUBSET (1 .. n)
  BY <1>1
<1>5. IsFiniteSet(Holdouts(n, k))
  <2> HIDE DEF Holdouts
  <2> QED
    BY <1>3, <1>4, FS_Subset
<1>6. 1 .. n \subseteq Nat
  OBVIOUS
<1> QED
  BY <1>1, <1>4, <1>5, <1>6

(* combinations: every way to hold out k groups, once. *)
LEMMA CombinationsTakeAll ==
  ASSUME NEW n \in Nat, NEW k \in Nat
  PROVE  Lists(Combinations(n, k), Holdouts(n, k))
<1> DEFINE S == Holdouts(n, k)
           seq == [i \in 1 .. Cardinality(S) |-> CHOOSE x \in S : Cardinality({y \in S : Before(y, x)}) = i - 1]
<1>1. Combinations(n, k) = seq
  BY DEF Combinations, InOrder, Before, Holdouts
<1>2. IsFiniteSet(S) /\ S \in SUBSET SUBSET Nat
  BY HoldoutsAreFinite
<1> HIDE DEF S
<1>3. ASSUME NEW i \in 1 .. Cardinality(S), NEW z \in S, Cardinality(Leading(S)[z]) = i - 1
      PROVE  seq[i] \in S /\ Cardinality(Leading(S)[seq[i]]) = i - 1
  <2>1. Cardinality({y \in S : Before(y, z)}) = i - 1
    BY <1>3 DEF Leading
  <2>2. seq[i] \in S /\ Cardinality({y \in S : Before(y, seq[i])}) = i - 1
    BY <2>1
  <2> HIDE DEF seq
  <2> QED
    BY <2>2 DEF Leading
<1>4. seq = [i \in 1 .. Cardinality(S) |-> seq[i]]
  OBVIOUS
<1> HIDE DEF seq
<1>5. Chosen(seq, S, Leading(S))
  BY <1>3, <1>4 DEF Chosen
<1>6. Lists(seq, S)
  BY <1>2, <1>5, CombinationsAreOrdered, ChoiceTakesAll
<1> QED
  BY <1>1, <1>6 DEF S
-----------------------------------------------------------------------------
(* Every group is held out equally often: swapping two groups turns what    *)
(* holds out the one into what holds out the other.                        *)
Holding(n, k, g) == {c \in Holdouts(n, k) : g \in c}
Swap(g, h, x) == IF x = g THEN h ELSE IF x = h THEN g ELSE x
Swapped(g, h, c) == {Swap(g, h, x) : x \in c}

LEMMA SwappingIsItsOwnInverse ==
  ASSUME NEW g, NEW h, NEW c
  PROVE  /\ Swapped(g, h, Swapped(g, h, c)) = c /\ (g \in c <=> h \in Swapped(g, h, c))
         /\ (h \in c <=> g \in Swapped(g, h, c))
<1>1. \A x : Swap(g, h, Swap(g, h, x)) = x
  BY DEF Swap
<1>2. \A x : Swap(g, h, x) = h <=> x = g
  BY DEF Swap
<1>3. \A x : Swap(g, h, x) = g <=> x = h
  BY DEF Swap
<1>4. Swapped(g, h, Swapped(g, h, c)) = c
  BY <1>1 DEF Swapped
<1> QED
  BY <1>2, <1>3, <1>4 DEF Swapped

LEMMA SwappedIsAHoldout ==
  ASSUME NEW n \in Nat, NEW k \in Nat, NEW g \in 1 .. n, NEW h \in 1 .. n, NEW c \in Holdouts(n, k)
  PROVE  Swapped(g, h, c) \in Holdouts(n, k)
<1>1. c \in SUBSET (1 .. n) /\ Cardinality(c) = k
  BY HoldoutsAreFinite
<1>2. Swapped(g, h, c) \in SUBSET (1 .. n)
  BY <1>1 DEF Swapped, Swap
<1>3. IsFiniteSet(c)
  <2>1. IsFiniteSet(1 .. n)
    BY FS_Interval
  <2> QED
    BY <1>1, <2>1, FS_Subset
<1>4. Cardinality(Swapped(g, h, c)) = Cardinality(c)
  <2> DEFINE d == Swapped(g, h, c)
             f == [x \in c |-> Swap(g, h, x)]
  <2>1. \A x, y \in c : Swap(g, h, x) = Swap(g, h, y) => x = y
    BY DEF Swap
  <2>2. f \in [c -> d] /\ \A x, y \in c : f[x] = f[y] => x = y
    BY <2>1 DEF Swapped
  <2>3. \A y \in d : \E x \in c : f[x] = y
    BY DEF Swapped
  <2> HIDE DEF f, d
  <2>4. f \in Bijection(c, d)
    BY <2>2, <2>3 DEF Bijection, Injection, Surjection, IsInjective
  <2>5. ExistsBijection(c, d)
    BY <2>4 DEF ExistsBijection
  <2>6. Cardinality(d) = Cardinality(c)
    BY <1>3, <2>5, FS_Bijection
  <2> QED
    BY <2>6 DEF d
<1> QED
  BY <1>1, <1>2, <1>4, HoldoutsAreFinite

LEMMA HeldOutAlike ==
  ASSUME NEW n \in Nat, NEW k \in Nat, NEW g \in 1 .. n, NEW h \in 1 .. n
  PROVE  /\ IsFiniteSet(Holding(n, k, g))
         /\ Cardinality(Holding(n, k, g)) = Cardinality(Holding(n, k, h))
<1> DEFINE G == Holding(n, k, g)
           H == Holding(n, k, h)
           f == [c \in G |-> Swapped(g, h, c)]
<1>1. IsFiniteSet(G)
  BY HoldoutsAreFinite, FS_Subset DEF Holding
<1>2. \A c \in G : Swapped(g, h, c) \in H /\ Swapped(g, h, Swapped(g, h, c)) = c
  BY SwappedIsAHoldout, SwappingIsItsOwnInverse DEF Holding
<1>3. \A d \in H : Swapped(g, h, d) \in G /\ Swapped(g, h, Swapped(g, h, d)) = d
  BY SwappedIsAHoldout, SwappingIsItsOwnInverse DEF Holding
<1> HIDE DEF G, H
<1>4. f \in [G -> H] /\ (\A c, d \in G : f[c] = f[d] => c = d) /\ \A d \in H : \E c \in G : f[c] = d
  BY <1>2, <1>3
<1> HIDE DEF f
<1>5. f \in Bijection(G, H)
  BY <1>4 DEF Bijection, Injection, Surjection, IsInjective
<1>6. ExistsBijection(G, H)
  BY <1>5 DEF ExistsBijection
<1>7. Cardinality(G) = Cardinality(H)
  BY <1>1, <1>6, FS_Bijection
<1> QED
  BY <1>1, <1>7 DEF G, H

(* Counted by group or by split, the groups held out are as many.           *)
Pairs(n, k) == {p \in (1 .. n) \X Holdouts(n, k) : p[1] \in p[2]}

LEMMA PairsBySplit ==
  ASSUME NEW n \in Nat, NEW k \in Nat
  PROVE  IsFiniteSet(Pairs(n, k)) /\ Cardinality(Pairs(n, k)) = Cardinality(Holdouts(n, k)) * k
<1> DEFINE P == Pairs(n, k)
           S == Holdouts(n, k)
           Rank(p) == Cardinality(Upward(p[2])[p[1]])
           f == [p \in P |-> <<p[2], Rank(p)>>]
<1>1. IsFiniteSet(S) /\ IsFiniteSet(1 .. n) /\ IsFiniteSet(1 .. k) /\ Cardinality(1 .. k) = k
  BY HoldoutsAreFinite, FS_Interval
<1>2. IsFiniteSet(P)
  <2>1. IsFiniteSet((1 .. n) \X S)
    BY <1>1, FS_Product
  <2>2. P \subseteq (1 .. n) \X S
    BY DEF Pairs
  <2> HIDE DEF P, S
  <2> QED
    BY <2>1, <2>2, FS_Subset
<1>3. ASSUME NEW c \in S
      PROVE  IsFiniteSet(c) /\ Cardinality(c) = k /\ Ordering(c, Upward(c)) /\ c \subseteq 1 .. n
  <2>1. c \in SUBSET (1 .. n) /\ Cardinality(c) = k
    BY HoldoutsAreFinite
  <2>2. Numbers(c)
    BY <2>1 DEF Numbers
  <2>3. IsFiniteSet(c)
    BY <1>1, <2>1, FS_Subset
  <2> QED
    BY <2>1, <2>2, <2>3, NumbersAreOrdered
<1>4. \A p \in P : p[1] \in p[2] /\ p[2] \in S /\ p = <<p[1], p[2]>> /\ p[1] \in 1 .. n
  BY DEF Pairs
<1>5. \A c \in S : \A g \in c : <<g, c>> \in P
  BY <1>3 DEF Pairs
<1> HIDE DEF P, S
<1>6. ASSUME NEW p \in P PROVE Rank(p) \in 1 .. k
  BY <1>3, <1>4, RankIsAPlace
<1>7. ASSUME NEW p \in P, NEW q \in P, p[2] = q[2], Rank(p) = Rank(q) PROVE p = q
  <2>1. p[1] = q[1]
    BY <1>3, <1>4, <1>7, RankIsItsOwn
  <2> QED
    BY <1>4, <1>7, <2>1
<1>8. ASSUME NEW c \in S, NEW r \in 1 .. k PROVE \E p \in P : p[2] = c /\ Rank(p) = r
  <2>1. PICK g \in c : Cardinality(Upward(c)[g]) = r
    BY <1>3, EveryRankIsTaken
  <2>2. <<g, c>> \in P /\ Rank(<<g, c>>) = r
    BY <1>5, <2>1
  <2> QED
    BY <2>2
<1> HIDE DEF Rank
<1> DEFINE T == S \X (1 .. k)
<1>9. f \in [P -> T] /\ (\A p, q \in P : f[p] = f[q] => p = q) /\ \A t \in T : \E p \in P : f[p] = t
  <2>1. f \in [P -> T]
    BY <1>4, <1>6
  <2>2. \A p, q \in P : f[p] = f[q] => p = q
    BY <1>7
  <2>3. ASSUME NEW t \in T PROVE \E p \in P : f[p] = t
    <3>1. t[1] \in S /\ t[2] \in 1 .. k /\ t = <<t[1], t[2]>>
      OBVIOUS
    <3>2. PICK p \in P : p[2] = t[1] /\ Rank(p) = t[2]
      BY <1>8, <3>1
    <3> QED
      BY <3>1, <3>2
  <2> QED
    BY <2>1, <2>2, <2>3
<1> HIDE DEF f
<1>10. Cardinality(T) = Cardinality(S) * k
  <2>1. Cardinality(T) = Cardinality(S) * Cardinality(1 .. k)
    BY <1>1, FS_Product
  <2> QED
    BY <1>1, <2>1
<1> HIDE DEF T
<1>11. ExistsBijection(P, T)
  <2>1. f \in Bijection(P, T)
    BY <1>9 DEF Bijection, Injection, Surjection, IsInjective
  <2> QED
    BY <2>1 DEF ExistsBijection
<1>12. Cardinality(P) = Cardinality(T)
  BY <1>2, <1>11, FS_Bijection
<1> QED
  BY <1>2, <1>10, <1>12 DEF P, S

LEMMA PairsByGroup ==
  ASSUME NEW n \in Nat, NEW k \in Nat, NEW h \in 1 .. n
  PROVE  Cardinality(Pairs(n, k)) = n * Cardinality(Holding(n, k, h))
<1> DEFINE P == Pairs(n, k)
           H == Holding(n, k, h)
           T == (1 .. n) \X H
           f == [p \in P |-> <<p[1], Swapped(p[1], h, p[2])>>]
<1>1. IsFiniteSet(P) /\ IsFiniteSet(H)
  BY PairsBySplit, HeldOutAlike
<1>2. \A p \in P : p[1] \in p[2] /\ p[2] \in Holdouts(n, k) /\ p = <<p[1], p[2]>> /\ p[1] \in 1 .. n
  BY DEF Pairs
<1>3. ASSUME NEW p \in P
      PROVE  Swapped(p[1], h, p[2]) \in H /\ Swapped(p[1], h, Swapped(p[1], h, p[2])) = p[2]
  BY <1>2, SwappedIsAHoldout, SwappingIsItsOwnInverse DEF Holding
<1>4. ASSUME NEW g \in 1 .. n, NEW d \in H
      PROVE  <<g, Swapped(g, h, d)>> \in P /\ Swapped(g, h, Swapped(g, h, d)) = d
  <2>1. d \in Holdouts(n, k) /\ h \in d
    BY DEF Holding
  <2>2. Swapped(g, h, d) \in Holdouts(n, k) /\ g \in Swapped(g, h, d)
    BY <2>1, SwappedIsAHoldout, SwappingIsItsOwnInverse
  <2> QED
    BY <2>2, SwappingIsItsOwnInverse DEF Pairs
<1> HIDE DEF P, H
<1>5. f \in [P -> T]
  BY <1>2, <1>3
<1>6. ASSUME NEW p \in P, NEW q \in P, f[p] = f[q] PROVE p = q
  <2>1. p[1] = q[1] /\ Swapped(p[1], h, p[2]) = Swapped(p[1], h, q[2])
    BY <1>6
  <2>2. p[2] = q[2]
    BY <1>3, <2>1
  <2> QED
    BY <1>2, <2>1, <2>2
<1>7. ASSUME NEW t \in T PROVE \E p \in P : f[p] = t
  <2>1. t[1] \in 1 .. n /\ t[2] \in H /\ t = <<t[1], t[2]>>
    OBVIOUS
  <2> DEFINE p == <<t[1], Swapped(t[1], h, t[2])>>
  <2>2. p \in P /\ Swapped(t[1], h, Swapped(t[1], h, t[2])) = t[2]
    BY <1>4, <2>1
  <2>3. p[1] = t[1] /\ p[2] = Swapped(t[1], h, t[2])
    OBVIOUS
  <2> HIDE DEF p
  <2>4. f[p] = <<t[1], t[2]>>
    BY <2>2, <2>3
  <2> QED
    BY <2>1, <2>2, <2>4
<1> HIDE DEF f
<1>8. Cardinality(T) = n * Cardinality(H)
  <2>1. IsFiniteSet(1 .. n) /\ Cardinality(1 .. n) = n
    BY FS_Interval
  <2>2. Cardinality(T) = Cardinality(1 .. n) * Cardinality(H)
    BY <1>1, <2>1, FS_Product
  <2> QED
    BY <2>1, <2>2
<1> HIDE DEF T
<1>9. ExistsBijection(P, T)
  <2>1. f \in Bijection(P, T)
    BY <1>5, <1>6, <1>7 DEF Bijection, Injection, Surjection, IsInjective
  <2> QED
    BY <2>1 DEF ExistsBijection
<1>10. Cardinality(P) = Cardinality(T)
  BY <1>1, <1>9, FS_Bijection
<1> QED
  BY <1>8, <1>10 DEF P, H
-----------------------------------------------------------------------------
(* CombinatorialPurgedCV.paths. *)
HeldOutIn(cv, g) ==
  {i \in DOMAIN Combinations(cv.n_groups, cv.n_test_groups) : g \in Combinations(cv.n_groups, cv.n_test_groups)[i]}

LEMMA SplitsHoldingAGroup ==
  ASSUME NEW cv, cv.n_groups \in Nat, cv.n_test_groups \in Nat, NEW g \in 1 .. cv.n_groups
  PROVE  /\ IsFiniteSet(HeldOutIn(cv, g)) /\ Numbers(HeldOutIn(cv, g))
         /\ Cardinality(HeldOutIn(cv, g)) = Cardinality(Holding(cv.n_groups, cv.n_test_groups, g))
<1> DEFINE n == cv.n_groups
           k == cv.n_test_groups
           C == Combinations(n, k)
           S == Holdouts(n, k)
           I == HeldOutIn(cv, g)
           G == Holding(n, k, g)
           f == [i \in I |-> C[i]]
<1>1. IsFiniteSet(S) /\ Cardinality(S) \in Nat
  BY HoldoutsAreFinite, FS_CardinalityType
<1>2. Lists(C, S)
  BY CombinationsTakeAll
<1>3. I = {i \in DOMAIN C : g \in C[i]} /\ G = {c \in S : g \in c}
  BY DEF HeldOutIn, Holding
<1> HIDE DEF C, S, I, G
<1>4. DOMAIN C = 1 .. Cardinality(S) /\ \A i \in DOMAIN C : C[i] \in S
  BY <1>1, <1>2 DEF Lists
<1>5. IsFiniteSet(I) /\ Numbers(I)
  <2>1. IsFiniteSet(1 .. Cardinality(S)) /\ I \subseteq 1 .. Cardinality(S)
    BY <1>1, <1>3, <1>4, FS_Interval
  <2>2. IsFiniteSet(I)
    BY <2>1, FS_Subset
  <2> QED
    BY <1>1, <2>1, <2>2 DEF Numbers
<1>6. f \in [I -> G] /\ (\A i, j \in I : f[i] = f[j] => i = j) /\ \A c \in G : \E i \in I : f[i] = c
  BY <1>2, <1>3, <1>4 DEF Lists
<1> HIDE DEF f
<1>7. ExistsBijection(I, G)
  <2>1. f \in Bijection(I, G)
    BY <1>6 DEF Bijection, Injection, Surjection, IsInjective
  <2> QED
    BY <2>1 DEF ExistsBijection
<1>8. Cardinality(I) = Cardinality(G)
  BY <1>5, <1>7, FS_Bijection
<1> QED
  BY <1>5, <1>8 DEF I, G

LEMMA Quotient == ASSUME NEW n \in Nat, n > 0, NEW h \in Nat PROVE (n * h) \div n = h
<1> DEFINE q == (n * h) \div n
           r == (n * h) % n
<1>1. n * h \in Nat
  OBVIOUS
<1>2. q \in Int /\ r \in 0 .. n - 1 /\ n * h = n * q + r
  BY <1>1
<1> HIDE DEF q, r
<1>3. n * (h - q) = r
  BY <1>2
<1>4. CASE h - q >= 1
  <2>1. n * (h - q) >= n
    BY <1>2, <1>4
  <2> QED
    BY <1>2, <1>3, <2>1
<1>5. CASE h - q <= -1
  <2>1. n * (h - q) <= -n
    BY <1>2, <1>5
  <2> QED
    BY <1>2, <1>3, <2>1
<1>6. q = h
  BY <1>2, <1>4, <1>5
<1> QED
  BY <1>6 DEF q

(* As many paths as splits hold out a group, whichever group it is.         *)
LEMMA PathsTakeEachSplitOnce ==
  ASSUME NEW cv, cv.n_groups \in Nat, cv.n_groups > 0, cv.n_test_groups \in Nat
  PROVE  LET chosen == Combinations(cv.n_groups, cv.n_test_groups)
             paths == Paths(cv)
         IN /\ \A p \in DOMAIN paths : \A g \in DOMAIN paths[p] :
                 paths[p][g] \in DOMAIN chosen /\ g \in chosen[paths[p][g]]
            /\ \A p, q \in DOMAIN paths : p # q => \A g \in DOMAIN paths[p] : paths[p][g] # paths[q][g]
            /\ \A s \in DOMAIN chosen : \A g \in chosen[s] : \E p \in DOMAIN paths : paths[p][g] = s
<1> DEFINE n == cv.n_groups
           k == cv.n_test_groups
           chosen == Combinations(n, k)
           holding(g) == Ascending(HeldOutIn(cv, g))
           n_paths == (Len(chosen) * k) \div n
           paths == [p \in 1 .. n_paths |-> [g \in 1 .. n |-> holding(g)[p]]]
<1>1. Paths(cv) = paths
  BY DEF Paths, HeldOutIn
<1>2. ASSUME NEW g \in 1 .. n
      PROVE  n_paths = Cardinality(HeldOutIn(cv, g)) /\ Lists(holding(g), HeldOutIn(cv, g))
  <2> DEFINE h == Cardinality(Holding(n, k, g))
  <2>1. /\ IsFiniteSet(HeldOutIn(cv, g)) /\ Numbers(HeldOutIn(cv, g)) /\ Cardinality(HeldOutIn(cv, g)) = h
    BY SplitsHoldingAGroup
  <2>2. Lists(holding(g), HeldOutIn(cv, g))
    BY <2>1, AscendingTakesAll
  <2>3. h \in Nat
    BY <2>1, FS_CardinalityType
  <2>4. Len(chosen) * k = n * h
    <3>1. Len(chosen) = Cardinality(Holdouts(n, k))
      BY CombinationsTakeAll DEF Lists
    <3>2. Cardinality(Pairs(n, k)) = Cardinality(Holdouts(n, k)) * k
      BY PairsBySplit
    <3>3. Cardinality(Pairs(n, k)) = n * h
      BY PairsByGroup
    <3> QED
      BY <3>1, <3>2, <3>3
  <2> HIDE DEF h, chosen
  <2>5. n_paths = h
    BY <2>3, <2>4, Quotient
  <2> QED
    BY <2>1, <2>2, <2>5
<1>3. ASSUME NEW g \in 1 .. n
      PROVE  /\ \A p \in 1 .. n_paths : holding(g)[p] \in HeldOutIn(cv, g)
             /\ \A s \in HeldOutIn(cv, g) : \E p \in 1 .. n_paths : holding(g)[p] = s
             /\ \A p, q \in 1 .. n_paths : holding(g)[p] = holding(g)[q] => p = q
  <2>1. n_paths \in Nat
    BY <1>2, SplitsHoldingAGroup, FS_CardinalityType
  <2> HIDE DEF n_paths, holding
  <2>2. Lists(holding(g), HeldOutIn(cv, g)) /\ Cardinality(HeldOutIn(cv, g)) = n_paths
    BY <1>2
  <2> QED
    BY <2>1, <2>2 DEF Lists
<1>4. \A s : \A g : s \in HeldOutIn(cv, g) <=> s \in DOMAIN chosen /\ g \in chosen[s]
  BY DEF HeldOutIn
<1>5. \A s \in DOMAIN chosen : chosen[s] \in SUBSET (1 .. n)
  <2>1. Lists(chosen, Holdouts(n, k)) /\ Cardinality(Holdouts(n, k)) \in Nat
    BY CombinationsTakeAll, HoldoutsAreFinite, FS_CardinalityType
  <2> DEFINE S == Holdouts(n, k)
  <2> HIDE DEF chosen, S
  <2>2. \A s \in DOMAIN chosen : chosen[s] \in S
    BY <2>1 DEF Lists, S
  <2> QED
    BY <2>2, HoldoutsAreFinite DEF S
<1> HIDE DEF n_paths, holding
<1>6. DOMAIN paths = 1 .. n_paths /\ \A p \in 1 .. n_paths : DOMAIN paths[p] = 1 .. n
  OBVIOUS
<1>7. \A p \in 1 .. n_paths : \A g \in 1 .. n : paths[p][g] = holding(g)[p]
  OBVIOUS
<1> HIDE DEF paths, chosen
<1>8. \A p \in DOMAIN paths : \A g \in DOMAIN paths[p] :
        paths[p][g] \in DOMAIN chosen /\ g \in chosen[paths[p][g]]
  BY <1>3, <1>4, <1>6, <1>7
<1>9. \A p, q \in DOMAIN paths : p # q => \A g \in DOMAIN paths[p] : paths[p][g] # paths[q][g]
  BY <1>3, <1>6, <1>7
<1>10. ASSUME NEW s \in DOMAIN chosen, NEW g \in chosen[s] PROVE \E p \in DOMAIN paths : paths[p][g] = s
  <2>1. g \in 1 .. n /\ s \in HeldOutIn(cv, g)
    BY <1>4, <1>5
  <2>2. PICK p \in 1 .. n_paths : holding(g)[p] = s
    BY <1>3, <2>1
  <2> QED
    BY <1>6, <1>7, <2>1, <2>2
<1> QED
  BY <1>1, <1>8, <1>9, <1>10 DEF chosen
-----------------------------------------------------------------------------
(* What a label knows: the bars up to the one it closed on, no later than   *)
(* its decision may be held.                                               *)
Bars == [ts : Nat, high : Nat, low : Nat, close : Nat]
Series(bars) == bars \in Seq(Bars) /\ \A a, b \in DOMAIN bars : a < b => bars[a].ts < bars[b].ts
Decided(bars, signals) ==
  \A s \in signals : s.index \in DOMAIN bars /\ s.max_bars \in 1 .. Len(bars)

LEMMA SignalsAreDecided ==
  ASSUME NEW bars, Series(bars), NEW symbol, NEW intents
  PROVE  Decided(bars, SignalsOf(bars, ProposedOn(symbol, bars, intents)))
<1> DEFINE proposed == ProposedOn(symbol, bars, intents)
           at(intent) == CHOOSE i \in DOMAIN bars : bars[i].ts = intent.ts
<1>1. Len(bars) \in Nat /\ DOMAIN bars = 1 .. Len(bars)
  BY DEF Series
<1>2. ASSUME NEW intent \in proposed PROVE at(intent) \in DOMAIN bars
  BY DEF ProposedOn
<1>3. ASSUME NEW s \in SignalsOf(bars, proposed)
      PROVE  /\ s.max_bars >= 1
             /\ \E intent \in proposed :
                  s.index = at(intent) /\ s.max_bars = BarsWithin(bars, at(intent), intent.ts + intent.horizon)
  <2> HIDE DEF proposed
  <2> QED
    BY DEF SignalsOf
<1>4. ASSUME NEW index, NEW deadline
      PROVE  BarsWithin(bars, index, deadline) \in 0 .. Len(bars)
  <2> DEFINE within == {i \in DOMAIN bars : i > index /\ bars[i].ts <= deadline}
             all == 1 .. Len(bars)
  <2>1. within \subseteq all
    BY <1>1
  <2>a. ASSUME NEW m \in Nat PROVE IsFiniteSet(1 .. m) /\ Cardinality(1 .. m) = m
    BY FS_Interval
  <2>2. IsFiniteSet(all) /\ Cardinality(all) = Len(bars)
    BY <1>1, <2>a
  <2> HIDE DEF within, all
  <2>3. Cardinality(within) \in Nat /\ Cardinality(within) <= Cardinality(all)
    BY <2>1, <2>2, FS_Subset, FS_CardinalityType
  <2> QED
    BY <1>1, <2>2, <2>3 DEF BarsWithin, within
<1> HIDE DEF at, proposed
<1>5. ASSUME NEW s \in SignalsOf(bars, proposed)
      PROVE  s.index \in DOMAIN bars /\ s.max_bars \in 1 .. Len(bars)
  <2>1. PICK intent \in proposed :
          s.index = at(intent) /\ s.max_bars = BarsWithin(bars, at(intent), intent.ts + intent.horizon)
    BY <1>3
  <2>2. s.max_bars \in 0 .. Len(bars)
    BY <1>4, <2>1
  <2> QED
    BY <1>1, <1>2, <1>3, <2>1, <2>2
<1> QED
  BY <1>5 DEF Decided, proposed

LEMMA TouchIsWithinReach ==
  ASSUME NEW bars, Series(bars), NEW index \in DOMAIN bars, NEW signal, signal.max_bars \in Nat, NEW model,
         TripleBarrier(bars, index, signal, model) # NoTouch
  PROVE  \E last \in 1 .. signal.max_bars :
           /\ index + last <= Len(bars)
           /\ TripleBarrier(bars, index, signal, model).touched_at = bars[index + last].ts
           /\ TripleBarrier(bars, index, signal, model).bars_held = last
<1> DEFINE entry == bars[index].close
           end == LeastOf(index + signal.max_bars, Len(bars))
           forward == Forward(bars, index, signal.max_bars)
           profits == HitProfit(forward, signal, entry)
           stops == HitStop(forward, signal, entry)
           last == ClosedOn(forward, signal, entry)
<1>1. Len(bars) \in Nat /\ DOMAIN bars = 1 .. Len(bars) /\ index \in Nat /\ index >= 1 /\ index <= Len(bars)
  BY DEF Series
<1>2. end \in Nat /\ end >= index /\ end <= Len(bars) /\ end <= index + signal.max_bars
  BY <1>1 DEF LeastOf
<1>3. forward = SubSeq(bars, index + 1, end)
  BY DEF Forward
<1>4. /\ Len(forward) = end - index /\ DOMAIN forward = 1 .. end - index
      /\ \A i \in 1 .. end - index : forward[i] = bars[index + i]
  <2> HIDE DEF end, forward
  <2> QED
    BY <1>1, <1>2, <1>3 DEF Series
<1>5. /\ forward # <<>>
      /\ TripleBarrier(bars, index, signal, model).touched_at = forward[last].ts
      /\ TripleBarrier(bars, index, signal, model).bars_held = last
  <2>1. forward # <<>>
    BY DEF TripleBarrier
  <2> QED
    BY <2>1 DEF TripleBarrier, Touch
<1>6. last \in 1 .. end - index
  <2> HIDE DEF end
  <2>1. profits \cup stops \subseteq 1 .. end - index
    BY <1>4 DEF HitProfit, HitStop
  <2> DEFINE touches == profits \cup stops
  <2> HIDE DEF profits, stops, forward
  <2>2. CASE touches = {}
    <3>1. end - index # 0
      BY <1>1, <1>2, <1>4, <1>5 DEF Series, forward
    <3> QED
      BY <1>1, <1>2, <1>4, <2>2, <3>1 DEF ClosedOn, forward, profits, stops
  <2>3. CASE touches # {}
    <3>1. touches \in SUBSET Nat
      BY <1>1, <1>2, <2>1
    <3> HIDE DEF touches
    <3>2. Min(touches) \in touches
      BY <2>3, <3>1, LeastMember
    <3> QED
      BY <2>1, <2>3, <3>2 DEF touches, ClosedOn, profits, stops, forward
  <2> QED
    BY <2>2, <2>3
<1> HIDE DEF last, forward, end
<1>7. index + last <= Len(bars) /\ last \in 1 .. signal.max_bars /\ forward[last] = bars[index + last]
  BY <1>1, <1>2, <1>4, <1>6
<1> QED
  BY <1>5, <1>7

(* Labels of n rows: a label of a column is of a signal of the column, on   *)
(* the row's bar, and the signal reaches no further than the row's span.   *)
SoundLabels(labels, bars, variants, model, n) ==
  /\ labels.spans = [k \in 1 .. n |-> [opened |-> labels.spans[k].opened, closed |-> labels.spans[k].closed]]
  /\ \A k \in 1 .. n : labels.spans[k].opened \in DOMAIN bars /\ labels.spans[k].closed \in Nat \ {0}
  /\ \A k, l \in 1 .. n : labels.spans[k].opened = labels.spans[l].opened => k = l
  /\ DOMAIN labels.trades = DOMAIN variants
  /\ \A v \in DOMAIN variants : DOMAIN labels.trades[v] = 1 .. n
  /\ \A v \in DOMAIN variants : \A k \in 1 .. n : labels.trades[v][k] # NoTouch =>
       LET opened == labels.spans[k].opened
           signal == CHOOSE s \in variants[v] : s.index = opened
       IN /\ signal \in variants[v] /\ signal.index = opened
          /\ opened + signal.max_bars <= labels.spans[k].closed
          /\ labels.trades[v][k] = TripleBarrier(bars, opened, signal, model)

LEMMA LabelsAreWithinReach ==
  ASSUME NEW bars, Series(bars), NEW variants, \A v \in DOMAIN variants : Decided(bars, variants[v]),
         NEW model, NEW labels, labels = LabelSignals(bars, variants, model)
  PROVE  \E n \in Nat : SoundLabels(labels, bars, variants, model, n)
<1> DEFINE touch(s) == TripleBarrier(bars, s.index, s, model)
           grid == {s.index : s \in UNION {variants[v] : v \in DOMAIN variants}}
           keeps == {i \in grid : \A v \in DOMAIN variants : \A s \in At(variants[v], i) : touch(s) # NoTouch}
           kept == Ascending(keeps)
           trade(v, i) == IF At(variants[v], i) = {} THEN NoTouch ELSE touch(CHOOSE s \in variants[v] : s.index = i)
           trades == [v \in DOMAIN variants |-> [k \in DOMAIN kept |-> trade(v, kept[k])]]
           far(i) == Max(Reaches(variants, i) \cup {i})
           spans == [k \in DOMAIN kept |-> [opened |-> kept[k], closed |-> far(kept[k])]]
           n == Cardinality(keeps)
<1>1. labels.spans = spans /\ labels.trades = trades
  BY DEF LabelSignals
<1>2. Len(bars) \in Nat /\ DOMAIN bars = 1 .. Len(bars)
  BY DEF Series
<1>3. keeps \subseteq 1 .. Len(bars)
  BY <1>2 DEF Decided
<1> HIDE DEF keeps
<1>4. IsFiniteSet(keeps) /\ n \in Nat /\ Numbers(keeps)
  <2>1. IsFiniteSet(1 .. Len(bars))
    BY <1>2, FS_Interval
  <2>2. IsFiniteSet(keeps)
    BY <1>3, <2>1, FS_Subset
  <2>3. keeps \subseteq Int
    BY <1>2, <1>3
  <2> QED
    BY <2>2, <2>3, FS_CardinalityType DEF Numbers
<1>5. Lists(kept, keeps)
  BY <1>4, AscendingTakesAll
<1> HIDE DEF kept
<1>6. DOMAIN kept = 1 .. n /\ (\A k \in 1 .. n : kept[k] \in keeps) /\ \A k, l \in 1 .. n : kept[k] = kept[l] => k = l
  <2> HIDE DEF n
  <2> QED
    BY <1>4, <1>5 DEF Lists, n
<1>7. ASSUME NEW i \in 1 .. Len(bars)
      PROVE  /\ far(i) \in Nat \ {0}
             /\ \A v \in DOMAIN variants : \A s \in variants[v] : s.index = i => i + s.max_bars <= far(i)
  <2> DEFINE all == Reaches(variants, i) \cup {i}
  <2>1. all \subseteq 1 .. Len(bars) + Len(bars)
    BY <1>2 DEF Reaches, At, Decided
  <2>2. \A v \in DOMAIN variants : \A s \in variants[v] : s.index = i => i + s.max_bars \in all
    BY DEF Reaches, At
  <2>3. i \in all
    OBVIOUS
  <2> HIDE DEF all
  <2>4. IsFiniteSet(all)
    <3>1. IsFiniteSet(1 .. Len(bars) + Len(bars))
      BY <1>2, FS_Interval
    <3> QED
      BY <2>1, <3>1, FS_Subset
  <2>5. all \in SUBSET Nat /\ all # {}
    BY <1>2, <2>1, <2>3
  <2>6. Max(all) \in all /\ \A x \in all : Max(all) >= x
    BY <2>4, <2>5, GreatestMember
  <2>7. far(i) = Max(all)
    BY DEF all
  <2> HIDE DEF far
  <2>8. far(i) \in Nat \ {0}
    <3>1. far(i) \in 1 .. Len(bars) + Len(bars)
      BY <2>1, <2>6, <2>7
    <3> QED
      BY <1>2, <3>1
  <2>9. ASSUME NEW v \in DOMAIN variants, NEW s \in variants[v], s.index = i
        PROVE  i + s.max_bars <= far(i)
    <3>1. i + s.max_bars \in all
      BY <2>2, <2>9
    <3>2. \A x \in all : x \in Nat
      BY <2>5
    <3> QED
      BY <2>6, <2>7, <3>1, <3>2
  <2> QED
    BY <2>8, <2>9
<1> HIDE DEF far, n
<1>8. /\ labels.spans = [k \in 1 .. n |-> [opened |-> labels.spans[k].opened, closed |-> labels.spans[k].closed]]
      /\ \A k \in 1 .. n : labels.spans[k].opened = kept[k] /\ labels.spans[k].closed = far(kept[k])
  BY <1>1, <1>6
<1>9. ASSUME NEW v \in DOMAIN variants, NEW k \in 1 .. n, labels.trades[v][k] # NoTouch
      PROVE  LET opened == labels.spans[k].opened
                 signal == CHOOSE s \in variants[v] : s.index = opened
             IN /\ signal \in variants[v] /\ signal.index = opened
                /\ opened + signal.max_bars <= labels.spans[k].closed
                /\ labels.trades[v][k] = TripleBarrier(bars, opened, signal, model)
  <2> DEFINE opened == kept[k]
             signal == CHOOSE s \in variants[v] : s.index = opened
  <2>1. labels.trades[v][k] = trade(v, opened)
    BY <1>1, <1>6
  <2>2. At(variants[v], opened) # {} /\ labels.trades[v][k] = touch(signal)
    BY <1>9, <2>1
  <2>3. signal \in variants[v] /\ signal.index = opened
    BY <2>2 DEF At
  <2>4. opened + signal.max_bars <= far(opened)
    <3> HIDE DEF signal
    <3> QED
      BY <1>3, <1>6, <1>7, <2>3
  <2>5. labels.spans[k].opened = opened /\ labels.spans[k].closed = far(opened)
    BY <1>8
  <2> QED
    BY <2>2, <2>3, <2>4, <2>5
<1>10. ASSUME NEW k \in 1 .. n
       PROVE  labels.spans[k].opened \in DOMAIN bars /\ labels.spans[k].closed \in Nat \ {0}
  <2>1. kept[k] \in 1 .. Len(bars)
    BY <1>3, <1>6
  <2>2. far(kept[k]) \in Nat \ {0}
    BY <1>7, <2>1
  <2> QED
    BY <1>2, <1>8, <2>1, <2>2
<1>11. \A k, l \in 1 .. n : labels.spans[k].opened = labels.spans[l].opened => k = l
  BY <1>6, <1>8
<1>12. DOMAIN labels.trades = DOMAIN variants /\ \A v \in DOMAIN variants : DOMAIN labels.trades[v] = 1 .. n
  BY <1>1, <1>6
<1>13. SoundLabels(labels, bars, variants, model, n)
  BY <1>8, <1>9, <1>10, <1>11, <1>12 DEF SoundLabels
<1> QED
  BY <1>4, <1>13
-----------------------------------------------------------------------------
(* Pooling: rows in one order of time, each with what its part knew of it.  *)
RowsUpTo(S) == [x \in S |-> {y \in S : y = x \/ ByTime(y, x)}]
RowsBefore(S) == [x \in S |-> {y \in S : ByTime(y, x)}]
Dated(S) ==
  /\ \A a \in S : a.opened \in Nat /\ Place(a.key) \in Nat
  /\ \A a, b \in S : a.opened = b.opened /\ Place(a.key) = Place(b.key) => a = b

LEMMA RowsAreOrdered ==
  ASSUME NEW S, Dated(S)
  PROVE  Ordering(S, RowsUpTo(S)) /\ Precedes(S, RowsUpTo(S), RowsBefore(S))
<1>1. \A a, b \in S : (a # b => ByTime(a, b) \/ ByTime(b, a)) /\ ~(ByTime(a, b) /\ ByTime(b, a))
  BY DEF ByTime, Dated
<1>2. \A a, b, c \in S : ByTime(a, b) /\ ByTime(b, c) => ByTime(a, c)
  BY DEF ByTime, Dated
<1>3. \A a \in S : ~ByTime(a, a)
  BY <1>1
<1>4. /\ RowsUpTo(S) \in [S -> SUBSET S]
      /\ \A a, b \in S : a \in RowsUpTo(S)[b] <=> a = b \/ ByTime(a, b)
  BY DEF RowsUpTo
<1>5. Ordering(S, RowsUpTo(S))
  BY <1>1, <1>2, <1>4 DEF Ordering
<1>6. ASSUME NEW x \in S PROVE RowsBefore(S)[x] = RowsUpTo(S)[x] \ {x}
  BY <1>3 DEF RowsBefore, RowsUpTo
<1> QED
  BY <1>5, <1>6 DEF Precedes

LEMMA PooledTakesAll ==
  ASSUME NEW S, IsFiniteSet(S), Dated(S)
  PROVE  Lists(InOrder(S, ByTime), S)
<1> DEFINE seq == [i \in 1 .. Cardinality(S) |-> CHOOSE x \in S : Cardinality({y \in S : ByTime(y, x)}) = i - 1]
<1>1. InOrder(S, ByTime) = seq
  BY DEF InOrder
<1>2. ASSUME NEW i \in 1 .. Cardinality(S), NEW z \in S, Cardinality(RowsBefore(S)[z]) = i - 1
      PROVE  seq[i] \in S /\ Cardinality(RowsBefore(S)[seq[i]]) = i - 1
  <2>1. Cardinality({y \in S : ByTime(y, z)}) = i - 1
    BY <1>2 DEF RowsBefore
  <2>2. seq[i] \in S /\ Cardinality({y \in S : ByTime(y, seq[i])}) = i - 1
    BY <2>1
  <2> HIDE DEF seq
  <2> QED
    BY <2>2 DEF RowsBefore
<1>3. seq = [i \in 1 .. Cardinality(S) |-> seq[i]]
  OBVIOUS
<1> HIDE DEF seq
<1>4. Chosen(seq, S, RowsBefore(S))
  BY <1>2, <1>3 DEF Chosen
<1>5. Lists(seq, S)
  BY <1>4, RowsAreOrdered, ChoiceTakesAll
<1> QED
  BY <1>1, <1>5

(* A part whose rows open at different moments and end within their spans. *)
SpanOf(part, k) ==
  [opened |-> part.timestamps[part.observations.spans[k].opened],
   closed |-> part.timestamps[LeastOf(part.observations.spans[k].closed, Len(part.timestamps))]]
SoundPart(part, variants) ==
  LET O == part.observations
  IN /\ Place(part.key) \in Nat /\ Len(O.spans) \in Nat /\ DOMAIN O.spans = 1 .. Len(O.spans)
     /\ \A k \in DOMAIN O.spans : SpanOf(part, k) \in [opened : Nat, closed : Nat]
     /\ \A k, l \in DOMAIN O.spans : SpanOf(part, k).opened = SpanOf(part, l).opened => k = l
     /\ \A v \in variants : \A k \in DOMAIN O.spans : O.trades[v][k] # NoTouch =>
          O.trades[v][k].touched_at \in Nat /\ O.trades[v][k].touched_at <= SpanOf(part, k).closed

(* Every pooled label is a label of a part. *)
PooledFrom(pooled, parts, n_variants, n) ==
  /\ DOMAIN pooled.trades = 1 .. n_variants
  /\ \A v \in 1 .. n_variants : DOMAIN pooled.trades[v] = 1 .. n
  /\ \A v \in 1 .. n_variants : \A i \in 1 .. n :
       \E p \in DOMAIN parts : \E k \in DOMAIN parts[p].observations.spans :
         pooled.trades[v][i] = parts[p].observations.trades[v][k]

(* Every pooled row is a row of a part, and every row of a part is pooled once. *)
Pooling(pooled, parts, n_variants, n, part, position) ==
  /\ DOMAIN pooled.keys = 1 .. n /\ DOMAIN pooled.spans = 1 .. n /\ Len(pooled.spans) = n
  /\ DOMAIN pooled.trades = 1 .. n_variants /\ \A v \in 1 .. n_variants : DOMAIN pooled.trades[v] = 1 .. n
  /\ pooled.spans = [i \in 1 .. n |-> pooled.spans[i]]
  /\ \A i \in 1 .. n :
       /\ part[i] \in DOMAIN parts /\ position[i] \in DOMAIN parts[part[i]].observations.spans
       /\ pooled.keys[i] = parts[part[i]].key
       /\ pooled.spans[i] = SpanOf(parts[part[i]], position[i])
       /\ \A v \in 1 .. n_variants :
            pooled.trades[v][i] = parts[part[i]].observations.trades[v][position[i]]
  /\ \A p \in DOMAIN parts : \A k \in DOMAIN parts[p].observations.spans :
       \E i \in 1 .. n : part[i] = p /\ position[i] = k
  /\ \A i, j \in 1 .. n : part[i] = part[j] /\ position[i] = position[j] => i = j

LEMMA PoolTakesEveryRow ==
  ASSUME NEW parts, Len(parts) \in Nat, DOMAIN parts = 1 .. Len(parts), NEW n_variants \in Nat,
         \A p \in DOMAIN parts : SoundPart(parts[p], 1 .. n_variants),
         \A p, q \in DOMAIN parts : Place(parts[p].key) = Place(parts[q].key) => p = q,
         NEW pooled, pooled = Pool(parts, n_variants)
  PROVE  \E n \in Nat : \E part, position : Pooling(pooled, parts, n_variants, n, part, position)
<1> DEFINE row(p, k) == [opened |-> parts[p].timestamps[parts[p].observations.spans[k].opened],
                         closed |-> parts[p].timestamps[LeastOf(parts[p].observations.spans[k].closed,
                                                                Len(parts[p].timestamps))],
                         key |-> parts[p].key, part |-> p, position |-> k]
           rowsOf(p) == {row(p, k) : k \in DOMAIN parts[p].observations.spans}
           S == UNION {rowsOf(p) : p \in DOMAIN parts}
           rows == InOrder(S, ByTime)
           n == Cardinality(S)
<1>1. /\ pooled.keys = [i \in DOMAIN rows |-> rows[i].key]
      /\ pooled.spans = [i \in DOMAIN rows |-> [opened |-> rows[i].opened, closed |-> rows[i].closed]]
      /\ pooled.trades = [v \in 1 .. n_variants |-> [i \in DOMAIN rows |->
                            parts[rows[i].part].observations.trades[v][rows[i].position]]]
  BY DEF Pool
<1>2. ASSUME NEW a \in S
      PROVE  /\ a.part \in DOMAIN parts /\ a.position \in DOMAIN parts[a.part].observations.spans
             /\ a.key = parts[a.part].key
             /\ [opened |-> a.opened, closed |-> a.closed] = SpanOf(parts[a.part], a.position)
             /\ a = row(a.part, a.position)
  <2>1. PICK p \in DOMAIN parts : \E k \in DOMAIN parts[p].observations.spans : a = row(p, k)
    OBVIOUS
  <2> PICK k \in DOMAIN parts[p].observations.spans : a = row(p, k)
    BY <2>1
  <2>2. a.part = p /\ a.position = k /\ a.key = parts[p].key
    OBVIOUS
  <2>3. [opened |-> a.opened, closed |-> a.closed] = SpanOf(parts[p], k)
    BY DEF SpanOf
  <2> HIDE DEF row
  <2> QED
    BY <2>2, <2>3
<1>3. ASSUME NEW a \in S
      PROVE  a.opened \in Nat /\ a.closed \in Nat /\ Place(a.key) \in Nat
  <2>1. SpanOf(parts[a.part], a.position) \in [opened : Nat, closed : Nat]
    BY <1>2 DEF SoundPart
  <2> HIDE DEF S
  <2>2. [opened |-> a.opened, closed |-> a.closed] \in [opened : Nat, closed : Nat]
    BY <1>2, <2>1
  <2>3. Place(a.key) \in Nat
    BY <1>2 DEF SoundPart
  <2> QED
    BY <2>2, <2>3
<1>4. IsFiniteSet(S)
  <2>1. ASSUME NEW p \in DOMAIN parts PROVE IsFiniteSet(rowsOf(p))
    <3> DEFINE K == DOMAIN parts[p].observations.spans
    <3>1. IsFiniteSet(K)
      <4>1. SoundPart(parts[p], 1 .. n_variants)
        OBVIOUS
      <4>2. PICK m \in Nat : K = 1 .. m
        BY <4>1 DEF SoundPart
      <4>3. IsFiniteSet(1 .. m)
        BY FS_Interval
      <4> HIDE DEF K
      <4> QED
        BY <4>2, <4>3
    <3> DEFINE all == {row(p, k) : k \in K}
               f == [k \in K |-> row(p, k)]
    <3>2. f \in [K -> all] /\ \A a \in all : \E k \in K : f[k] = a
      OBVIOUS
    <3> HIDE DEF K, all, f
    <3>3. f \in Surjection(K, all)
      BY <3>2 DEF Surjection
    <3>4. IsFiniteSet(all)
      BY <3>1, <3>3, FS_Surjection
    <3> QED
      BY <3>4 DEF all, K
  <2>2. IsFiniteSet(DOMAIN parts)
    BY FS_Interval
  <2> DEFINE every == {rowsOf(p) : p \in DOMAIN parts}
             D == DOMAIN parts
             g == [p \in D |-> rowsOf(p)]
  <2>3. IsFiniteSet(every)
    <3> HIDE DEF rowsOf
    <3>1. g \in [D -> every] /\ \A a \in every : \E p \in D : g[p] = a
      OBVIOUS
    <3> HIDE DEF D, every, g
    <3>2. g \in Surjection(D, every)
      BY <3>1 DEF Surjection
    <3> QED
      BY <2>2, <3>2, FS_Surjection DEF D
  <2>4. \A E \in every : IsFiniteSet(E)
    BY <2>1
  <2> HIDE DEF every
  <2>5. IsFiniteSet(UNION every)
    BY <2>3, <2>4, FS_UNION
  <2> QED
    BY <2>5 DEF every
<1>5. Dated(S)
  <2>1. ASSUME NEW a \in S, NEW b \in S, a.opened = b.opened, Place(a.key) = Place(b.key) PROVE a = b
    <3> HIDE DEF S, row
    <3>1. a.part \in DOMAIN parts /\ b.part \in DOMAIN parts /\ a.key = parts[a.part].key /\ b.key = parts[b.part].key
      BY <1>2
    <3>2. a.part = b.part
      BY <2>1, <3>1
    <3>3. SpanOf(parts[a.part], a.position).opened = a.opened
      <4>1. [opened |-> a.opened, closed |-> a.closed] = SpanOf(parts[a.part], a.position)
        BY <1>2
      <4> QED
        BY <4>1
    <3>4. SpanOf(parts[b.part], b.position).opened = b.opened
      <4>1. [opened |-> b.opened, closed |-> b.closed] = SpanOf(parts[b.part], b.position)
        BY <1>2
      <4> QED
        BY <4>1
    <3> DEFINE part == parts[a.part]
               k == a.position
               l == b.position
    <3>5. k \in DOMAIN part.observations.spans
      BY <1>2
    <3>6. l \in DOMAIN part.observations.spans
      BY <1>2, <3>2
    <3>7. SpanOf(part, k).opened = SpanOf(part, l).opened
      BY <2>1, <3>2, <3>3, <3>4
    <3>8. SoundPart(part, 1 .. n_variants)
      BY <3>1
    <3> HIDE DEF part, k, l
    <3>9. k = l
      BY <3>5, <3>6, <3>7, <3>8 DEF SoundPart
    <3>10. a = row(a.part, a.position)
      BY <1>2
    <3>11. b = row(b.part, b.position)
      BY <1>2
    <3>12. a.position = b.position
      BY <3>9 DEF k, l
    <3> QED
      BY <3>2, <3>10, <3>11, <3>12
  <2> HIDE DEF S, row
  <2>2. \A a \in S : a.opened \in Nat /\ Place(a.key) \in Nat
    BY <1>3
  <2>3. \A a, b \in S : a.opened = b.opened /\ Place(a.key) = Place(b.key) => a = b
    BY <2>1
  <2> QED
    BY <2>2, <2>3 DEF Dated
<1> HIDE DEF S
<1>6. Lists(rows, S) /\ n \in Nat
  BY <1>4, <1>5, PooledTakesAll, FS_CardinalityType
<1> HIDE DEF rows
<1>7. DOMAIN rows = 1 .. n /\ \A i \in 1 .. n : rows[i] \in S
  <2> HIDE DEF n
  <2> QED
    BY <1>6 DEF Lists, n
<1>8. ASSUME NEW p \in DOMAIN parts, NEW k \in DOMAIN parts[p].observations.spans
      PROVE  row(p, k) \in S /\ row(p, k).part = p /\ row(p, k).position = k
  BY DEF S
<1> HIDE DEF n, row
<1> DEFINE part == [i \in 1 .. n |-> rows[i].part]
           position == [i \in 1 .. n |-> rows[i].position]
<1>9. ASSUME NEW i \in 1 .. n
      PROVE  /\ part[i] \in DOMAIN parts /\ position[i] \in DOMAIN parts[part[i]].observations.spans
             /\ pooled.keys[i] = parts[part[i]].key
             /\ pooled.spans[i] = SpanOf(parts[part[i]], position[i])
             /\ \A v \in 1 .. n_variants :
                  pooled.trades[v][i] = parts[part[i]].observations.trades[v][position[i]]
  <2>1. rows[i] \in S /\ part[i] = rows[i].part /\ position[i] = rows[i].position
    BY <1>7
  <2>2. /\ pooled.keys[i] = rows[i].key
        /\ pooled.spans[i] = [opened |-> rows[i].opened, closed |-> rows[i].closed]
        /\ \A v \in 1 .. n_variants :
             pooled.trades[v][i] = parts[rows[i].part].observations.trades[v][rows[i].position]
    <3> HIDE DEF part, position
    <3>1. pooled.keys[i] = rows[i].key
      BY <1>1, <1>7
    <3>2. pooled.spans[i] = [opened |-> rows[i].opened, closed |-> rows[i].closed]
      BY <1>1, <1>7
    <3>3. ASSUME NEW v \in 1 .. n_variants
          PROVE  pooled.trades[v][i] = parts[rows[i].part].observations.trades[v][rows[i].position]
      <4>1. i \in DOMAIN rows
        BY <1>7
      <4>2. pooled.trades[v] = [j \in DOMAIN rows |->
                                  parts[rows[j].part].observations.trades[v][rows[j].position]]
        BY <1>1
      <4> QED
        BY <4>1, <4>2
    <3> QED
      BY <3>1, <3>2, <3>3
  <2>3. /\ rows[i].part \in DOMAIN parts /\ rows[i].position \in DOMAIN parts[rows[i].part].observations.spans
        /\ rows[i].key = parts[rows[i].part].key
        /\ [opened |-> rows[i].opened, closed |-> rows[i].closed] = SpanOf(parts[rows[i].part], rows[i].position)
    BY <1>2, <2>1
  <2>4. part[i] = rows[i].part /\ position[i] = rows[i].position
    BY <2>1
  <2> HIDE DEF part, position
  <2>5. pooled.keys[i] = parts[part[i]].key /\ pooled.spans[i] = SpanOf(parts[part[i]], position[i])
    BY <2>2, <2>3, <2>4
  <2>6. \A v \in 1 .. n_variants : pooled.trades[v][i] = parts[part[i]].observations.trades[v][position[i]]
    BY <2>2, <2>4
  <2>7. part[i] \in DOMAIN parts /\ position[i] \in DOMAIN parts[part[i]].observations.spans
    BY <2>3, <2>4
  <2> QED
    BY <2>5, <2>6, <2>7
<1>10. ASSUME NEW p \in DOMAIN parts, NEW k \in DOMAIN parts[p].observations.spans
       PROVE  \E i \in 1 .. n : part[i] = p /\ position[i] = k
  <2>1. row(p, k) \in S
    BY <1>8
  <2>2. PICK i \in 1 .. n : rows[i] = row(p, k)
    BY <1>6, <2>1 DEF Lists, n
  <2> QED
    BY <1>8, <2>2
<1>11. ASSUME NEW i \in 1 .. n, NEW j \in 1 .. n, part[i] = part[j], position[i] = position[j]
       PROVE  i = j
  <2>1. rows[i] \in S /\ rows[j] \in S /\ rows[i].part = rows[j].part /\ rows[i].position = rows[j].position
    BY <1>7, <1>11
  <2> HIDE DEF part, position
  <2>2. rows[i] = row(rows[i].part, rows[i].position) /\ rows[j] = row(rows[j].part, rows[j].position)
    BY <1>2, <2>1
  <2>3. rows[i] = rows[j]
    BY <2>1, <2>2
  <2> QED
    BY <1>6, <2>3 DEF Lists, n
<1>12. DOMAIN pooled.keys = 1 .. n /\ DOMAIN pooled.spans = 1 .. n /\ DOMAIN pooled.trades = 1 .. n_variants
  BY <1>1, <1>7
<1>13. \A v \in 1 .. n_variants : DOMAIN pooled.trades[v] = 1 .. n
  BY <1>1, <1>7
<1>14. pooled.spans = [i \in 1 .. n |-> pooled.spans[i]] /\ Len(pooled.spans) = n
  <2>1. pooled.spans = [i \in 1 .. n |-> [opened |-> rows[i].opened, closed |-> rows[i].closed]]
    BY <1>1, <1>7
  <2>2. Len(pooled.spans) = n
    BY <1>6, <2>1
  <2> QED
    BY <2>1, <2>2
<1> HIDE DEF part, position
<1>15. Pooling(pooled, parts, n_variants, n, part, position)
  <2>1. \A i \in 1 .. n :
          /\ part[i] \in DOMAIN parts /\ position[i] \in DOMAIN parts[part[i]].observations.spans
          /\ pooled.keys[i] = parts[part[i]].key
          /\ pooled.spans[i] = SpanOf(parts[part[i]], position[i])
          /\ \A v \in 1 .. n_variants :
               pooled.trades[v][i] = parts[part[i]].observations.trades[v][position[i]]
    BY <1>9
  <2>2. \A p \in DOMAIN parts : \A k \in DOMAIN parts[p].observations.spans :
          \E i \in 1 .. n : part[i] = p /\ position[i] = k
    BY <1>10
  <2>3. \A i, j \in 1 .. n : part[i] = part[j] /\ position[i] = position[j] => i = j
    BY <1>11
  <2>4. /\ DOMAIN pooled.keys = 1 .. n /\ DOMAIN pooled.spans = 1 .. n /\ Len(pooled.spans) = n
        /\ DOMAIN pooled.trades = 1 .. n_variants /\ \A v \in 1 .. n_variants : DOMAIN pooled.trades[v] = 1 .. n
        /\ pooled.spans = [i \in 1 .. n |-> pooled.spans[i]]
    BY <1>12, <1>13, <1>14
  <2> HIDE DEF rowsOf
  <2> QED
    BY <2>1, <2>2, <2>3, <2>4 DEF Pooling
<1> QED
  BY <1>6, <1>15

LEMMA PoolIsSound ==
  ASSUME NEW parts, Len(parts) \in Nat, DOMAIN parts = 1 .. Len(parts), NEW n_variants \in Nat,
         \A p \in DOMAIN parts : SoundPart(parts[p], 1 .. n_variants),
         \A p, q \in DOMAIN parts : Place(parts[p].key) = Place(parts[q].key) => p = q,
         NEW pooled, pooled = Pool(parts, n_variants)
  PROVE  \E n \in Nat :
           /\ pooled.spans \in [1 .. n -> [opened : Nat, closed : Nat]]
           /\ \A v \in 1 .. n_variants : \A i \in 1 .. n : pooled.trades[v][i] # NoTouch =>
                pooled.trades[v][i].touched_at \in Nat /\ pooled.trades[v][i].touched_at <= pooled.spans[i].closed
           /\ PooledFrom(pooled, parts, n_variants, n)
<1>1. PICK n \in Nat : \E part, position : Pooling(pooled, parts, n_variants, n, part, position)
  BY PoolTakesEveryRow
<1>2. PICK part, position : Pooling(pooled, parts, n_variants, n, part, position)
  BY <1>1
<1>3. ASSUME NEW i \in 1 .. n
      PROVE  /\ part[i] \in DOMAIN parts /\ position[i] \in DOMAIN parts[part[i]].observations.spans
             /\ pooled.spans[i] = SpanOf(parts[part[i]], position[i])
             /\ SoundPart(parts[part[i]], 1 .. n_variants)
  <2>1. part[i] \in DOMAIN parts
    BY <1>2 DEF Pooling
  <2>2. position[i] \in DOMAIN parts[part[i]].observations.spans
    BY <1>2 DEF Pooling
  <2>3. pooled.spans[i] = SpanOf(parts[part[i]], position[i])
    BY <1>2 DEF Pooling
  <2> QED
    BY <2>1, <2>2, <2>3
<1>4. ASSUME NEW v \in 1 .. n_variants, NEW i \in 1 .. n
      PROVE  pooled.trades[v][i] = parts[part[i]].observations.trades[v][position[i]]
  BY <1>2 DEF Pooling
<1>5. pooled.spans \in [1 .. n -> [opened : Nat, closed : Nat]]
  <2>1. \A i \in 1 .. n : pooled.spans[i] \in [opened : Nat, closed : Nat]
    <3> TAKE i \in 1 .. n
    <3>1. SpanOf(parts[part[i]], position[i]) \in [opened : Nat, closed : Nat]
      BY <1>3 DEF SoundPart
    <3> QED
      BY <1>3, <3>1
  <2>2. pooled.spans = [i \in 1 .. n |-> pooled.spans[i]]
    BY <1>2 DEF Pooling
  <2> QED
    BY <2>1, <2>2
<1>6. ASSUME NEW v \in 1 .. n_variants, NEW i \in 1 .. n, pooled.trades[v][i] # NoTouch
      PROVE  pooled.trades[v][i].touched_at \in Nat /\ pooled.trades[v][i].touched_at <= pooled.spans[i].closed
  <2> DEFINE from == parts[part[i]]
             k == position[i]
  <2>1. SoundPart(from, 1 .. n_variants) /\ k \in DOMAIN from.observations.spans
    BY <1>3
  <2>2. pooled.trades[v][i] = from.observations.trades[v][k] /\ pooled.spans[i] = SpanOf(from, k)
    BY <1>3, <1>4
  <2> HIDE DEF from, k
  <2>3. from.observations.trades[v][k] # NoTouch
    BY <1>6, <2>2
  <2>4. /\ from.observations.trades[v][k].touched_at \in Nat
        /\ from.observations.trades[v][k].touched_at <= SpanOf(from, k).closed
    BY <2>1, <2>3 DEF SoundPart
  <2> QED
    BY <2>2, <2>4
<1>7. PooledFrom(pooled, parts, n_variants, n)
  <2>1. DOMAIN pooled.trades = 1 .. n_variants /\ \A v \in 1 .. n_variants : DOMAIN pooled.trades[v] = 1 .. n
    BY <1>2 DEF Pooling
  <2>2. ASSUME NEW v \in 1 .. n_variants, NEW i \in 1 .. n
        PROVE  \E p \in DOMAIN parts : \E k \in DOMAIN parts[p].observations.spans :
                 pooled.trades[v][i] = parts[p].observations.trades[v][k]
    <3>1. part[i] \in DOMAIN parts
      BY <1>3
    <3>2. position[i] \in DOMAIN parts[part[i]].observations.spans
      BY <1>3
    <3>3. pooled.trades[v][i] = parts[part[i]].observations.trades[v][position[i]]
      BY <1>4
    <3> QED
      BY <3>1, <3>2, <3>3
  <2> QED
    BY <2>1, <2>2 DEF PooledFrom
<1> QED
  BY <1>5, <1>6, <1>7
-----------------------------------------------------------------------------
(* Splitting what was pooled. *)
LEMMA GroupsAreOfTheRows ==
  ASSUME NEW rows \in Nat, NEW count \in Nat, count > 0
  PROVE  Groups(rows, count) \in [1 .. count -> SUBSET (1 .. rows)]
<1> DEFINE base == rows \div count
           extra == rows % count
           start(g) == (g - 1) * base + (IF g - 1 < extra THEN g - 1 ELSE extra)
<1>1. Groups(rows, count) = [g \in 1 .. count |-> start(g) + 1 .. start(g + 1)]
  BY DEF Groups
<1>2. base \in Nat /\ extra \in 0 .. count - 1 /\ rows = count * base + extra
  OBVIOUS
<1> HIDE DEF base, extra
<1>3. ASSUME NEW g \in 1 .. count PROVE start(g) \in Nat /\ start(g + 1) \in Nat /\ start(g + 1) <= rows
  <2>1. (g - 1) * base \in Nat /\ g * base \in Nat
    BY <1>2
  <2>2. (count - g) * base >= 0
    BY <1>2
  <2>3. g * base + (count - g) * base = count * base
    BY <1>2
  <2>4. start(g) \in Nat
    BY <1>2, <2>1
  <2>5. start(g + 1) = g * base + (IF g < extra THEN g ELSE extra)
    <3>1. g + 1 - 1 = g
      OBVIOUS
    <3> QED
      BY <3>1
  <2>6. start(g + 1) \in Nat /\ start(g + 1) <= rows
    <3> HIDE DEF start
    <3> QED
      BY <1>2, <2>1, <2>2, <2>3, <2>5
  <2> QED
    BY <2>4, <2>6
<1> HIDE DEF start
<1>4. \A g \in 1 .. count : start(g) + 1 .. start(g + 1) \subseteq 1 .. rows
  BY <1>3
<1> QED
  BY <1>1, <1>4

LEMMA SplitsHoldOutGroups ==
  ASSUME NEW spans, NEW s \in DOMAIN Splits(spans, CV)
  PROVE  /\ DOMAIN Splits(spans, CV) = DOMAIN Combinations(CV.n_groups, CV.n_test_groups)
         /\ Combinations(CV.n_groups, CV.n_test_groups)[s] \in SUBSET (1 .. CV.n_groups)
         /\ Splits(spans, CV)[s] = Split(Combinations(CV.n_groups, CV.n_test_groups)[s],
                                         Groups(Len(spans), CV.n_groups), spans, CV.embargo)
<1> DEFINE n == CV.n_groups
           k == CV.n_test_groups
           chosen == Combinations(n, k)
           S == Holdouts(n, k)
           blocks == Groups(Len(spans), n)
<1>1. Splits(spans, CV) = [i \in DOMAIN chosen |-> Split(chosen[i], blocks, spans, CV.embargo)]
  BY DEF Splits
<1>2. n \in Nat /\ k \in Nat
  BY CVAssumption
<1>3. Lists(chosen, S) /\ Cardinality(S) \in Nat
  BY <1>2, CombinationsTakeAll, HoldoutsAreFinite, FS_CardinalityType
<1>4. S \subseteq SUBSET (1 .. n)
  BY <1>2, HoldoutsAreFinite
<1> HIDE DEF chosen, S
<1>5. \A i \in DOMAIN chosen : chosen[i] \in S
  BY <1>3 DEF Lists
<1>6. s \in DOMAIN chosen
  BY <1>1
<1> HIDE DEF blocks
<1>7. Splits(spans, CV)[s] = Split(chosen[s], blocks, spans, CV.embargo) /\ DOMAIN Splits(spans, CV) = DOMAIN chosen
  BY <1>1, <1>6
<1> QED
  BY <1>4, <1>5, <1>6, <1>7 DEF chosen, blocks

LEMMA PooledKeepsItsDistance ==
  ASSUME NEW n \in Nat, NEW spans \in [1 .. n -> [opened : Nat, closed : Nat]],
         NEW split \in Range(Splits(spans, CV)), NEW i \in split.train, NEW j \in split.test
  PROVE  /\ i \in 1 .. n /\ j \in 1 .. n
         /\ spans[i].closed < spans[j].opened \/ spans[i].opened > spans[j].closed + CV.embargo
<1> DEFINE count == CV.n_groups
           blocks == Groups(n, count)
<1>1. count \in Nat /\ count > 0 /\ CV.embargo \in Nat
  BY CVAssumption
<1>2. Len(spans) = n
  OBVIOUS
<1>3. PICK s \in DOMAIN Splits(spans, CV) : split = Splits(spans, CV)[s]
  BY DEF Range
<1>4. PICK groups \in SUBSET (1 .. count) : split = Split(groups, blocks, spans, CV.embargo)
  BY <1>2, <1>3, SplitsHoldOutGroups
<1>5. blocks \in [1 .. count -> SUBSET (1 .. n)]
  BY <1>1, GroupsAreOfTheRows
<1> HIDE DEF blocks, count
<1>6. i \in 1 .. n
  <2>1. i \in Rows(DOMAIN blocks \ groups, blocks)
    BY <1>4 DEF Split, PurgeAndEmbargo
  <2> QED
    BY <1>5, <2>1 DEF Rows
<1>7. j \in 1 .. n
  <2>1. j \in Rows(groups, blocks)
    BY <1>4 DEF Split
  <2> QED
    BY <1>5, <2>1 DEF Rows
<1>8. i \in Split(groups, blocks, spans, CV.embargo).train /\ j \in Split(groups, blocks, spans, CV.embargo).test
  BY <1>4
<1> QED
  BY <1>1, <1>5, <1>6, <1>7, <1>8, SplitsKeepTheirDistance

(* What was labelled and pooled keeps its distance by what its trades knew. *)
Windows(pooled, columns, i) ==
  {[from |-> pooled.spans[i].opened, until |-> pooled.trades[v][i].touched_at] :
     v \in {v \in columns : pooled.trades[v][i] # NoTouch}}

LEMMA DistanceIsKept ==
  ASSUME NEW pooled, NEW columns, NEW n \in Nat, pooled.spans \in [1 .. n -> [opened : Nat, closed : Nat]],
         \A v \in columns : \A i \in 1 .. n : pooled.trades[v][i] # NoTouch =>
           /\ pooled.trades[v][i].touched_at \in Nat
           /\ pooled.trades[v][i].touched_at <= pooled.spans[i].closed
  PROVE  \A split \in Range(Splits(pooled.spans, CV)) : \A i \in split.train, j \in split.test :
           \A a \in Windows(pooled, columns, i), b \in Windows(pooled, columns, j) :
             a.until < b.from \/ a.from > b.until + CV.embargo
<1> DEFINE spans == pooled.spans
<1> SUFFICES ASSUME NEW split \in Range(Splits(spans, CV)), NEW i \in split.train, NEW j \in split.test,
                    NEW a \in Windows(pooled, columns, i), NEW b \in Windows(pooled, columns, j)
             PROVE  a.until < b.from \/ a.from > b.until + CV.embargo
  OBVIOUS
<1>1. /\ i \in 1 .. n /\ j \in 1 .. n
      /\ spans[i].closed < spans[j].opened \/ spans[i].opened > spans[j].closed + CV.embargo
  BY PooledKeepsItsDistance
<1>2. ASSUME NEW k \in 1 .. n, NEW w \in Windows(pooled, columns, k)
      PROVE  w.from = spans[k].opened /\ w.until \in Nat /\ w.until <= spans[k].closed
  <2>1. PICK v \in columns :
          /\ pooled.trades[v][k] # NoTouch
          /\ w = [from |-> spans[k].opened, until |-> pooled.trades[v][k].touched_at]
    BY DEF Windows
  <2>2. pooled.trades[v][k].touched_at \in Nat /\ pooled.trades[v][k].touched_at <= spans[k].closed
    BY <2>1
  <2>3. w.from = spans[k].opened /\ w.until = pooled.trades[v][k].touched_at
    BY <2>1
  <2> QED
    BY <2>2, <2>3
<1>3. CV.embargo \in Nat
  BY CVAssumption
<1>4. \A k \in 1 .. n : spans[k].opened \in Nat /\ spans[k].closed \in Nat
  OBVIOUS
<1>5. /\ a.from = spans[i].opened /\ a.until \in Nat /\ a.until <= spans[i].closed
      /\ b.from = spans[j].opened /\ b.until \in Nat /\ b.until <= spans[j].closed
  BY <1>1, <1>2
<1> DEFINE embargo == CV.embargo
           iOpened == spans[i].opened
           iClosed == spans[i].closed
           jOpened == spans[j].opened
           jClosed == spans[j].closed
<1>6. /\ embargo \in Nat /\ iOpened \in Nat /\ iClosed \in Nat /\ jOpened \in Nat /\ jClosed \in Nat
      /\ iClosed < jOpened \/ iOpened > jClosed + embargo
      /\ a.from = iOpened /\ a.until \in Nat /\ a.until <= iClosed
      /\ b.from = jOpened /\ b.until \in Nat /\ b.until <= jClosed
  BY <1>1, <1>3, <1>4, <1>5
<1> HIDE DEF iOpened, iClosed, jOpened, jClosed, embargo
<1>7. a.until < b.from \/ a.from > b.until + embargo
  BY <1>6
<1> QED
  BY <1>7 DEF embargo
-----------------------------------------------------------------------------
(* The parts of a run. *)
SignalsFor(symbol) ==
  [v \in DOMAIN run.variants |->
     SignalsOf(corpus[symbol], ProposedOn(symbol, corpus[symbol], run.variants[v].intents))]
PartOf(symbol) ==
  [key |-> symbol, timestamps |-> [i \in DOMAIN corpus[symbol] |-> corpus[symbol][i].ts],
   observations |-> LabelSignals(corpus[symbol], SignalsFor(symbol), Models[1])]
AllParts == {PartOf(symbol) : symbol \in Range(Universe)}

LEMMA PlacesAreTheirOwn ==
  ASSUME NEW i \in DOMAIN Universe
  PROVE  i \in Nat /\ Len(Universe) \in Nat /\ i \in 1 .. Len(Universe) /\ Place(Universe[i]) = i
<1>1. Len(Universe) \in Nat /\ DOMAIN Universe = 1 .. Len(Universe)
  BY UniverseAssumption
<1>2. Place(Universe[i]) = i
  BY UniverseAssumption DEF Place
<1> QED
  BY <1>1, <1>2

LEMMA PartsAreSound ==
  ASSUME corpus \in Corpora, run.variants \in Seq(Range(run.variants)), NEW symbol \in Range(Universe)
  PROVE  SoundPart(PartOf(symbol), 1 .. Len(run.variants))
<1> DEFINE bars == corpus[symbol]
           signals == SignalsFor(symbol)
           labels == LabelSignals(bars, signals, Models[1])
           V == 1 .. Len(run.variants)
           part == PartOf(symbol)
<1>1. PICK place \in DOMAIN Universe : symbol = Universe[place]
  BY DEF Range
<1>2. Series(bars)
  BY <1>1, CorporaAssumption DEF Series, Bars
<1> HIDE DEF bars
<1>3. Len(bars) \in Nat /\ DOMAIN bars = 1 .. Len(bars) /\ \A i \in DOMAIN bars : bars[i].ts \in Nat
  <2>1. bars \in Seq(Bars)
    BY <1>2 DEF Series
  <2>2. \A bar \in Bars : bar.ts \in Nat
    BY DEF Bars
  <2> HIDE DEF bars
  <2> QED
    BY <2>1, <2>2
<1>4. DOMAIN signals = V
  BY DEF SignalsFor, signals
<1>5. ASSUME NEW v \in DOMAIN signals PROVE Decided(bars, signals[v])
  <2>1. signals[v] = SignalsOf(bars, ProposedOn(symbol, bars, run.variants[v].intents))
    BY DEF SignalsFor, bars
  <2> QED
    BY <1>2, <2>1, SignalsAreDecided
<1>a. labels = LabelSignals(bars, signals, Models[1])
  OBVIOUS
<1> HIDE DEF bars, signals, labels
<1>5a. \A v \in DOMAIN signals : Decided(bars, signals[v])
  BY <1>5
<1>5b. PICK n \in Nat : SoundLabels(labels, bars, signals, Models[1], n)
  BY <1>2, <1>5a, <1>a, LabelsAreWithinReach
<1>6. /\ labels.spans = [k \in 1 .. n |-> [opened |-> labels.spans[k].opened, closed |-> labels.spans[k].closed]]
      /\ \A k \in 1 .. n : labels.spans[k].opened \in DOMAIN bars /\ labels.spans[k].closed \in Nat \ {0}
      /\ \A k, l \in 1 .. n : labels.spans[k].opened = labels.spans[l].opened => k = l
  BY <1>5b DEF SoundLabels
<1>7. Len(labels.spans) = n /\ DOMAIN labels.spans = 1 .. n
  BY <1>6
<1>8. /\ part.key = symbol /\ part.observations = labels
      /\ part.timestamps = [i \in DOMAIN bars |-> bars[i].ts] /\ Len(part.timestamps) = Len(bars)
  <2>1. part.key = symbol /\ part.observations = labels /\ part.timestamps = [i \in DOMAIN bars |-> bars[i].ts]
    BY DEF PartOf, labels, bars, signals
  <2> HIDE DEF part
  <2>2. Len(part.timestamps) = Len(bars)
    BY <1>3, <2>1
  <2> QED
    BY <2>1, <2>2
<1> HIDE DEF part
<1>9. ASSUME NEW k \in 1 .. n
      PROVE  /\ LeastOf(labels.spans[k].closed, Len(bars)) \in DOMAIN bars
             /\ SpanOf(part, k) = [opened |-> bars[labels.spans[k].opened].ts,
                                   closed |-> bars[LeastOf(labels.spans[k].closed, Len(bars))].ts]
  <2>1. /\ labels.spans[k].opened \in DOMAIN bars /\ labels.spans[k].opened \in 1 .. Len(bars)
        /\ labels.spans[k].closed \in Nat /\ labels.spans[k].closed >= 1
    BY <1>3, <1>6
  <2>2. LeastOf(labels.spans[k].closed, Len(bars)) \in DOMAIN bars
    BY <1>3, <2>1 DEF LeastOf
  <2> QED
    BY <1>8, <2>1, <2>2 DEF SpanOf
<1>10. ASSUME NEW k \in 1 .. n PROVE SpanOf(part, k) \in [opened : Nat, closed : Nat]
  <2> DEFINE until == LeastOf(labels.spans[k].closed, Len(bars))
             from == labels.spans[k].opened
  <2>1. until \in DOMAIN bars /\ from \in DOMAIN bars
    BY <1>6, <1>9
  <2> HIDE DEF until, from
  <2>2. bars[until].ts \in Nat /\ bars[from].ts \in Nat
    BY <1>3, <2>1
  <2>3. SpanOf(part, k) = [opened |-> bars[from].ts, closed |-> bars[until].ts]
    BY <1>9 DEF until, from
  <2> QED
    BY <2>2, <2>3
<1>11. ASSUME NEW k \in 1 .. n, NEW l \in 1 .. n, SpanOf(part, k).opened = SpanOf(part, l).opened PROVE k = l
  <2>a. ASSUME NEW i \in 1 .. n PROVE SpanOf(part, i).opened = bars[labels.spans[i].opened].ts
    BY <1>9
  <2>1. bars[labels.spans[k].opened].ts = bars[labels.spans[l].opened].ts
    BY <1>11, <2>a
  <2> DEFINE a == labels.spans[k].opened
             b == labels.spans[l].opened
  <2>2. a \in DOMAIN bars /\ b \in DOMAIN bars /\ bars[a].ts = bars[b].ts
    BY <1>6, <2>1
  <2> HIDE DEF a, b
  <2>3. bars[a].ts \in Nat /\ bars[b].ts \in Nat /\ a \in Nat /\ b \in Nat
    BY <1>3, <2>2
  <2>4. (a < b => bars[a].ts < bars[b].ts) /\ (b < a => bars[b].ts < bars[a].ts)
    BY <1>2, <2>2 DEF Series
  <2>5. a = b
    BY <2>2, <2>3, <2>4
  <2> QED
    BY <1>6, <2>5 DEF a, b
<1>12. ASSUME NEW v \in V, NEW k \in 1 .. n, labels.trades[v][k] # NoTouch
       PROVE  labels.trades[v][k].touched_at \in Nat /\ labels.trades[v][k].touched_at <= SpanOf(part, k).closed
  <2> DEFINE opened == labels.spans[k].opened
             signal == CHOOSE s \in signals[v] : s.index = opened
             closed == labels.spans[k].closed
             until == LeastOf(closed, Len(bars))
  <2>1. /\ signal \in signals[v] /\ signal.index = opened /\ opened + signal.max_bars <= closed
        /\ labels.trades[v][k] = TripleBarrier(bars, opened, signal, Models[1])
    <3>1. v \in DOMAIN signals
      BY <1>4
    <3>2. /\ signal \in signals[v] /\ signal.index = opened /\ opened + signal.max_bars <= closed
      BY <1>5b, <1>12, <3>1 DEF SoundLabels
    <3>3. labels.trades[v][k] = TripleBarrier(bars, opened, signal, Models[1])
      BY <1>5b, <1>12, <3>1 DEF SoundLabels
    <3> QED
      BY <3>2, <3>3
  <2>2. signal.max_bars \in Nat /\ opened \in DOMAIN bars /\ closed \in Nat
    <3>1. v \in DOMAIN signals
      BY <1>4
    <3>2. opened \in DOMAIN bars /\ closed \in Nat
      BY <1>6
    <3> HIDE DEF signal, opened, closed
    <3>3. signal.max_bars \in Nat
      BY <1>5, <2>1, <3>1 DEF Decided
    <3> QED
      BY <3>2, <3>3
  <2> HIDE DEF signal, opened, closed
  <2>3. PICK last \in 1 .. signal.max_bars :
          opened + last <= Len(bars) /\ labels.trades[v][k].touched_at = bars[opened + last].ts
    BY <1>2, <1>12, <2>1, <2>2, TouchIsWithinReach
  <2>4. opened + last \in DOMAIN bars /\ until \in DOMAIN bars /\ opened + last <= until
    BY <1>3, <2>1, <2>2, <2>3 DEF LeastOf
  <2>5. bars[opened + last].ts <= bars[until].ts
    BY <1>2, <1>3, <2>4 DEF Series
  <2>6. SpanOf(part, k).closed = bars[until].ts
    BY <1>9 DEF closed
  <2> QED
    BY <1>3, <2>3, <2>4, <2>5, <2>6
<1>13. Place(part.key) \in Nat
  BY <1>1, <1>8, PlacesAreTheirOwn
<1>14. Len(part.observations.spans) \in Nat /\ DOMAIN part.observations.spans = 1 .. Len(part.observations.spans)
  BY <1>7, <1>8
<1>15. DOMAIN part.observations.spans = 1 .. n
  BY <1>7, <1>8
<1>16. /\ \A k \in DOMAIN part.observations.spans : SpanOf(part, k) \in [opened : Nat, closed : Nat]
       /\ \A k, l \in DOMAIN part.observations.spans : SpanOf(part, k).opened = SpanOf(part, l).opened => k = l
  BY <1>10, <1>11, <1>15
<1>17. \A v \in V : \A k \in DOMAIN part.observations.spans : part.observations.trades[v][k] # NoTouch =>
          /\ part.observations.trades[v][k].touched_at \in Nat
          /\ part.observations.trades[v][k].touched_at <= SpanOf(part, k).closed
  BY <1>8, <1>12, <1>15
<1>18. SoundPart(part, V)
  BY <1>13, <1>14, <1>16, <1>17 DEF SoundPart
<1> QED
  BY <1>18 DEF part
-----------------------------------------------------------------------------
(* A run's parts are of instruments in their order, those that had their    *)
(* turn, each labelled from the bars of the corpus and the run's sweep.    *)
PartsAreInTurn ==
  run.phase # "idle" =>
    /\ {"phase", "variants", "parts"} \subseteq DOMAIN run
    /\ run.variants \in Seq(Range(run.variants))
    /\ run.parts \in Seq(AllParts)
    /\ \A p, q \in DOMAIN run.parts : p < q => Place(run.parts[p].key) < Place(run.parts[q].key)
TodoIsTheRest ==
  run.phase = "labelling" =>
    /\ "todo" \in DOMAIN run
    /\ \E done \in 0 .. Len(Universe) :
         /\ run.todo = SubSeq(Universe, done + 1, Len(Universe))
         /\ \A p \in DOMAIN run.parts : Place(run.parts[p].key) <= done
TrialsAreCounted ==
  run.phase = "recording" => "recorded" \in DOMAIN run /\ run.recorded \in Nat
LeakInv == corpus \in Corpora /\ PartsAreInTurn /\ TodoIsTheRest /\ TrialsAreCounted /\ SplitsDoNotLeak

LEMMA PartsStay ==
  ASSUME corpus' = corpus, run'.variants = run.variants
  PROVE  AllParts' = AllParts
BY DEF AllParts, PartOf, SignalsFor

LEMMA PartsAreKept ==
  ASSUME PartsAreInTurn, run.phase # "idle", corpus' = corpus, DOMAIN run \subseteq DOMAIN run',
         run'.variants = run.variants, run'.parts = run.parts
  PROVE  PartsAreInTurn'
<1>1. AllParts' = AllParts
  BY PartsStay
<1> HIDE DEF AllParts
<1> QED
  BY <1>1 DEF PartsAreInTurn

LEMMA KeysHavePlaces ==
  ASSUME PartsAreInTurn, run.phase # "idle", NEW p \in DOMAIN run.parts
  PROVE  Place(run.parts[p].key) \in Nat /\ \E symbol \in Range(Universe) : run.parts[p] = PartOf(symbol)
<1>1. run.parts[p] \in AllParts
  <2> HIDE DEF AllParts
  <2> QED
    BY DEF PartsAreInTurn
<1>2. PICK symbol \in Range(Universe) : run.parts[p] = PartOf(symbol)
  BY <1>1 DEF AllParts
<1>3. PICK i \in DOMAIN Universe : symbol = Universe[i]
  BY DEF Range
<1>4. run.parts[p].key = symbol
  BY <1>2 DEF PartOf
<1>5. Place(symbol) \in Nat
  BY <1>3, PlacesAreTheirOwn
<1> QED
  BY <1>2, <1>4, <1>5

LEMMA LeakInit == Init => LeakInv
BY DEF Init, NoRun, LeakInv, PartsAreInTurn, TodoIsTheRest, TrialsAreCounted, SplitsDoNotLeak,
       TrainingKeepsItsDistance, PathsAreOutOfSample

LEMMA LeakOver ==
  ASSUME LeakInv, run.phase # "idle", NEW phase \in {"died", "raised", "refused"}, Over(phase), corpus' = corpus
  PROVE  LeakInv'
<1>1. /\ run'.phase = phase /\ DOMAIN run' = DOMAIN run
      /\ run'.variants = run.variants /\ run'.parts = run.parts
  BY DEF LeakInv, PartsAreInTurn, Over
<1>2. PartsAreInTurn'
  BY <1>1, PartsAreKept DEF LeakInv
<1> QED
  BY <1>1, <1>2 DEF LeakInv, TodoIsTheRest, TrialsAreCounted, SplitsDoNotLeak, TrainingKeepsItsDistance,
                    PathsAreOutOfSample

LEMMA LeakMeasure == ASSUME LeakInv, SearchInv, Measure PROVE LeakInv'
<1>1. run.id \in Nat /\ run.id < Len(Requests) /\ corpus' = corpus
  BY DEF SearchInv, RunsAreCounted, Measure
<1>2. PICK request \in Requests[run.id + 1] : run' = Asked(request)
  BY DEF Measure
<1>3. /\ run'.phase = "labelling" /\ run'.variants = request.variants /\ run'.parts = <<>> /\ run'.todo = Universe
      /\ {"phase", "variants", "parts", "todo"} \subseteq DOMAIN run'
  BY <1>2 DEF Asked
<1>4. request.variants \in Seq(Range(request.variants))
  <2>1. run.id + 1 \in DOMAIN Requests
    BY <1>1, RequestsAssumption
  <2> QED
    BY <2>1, RequestsAssumption
<1>5. PartsAreInTurn'
  <2>1. run'.parts \in Seq(AllParts)'
    BY <1>3
  <2>2. DOMAIN run'.parts = {}
    BY <1>3
  <2> HIDE DEF AllParts
  <2> QED
    BY <1>3, <1>4, <2>1, <2>2 DEF PartsAreInTurn
<1>6. TodoIsTheRest'
  <2> DEFINE n == Len(Universe)
             S == Range(Universe)
  <2>1. Universe \in Seq(S)
    BY UniverseAssumption
  <2> HIDE DEF S
  <2>2. n \in Nat /\ Universe = SubSeq(Universe, 0 + 1, n)
    BY <2>1
  <2>3. DOMAIN run'.parts = {}
    BY <1>3
  <2>4. 0 \in 0 .. n
    BY <2>2
  <2> HIDE DEF n
  <2>5. run'.todo = SubSeq(Universe, 0 + 1, n)
    BY <1>3, <2>2
  <2> QED
    BY <1>3, <2>3, <2>4, <2>5 DEF TodoIsTheRest, n
<1> QED
  BY <1>1, <1>3, <1>5, <1>6 DEF LeakInv, TrialsAreCounted, SplitsDoNotLeak, TrainingKeepsItsDistance,
                                PathsAreOutOfSample

(* The turn of the first of the instruments left. *)
LEMMA TurnOfTheFirst ==
  ASSUME NEW done \in 0 .. Len(Universe), run.todo = SubSeq(Universe, done + 1, Len(Universe)), run.todo # <<>>
  PROVE  /\ done + 1 \in DOMAIN Universe /\ Symbol = Universe[done + 1] /\ Place(Symbol) = done + 1
         /\ Tail(run.todo) = SubSeq(Universe, done + 1 + 1, Len(Universe))
<1> DEFINE S == Range(Universe)
           n == Len(Universe)
<1>1. Universe \in Seq(S)
  BY UniverseAssumption
<1> HIDE DEF S
<1>2. n \in Nat /\ DOMAIN Universe = 1 .. n
  BY <1>1
<1>3. done < n
  <2>1. CASE done = n
    <3>1. SubSeq(Universe, n + 1, n) = <<>>
      BY <1>1
    <3> QED
      BY <2>1, <3>1
  <2>2. done \in Nat /\ done <= n
    BY <1>2
  <2> HIDE DEF n
  <2> QED
    BY <1>2, <2>1, <2>2
<1>4. done + 1 \in DOMAIN Universe
  BY <1>2, <1>3
<1>5. Head(run.todo) = Universe[done + 1]
  BY <1>1, <1>2, <1>3
<1>6. Tail(run.todo) = SubSeq(Universe, done + 1 + 1, Len(Universe))
  BY <1>1, <1>2, <1>3
<1> QED
  BY <1>4, <1>5, <1>6, PlacesAreTheirOwn DEF Symbol

LEMMA LeakPassOver == ASSUME LeakInv, PassOver PROVE LeakInv'
<1> DEFINE row == SymbolRun([spans |-> <<>>, trades |-> [v \in DOMAIN run.variants |-> <<>>]])
<1>1. /\ run.phase = "labelling" /\ run.todo # <<>> /\ corpus' = corpus
      /\ run' = [run EXCEPT !.todo = Tail(run.todo), !.runs = Append(@, row)]
  BY DEF PassOver
<1> HIDE DEF row
<1>2. {"phase", "variants", "parts", "todo"} \subseteq DOMAIN run
  BY <1>1 DEF LeakInv, PartsAreInTurn, TodoIsTheRest
<1>3. /\ run'.phase = run.phase /\ run'.variants = run.variants /\ run'.parts = run.parts
      /\ run'.todo = Tail(run.todo) /\ DOMAIN run' = DOMAIN run
  BY <1>1, <1>2
<1>4. PartsAreInTurn'
  BY <1>1, <1>3, PartsAreKept DEF LeakInv
<1>5. TodoIsTheRest'
  <2>1. PICK done \in 0 .. Len(Universe) :
          /\ run.todo = SubSeq(Universe, done + 1, Len(Universe))
          /\ \A p \in DOMAIN run.parts : Place(run.parts[p].key) <= done
    BY <1>1 DEF LeakInv, TodoIsTheRest
  <2>2. done + 1 \in 1 .. Len(Universe) /\ run'.todo = SubSeq(Universe, done + 1 + 1, Len(Universe))
    BY <1>1, <1>3, <2>1, TurnOfTheFirst, PlacesAreTheirOwn
  <2>3. \A p \in DOMAIN run.parts : Place(run.parts[p].key) \in Nat
    BY <1>1, KeysHavePlaces DEF LeakInv
  <2>4. \A p \in DOMAIN run'.parts : Place(run'.parts[p].key) <= done + 1
    BY <1>3, <2>1, <2>3
  <2>5. done + 1 \in 0 .. Len(Universe)
    BY <2>2
  <2> QED
    BY <1>2, <1>3, <2>2, <2>4, <2>5 DEF TodoIsTheRest
<1> QED
  BY <1>1, <1>3, <1>4, <1>5 DEF LeakInv, TrialsAreCounted, SplitsDoNotLeak, TrainingKeepsItsDistance,
                                PathsAreOutOfSample

LEMMA LeakLabelSymbol == ASSUME LeakInv, LabelSymbol PROVE LeakInv'
<1> DEFINE part == PartOf(Symbol)
<1>1. run.phase = "labelling" /\ run.todo # <<>> /\ corpus' = corpus
  BY DEF LabelSymbol
<1>2. {"phase", "variants", "parts", "todo"} \subseteq DOMAIN run
  BY <1>1 DEF LeakInv, PartsAreInTurn, TodoIsTheRest
<1>3. PICK runs, curve :
        run' = [run EXCEPT !.todo = Tail(run.todo), !.runs = runs, !.parts = Append(run.parts, part), !.curve = curve]
  <2> DEFINE observations == LabelledAt(Models[1])
             bars == corpus[Symbol]
             scored == [l \in DOMAIN run.curve |-> LabelledAt(Models[l + 1])]
             made == [key |-> Symbol, timestamps |-> [i \in DOMAIN bars |-> bars[i].ts],
                      observations |-> observations]
             row == SymbolRun(observations)
             curve == [l \in DOMAIN run.curve |-> [v \in DOMAIN run.variants |->
                         AddTallies(run.curve[l][v], Tally(scored[l].trades[v]))]]
  <2>1. run' = [run EXCEPT !.todo = Tail(run.todo), !.runs = Append(run.runs, row),
                           !.parts = Append(run.parts, made), !.curve = curve]
    BY DEF LabelSymbol
  <2>2. made = part
    BY DEF PartOf, SignalsFor, LabelledAt, SignalsNow
  <2> HIDE DEF observations, bars, scored, made, row, curve, part
  <2> QED
    BY <2>1, <2>2
<1> HIDE DEF part
<1>4. /\ run'.phase = run.phase /\ run'.variants = run.variants /\ run'.parts = Append(run.parts, part)
      /\ run'.todo = Tail(run.todo) /\ DOMAIN run' = DOMAIN run
  BY <1>2, <1>3
<1>5. PICK done \in 0 .. Len(Universe) :
        /\ run.todo = SubSeq(Universe, done + 1, Len(Universe))
        /\ \A p \in DOMAIN run.parts : Place(run.parts[p].key) <= done
  BY <1>1 DEF LeakInv, TodoIsTheRest
<1>6. /\ done + 1 \in 1 .. Len(Universe) /\ Place(Symbol) = done + 1 /\ Symbol \in Range(Universe)
      /\ run'.todo = SubSeq(Universe, done + 1 + 1, Len(Universe))
  BY <1>1, <1>4, <1>5, TurnOfTheFirst, PlacesAreTheirOwn DEF Range
<1>7. part \in AllParts /\ part.key = Symbol
  BY <1>6 DEF AllParts, PartOf, part
<1>8. \A p \in DOMAIN run.parts : Place(run.parts[p].key) \in Nat
  BY <1>1, KeysHavePlaces DEF LeakInv
<1>9. AllParts' = AllParts
  BY <1>1, <1>4, PartsStay
<1> HIDE DEF AllParts
<1> DEFINE parts == run.parts
           n == Len(parts)
<1>10. /\ parts \in Seq(AllParts) /\ run.variants \in Seq(Range(run.variants))
       /\ \A p, q \in DOMAIN parts : p < q => Place(parts[p].key) < Place(parts[q].key)
  BY <1>1 DEF LeakInv, PartsAreInTurn
<1>11. /\ n \in Nat /\ DOMAIN parts = 1 .. n /\ run'.parts \in Seq(AllParts) /\ DOMAIN run'.parts = 1 .. n + 1
       /\ run'.parts[n + 1] = part /\ \A p \in 1 .. n : run'.parts[p] = parts[p]
  <2> HIDE DEF parts
  <2>1. n \in Nat /\ DOMAIN parts = 1 .. n /\ Append(parts, part) \in Seq(AllParts)
        /\ DOMAIN Append(parts, part) = 1 .. n + 1
        /\ Append(parts, part)[n + 1] = part /\ \A p \in 1 .. n : Append(parts, part)[p] = parts[p]
    BY <1>7, <1>10
  <2> QED
    BY <1>4, <2>1 DEF parts
<1> HIDE DEF parts, n
<1>12. \A p \in 1 .. n : Place(parts[p].key) \in Nat /\ Place(parts[p].key) <= done
  BY <1>5, <1>8, <1>11 DEF parts
<1>13. \A p \in 1 .. n + 1 : Place(run'.parts[p].key) \in Nat /\ Place(run'.parts[p].key) <= done + 1
  <2>1. ASSUME NEW p \in 1 .. n PROVE Place(run'.parts[p].key) \in Nat /\ Place(run'.parts[p].key) <= done
    <3>1. run'.parts[p] = parts[p]
      BY <1>11
    <3> QED
      BY <1>12, <3>1
  <2>2. Place(run'.parts[n + 1].key) = done + 1
    <3>1. run'.parts[n + 1] = part
      BY <1>11
    <3> QED
      BY <1>6, <1>7, <3>1
  <2>3. done \in Nat /\ n \in Nat
    BY <1>6, <1>11
  <2> TAKE p \in 1 .. n + 1
  <2>4. CASE p \in 1 .. n
    BY <2>1, <2>3, <2>4
  <2>5. CASE p = n + 1
    BY <2>2, <2>3, <2>5
  <2> QED
    BY <2>3, <2>4, <2>5
<1>14. ASSUME NEW p \in 1 .. n + 1, NEW q \in 1 .. n + 1, p < q
       PROVE  Place(run'.parts[p].key) < Place(run'.parts[q].key)
  <2>1. CASE q = n + 1
    <3>1. p \in 1 .. n
      BY <1>11, <1>14, <2>1
    <3>2. run'.parts[p] = parts[p] /\ Place(parts[p].key) \in Nat /\ Place(parts[p].key) <= done
      BY <1>11, <1>12, <3>1
    <3>3. Place(run'.parts[q].key) = done + 1
      BY <1>6, <1>7, <1>11, <2>1
    <3>4. done \in Nat
      BY <1>6
    <3> QED
      BY <3>2, <3>3, <3>4
  <2>2. CASE q \in 1 .. n
    <3>1. p \in 1 .. n
      BY <1>11, <1>14, <2>2
    <3> QED
      BY <1>10, <1>11, <1>14, <2>2, <3>1
  <2> QED
    BY <1>11, <2>1, <2>2
<1>15. PartsAreInTurn'
  BY <1>2, <1>4, <1>9, <1>10, <1>11, <1>14 DEF PartsAreInTurn
<1>16. TodoIsTheRest'
  <2>1. done + 1 \in 0 .. Len(Universe)
    BY <1>6
  <2> QED
    BY <1>2, <1>4, <1>6, <1>11, <1>13, <2>1 DEF TodoIsTheRest
<1> QED
  BY <1>1, <1>4, <1>15, <1>16 DEF LeakInv, TrialsAreCounted, SplitsDoNotLeak, TrainingKeepsItsDistance,
                                  PathsAreOutOfSample
LEMMA LeakPoolParts == ASSUME LeakInv, PoolParts PROVE LeakInv'
<1> DEFINE pooled == Pool(run.parts, Len(run.variants))
           found == [phase |-> "recording", recorded |-> 0, pooled |-> pooled]
<1>1. run.phase = "labelling" /\ corpus' = corpus
  BY DEF PoolParts
<1>2. Over("refused") \/ run' = Having(found)
  BY DEF PoolParts
<1> HIDE DEF pooled
<1>3. CASE Over("refused")
  BY <1>1, <1>3, LeakOver
<1>4. CASE run' = Having(found)
  <2>1. /\ {"phase", "variants", "parts"} \subseteq DOMAIN run
        /\ run.variants \in Seq(Range(run.variants)) /\ run.parts \in Seq(AllParts)
        /\ \A p, q \in DOMAIN run.parts : p < q => Place(run.parts[p].key) < Place(run.parts[q].key)
    BY <1>1 DEF LeakInv, PartsAreInTurn
  <2>2. /\ run'.phase = "recording" /\ run'.recorded = 0 /\ run'.pooled = pooled
        /\ DOMAIN run \subseteq DOMAIN run' /\ "recorded" \in DOMAIN run'
        /\ run'.variants = run.variants /\ run'.parts = run.parts
    BY <1>4, <2>1 DEF Having
  <2>3. PartsAreInTurn'
    BY <1>1, <2>2, PartsAreKept DEF LeakInv
  <2> DEFINE parts == run.parts
             n_variants == Len(run.variants)
  <2>4. n_variants \in Nat /\ DOMAIN run.variants = 1 .. n_variants
    BY <2>1
  <2>5. Len(parts) \in Nat /\ DOMAIN parts = 1 .. Len(parts)
    <3> HIDE DEF AllParts
    <3> QED
      BY <2>1
  <2>6. ASSUME NEW p \in DOMAIN parts
        PROVE  SoundPart(parts[p], 1 .. n_variants) /\ Place(parts[p].key) \in Nat
    BY <1>1, <2>1, KeysHavePlaces, PartsAreSound DEF LeakInv
  <2>7. ASSUME NEW p \in DOMAIN parts, NEW q \in DOMAIN parts, Place(parts[p].key) = Place(parts[q].key)
        PROVE  p = q
    <3>1. p \in Nat /\ q \in Nat
      BY <2>5
    <3> QED
      BY <2>1, <2>6, <2>7, <3>1
  <2>8. pooled = Pool(parts, n_variants)
    BY DEF pooled
  <2> HIDE DEF parts, n_variants
  <2>9. PICK n \in Nat :
          /\ pooled.spans \in [1 .. n -> [opened : Nat, closed : Nat]]
          /\ \A v \in 1 .. n_variants : \A i \in 1 .. n : pooled.trades[v][i] # NoTouch =>
               pooled.trades[v][i].touched_at \in Nat /\ pooled.trades[v][i].touched_at <= pooled.spans[i].closed
          /\ PooledFrom(pooled, parts, n_variants, n)
    BY <2>4, <2>5, <2>6, <2>7, <2>8, PoolIsSound
  <2>10. \A split \in Range(Splits(pooled.spans, CV)) : \A i \in split.train, j \in split.test :
           \A a \in Windows(pooled, 1 .. n_variants, i), b \in Windows(pooled, 1 .. n_variants, j) :
             a.until < b.from \/ a.from > b.until + CV.embargo
    BY <2>9, DistanceIsKept
  <2>11. ASSUME NEW i PROVE WindowsOf(i)' = Windows(pooled, 1 .. n_variants, i)
    BY <2>2, <2>4 DEF WindowsOf, Windows
  <2>12. TrainingKeepsItsDistance'
    BY <2>2, <2>10, <2>11 DEF TrainingKeepsItsDistance
  <2> QED
    BY <1>1, <2>2, <2>3, <2>12 DEF LeakInv, TodoIsTheRest, TrialsAreCounted, SplitsDoNotLeak, PathsAreOutOfSample
<1> QED
  BY <1>2, <1>3, <1>4

LEMMA LeakRecordTrial == ASSUME LeakInv, RecordTrial PROVE LeakInv'
<1>1. run.phase = "recording" /\ corpus' = corpus
  BY DEF RecordTrial
<1>2. Over("raised") \/ run' = [run EXCEPT !.recorded = @ + 1, !.clock = @ + 1]
  BY DEF RecordTrial
<1>3. CASE Over("raised")
  BY <1>1, <1>3, LeakOver
<1>4. CASE run' = [run EXCEPT !.recorded = @ + 1, !.clock = @ + 1]
  <2>1. {"phase", "variants", "parts", "recorded"} \subseteq DOMAIN run /\ run.recorded \in Nat
    BY <1>1 DEF LeakInv, PartsAreInTurn, TrialsAreCounted
  <2>2. /\ run'.phase = "recording" /\ run'.recorded = run.recorded + 1 /\ DOMAIN run' = DOMAIN run
        /\ run'.variants = run.variants /\ run'.parts = run.parts
    BY <1>1, <1>4, <2>1
  <2>3. PartsAreInTurn'
    BY <1>1, <2>2, PartsAreKept DEF LeakInv
  <2>4. run'.recorded \in Nat /\ run'.recorded # 0
    BY <2>1, <2>2
  <2> QED
    BY <1>1, <2>1, <2>2, <2>3, <2>4 DEF LeakInv, TodoIsTheRest, TrialsAreCounted, SplitsDoNotLeak,
       TrainingKeepsItsDistance, PathsAreOutOfSample
<1> QED
  BY <1>2, <1>3, <1>4

(* Whatever rows were split, the groups held out are the same, and so is    *)
(* the number of splits a variant is chosen on.                            *)
LEMMA SplitsAreCounted ==
  ASSUME NEW spans, NEW others, NEW columns
  PROVE  /\ Len(ChosenBy(others, columns, CV)) = Len(Splits(spans, CV))
         /\ DOMAIN Splits(spans, CV) = DOMAIN Combinations(CV.n_groups, CV.n_test_groups)
         /\ \A s \in DOMAIN Splits(spans, CV) :
              Splits(spans, CV)[s].test_groups = Combinations(CV.n_groups, CV.n_test_groups)[s]
<1> DEFINE chosen == Combinations(CV.n_groups, CV.n_test_groups)
           S == Holdouts(CV.n_groups, CV.n_test_groups)
           n == Cardinality(S)
<1>1. CV.n_groups \in Nat /\ CV.n_test_groups \in Nat
  BY CVAssumption
<1>2. Lists(chosen, S) /\ n \in Nat
  BY <1>1, CombinationsTakeAll, HoldoutsAreFinite, FS_CardinalityType
<1> HIDE DEF chosen, n
<1>3. DOMAIN chosen = 1 .. n
  BY <1>2 DEF Lists, n
<1>4. ASSUME NEW rows PROVE DOMAIN Splits(rows, CV) = 1 .. n
  <2> DEFINE blocks == Groups(Len(rows), CV.n_groups)
  <2>1. Splits(rows, CV) = [i \in DOMAIN chosen |-> Split(chosen[i], blocks, rows, CV.embargo)]
    BY DEF Splits, chosen
  <2> HIDE DEF blocks
  <2> QED
    BY <1>3, <2>1
<1>5. Len(Splits(spans, CV)) = n
  <2> DEFINE blocks == Groups(Len(spans), CV.n_groups)
  <2>1. Splits(spans, CV) = [i \in 1 .. n |-> Split(chosen[i], blocks, spans, CV.embargo)]
    BY <1>3 DEF Splits, chosen
  <2> HIDE DEF blocks
  <2> QED
    BY <1>2, <2>1
<1>6. Len(ChosenBy(others, columns, CV)) = n
  <2> DEFINE best(i) == FirstBest(Scores(columns, Splits(others, CV)[i].train))
  <2>1. ChosenBy(others, columns, CV) = [i \in 1 .. n |-> best(i)]
    BY <1>4 DEF ChosenBy
  <2> HIDE DEF best
  <2> QED
    BY <1>2, <2>1
<1>7. ASSUME NEW s \in DOMAIN Splits(spans, CV) PROVE Splits(spans, CV)[s].test_groups = chosen[s]
  <2> DEFINE blocks == Groups(Len(spans), CV.n_groups)
  <2>1. Splits(spans, CV)[s] = Split(chosen[s], blocks, spans, CV.embargo)
    BY SplitsHoldOutGroups DEF chosen
  <2>2. ASSUME NEW groups, NEW all PROVE Split(groups, all, spans, CV.embargo).test_groups = groups
    BY DEF Split
  <2> HIDE DEF blocks
  <2> QED
    BY <2>1, <2>2
<1> QED
  BY <1>3, <1>4, <1>5, <1>6, <1>7 DEF chosen

LEMMA LeakJudge == ASSUME LeakInv, Judge PROVE LeakInv'
<1>1. run.phase = "recording" /\ corpus' = corpus
  BY DEF Judge
<1>2. CASE ~Legible(ledger)
  <2>1. Over("raised")
    BY <1>2 DEF Judge
  <2> QED
    BY <1>1, <2>1, LeakOver
<1>3. CASE Legible(ledger)
  <2>1. PICK best, charged, looks, clusters, misses, columns, tally, coverage, costs :
          run' = Having([phase |-> "judged", best |-> best, charged |-> charged, looks |-> looks,
                         clusters |-> clusters, misses |-> misses,
                         chosen |-> ChosenBy(run.pooled.spans, columns, CV), tally |-> tally,
                         coverage |-> coverage, costs |-> costs])
    <3> HIDE DEF Having, Trials
    <3>1. PICK independent \in 1 .. Len(run.variants) :
            LET pooled == run.pooled
                columns == Columns
                best == FirstBest([v \in DOMAIN columns |-> Moments(columns[v])])
                charged == Trials(run.family)
            IN run' = Having([phase |-> "judged", best |-> best, charged |-> charged,
                       looks |-> Max({1, independent + Len(charged) - Len(run.variants)}),
                       clusters |-> Cardinality({DayOf(pooled.spans[i].opened) : i \in DOMAIN pooled.spans}),
                       misses |-> Misses(columns, Len(pooled.spans), PboBlocks),
                       chosen |-> ChosenBy(pooled.spans, columns, CV),
                       tally |-> Tally(pooled.trades[best]),
                       coverage |-> CoverageOf(pooled, best),
                       costs |-> CurveOf(run.curve, best)])
      BY <1>3 DEF Judge
    <3> QED
      BY <3>1
  <2> DEFINE chosen == ChosenBy(run.pooled.spans, columns, CV)
             splits == Splits(run'.pooled.spans, CV)
             combos == Combinations(CV.n_groups, CV.n_test_groups)
             paths == Paths(CV)
  <2>2. {"phase", "variants", "parts"} \subseteq DOMAIN run
    BY <1>1 DEF LeakInv, PartsAreInTurn
  <2>3. /\ run'.phase = "judged" /\ run'.chosen = chosen /\ DOMAIN run \subseteq DOMAIN run'
        /\ run'.variants = run.variants /\ run'.parts = run.parts
    <3> HIDE DEF chosen
    <3>1. run' = Having([phase |-> "judged", best |-> best, charged |-> charged, looks |-> looks,
                         clusters |-> clusters, misses |-> misses, chosen |-> chosen, tally |-> tally,
                         coverage |-> coverage, costs |-> costs])
      BY <2>1 DEF chosen
    <3> QED
      BY <2>2, <3>1 DEF Having
  <2>4. PartsAreInTurn'
    BY <1>1, <2>3, PartsAreKept DEF LeakInv
  <2>5. /\ Len(run'.chosen) = Len(splits) /\ DOMAIN splits = DOMAIN combos
        /\ \A s \in DOMAIN splits : splits[s].test_groups = combos[s]
    BY <2>3, SplitsAreCounted
  <2>6. /\ \A p \in DOMAIN paths : \A g \in DOMAIN paths[p] :
             paths[p][g] \in DOMAIN combos /\ g \in combos[paths[p][g]]
        /\ \A p, q \in DOMAIN paths : p # q => \A g \in DOMAIN paths[p] : paths[p][g] # paths[q][g]
        /\ \A s \in DOMAIN combos : \A g \in combos[s] : \E p \in DOMAIN paths : paths[p][g] = s
    <3>1. CV.n_groups \in Nat /\ CV.n_groups > 0 /\ CV.n_test_groups \in Nat
      BY CVAssumption
    <3> QED
      BY <3>1, PathsTakeEachSplitOnce
  <2> HIDE DEF splits, combos, paths
  <2>7. /\ \A p \in DOMAIN paths : \A g \in DOMAIN paths[p] : g \in splits[paths[p][g]].test_groups
        /\ \A s \in DOMAIN splits : \A g \in splits[s].test_groups : \E p \in DOMAIN paths : paths[p][g] = s
    BY <2>5, <2>6
  <2>8. PathsAreOutOfSample'
    BY <2>5, <2>6, <2>7 DEF PathsAreOutOfSample, splits, paths
  <2> QED
    BY <1>1, <2>3, <2>4, <2>8 DEF LeakInv, TodoIsTheRest, TrialsAreCounted, SplitsDoNotLeak, TrainingKeepsItsDistance
<1> QED
  BY <1>2, <1>3

LEMMA LeakDie == ASSUME LeakInv, Die \/ DieJournalling \/ DieRecording PROVE LeakInv'
<1>1. Over("died") /\ corpus' = corpus /\ run.phase # "idle"
  BY DEF Die, DieJournalling, DieRecording, UnderWay
<1> QED
  BY <1>1, LeakOver

LEMMA LeakStep == LeakInv /\ SearchInv /\ [Next]_vars => LeakInv'
<1>1. ASSUME LeakInv, UNCHANGED vars PROVE LeakInv'
  <2>1. run' = run /\ corpus' = corpus
    BY <1>1 DEF vars
  <2>2. PartsAreInTurn'
    <3>1. CASE run.phase = "idle"
      BY <2>1, <3>1 DEF PartsAreInTurn
    <3>2. CASE run.phase # "idle"
      BY <1>1, <2>1, <3>2, PartsAreKept DEF LeakInv
    <3> QED
      BY <3>1, <3>2
  <2>3. TodoIsTheRest' /\ TrialsAreCounted'
    BY <1>1, <2>1 DEF LeakInv, TodoIsTheRest, TrialsAreCounted
  <2>4. TrainingKeepsItsDistance'
    BY <1>1, <2>1 DEF LeakInv, SplitsDoNotLeak, TrainingKeepsItsDistance, WindowsOf
  <2>5. PathsAreOutOfSample'
    BY <1>1, <2>1 DEF LeakInv, SplitsDoNotLeak, PathsAreOutOfSample
  <2> QED
    BY <1>1, <2>1, <2>2, <2>3, <2>4, <2>5 DEF LeakInv, SplitsDoNotLeak
<1>2. LeakInv /\ SearchInv /\ Next => LeakInv'
  BY LeakMeasure, LeakPassOver, LeakLabelSymbol, LeakPoolParts, LeakRecordTrial, LeakJudge, LeakDie DEF Next
<1> QED
  BY <1>1, <1>2

(* Nothing a variant is scored on was known when it was chosen: no training *)
(* row knows how a held-out row ended, by the time its trades really took,  *)
(* and the recombined paths score every group once, by a variant chosen    *)
(* without it (CombinatorialPurgedCV over what pool made of label_signals). *)
THEOREM NoSplitLeaks == Spec => []SplitsDoNotLeak
<1>1. LeakInv => SplitsDoNotLeak
  BY DEF LeakInv
<1> QED
  BY <1>1, SearchInit, SearchStep, LeakInit, LeakStep, PTL DEF Spec
-----------------------------------------------------------------------------
(* Two walks that look alike: as far as m, the second reaches its barriers  *)
(* by as much as the first.                                                *)
Alike(forward, signal, other, turned, entry, m) ==
  /\ turned.profit_target = signal.profit_target /\ turned.stop_loss = signal.stop_loss
  /\ \A i \in 1 .. m :
       /\ Favourable(turned.side, other[i], entry) = Favourable(signal.side, forward[i], entry)
       /\ Adverse(turned.side, other[i], entry) = Adverse(signal.side, forward[i], entry)
Walk(forward, n) == DOMAIN forward = 1 .. n /\ Len(forward) = n

(* A walk closes on one of its bars. *)
LEMMA WalksClose ==
  ASSUME NEW n \in Nat, n > 0, NEW forward, Walk(forward, n), NEW signal, NEW entry
  PROVE  /\ ClosedOn(forward, signal, entry) \in 1 .. n
         /\ \A i \in HitProfit(forward, signal, entry) \cup HitStop(forward, signal, entry) :
              ClosedOn(forward, signal, entry) <= i
         /\ \/ ClosedOn(forward, signal, entry) \in HitProfit(forward, signal, entry) \cup HitStop(forward, signal, entry)
            \/ /\ ClosedOn(forward, signal, entry) = n
               /\ HitProfit(forward, signal, entry) \cup HitStop(forward, signal, entry) = {}
<1> DEFINE hits == HitProfit(forward, signal, entry) \cup HitStop(forward, signal, entry)
           last == ClosedOn(forward, signal, entry)
<1>1. hits \subseteq 1 .. n
  BY DEF HitProfit, HitStop, Walk
<1>2. last = IF hits = {} THEN n ELSE Min(hits)
  BY DEF ClosedOn, Walk
<1> HIDE DEF hits, last
<1>3. CASE hits = {}
  BY <1>2, <1>3 DEF hits, last
<1>4. CASE hits # {}
  <2>1. hits \in SUBSET Nat
    BY <1>1
  <2>2. Min(hits) \in hits /\ \A x \in hits : Min(hits) <= x
    BY <1>4, <2>1, LeastMember
  <2>3. last \in hits /\ last \in 1 .. n /\ \A x \in hits : last <= x
    BY <1>1, <1>2, <1>4, <2>2
  <2> QED
    BY <2>3 DEF hits, last
<1> QED
  BY <1>3, <1>4

(* Alike as far as the bar the first closes on, they close on that bar, for *)
(* the same reason.                                                        *)
LEMMA WalksCloseAlike ==
  ASSUME NEW n \in Nat, n > 0, NEW m \in Nat, m > 0, m <= n, NEW forward, Walk(forward, n), NEW other, Walk(other, m),
         NEW signal, NEW turned, NEW entry, Alike(forward, signal, other, turned, entry, m),
         ClosedOn(forward, signal, entry) <= m
  PROVE  LET last == ClosedOn(forward, signal, entry)
         IN /\ last \in 1 .. m
            /\ ClosedOn(other, turned, entry) = last
            /\ last \in HitStop(other, turned, entry) <=> last \in HitStop(forward, signal, entry)
            /\ last \in HitProfit(other, turned, entry) <=> last \in HitProfit(forward, signal, entry)
<1> DEFINE profits == HitProfit(forward, signal, entry)
           stops == HitStop(forward, signal, entry)
           last == ClosedOn(forward, signal, entry)
           first == ClosedOn(other, turned, entry)
<1>1. ASSUME NEW i \in 1 .. m
      PROVE  /\ i \in HitProfit(other, turned, entry) <=> i \in profits
             /\ i \in HitStop(other, turned, entry) <=> i \in stops
  <2>1. i \in DOMAIN forward /\ i \in DOMAIN other
    BY DEF Walk
  <2>2. i \in HitProfit(other, turned, entry) <=> i \in profits
    BY <2>1 DEF HitProfit, Alike
  <2>3. i \in HitStop(other, turned, entry) <=> i \in stops
    BY <2>1 DEF HitStop, Alike
  <2> QED
    BY <2>2, <2>3
<1>2. HitProfit(other, turned, entry) \subseteq 1 .. m /\ HitStop(other, turned, entry) \subseteq 1 .. m
  BY DEF HitProfit, HitStop, Walk
<1>3. /\ last \in 1 .. n /\ (\A i \in profits \cup stops : last <= i)
      /\ last \in profits \cup stops \/ (last = n /\ profits \cup stops = {})
  BY WalksClose
<1>4. /\ first \in 1 .. m /\ (\A i \in HitProfit(other, turned, entry) \cup HitStop(other, turned, entry) : first <= i)
      /\ \/ first \in HitProfit(other, turned, entry) \cup HitStop(other, turned, entry)
         \/ first = m /\ HitProfit(other, turned, entry) \cup HitStop(other, turned, entry) = {}
  BY WalksClose
<1>5. last <= m
  OBVIOUS
<1> HIDE DEF profits, stops, last, first
<1>6. last \in 1 .. m
  BY <1>3, <1>5
<1>7. first = last
  <2>1. CASE last \in profits \cup stops
    <3>1. last \in HitProfit(other, turned, entry) \cup HitStop(other, turned, entry)
      BY <1>1, <1>6, <2>1
    <3>2. first <= last /\ first \in profits \cup stops
      BY <1>1, <1>4, <3>1
    <3> QED
      BY <1>3, <1>4, <1>6, <3>2
  <2>2. CASE last = n /\ profits \cup stops = {}
    <3>1. HitProfit(other, turned, entry) \cup HitStop(other, turned, entry) = {}
      BY <1>1, <1>2, <2>2
    <3> QED
      BY <1>4, <1>5, <2>2, <3>1
  <2> QED
    BY <1>3, <2>1, <2>2
<1> QED
  BY <1>1, <1>6, <1>7 DEF profits, stops, last, first
(* The walk after a bar, no further than max_bars and the end of the series. *)
LEMMA ForwardIsAWalk ==
  ASSUME NEW S, NEW bars \in Seq(S), NEW index \in DOMAIN bars, NEW max_bars \in Nat
  PROVE  \E n \in Nat :
           /\ n <= max_bars /\ index + n <= Len(bars) /\ (n = max_bars \/ index + n = Len(bars))
           /\ Walk(Forward(bars, index, max_bars), n)
           /\ Forward(bars, index, max_bars) = <<>> <=> n = 0
           /\ \A i \in 1 .. n : Forward(bars, index, max_bars)[i] = bars[index + i]
<1> DEFINE end == LeastOf(index + max_bars, Len(bars))
           n == end - index
           forward == SubSeq(bars, index + 1, end)
<1>1. Len(bars) \in Nat /\ index \in 1 .. Len(bars)
  OBVIOUS
<1>2. /\ end \in Nat /\ end >= index /\ end <= Len(bars) /\ end <= index + max_bars
      /\ end = index + max_bars \/ end = Len(bars)
  BY <1>1 DEF LeastOf
<1> HIDE DEF end
<1>3. DOMAIN forward = 1 .. end - index /\ Len(forward) = end - index /\ forward \in Seq(S)
      /\ \A i \in 1 .. end - index : forward[i] = bars[index + i]
  <2>1. Len(forward) = end - index
    BY <1>1, <1>2
  <2>2. forward \in Seq(S)
    BY <1>1, <1>2
  <2>3. ASSUME NEW i \in 1 .. end - index PROVE forward[i] = bars[index + i]
    <3> DEFINE first == index + 1
    <3>1. /\ first \in Int /\ end \in Int /\ i \in 1 .. end - first + 1
          /\ first + i - 1 = index + i
      BY <1>1, <1>2
    <3>2. forward = SubSeq(bars, first, end)
      OBVIOUS
    <3> HIDE DEF first, forward
    <3>3. forward[i] = bars[first + i - 1]
      BY <3>1, <3>2, SubSeqProperties
    <3> QED
      BY <3>1, <3>3
  <2> HIDE DEF forward
  <2>4. DOMAIN forward = 1 .. end - index
    BY <2>1, <2>2
  <2> QED
    BY <2>1, <2>2, <2>3, <2>4
<1>4. forward = <<>> <=> end - index = 0
  <2> HIDE DEF forward
  <2> QED
    BY <1>2, <1>3
<1>5. n \in Nat /\ n <= max_bars /\ index + n <= Len(bars) /\ (n = max_bars \/ index + n = Len(bars))
  BY <1>1, <1>2
<1>6. Walk(forward, n) /\ (forward = <<>> <=> n = 0) /\ \A i \in 1 .. n : forward[i] = bars[index + i]
  BY <1>3, <1>4 DEF Walk
<1>7. Forward(bars, index, max_bars) = forward
  BY DEF Forward, end
<1> HIDE DEF forward, n
<1> QED
  BY <1>5, <1>6, <1>7

(* What the walk of a label is, in the bars it is of. *)
Follows(forward, bars, index, max_bars, n) ==
  /\ n \in Nat \ {0} /\ n <= max_bars /\ index + n <= Len(bars) /\ (n = max_bars \/ index + n = Len(bars))
  /\ Walk(forward, n)
  /\ \A i \in 1 .. n : forward[i] = bars[index + i]

LEMMA LabelIsOfItsWalk ==
  ASSUME NEW S, NEW bars \in Seq(S), NEW index \in DOMAIN bars, NEW signal, signal.max_bars \in Nat, NEW model,
         TripleBarrier(bars, index, signal, model) # NoTouch
  PROVE  LET forward == Forward(bars, index, signal.max_bars)
             entry == bars[index].close
             last == ClosedOn(forward, signal, entry)
             label == TripleBarrier(bars, index, signal, model)
         IN /\ label = Touch(forward, signal, entry, last, model)
            /\ label.bars_held = last
            /\ last \in 1 .. Len(forward)
            /\ Follows(forward, bars, index, signal.max_bars, Len(forward))
<1> DEFINE forward == Forward(bars, index, signal.max_bars)
           entry == bars[index].close
           last == ClosedOn(forward, signal, entry)
<1>1. forward # <<>>
  BY DEF TripleBarrier
<1>2. TripleBarrier(bars, index, signal, model) = Touch(forward, signal, entry, last, model)
  BY <1>1 DEF TripleBarrier
<1>3. Touch(forward, signal, entry, last, model).bars_held = last
  BY DEF Touch
<1>4. PICK n \in Nat :
        /\ n <= signal.max_bars /\ index + n <= Len(bars) /\ (n = signal.max_bars \/ index + n = Len(bars))
        /\ Walk(forward, n) /\ (forward = <<>> <=> n = 0) /\ \A i \in 1 .. n : forward[i] = bars[index + i]
  BY ForwardIsAWalk
<1> HIDE DEF forward, entry
<1>5. n > 0 /\ n \in Nat \ {0} /\ n = Len(forward)
  BY <1>1, <1>4 DEF Walk
<1>6. last \in 1 .. n
  BY <1>4, <1>5, WalksClose
<1> HIDE DEF last
<1>7. Follows(forward, bars, index, signal.max_bars, n)
  BY <1>4, <1>5 DEF Follows
<1>8. TripleBarrier(bars, index, signal, model).bars_held = last
  BY <1>2, <1>3
<1>9. last \in 1 .. Len(forward) /\ Follows(forward, bars, index, signal.max_bars, Len(forward))
  BY <1>5, <1>6, <1>7
<1> QED
  BY <1>2, <1>8, <1>9 DEF forward, entry, last
(* A label is the same without the bars after the one it closed on. *)
LEMMA LabelIsOfTheBarsHeld ==
  ASSUME NEW S, NEW bars \in Seq(S), NEW index \in DOMAIN bars, NEW signal, signal.max_bars \in Nat, NEW model,
         TripleBarrier(bars, index, signal, model) # NoTouch
  PROVE  TripleBarrier(SubSeq(bars, 1, index + TripleBarrier(bars, index, signal, model).bars_held),
                       index, signal, model) = TripleBarrier(bars, index, signal, model)
<1> DEFINE forward == Forward(bars, index, signal.max_bars)
           entry == bars[index].close
           last == ClosedOn(forward, signal, entry)
           label == TripleBarrier(bars, index, signal, model)
           cut == SubSeq(bars, 1, index + last)
           other == Forward(cut, index, signal.max_bars)
<1>1. /\ label = Touch(forward, signal, entry, last, model) /\ label.bars_held = last
      /\ last \in 1 .. Len(forward) /\ Follows(forward, bars, index, signal.max_bars, Len(forward))
  BY LabelIsOfItsWalk
<1> HIDE DEF forward, entry, last, label
<1> DEFINE n == Len(forward)
<1> HIDE DEF n
<1>a. last \in 1 .. n /\ Follows(forward, bars, index, signal.max_bars, n)
  BY <1>1 DEF n
<1>2.   /\ n \in Nat /\ n > 0 /\ n <= signal.max_bars /\ index + n <= Len(bars) /\ Walk(forward, n) /\ last \in 1 .. n
        /\ \A i \in 1 .. n : forward[i] = bars[index + i]
  BY <1>a DEF Follows
<1>3. Len(bars) \in Nat /\ index \in 1 .. Len(bars) /\ last \in Nat /\ last > 0 /\ index + last \in 1 .. Len(bars)
  BY <1>2
<1>4. cut \in Seq(S) /\ Len(cut) = index + last /\ \A i \in 1 .. index + last : cut[i] = bars[i]
  BY <1>3
<1>5. index \in DOMAIN cut /\ cut[index] = bars[index]
  BY <1>3, <1>4
<1> HIDE DEF cut
<1>6. PICK m \in Nat :
        /\ m <= signal.max_bars /\ index + m <= Len(cut) /\ (m = signal.max_bars \/ index + m = Len(cut))
        /\ Walk(other, m) /\ (other = <<>> <=> m = 0) /\ \A i \in 1 .. m : other[i] = cut[index + i]
  BY <1>4, <1>5, ForwardIsAWalk
<1> HIDE DEF other
<1>7. m = last
  BY <1>2, <1>3, <1>4, <1>6
<1>8. \A i \in 1 .. last : other[i] = forward[i]
  <2> SUFFICES ASSUME NEW i \in 1 .. last PROVE other[i] = forward[i]
    OBVIOUS
  <2>1. index + i \in 1 .. index + last /\ i \in 1 .. n
    BY <1>2, <1>3
  <2>2. other[i] = cut[index + i]
    BY <1>6, <1>7
  <2>3. cut[index + i] = bars[index + i]
    BY <1>4, <2>1
  <2> QED
    BY <1>2, <2>1, <2>2, <2>3
<1>9. Alike(forward, signal, other, signal, entry, last)
  BY <1>8 DEF Alike
<1>10. n \in Nat /\ n > 0 /\ last <= n /\ ClosedOn(forward, signal, entry) <= last /\ Walk(other, last) /\ Walk(forward, n)
  BY <1>2, <1>3, <1>6, <1>7 DEF last
<1>11. /\ ClosedOn(other, signal, entry) = last
       /\ last \in HitStop(other, signal, entry) <=> last \in HitStop(forward, signal, entry)
       /\ last \in HitProfit(other, signal, entry) <=> last \in HitProfit(forward, signal, entry)
  BY <1>3, <1>9, <1>10, WalksCloseAlike DEF last
<1>12. other # <<>>
  BY <1>3, <1>6, <1>7
<1>13. TripleBarrier(cut, index, signal, model) = Touch(other, signal, entry, last, model)
  BY <1>5, <1>11, <1>12 DEF TripleBarrier, other, entry
<1>14. Touch(other, signal, entry, last, model) = Touch(forward, signal, entry, last, model)
  <2>1. other[last] = forward[last]
    BY <1>3, <1>8
  <2>2. {Favourable(signal.side, other[i], entry) : i \in HeldBars(other, last)} =
        {Favourable(signal.side, forward[i], entry) : i \in HeldBars(forward, last)}
    BY <1>8 DEF HeldBars
  <2>3. {Adverse(signal.side, other[i], entry) : i \in HeldBars(other, last)} =
        {Adverse(signal.side, forward[i], entry) : i \in HeldBars(forward, last)}
    BY <1>8 DEF HeldBars
  <2>4. (last \in HitStop(other, signal, entry)) = (last \in HitStop(forward, signal, entry))
    BY <1>11
  <2>5. (last \in HitProfit(other, signal, entry)) = (last \in HitProfit(forward, signal, entry))
    BY <1>11
  <2> QED
    BY <2>1, <2>2, <2>3, <2>4, <2>5, Zenon DEF Touch
<1> QED
  BY <1>1, <1>13, <1>14 DEF label, cut
(* A label is the same of the other side in a mirror, but for its costs. *)
Decisions == [index : Nat, side : {"BUY", "SELL"}, stop_loss : Int, profit_target : Int, max_bars : Nat]

LEMMA MirrorIsASeries ==
  ASSUME NEW bars, Series(bars), NEW entry \in Nat
  PROVE  /\ Mirrored(bars, entry) \in Seq([ts : Nat, high : Int, low : Int, close : Int])
         /\ Len(Mirrored(bars, entry)) = Len(bars) /\ DOMAIN Mirrored(bars, entry) = DOMAIN bars
         /\ \A i \in DOMAIN bars :
              /\ bars[i].ts \in Nat /\ bars[i].high \in Nat /\ bars[i].low \in Nat /\ bars[i].close \in Nat
              /\ Mirrored(bars, entry)[i].ts = bars[i].ts
              /\ Mirrored(bars, entry)[i].high = 2 * entry - bars[i].low
              /\ Mirrored(bars, entry)[i].low = 2 * entry - bars[i].high
              /\ Mirrored(bars, entry)[i].close = 2 * entry - bars[i].close
<1> DEFINE S == [ts : Nat, high : Int, low : Int, close : Int]
           mirror == Mirrored(bars, entry)
<1>1. Len(bars) \in Nat /\ DOMAIN bars = 1 .. Len(bars)
  BY DEF Series
<1>2. ASSUME NEW i \in DOMAIN bars
      PROVE  bars[i].ts \in Nat /\ bars[i].high \in Nat /\ bars[i].low \in Nat /\ bars[i].close \in Nat
  <2>1. bars[i] \in Bars
    <3> HIDE DEF Bars
    <3> QED
      BY DEF Series
  <2> QED
    BY <2>1 DEF Bars
<1>3. ASSUME NEW i \in DOMAIN bars
      PROVE  /\ mirror[i] = [ts |-> bars[i].ts, high |-> 2 * entry - bars[i].low,
                             low |-> 2 * entry - bars[i].high, close |-> 2 * entry - bars[i].close]
             /\ mirror[i] \in S
  <2>1. mirror[i] = [ts |-> bars[i].ts, high |-> 2 * entry - bars[i].low,
                     low |-> 2 * entry - bars[i].high, close |-> 2 * entry - bars[i].close]
    BY DEF Mirrored
  <2> QED
    BY <1>2, <2>1
<1>4. DOMAIN mirror = 1 .. Len(bars) /\ mirror = [i \in 1 .. Len(bars) |-> mirror[i]]
  BY <1>1 DEF Mirrored
<1> HIDE DEF mirror, S
<1>5. mirror \in [1 .. Len(bars) -> S]
  BY <1>1, <1>3, <1>4
<1>6. mirror \in Seq(S) /\ Len(mirror) = Len(bars)
  BY <1>1, <1>4, <1>5
<1> QED
  BY <1>1, <1>2, <1>3, <1>4, <1>6 DEF mirror, S

LEMMA MirrorsAreAlike ==
  ASSUME NEW entry \in Nat, NEW side \in {"BUY", "SELL"}, NEW bar, bar.high \in Nat, bar.low \in Nat,
         NEW image, image.high = 2 * entry - bar.low, image.low = 2 * entry - bar.high
  PROVE  /\ Favourable(OtherSide(side), image, entry) = Favourable(side, bar, entry)
         /\ Adverse(OtherSide(side), image, entry) = Adverse(side, bar, entry)
<1>1. CASE side = "BUY"
  BY <1>1 DEF OtherSide, Favourable, Adverse
<1>2. CASE side = "SELL"
  BY <1>2 DEF OtherSide, Favourable, Adverse
<1> QED
  BY <1>1, <1>2

(* The price a walk closed at is as far, on the other side of the entry. *)
Reached(signal, entry, how, close) ==
  IF how = "STOP" THEN entry - Sign(signal.side) * signal.stop_loss
  ELSE IF how = "PROFIT" THEN entry + Sign(signal.side) * signal.profit_target ELSE close
Move(signal, entry, how, close) == (Reached(signal, entry, how, close) - entry) * Sign(signal.side)

LEMMA MovesAreAlike ==
  ASSUME NEW entry \in Nat, NEW signal \in Decisions, NEW turned, turned = [signal EXCEPT !.side = OtherSide(@)],
         NEW how, NEW close \in Nat, NEW image, image = 2 * entry - close
  PROVE  Move(turned, entry, how, image) = Move(signal, entry, how, close)
<1> DEFINE stop == signal.stop_loss
           target == signal.profit_target
<1>1. /\ turned.side = OtherSide(signal.side) /\ turned.stop_loss = stop /\ turned.profit_target = target
      /\ stop \in Int /\ target \in Int /\ signal.side \in {"BUY", "SELL"}
  BY DEF Decisions
<1> HIDE DEF stop, target
<1>2. CASE signal.side = "BUY"
  <2>1. Sign(signal.side) = 1 /\ Sign(turned.side) = -1
    BY <1>1, <1>2 DEF Sign, OtherSide
  <2>2. Reached(signal, entry, how, close) =
          IF how = "STOP" THEN entry - stop ELSE IF how = "PROFIT" THEN entry + target ELSE close
    BY <1>1, <2>1 DEF Reached, stop, target
  <2>3. Reached(turned, entry, how, image) =
          IF how = "STOP" THEN entry + stop ELSE IF how = "PROFIT" THEN entry - target ELSE 2 * entry - close
    BY <1>1, <2>1 DEF Reached
  <2> QED
    BY <1>1, <2>1, <2>2, <2>3 DEF Move
<1>3. CASE signal.side = "SELL"
  <2>1. Sign(signal.side) = -1 /\ Sign(turned.side) = 1
    BY <1>1, <1>3 DEF Sign, OtherSide
  <2>2. Reached(signal, entry, how, close) =
          IF how = "STOP" THEN entry + stop ELSE IF how = "PROFIT" THEN entry - target ELSE close
    BY <1>1, <2>1 DEF Reached, stop, target
  <2>3. Reached(turned, entry, how, image) =
          IF how = "STOP" THEN entry - stop ELSE IF how = "PROFIT" THEN entry + target ELSE 2 * entry - close
    BY <1>1, <2>1 DEF Reached
  <2> QED
    BY <1>1, <2>1, <2>2, <2>3 DEF Move
<1> QED
  BY <1>1, <1>2, <1>3
(* Touches of walks alike over the bars held: all but what costs make of it. *)
LEMMA OutcomesAreAlike ==
  ASSUME NEW entry \in Nat, NEW signal \in Decisions, NEW turned, turned = [signal EXCEPT !.side = OtherSide(@)],
         NEW last \in Nat, last > 0, NEW model, NEW forward, NEW other,
         Alike(forward, signal, other, turned, entry, last),
         forward[last].close \in Nat, other[last].close = 2 * entry - forward[last].close,
         other[last].ts = forward[last].ts,
         last \in HitStop(other, turned, entry) <=> last \in HitStop(forward, signal, entry),
         last \in HitProfit(other, turned, entry) <=> last \in HitProfit(forward, signal, entry)
  PROVE  Outcome(Touch(other, turned, entry, last, model)) = Outcome(Touch(forward, signal, entry, last, model))
<1> DEFINE image == Touch(other, turned, entry, last, model)
           label == Touch(forward, signal, entry, last, model)
           stopped == last \in HitStop(forward, signal, entry)
           taken == last \in HitProfit(forward, signal, entry)
           close == forward[last].close
           how == IF stopped THEN "STOP" ELSE IF taken THEN "PROFIT" ELSE "TIMEOUT"
           there == other[last].close
           gross == Move(signal, entry, how, close)
           mirrored == Move(turned, entry, how, there)
           favours == {Favourable(signal.side, forward[i], entry) : i \in 1 .. last}
           harms == {Adverse(signal.side, forward[i], entry) : i \in 1 .. last}
           Fields == {"label", "touched_at", "bars_held", "ambiguous", "mfe", "mae", "gross_return"}
<1>1. (last \in HitStop(other, turned, entry)) = stopped /\ (last \in HitProfit(other, turned, entry)) = taken
  OBVIOUS
<1>2. /\ {Favourable(turned.side, other[i], entry) : i \in HeldBars(other, last)} = favours
      /\ {Adverse(turned.side, other[i], entry) : i \in HeldBars(other, last)} = harms
  BY DEF Alike, HeldBars
<1>3. mirrored = gross
  <2>1. close \in Nat /\ there = 2 * entry - close
    OBVIOUS
  <2> HIDE DEF close, there, how
  <2> QED
    BY <2>1, MovesAreAlike
<1>a. /\ (IF stopped THEN entry - Sign(signal.side) * signal.stop_loss
          ELSE IF taken THEN entry + Sign(signal.side) * signal.profit_target ELSE close)
           = Reached(signal, entry, how, close)
      /\ (IF stopped THEN entry - Sign(turned.side) * turned.stop_loss
          ELSE IF taken THEN entry + Sign(turned.side) * turned.profit_target ELSE there)
           = Reached(turned, entry, how, there)
  BY DEF Reached
<1>4. /\ label.label = how
      /\ label.touched_at = forward[last].ts /\ label.bars_held = last /\ label.ambiguous = (stopped /\ taken)
  BY DEF Touch
<1>5. /\ label.mfe = Nearest(Max(favours \cup {0}) * ReturnPlaces, entry)
      /\ label.mae = Nearest(Max(harms \cup {0}) * ReturnPlaces, entry)
      /\ label.gross_return = Nearest(gross * ReturnPlaces, entry)
  BY <1>a DEF Touch, HeldBars, Move
<1>6. /\ image.label = how
      /\ image.touched_at = forward[last].ts /\ image.bars_held = last /\ image.ambiguous = (stopped /\ taken)
  BY <1>1 DEF Touch
<1>7. /\ image.mfe = Nearest(Max(favours \cup {0}) * ReturnPlaces, entry)
      /\ image.mae = Nearest(Max(harms \cup {0}) * ReturnPlaces, entry)
  BY <1>2 DEF Touch
<1>8. image.gross_return = Nearest(mirrored * ReturnPlaces, entry)
  BY <1>1, <1>a DEF Touch, Move
<1>9. DOMAIN image = Fields \cup {"realised_return"} /\ DOMAIN label = Fields \cup {"realised_return"}
  BY DEF Touch
<1> HIDE DEF image, label, gross, mirrored, favours, harms, stopped, taken, close, there, how
<1>10. \A f \in Fields : image[f] = label[f]
  BY <1>3, <1>4, <1>5, <1>6, <1>7, <1>8
<1>11. DOMAIN image \ {"realised_return"} = Fields /\ DOMAIN label \ {"realised_return"} = Fields
  BY <1>9
<1> HIDE DEF Fields
<1>12. Outcome(image) = Outcome(label)
  BY <1>10, <1>11 DEF Outcome
<1> QED
  BY <1>12 DEF image, label

LEMMA LabelOfTheMirror ==
  ASSUME NEW bars, Series(bars), NEW index \in DOMAIN bars, NEW signal \in Decisions, NEW model,
         TripleBarrier(bars, index, signal, model) # NoTouch
  PROVE  LET entry == bars[index].close
             turned == [signal EXCEPT !.side = OtherSide(@)]
         IN Outcome(TripleBarrier(Mirrored(bars, entry), index, turned, model)) =
              Outcome(TripleBarrier(bars, index, signal, model))
<1> DEFINE entry == bars[index].close
           turned == [signal EXCEPT !.side = OtherSide(@)]
           max_bars == signal.max_bars
           mirror == Mirrored(bars, entry)
           forward == Forward(bars, index, max_bars)
           other == Forward(mirror, index, max_bars)
           last == ClosedOn(forward, signal, entry)
           label == TripleBarrier(bars, index, signal, model)
           n == Len(forward)
           S == [ts : Nat, high : Int, low : Int, close : Int]
<1>1. Len(bars) \in Nat /\ DOMAIN bars = 1 .. Len(bars) /\ bars \in Seq(Bars)
  BY DEF Series
<1>2. /\ max_bars \in Nat /\ signal.side \in {"BUY", "SELL"}
      /\ turned.side = OtherSide(signal.side) /\ turned.max_bars = max_bars
      /\ turned.stop_loss = signal.stop_loss /\ turned.profit_target = signal.profit_target
  BY DEF Decisions
<1>3. /\ label = Touch(forward, signal, entry, last, model)
      /\ last \in 1 .. n /\ Follows(forward, bars, index, max_bars, n)
  <2> HIDE DEF Bars
  <2> QED
    BY <1>1, <1>2, LabelIsOfItsWalk
<1> HIDE DEF max_bars, forward, last, label, n, turned
<1>4. /\ n \in Nat /\ n > 0 /\ n <= max_bars /\ index + n <= Len(bars) /\ (n = max_bars \/ index + n = Len(bars))
      /\ Walk(forward, n)
      /\ \A i \in 1 .. n : forward[i] = bars[index + i]
  BY <1>3 DEF Follows
<1>5. entry \in Nat
  <2>1. bars[index] \in Bars
    <3> HIDE DEF Bars
    <3> QED
      BY <1>1
  <2> QED
    BY <2>1 DEF Bars
<1> HIDE DEF entry
<1>6. /\ mirror \in Seq(S) /\ Len(mirror) = Len(bars) /\ DOMAIN mirror = DOMAIN bars
      /\ \A i \in DOMAIN bars :
           /\ bars[i].high \in Nat /\ bars[i].low \in Nat /\ bars[i].close \in Nat
           /\ mirror[i].ts = bars[i].ts
           /\ mirror[i].high = 2 * entry - bars[i].low
           /\ mirror[i].low = 2 * entry - bars[i].high
           /\ mirror[i].close = 2 * entry - bars[i].close
  BY <1>5, MirrorIsASeries
<1> HIDE DEF mirror, S
<1>a. mirror \in Seq(S) /\ index \in DOMAIN mirror
  BY <1>6
<1>b. max_bars \in Nat
  BY <1>2
<1>7. PICK m \in Nat :
        /\ m <= max_bars /\ index + m <= Len(mirror) /\ (m = max_bars \/ index + m = Len(mirror))
        /\ Walk(other, m) /\ (other = <<>> <=> m = 0) /\ \A i \in 1 .. m : other[i] = mirror[index + i]
  BY <1>a, <1>b, ForwardIsAWalk
<1> HIDE DEF other
<1>8. m = n /\ other # <<>>
  <2>1. index \in Nat
    BY <1>1
  <2>2. m = n
    BY <1>1, <1>2, <1>4, <1>6, <1>7, <2>1
  <2> QED
    BY <1>4, <1>7, <2>2
<1>9. ASSUME NEW i \in 1 .. n
      PROVE  index + i \in DOMAIN bars /\ forward[i] = bars[index + i] /\ other[i] = mirror[index + i]
  <2>1. index + i \in DOMAIN bars
    BY <1>1, <1>4
  <2> QED
    BY <1>4, <1>7, <1>8, <2>1
<1>10. ASSUME NEW i \in 1 .. n
       PROVE  /\ Favourable(turned.side, other[i], entry) = Favourable(signal.side, forward[i], entry)
              /\ Adverse(turned.side, other[i], entry) = Adverse(signal.side, forward[i], entry)
  <2> DEFINE bar == forward[i]
             image == other[i]
             side == signal.side
  <2>1. /\ bar.high \in Nat /\ bar.low \in Nat /\ image.high = 2 * entry - bar.low
        /\ image.low = 2 * entry - bar.high
    BY <1>6, <1>9
  <2>2. side \in {"BUY", "SELL"} /\ turned.side = OtherSide(side)
    BY <1>2
  <2> HIDE DEF bar, image, side
  <2>3. /\ Favourable(OtherSide(side), image, entry) = Favourable(side, bar, entry)
        /\ Adverse(OtherSide(side), image, entry) = Adverse(side, bar, entry)
    BY <1>5, <2>1, <2>2, MirrorsAreAlike
  <2> QED
    BY <2>2, <2>3 DEF bar, image, side
<1>11. Alike(forward, signal, other, turned, entry, n) /\ Alike(forward, signal, other, turned, entry, last)
  <2>1. last \in Nat /\ last <= n
    BY <1>3, <1>4
  <2>2. \A i \in 1 .. last : i \in 1 .. n
    BY <1>4, <2>1
  <2> QED
    BY <1>2, <1>10, <2>2 DEF Alike
<1>12. last \in Nat /\ last > 0 /\ last <= n /\ Walk(other, n) /\ ClosedOn(forward, signal, entry) <= n
  BY <1>3, <1>4, <1>7, <1>8 DEF last
<1>13. /\ ClosedOn(other, turned, entry) = last
       /\ last \in HitStop(other, turned, entry) <=> last \in HitStop(forward, signal, entry)
       /\ last \in HitProfit(other, turned, entry) <=> last \in HitProfit(forward, signal, entry)
  BY <1>4, <1>11, <1>12, WalksCloseAlike DEF last
<1>14. /\ forward[last].close \in Nat /\ other[last].close = 2 * entry - forward[last].close
       /\ other[last].ts = forward[last].ts
  BY <1>3, <1>6, <1>9
<1>15. turned = [signal EXCEPT !.side = OtherSide(@)]
  BY DEF turned
<1>16. Outcome(Touch(other, turned, entry, last, model)) = Outcome(Touch(forward, signal, entry, last, model))
  BY <1>5, <1>11, <1>12, <1>13, <1>14, <1>15, OutcomesAreAlike
<1>17. mirror[index].close = entry
  <2>1. mirror[index].close = 2 * entry - bars[index].close /\ bars[index].close = entry
    BY <1>6 DEF entry
  <2> QED
    BY <1>5, <2>1
<1>18. TripleBarrier(mirror, index, turned, model) = Touch(other, turned, entry, last, model)
  BY <1>2, <1>8, <1>13, <1>17 DEF TripleBarrier, other
<1> QED
  BY <1>3, <1>16, <1>18 DEF label, mirror, entry, turned
(* A bar no further than the count of bars within a deadline is within it. *)
LEMMA HeldWithinTheDeadline ==
  ASSUME NEW bars, Series(bars), NEW index \in DOMAIN bars, NEW deadline \in Nat,
         NEW last \in 1 .. BarsWithin(bars, index, deadline), index + last <= Len(bars)
  PROVE  bars[index + last].ts <= deadline
<1> DEFINE within == {i \in DOMAIN bars : i > index /\ bars[i].ts <= deadline}
           before == index + 1 .. index + last - 1
<1>1. Len(bars) \in Nat /\ DOMAIN bars = 1 .. Len(bars) /\ index \in Nat /\ index >= 1
  BY DEF Series
<1>2. ASSUME NEW i \in DOMAIN bars PROVE bars[i].ts \in Nat
  <2>1. bars[i] \in Bars
    <3> HIDE DEF Bars
    <3> QED
      BY DEF Series
  <2> QED
    BY <2>1 DEF Bars
<1>3. last \in Int /\ last >= 1 /\ last <= Cardinality(within)
  <2>1. IsFiniteSet(within)
    <3>1. IsFiniteSet(1 .. Len(bars))
      BY <1>1, FS_Interval
    <3> QED
      BY <1>1, <3>1, FS_Subset
  <2>2. Cardinality(within) \in Nat
    BY <2>1, FS_CardinalityType
  <2>3. last \in 1 .. Cardinality(within)
    BY DEF BarsWithin
  <2> HIDE DEF within
  <2> QED
    BY <2>2, <2>3
<1>4. index + last \in DOMAIN bars
  BY <1>1, <1>3
<1>5. SUFFICES ASSUME bars[index + last].ts > deadline PROVE FALSE
  BY <1>2, <1>4
<1>6. within \subseteq before
  <2> SUFFICES ASSUME NEW i \in within PROVE i \in before
    OBVIOUS
  <2>1. i \in DOMAIN bars /\ i > index /\ bars[i].ts <= deadline /\ i \in Nat
    BY <1>1
  <2>2. i < index + last
    <3> SUFFICES ASSUME i >= index + last PROVE FALSE
      BY <1>1, <1>3, <2>1
    <3>1. i = index + last \/ bars[index + last].ts < bars[i].ts
      BY <1>1, <1>3, <1>4, <2>1 DEF Series
    <3> QED
      BY <1>2, <1>4, <1>5, <2>1, <3>1
  <2> QED
    BY <1>1, <1>3, <2>1, <2>2
<1>7. IsFiniteSet(before) /\ Cardinality(before) = last - 1
  <2> DEFINE a == index + 1
             b == index + last - 1
  <2>1. a \in Int /\ b \in Int /\ (a > b => last - 1 = 0) /\ (a <= b => b - a + 1 = last - 1)
    BY <1>1, <1>3
  <2> HIDE DEF a, b
  <2>2. IsFiniteSet(a .. b) /\ Cardinality(a .. b) = IF a > b THEN 0 ELSE b - a + 1
    BY <2>1, FS_Interval
  <2> QED
    BY <2>1, <2>2 DEF a, b
<1> HIDE DEF within, before
<1>8. Cardinality(within) <= last - 1
  BY <1>6, <1>7, FS_Subset
<1>9. Cardinality(within) \in Nat
  BY <1>6, <1>7, FS_Subset, FS_CardinalityType
<1> QED
  BY <1>3, <1>8, <1>9

(* The signal an intent is turned into, and the signals of them all. *)
Where(bars, intent) == CHOOSE i \in DOMAIN bars : bars[i].ts = intent.ts
Risk(bars, intent) ==
  LET distance == bars[Where(bars, intent)].close - intent.invalidation
  IN IF distance < 0 THEN -distance ELSE distance
Signalled(bars, intent) ==
  [index |-> Where(bars, intent), side |-> intent.side, stop_loss |-> Risk(bars, intent),
   profit_target |-> (Risk(bars, intent) * intent.target_r[1]) \div intent.target_r[2],
   max_bars |-> BarsWithin(bars, Where(bars, intent), intent.ts + intent.horizon)]
Labellable(s) == s.stop_loss > 0 /\ s.max_bars >= 1

LEMMA SignalsAreOfIntents ==
  ASSUME NEW bars, NEW intents
  PROVE  \A s : s \in SignalsOf(bars, intents) <=>
                  Labellable(s) /\ \E intent \in intents : s = Signalled(bars, intent)
<1>1. SignalsOf(bars, intents) = {s \in {Signalled(bars, intent) : intent \in intents} : s.stop_loss > 0 /\ s.max_bars >= 1}
  BY DEF SignalsOf, Signalled, Risk, Where
<1> QED
  BY <1>1 DEF Labellable

LEMMA SignalsAreDecisions ==
  ASSUME NEW bars, Series(bars), NEW intent, intent.side \in {"BUY", "SELL"}, intent.invalidation \in Nat,
         intent.target_r \in Nat \X (Nat \ {0}), \E i \in DOMAIN bars : bars[i].ts = intent.ts
  PROVE  /\ Signalled(bars, intent) \in Decisions
         /\ Where(bars, intent) \in DOMAIN bars /\ bars[Where(bars, intent)].ts = intent.ts
<1> DEFINE at == Where(bars, intent)
           risk == Risk(bars, intent)
           most == BarsWithin(bars, at, intent.ts + intent.horizon)
<1>1. at \in DOMAIN bars /\ bars[at].ts = intent.ts
  BY DEF Where
<1>2. Len(bars) \in Nat /\ DOMAIN bars = 1 .. Len(bars) /\ at \in Nat
  BY <1>1 DEF Series
<1>3. bars[at].close \in Nat
  <2>1. bars[at] \in Bars
    <3> HIDE DEF Bars, at
    <3> QED
      BY <1>1 DEF Series
  <2> QED
    BY <2>1 DEF Bars
<1>4. risk \in Int
  BY <1>3 DEF Risk
<1>5. most \in Nat
  <2> DEFINE deadline == intent.ts + intent.horizon
             within == {i \in DOMAIN bars : i > at /\ bars[i].ts <= deadline}
             all == 1 .. Len(bars)
  <2>1. IsFiniteSet(all) /\ within \subseteq all
    BY <1>2, FS_Interval
  <2>2. most = Cardinality(within)
    BY DEF BarsWithin
  <2> HIDE DEF within, all, most
  <2> QED
    BY <2>1, <2>2, FS_Subset, FS_CardinalityType
<1>6. (risk * intent.target_r[1]) \div intent.target_r[2] \in Int
  <2> DEFINE a == intent.target_r[1]
             b == intent.target_r[2]
  <2>1. a \in Nat /\ b \in Nat /\ b > 0
    OBVIOUS
  <2> HIDE DEF a, b, risk
  <2>2. risk * a \in Int
    BY <1>4, <2>1
  <2> DEFINE c == risk * a
  <2> HIDE DEF c
  <2>3. c \div b \in Int
    BY <2>1, <2>2 DEF c
  <2> QED
    BY <2>3 DEF a, b, c
<1> HIDE DEF at, risk, most
<1>7. Signalled(bars, intent) \in Decisions
  BY <1>2, <1>4, <1>5, <1>6 DEF Signalled, Decisions, at, risk, most
<1> QED
  BY <1>1, <1>7 DEF at
(* Of the intents at a bar, the one that gave its label is told by its signal. *)
WellMeant(intents) ==
  \A intent \in intents :
    /\ intent.horizon \in Nat /\ intent.side \in {"BUY", "SELL"}
    /\ intent.invalidation \in Nat /\ intent.target_r \in Nat \X (Nat \ {0})
OnePerBar(signals) == \A s, other \in signals : s.index = other.index => s = other
Meant(symbol, bars, intents, index) ==
  CHOOSE i \in intents : i.symbol = symbol /\ i.ts = bars[index].ts /\ SignalsOf(bars, {i}) # {}

LEMMA SignalIsOfWhatWasMeant ==
  ASSUME NEW bars, Series(bars), NEW symbol, NEW intents, WellMeant(intents),
         OnePerBar(SignalsOf(bars, ProposedOn(symbol, bars, intents))),
         NEW s, s \in SignalsOf(bars, ProposedOn(symbol, bars, intents))
  PROVE  LET meant == Meant(symbol, bars, intents, s.index)
         IN /\ meant.horizon \in Nat /\ meant.ts = bars[s.index].ts
            /\ s \in Decisions /\ s.index \in DOMAIN bars
            /\ s.max_bars = BarsWithin(bars, s.index, meant.ts + meant.horizon)
            /\ (CHOOSE signal \in SignalsOf(bars, {meant}) : TRUE) = s
<1> DEFINE proposed == ProposedOn(symbol, bars, intents)
           meant == Meant(symbol, bars, intents, s.index)
<1>1. ASSUME NEW intent \in proposed
      PROVE  /\ intent \in intents /\ intent.symbol = symbol /\ Signalled(bars, intent) \in Decisions
             /\ Signalled(bars, intent).index = Where(bars, intent)
             /\ Where(bars, intent) \in DOMAIN bars /\ bars[Where(bars, intent)].ts = intent.ts
  <2>1. intent \in intents /\ intent.symbol = symbol /\ \E b \in DOMAIN bars : bars[b].ts = intent.ts
    BY DEF ProposedOn
  <2>2. /\ intent.side \in {"BUY", "SELL"} /\ intent.invalidation \in Nat
        /\ intent.target_r \in Nat \X (Nat \ {0})
    BY <2>1 DEF WellMeant
  <2>3. /\ Signalled(bars, intent) \in Decisions
        /\ Where(bars, intent) \in DOMAIN bars /\ bars[Where(bars, intent)].ts = intent.ts
    BY <2>1, <2>2, SignalsAreDecisions
  <2> QED
    BY <2>1, <2>3 DEF Signalled
<1> HIDE DEF proposed
<1>2. PICK origin \in proposed : s = Signalled(bars, origin) /\ Labellable(s)
  BY SignalsAreOfIntents DEF proposed
<1>3. origin \in intents /\ origin.symbol = symbol /\ origin.ts = bars[s.index].ts /\ SignalsOf(bars, {origin}) # {}
  <2>1. s \in SignalsOf(bars, {origin})
    BY <1>2, SignalsAreOfIntents
  <2> QED
    BY <1>1, <1>2, <2>1
<1>4. meant \in intents /\ meant.symbol = symbol /\ meant.ts = bars[s.index].ts /\ SignalsOf(bars, {meant}) # {}
  BY <1>3 DEF Meant
<1> HIDE DEF meant
<1>5. meant \in proposed
  <2>1. s.index \in DOMAIN bars
    BY <1>1, <1>2
  <2> QED
    BY <1>4, <2>1 DEF proposed, ProposedOn
<1>6. Where(bars, meant) = s.index
  <2>1. Where(bars, meant) = Where(bars, origin)
    BY <1>3, <1>4 DEF Where
  <2> QED
    BY <1>1, <1>2, <2>1
<1>7. ASSUME NEW signal \in SignalsOf(bars, {meant}) PROVE signal = s /\ signal = Signalled(bars, meant)
  <2>1. signal = Signalled(bars, meant) /\ Labellable(signal)
    BY SignalsAreOfIntents
  <2>2. signal \in SignalsOf(bars, ProposedOn(symbol, bars, intents))
    BY <1>5, <2>1, SignalsAreOfIntents DEF proposed
  <2>3. signal.index = s.index
    BY <1>1, <1>5, <1>6, <2>1
  <2> QED
    BY <2>1, <2>2, <2>3 DEF OnePerBar
<1>8. (CHOOSE signal \in SignalsOf(bars, {meant}) : TRUE) = s
  BY <1>4, <1>7
<1>9. s = Signalled(bars, meant)
  BY <1>4, <1>7
<1>10. s \in Decisions /\ s.index \in DOMAIN bars /\ s.max_bars = BarsWithin(bars, s.index, meant.ts + meant.horizon)
  BY <1>1, <1>5, <1>6, <1>9 DEF Signalled
<1>11. meant.horizon \in Nat
  BY <1>4 DEF WellMeant
<1> QED
  BY <1>4, <1>8, <1>10, <1>11 DEF meant

(* The three things a label of an intent's signal is true to. *)
LEMMA LabelIsOfTheHolding ==
  ASSUME NEW bars, Series(bars), NEW model, NEW s \in Decisions, s.index \in DOMAIN bars,
         NEW deadline \in Nat, s.max_bars = BarsWithin(bars, s.index, deadline),
         NEW label, label = TripleBarrier(bars, s.index, s, model), label # NoTouch
  PROVE  /\ TripleBarrier(SubSeq(bars, 1, s.index + label.bars_held), s.index, s, model) = label
         /\ Outcome(TripleBarrier(Mirrored(bars, bars[s.index].close), s.index,
                                  [s EXCEPT !.side = OtherSide(@)], model)) = Outcome(label)
         /\ label.touched_at <= deadline
<1> DEFINE index == s.index
<1>1. bars \in Seq(Bars) /\ s.max_bars \in Nat
  BY DEF Series, Decisions
<1>2. TripleBarrier(SubSeq(bars, 1, index + label.bars_held), index, s, model) = label
  <2> HIDE DEF Bars
  <2> QED
    BY <1>1, LabelIsOfTheBarsHeld
<1>3. Outcome(TripleBarrier(Mirrored(bars, bars[index].close), index, [s EXCEPT !.side = OtherSide(@)], model))
        = Outcome(label)
  BY LabelOfTheMirror
<1>4. PICK last \in 1 .. s.max_bars :
        /\ index + last <= Len(bars)
        /\ TripleBarrier(bars, index, s, model).touched_at = bars[index + last].ts
        /\ TripleBarrier(bars, index, s, model).bars_held = last
  <2> HIDE DEF index
  <2>1. index \in DOMAIN bars /\ TripleBarrier(bars, index, s, model) # NoTouch
    BY DEF index
  <2> QED
    BY <1>1, <2>1, TouchIsWithinReach
<1>5. label.touched_at <= deadline
  BY <1>4, HeldWithinTheDeadline
<1> QED
  BY <1>2, <1>3, <1>5
(* A run under way or over is of a sweep that was asked for. *)
SweepIsAsked ==
  run.id # 0 =>
    run.phase # "idle" /\ \E k \in DOMAIN Requests : \E request \in Requests[k] : run.variants = request.variants

LEMMA AskedInit == Init => SweepIsAsked
BY DEF Init, NoRun, SweepIsAsked

LEMMA AskedOver ==
  ASSUME SweepIsAsked, NEW phase \in {"died", "raised", "refused"}, Over(phase), SearchInv
  PROVE  SweepIsAsked'
<1>1. run'.phase = phase /\ run'.id = run.id /\ run'.variants = run.variants
  BY DEF SearchInv, RunsAreCounted, Over
<1> QED
  BY <1>1 DEF SweepIsAsked

LEMMA AskedHaving ==
  ASSUME SweepIsAsked, SearchInv, "variants" \in DOMAIN run, NEW found, run' = Having(found),
         DOMAIN found \cap {"id", "variants"} = {}, "phase" \in DOMAIN found, found.phase # "idle"
  PROVE  SweepIsAsked'
<1>1. "id" \in DOMAIN run
  BY DEF SearchInv, RunsAreCounted
<1>2. run'.phase = found.phase /\ run'.id = run.id /\ run'.variants = run.variants
  BY <1>1 DEF Having
<1> QED
  BY <1>2 DEF SweepIsAsked

LEMMA AskedStep == SweepIsAsked /\ LeakInv /\ SearchInv /\ [Next]_vars => SweepIsAsked'
<1> SUFFICES ASSUME SweepIsAsked, LeakInv, SearchInv, [Next]_vars PROVE SweepIsAsked'
  OBVIOUS
<1>1. CASE UNCHANGED vars
  BY <1>1 DEF vars, SweepIsAsked
<1>2. CASE Measure
  <2>1. run.id \in Nat /\ run.id < Len(Requests)
    BY <1>2 DEF SearchInv, RunsAreCounted, Measure
  <2>2. run.id + 1 \in DOMAIN Requests
    BY <2>1, RequestsAssumption
  <2>3. PICK request \in Requests[run.id + 1] : run' = Asked(request)
    BY <1>2 DEF Measure
  <2>4. run'.phase = "labelling" /\ run'.variants = request.variants
    BY <2>3 DEF Asked
  <2> QED
    BY <2>2, <2>4 DEF SweepIsAsked
<1>3. CASE PassOver
  <2>1. run'.phase = run.phase /\ run'.id = run.id /\ run'.variants = run.variants
    BY <1>3 DEF PassOver
  <2> QED
    BY <2>1 DEF SweepIsAsked
<1>4. CASE LabelSymbol
  <2>1. run'.phase = run.phase /\ run'.id = run.id /\ run'.variants = run.variants
    BY <1>4 DEF LabelSymbol
  <2> QED
    BY <2>1 DEF SweepIsAsked
<1>5. CASE PoolParts
  <2>1. CASE Over("refused")
    BY <2>1, AskedOver
  <2>2. CASE \E pooled : run' = Having([phase |-> "recording", recorded |-> 0, pooled |-> pooled])
    <3>1. PICK pooled : run' = Having([phase |-> "recording", recorded |-> 0, pooled |-> pooled])
      BY <2>2
    <3> DEFINE found == [phase |-> "recording", recorded |-> 0, pooled |-> pooled]
    <3>2. DOMAIN found = {"phase", "recorded", "pooled"} /\ found.phase = "recording"
      OBVIOUS
    <3>3. "variants" \in DOMAIN run
      BY <1>5 DEF PoolParts, LeakInv, PartsAreInTurn
    <3> QED
      BY <3>1, <3>2, <3>3, AskedHaving
  <2> QED
    BY <1>5, <2>1, <2>2 DEF PoolParts
<1>6. CASE RecordTrial
  <2>1. CASE Over("raised")
    BY <2>1, AskedOver
  <2>2. CASE run' = [run EXCEPT !.recorded = @ + 1, !.clock = @ + 1]
    <3>1. run'.phase = run.phase /\ run'.id = run.id /\ run'.variants = run.variants
      BY <2>2
    <3> QED
      BY <3>1 DEF SweepIsAsked
  <2> QED
    BY <1>6, <2>1, <2>2 DEF RecordTrial
<1>7. CASE Judge
  <2>1. CASE ~Legible(ledger)
    <3>1. Over("raised")
      BY <1>7, <2>1 DEF Judge
    <3> QED
      BY <3>1, AskedOver
  <2>2. CASE Legible(ledger)
    <3> HIDE DEF Having
    <3>1. PICK independent \in 1 .. Len(run.variants) :
            LET pooled == run.pooled
                columns == Columns
                best == FirstBest([v \in DOMAIN columns |-> Moments(columns[v])])
                charged == Trials(run.family)
            IN run' = Having([phase |-> "judged", best |-> best, charged |-> charged,
                       looks |-> Max({1, independent + Len(charged) - Len(run.variants)}),
                       clusters |-> Cardinality({DayOf(pooled.spans[i].opened) : i \in DOMAIN pooled.spans}),
                       misses |-> Misses(columns, Len(pooled.spans), PboBlocks),
                       chosen |-> ChosenBy(pooled.spans, columns, CV),
                       tally |-> Tally(pooled.trades[best]),
                       coverage |-> CoverageOf(pooled, best),
                       costs |-> CurveOf(run.curve, best)])
      BY <1>7, <2>2 DEF Judge
    <3>2. PICK best, charged, looks, clusters, misses, chosen, tally, coverage, costs :
            run' = Having([phase |-> "judged", best |-> best, charged |-> charged, looks |-> looks,
                           clusters |-> clusters, misses |-> misses, chosen |-> chosen, tally |-> tally,
                           coverage |-> coverage, costs |-> costs])
      BY <3>1
    <3> DEFINE found == [phase |-> "judged", best |-> best, charged |-> charged, looks |-> looks,
                         clusters |-> clusters, misses |-> misses, chosen |-> chosen, tally |-> tally,
                         coverage |-> coverage, costs |-> costs]
    <3>3. /\ DOMAIN found = {"phase", "best", "charged", "looks", "clusters", "misses", "chosen", "tally",
                             "coverage", "costs"}
          /\ found.phase = "judged"
      OBVIOUS
    <3>4. "variants" \in DOMAIN run
      BY <1>7 DEF Judge, LeakInv, PartsAreInTurn
    <3>5. run' = Having(found)
      BY <3>2
    <3> HIDE DEF found
    <3> QED
      BY <3>3, <3>4, <3>5, AskedHaving
  <2> QED
    BY <2>1, <2>2
<1>8. CASE Die \/ DieJournalling \/ DieRecording
  <2>1. Over("died")
    BY <1>8 DEF Die, DieJournalling, DieRecording
  <2> QED
    BY <2>1, AskedOver
<1> QED
  BY <1>1, <1>2, <1>3, <1>4, <1>5, <1>6, <1>7, <1>8 DEF Next

(* Each label of a run is of the signal of an intent, and true to it. *)
LEMMA LabelledTradesAreHeld ==
  ASSUME LeakInv, SweepIsAsked, NEW t \in LabelledTrades
  PROVE  /\ TripleBarrier(SubSeq(BarsOf(t), 1, EntryOf(t) + LabelOf(t).bars_held), EntryOf(t), SignalOf(t), Models[1])
              = LabelOf(t)
         /\ Outcome(TripleBarrier(Mirrored(BarsOf(t), BarsOf(t)[EntryOf(t)].close), EntryOf(t),
                                  [SignalOf(t) EXCEPT !.side = OtherSide(@)], Models[1])) = Outcome(LabelOf(t))
         /\ LabelOf(t).touched_at <= IntentOf(t).ts + IntentOf(t).horizon
<1>1. run.id # 0 /\ run.phase # "idle" /\ corpus \in Corpora /\ PartsAreInTurn
  BY DEF LabelledTrades, SweepIsAsked, LeakInv
<1>2. PICK p \in DOMAIN run.parts, v \in DOMAIN run.variants :
        \E k \in DOMAIN run.parts[p].observations.spans :
          /\ run.parts[p].observations.trades[v][k] # NoTouch
          /\ t = [part |-> run.parts[p], row |-> k, variant |-> v]
  BY <1>1 DEF LabelledTrades
<1>3. PICK k \in DOMAIN run.parts[p].observations.spans :
        /\ run.parts[p].observations.trades[v][k] # NoTouch
        /\ t = [part |-> run.parts[p], row |-> k, variant |-> v]
  BY <1>2
<1>4. PICK symbol \in Range(Universe) : run.parts[p] = PartOf(symbol)
  BY <1>1, KeysHavePlaces
<1> DEFINE bars == corpus[symbol]
           intents == run.variants[v].intents
           signals == SignalsFor(symbol)
           labels == LabelSignals(bars, signals, Models[1])
           opened == labels.spans[k].opened
           s == CHOOSE s \in signals[v] : s.index = opened
           label == labels.trades[v][k]
           meant == Meant(symbol, bars, intents, opened)
           deadline == meant.ts + meant.horizon
<1>5. Series(bars)
  <2>1. PICK i \in DOMAIN Universe : symbol = Universe[i]
    BY DEF Range
  <2> QED
    BY <1>1, <2>1, CorporaAssumption DEF Series, Bars
<1>6. /\ run.parts[p].key = symbol /\ run.parts[p].observations = labels
      /\ t.part.key = symbol /\ t.part.observations = labels /\ t.row = k /\ t.variant = v
  BY <1>3, <1>4 DEF PartOf
<1>7. DOMAIN signals = DOMAIN run.variants /\ signals[v] = SignalsOf(bars, ProposedOn(symbol, bars, intents))
  BY DEF SignalsFor
<1>8. ASSUME NEW u \in DOMAIN signals PROVE Decided(bars, signals[u])
  <2>1. signals[u] = SignalsOf(bars, ProposedOn(symbol, bars, run.variants[u].intents))
    BY DEF SignalsFor
  <2> HIDE DEF bars, signals
  <2> QED
    BY <1>5, <2>1, SignalsAreDecided
<1>9. /\ BarsOf(t) = bars /\ EntryOf(t) = opened /\ LabelOf(t) = label
      /\ IntentOf(t) = meant
  BY <1>6 DEF BarsOf, EntryOf, LabelOf, IntentOf, Meant
<1>10. SignalOf(t) = CHOOSE signal \in SignalsOf(bars, {meant}) : TRUE
  BY <1>9 DEF SignalOf
<1>11. WellMeant(intents) /\ OnePerBar(SignalsOf(bars, ProposedOn(symbol, bars, intents)))
  <2>1. PICK j \in DOMAIN Requests : \E request \in Requests[j] : run.variants = request.variants
    BY <1>1 DEF SweepIsAsked
  <2>2. PICK request \in Requests[j] : run.variants = request.variants
    BY <2>1
  <2>3. WellMeant(intents)
    BY <2>2, RequestsAssumption DEF WellMeant
  <2>4. OnePerBar(SignalsOf(bars, ProposedOn(symbol, bars, intents)))
    BY <1>1, <2>2, DecisionsAssumption DEF OnePerBar
  <2> QED
    BY <2>3, <2>4
<1>12. label # NoTouch /\ k \in DOMAIN labels.spans
  BY <1>3, <1>6
<1>13. labels = LabelSignals(bars, signals, Models[1])
  OBVIOUS
<1> HIDE DEF bars, signals, labels
<1>14. PICK n \in Nat : SoundLabels(labels, bars, signals, Models[1], n)
  BY <1>5, <1>8, <1>13, LabelsAreWithinReach
<1>15. k \in 1 .. n /\ v \in DOMAIN signals
  BY <1>7, <1>12, <1>14 DEF SoundLabels
<1>16. s \in signals[v] /\ s.index = opened /\ label = TripleBarrier(bars, opened, s, Models[1])
  BY <1>12, <1>14, <1>15 DEF SoundLabels
<1> HIDE DEF s, opened, label, intents
<1>17. /\ meant.horizon \in Nat /\ meant.ts = bars[opened].ts /\ s \in Decisions /\ opened \in DOMAIN bars
       /\ s.max_bars = BarsWithin(bars, opened, meant.ts + meant.horizon)
       /\ (CHOOSE signal \in SignalsOf(bars, {meant}) : TRUE) = s
  BY <1>5, <1>7, <1>11, <1>16, SignalIsOfWhatWasMeant
<1>18. SignalOf(t) = s
  BY <1>10, <1>17
<1>19. deadline \in Nat
  <2>1. bars[opened] \in Bars
    <3> HIDE DEF Bars
    <3> QED
      BY <1>5, <1>17 DEF Series
  <2> QED
    BY <1>17, <2>1 DEF Bars
<1>20. s.max_bars = BarsWithin(bars, opened, deadline)
  BY <1>17
<1> HIDE DEF deadline, meant
<1>21. /\ TripleBarrier(SubSeq(bars, 1, s.index + label.bars_held), s.index, s, Models[1]) = label
       /\ Outcome(TripleBarrier(Mirrored(bars, bars[s.index].close), s.index,
                                [s EXCEPT !.side = OtherSide(@)], Models[1])) = Outcome(label)
       /\ label.touched_at <= deadline
  BY <1>5, <1>12, <1>16, <1>17, <1>19, <1>20, LabelIsOfTheHolding
<1> QED
  BY <1>9, <1>16, <1>18, <1>21 DEF deadline

(* What a trade is said to have made is what holding it made: nothing of    *)
(* the bars after it closed, the same on either side of the market, closed  *)
(* by the deadline of its decision (triple_barrier, signals_from_intents). *)
THEOREM LabelsAreAlwaysOfTheHolding == Spec => []LabelsAreOfTheHolding
<1>1. LeakInv /\ SweepIsAsked => LabelsAreOfTheHolding
  <2> SUFFICES ASSUME LeakInv, SweepIsAsked PROVE LabelsAreOfTheHolding
    OBVIOUS
  <2>1. LabelsReadOnlyWhatWasHeld
    BY LabelledTradesAreHeld DEF LabelsReadOnlyWhatWasHeld
  <2>2. SidesAreMirrors
    BY LabelledTradesAreHeld DEF SidesAreMirrors
  <2>3. NoTradeOutlivesItsIntent
    BY LabelledTradesAreHeld DEF NoTradeOutlivesItsIntent
  <2> QED
    BY <2>1, <2>2, <2>3 DEF LabelsAreOfTheHolding
<1> QED
  BY <1>1, SearchInit, SearchStep, LeakInit, LeakStep, AskedInit, AskedStep, PTL DEF Spec
-----------------------------------------------------------------------------
(* A running total exists: were there a first length without one, the total *)
(* of what comes before it would extend to it.                             *)
Running(h, seq, n) ==
  /\ h \in [0 .. n -> Int]
  /\ \A k \in 0 .. n : h[k] = IF k = 0 THEN 0 ELSE h[k - 1] + seq[k]

LEMMA TotalsRun ==
  ASSUME NEW n \in Nat, NEW seq, \A k \in 1 .. n : seq[k] \in Int
  PROVE  \E h : Running(h, seq, n)
<1> DEFINE Stuck == {m \in 0 .. n : ~\E h : Running(h, seq, m)}
<1> SUFFICES ASSUME Stuck # {} PROVE FALSE
  OBVIOUS
<1>1. Stuck \in SUBSET Nat
  OBVIOUS
<1> DEFINE m == Min(Stuck)
<1>2. m \in Stuck /\ \A x \in Stuck : m <= x
  BY <1>1, LeastMember
<1>3. m \in 0 .. n /\ ~\E h : Running(h, seq, m)
  BY <1>2
<1>4. m # 0
  <2> SUFFICES ASSUME m = 0 PROVE FALSE
    OBVIOUS
  <2> DEFINE h == [k \in 0 .. 0 |-> 0]
  <2>1. Running(h, seq, 0)
    BY DEF Running
  <2> QED
    BY <1>3, <2>1
<1>5. m - 1 \in 0 .. n /\ m - 1 \notin Stuck
  <2>1. m - 1 \in 0 .. n /\ ~(m <= m - 1)
    BY <1>3, <1>4
  <2> HIDE DEF Stuck, m
  <2> QED
    BY <1>2, <2>1
<1>6. PICK h : Running(h, seq, m - 1)
  BY <1>5
<1> HIDE DEF Stuck, m
<1> DEFINE longer == [k \in 0 .. m |-> IF k = m THEN h[m - 1] + seq[m] ELSE h[k]]
<1>7. Running(longer, seq, m)
  <2>1. h \in [0 .. m - 1 -> Int] /\ \A k \in 0 .. m - 1 : h[k] = IF k = 0 THEN 0 ELSE h[k - 1] + seq[k]
    BY <1>6 DEF Running
  <2>2. m \in 1 .. n /\ m - 1 \in 0 .. m - 1 /\ seq[m] \in Int
    BY <1>3, <1>4
  <2>3. longer \in [0 .. m -> Int]
    BY <2>1, <2>2
  <2>4. ASSUME NEW k \in 0 .. m PROVE longer[k] = IF k = 0 THEN 0 ELSE longer[k - 1] + seq[k]
    <3>1. CASE k = m
      <4>1. longer[k] = h[m - 1] + seq[m] /\ longer[k - 1] = h[m - 1]
        BY <2>2, <3>1
      <4> QED
        BY <1>4, <3>1, <4>1
    <3>2. CASE k # m
      <4>1. k \in 0 .. m - 1 /\ longer[k] = h[k] /\ (k # 0 => longer[k - 1] = h[k - 1])
        BY <2>2, <3>2
      <4> HIDE DEF longer
      <4> QED
        BY <2>1, <4>1
    <3> QED
      BY <3>1, <3>2
  <2> HIDE DEF longer
  <2> QED
    BY <2>3, <2>4 DEF Running
<1> QED
  BY <1>3, <1>7

LEMMA TotalIsANumber ==
  ASSUME NEW seq, Len(seq) \in Nat, \A k \in 1 .. Len(seq) : seq[k] \in Int
  PROVE  Total(seq) \in Int
<1> DEFINE n == Len(seq)
           sum == CHOOSE f : f = [k \in 0 .. n |-> IF k = 0 THEN 0 ELSE f[k - 1] + seq[k]]
<1>1. Total(seq) = sum[n]
  BY DEF Total
<1>2. n \in Nat /\ \A k \in 1 .. n : seq[k] \in Int
  OBVIOUS
<1> HIDE DEF n
<1>3. PICK h : Running(h, seq, n)
  BY <1>2, TotalsRun
<1>4. h = [k \in 0 .. n |-> IF k = 0 THEN 0 ELSE h[k - 1] + seq[k]]
  BY <1>3 DEF Running
<1>5. sum = [k \in 0 .. n |-> IF k = 0 THEN 0 ELSE sum[k - 1] + seq[k]]
  BY <1>4, Zenon
<1> HIDE DEF sum
<1> DEFINE Odd == {k \in 0 .. n : sum[k] \notin Int}
<1>6. Odd = {}
  <2> SUFFICES ASSUME Odd # {} PROVE FALSE
    OBVIOUS
  <2> DEFINE m == Min(Odd)
  <2>1. Odd \in SUBSET Nat
    BY <1>2
  <2>2. m \in Odd /\ \A x \in Odd : m <= x
    BY <2>1, LeastMember
  <2> HIDE DEF m
  <2>3. m \in 0 .. n /\ sum[m] \notin Int
    BY <2>2
  <2>4. m # 0
    BY <1>2, <1>5, <2>3
  <2>5. m - 1 \in 0 .. n /\ ~(m <= m - 1)
    BY <1>2, <2>3, <2>4
  <2>6. sum[m - 1] \in Int
    BY <2>2, <2>5
  <2>7. seq[m] \in Int
    BY <1>2, <2>3, <2>4
  <2>8. sum[m] = sum[m - 1] + seq[m]
    BY <1>5, <2>3, <2>4
  <2> QED
    BY <2>3, <2>6, <2>7, <2>8
<1>7. n \in 0 .. n
  BY <1>2
<1> QED
  BY <1>1, <1>6, <1>7

(* A score is a pair of numbers, so of two columns at most one is worse. *)
Scored == Int \X Int

LEMMA SharpeIsAPair ==
  ASSUME NEW n \in Nat, NEW series \in [1 .. n -> Int]
  PROVE  SharpeOrFlat(series) \in Scored
<1> DEFINE squares == [i \in DOMAIN series |-> series[i] * series[i]]
           sum == Total(series)
           squared == Total(squares)
<1>1. Len(series) = n /\ Len(squares) = n
  OBVIOUS
<1>2. sum \in Int
  BY <1>1, TotalIsANumber
<1>3. squared \in Int
  <2>1. \A k \in 1 .. n : squares[k] \in Int
    OBVIOUS
  <2> HIDE DEF squares
  <2> QED
    BY <1>1, <2>1, TotalIsANumber
<1>4. Moments(series) = <<sum, n * squared - sum * sum>>
  BY <1>1 DEF Moments
<1> HIDE DEF sum, squared
<1>5. n * squared - sum * sum \in Int
  BY <1>2, <1>3
<1>6. Moments(series) \in Scored
  BY <1>2, <1>4, <1>5 DEF Scored
<1>7. <<0, 1>> \in Scored
  BY DEF Scored
<1> QED
  BY <1>6, <1>7 DEF SharpeOrFlat

LEMMA WorseIsOneWay ==
  ASSUME NEW a \in Scored, NEW b \in Scored
  PROVE  ~Worse(a, a) /\ (Worse(a, b) => ~Worse(b, a))
<1>1. ASSUME NEW n \in Int PROVE SignedSquare(n) \in Int
  BY DEF SignedSquare
<1> DEFINE A == SignedSquare(a[1])
           B == SignedSquare(b[1])
<1>2. a[1] \in Int /\ a[2] \in Int /\ b[1] \in Int /\ b[2] \in Int
  BY DEF Scored
<1>3. A \in Int /\ B \in Int
  BY <1>1, <1>2
<1> DEFINE p == A * b[2]
           q == B * a[2]
           r == A * a[2]
<1>4. (Worse(a, b) <=> p < q) /\ (Worse(b, a) <=> q < p) /\ (Worse(a, a) <=> r < r)
  BY DEF Worse
<1> HIDE DEF A, B
<1>5. p \in Int /\ q \in Int /\ r \in Int
  BY <1>2, <1>3
<1> HIDE DEF p, q, r
<1> QED
  BY <1>4, <1>5

LEMMA LeaderIsChosen ==
  ASSUME NEW n \in Nat, NEW scores \in [1 .. n -> Scored], NEW v \in 1 .. n,
         \A u \in (1 .. n) \ {v} : Worse(scores[u], scores[v])
  PROVE  FirstBest(scores) = v
<1> DEFINE best == {c \in DOMAIN scores : \A d \in DOMAIN scores : ~Worse(scores[c], scores[d])}
<1>1. best = {v}
  <2>1. v \in best
    <3> SUFFICES ASSUME NEW d \in 1 .. n PROVE ~Worse(scores[v], scores[d])
      OBVIOUS
    <3>1. scores[v] \in Scored /\ scores[d] \in Scored
      OBVIOUS
    <3> QED
      BY <3>1, WorseIsOneWay
  <2>2. ASSUME NEW c \in best PROVE c = v
    OBVIOUS
  <2> HIDE DEF best
  <2> QED
    BY <2>1, <2>2
<1>2. FirstBest(scores) = Min(best)
  BY DEF FirstBest
<1> HIDE DEF best
<1>3. {v} \in SUBSET Nat /\ {v} # {}
  OBVIOUS
<1>4. Min({v}) \in {v}
  BY <1>3, LeastMember
<1> QED
  BY <1>1, <1>2, <1>4

LEMMA ScoresArePairs ==
  ASSUME NEW m \in Nat, NEW n \in Nat, NEW columns \in [1 .. n -> [1 .. m -> Int]], NEW rows \in SUBSET (1 .. m)
  PROVE  Scores(columns, rows) \in [1 .. n -> Scored]
<1> DEFINE order == Ascending(rows)
           size == Cardinality(rows)
           column(c) == [k \in DOMAIN order |-> columns[c][order[k]]]
<1>1. IsFiniteSet(rows) /\ Numbers(rows)
  <2>1. IsFiniteSet(1 .. m)
    BY FS_Interval
  <2>2. rows \subseteq Int
    OBVIOUS
  <2> QED
    BY <2>1, <2>2, FS_Subset DEF Numbers
<1>2. Lists(order, rows) /\ size \in Nat
  BY <1>1, AscendingTakesAll, FS_CardinalityType
<1>3. Scores(columns, rows) = [c \in 1 .. n |-> SharpeOrFlat(column(c))]
  BY DEF Scores
<1> HIDE DEF order, size
<1>4. DOMAIN order = 1 .. size /\ \A k \in 1 .. size : order[k] \in rows
  BY <1>2 DEF Lists, size
<1>5. ASSUME NEW c \in 1 .. n PROVE SharpeOrFlat(column(c)) \in Scored
  <2>1. columns[c] \in [1 .. m -> Int]
    OBVIOUS
  <2>2. column(c) \in [1 .. size -> Int]
    BY <1>4, <2>1
  <2> HIDE DEF column
  <2> QED
    BY <1>2, <2>2, SharpeIsAPair
<1> HIDE DEF column
<1> QED
  BY <1>3, <1>5

(* What is not in a half is the other half. *)
LEMMA OtherHalf ==
  ASSUME NEW n \in Nat, n % 2 = 0, NEW half \in kSubset(n \div 2, 1 .. n)
  PROVE  /\ half \in SUBSET (1 .. n) /\ (1 .. n) \ half \in kSubset(n \div 2, 1 .. n)
         /\ (1 .. n) \ ((1 .. n) \ half) = half
<1> DEFINE k == n \div 2
           all == 1 .. n
           other == all \ half
<1>1. k \in Nat /\ n = k + k
  OBVIOUS
<1> HIDE DEF k
<1>2. \A s : s \in kSubset(k, 1 .. n) <=> s \in SUBSET (1 .. n) /\ Cardinality(s) = k
  BY <1>1, HoldoutsAreFinite DEF Holdouts
<1>3. half \in SUBSET (1 .. n) /\ Cardinality(half) = k
  BY <1>2 DEF k
<1>4. IsFiniteSet(all) /\ Cardinality(all) = n
  <2>1. ASSUME NEW m \in Nat PROVE IsFiniteSet(1 .. m) /\ Cardinality(1 .. m) = m
    BY FS_Interval
  <2> QED
    BY <2>1
<1>5. IsFiniteSet(half) /\ half \cap all = half
  BY <1>3, <1>4, FS_Subset
<1> HIDE DEF all
<1>6. all \cap half = half
  BY <1>5
<1>7. Cardinality(other) = Cardinality(all) - Cardinality(half)
  BY <1>4, <1>6, FS_Difference
<1>8. Cardinality(other) = k
  <2> DEFINE left == Cardinality(other)
  <2>1. left = n - k
    BY <1>3, <1>4, <1>7
  <2> HIDE DEF left
  <2>2. left = k
    BY <1>1, <2>1
  <2> QED
    BY <2>2 DEF left
<1>9. other \in SUBSET (1 .. n) /\ (1 .. n) \ other = half
  BY <1>3 DEF all
<1> HIDE DEF other
<1>10. other \in kSubset(k, 1 .. n)
  BY <1>2, <1>8, <1>9
<1> QED
  BY <1>3, <1>9, <1>10 DEF other, k, all

(* What the ranking of one half says of the ranking of the other. *)
Leads(scores, n, v) == \A u \in (1 .. n) \ {v} : Worse(scores[u], scores[v])
Trails(scores, n, v) == \A u \in (1 .. n) \ {v} : Worse(scores[v], scores[u])
Missed(scores, outside, n) ==
  2 * (Cardinality({c \in 1 .. n : Worse(outside[c], outside[FirstBest(scores)])}) + 1) <= n + 1

LEMMA AllButOne ==
  ASSUME NEW n \in Nat, NEW v \in 1 .. n
  PROVE  Cardinality((1 .. n) \ {v}) = n - 1
<1> DEFINE all == 1 .. n
<1>1. IsFiniteSet(all) /\ Cardinality(all) = n /\ v \in all
  <2>1. ASSUME NEW k \in Nat PROVE IsFiniteSet(1 .. k) /\ Cardinality(1 .. k) = k
    BY FS_Interval
  <2> QED
    BY <2>1
<1> HIDE DEF all
<1>2. Cardinality(all \ {v}) = Cardinality(all) - 1
  BY <1>1, FS_RemoveElement
<1> QED
  BY <1>1, <1>2 DEF all

LEMMA LeaderIsNoMiss ==
  ASSUME NEW n \in Nat, n >= 2, NEW scores \in [1 .. n -> Scored], NEW outside \in [1 .. n -> Scored],
         NEW v \in 1 .. n, Leads(scores, n, v)
  PROVE  /\ Leads(outside, n, v) => ~Missed(scores, outside, n)
         /\ Trails(outside, n, v) => Missed(scores, outside, n)
<1>1. FirstBest(scores) = v
  BY LeaderIsChosen DEF Leads
<1> DEFINE worse == {c \in 1 .. n : Worse(outside[c], outside[v])}
           miss == 2 * (Cardinality(worse) + 1) <= n + 1
<1>2. Missed(scores, outside, n) <=> miss
  BY <1>1 DEF Missed
<1>3. ASSUME NEW c \in 1 .. n, NEW d \in 1 .. n
      PROVE  ~Worse(outside[c], outside[c]) /\ (Worse(outside[c], outside[d]) => ~Worse(outside[d], outside[c]))
  <2>1. outside[c] \in Scored /\ outside[d] \in Scored
    OBVIOUS
  <2> QED
    BY <2>1, WorseIsOneWay
<1>4. ASSUME Leads(outside, n, v) PROVE ~miss
  <2>1. worse = (1 .. n) \ {v}
    BY <1>3, <1>4 DEF Leads
  <2>2. Cardinality(worse) = n - 1
    BY <2>1, AllButOne
  <2> HIDE DEF worse
  <2> QED
    BY <2>2
<1>5. ASSUME Trails(outside, n, v) PROVE miss
  <2>1. worse = {}
    BY <1>3, <1>5 DEF Trails
  <2>2. Cardinality(worse) = 0
    BY <2>1, FS_EmptySet
  <2> HIDE DEF worse
  <2> QED
    BY <2>2
<1> QED
  BY <1>2, <1>4, <1>5

LEMMA MissesAreOfTheRanking ==
  ASSUME NEW m \in Nat, NEW n \in Nat, n >= 2, NEW columns \in [1 .. n -> [1 .. m -> Int]]
  PROVE  LET blocks == Groups(m, PboBlocks)
             halves == kSubset(PboBlocks \div 2, 1 .. PboBlocks)
             scores(half) == Scores(columns, Rows(half, blocks))
             other(half) == (1 .. PboBlocks) \ half
         IN /\ (\E v \in 1 .. n : \A half \in halves : Leads(scores(half), n, v))
                 => Misses(columns, m, PboBlocks) = {}
            /\ \A half \in halves : (\E v \in 1 .. n : Leads(scores(half), n, v) /\ Trails(scores(other(half)), n, v))
                 => half \in Misses(columns, m, PboBlocks)
<1> DEFINE blocks == Groups(m, PboBlocks)
           halves == kSubset(PboBlocks \div 2, 1 .. PboBlocks)
           scores(half) == Scores(columns, Rows(half, blocks))
           other(half) == (1 .. PboBlocks) \ half
           misses == Misses(columns, m, PboBlocks)
<1>1. PboBlocks \in Nat /\ PboBlocks > 0 /\ PboBlocks % 2 = 0
  BY PboAssumption
<1>2. blocks \in [1 .. PboBlocks -> SUBSET (1 .. m)]
  BY <1>1, GroupsAreOfTheRows
<1>3. ASSUME NEW half \in SUBSET (1 .. PboBlocks) PROVE scores(half) \in [1 .. n -> Scored]
  <2> DEFINE rows == Rows(half, blocks)
  <2>1. rows \in SUBSET (1 .. m)
    <3> HIDE DEF blocks
    <3> QED
      BY <1>2 DEF Rows
  <2> HIDE DEF rows
  <2>2. Scores(columns, rows) \in [1 .. n -> Scored]
    BY <2>1, ScoresArePairs
  <2> QED
    BY <2>2 DEF rows
<1>4. ASSUME NEW half \in halves
      PROVE  half \in SUBSET (1 .. PboBlocks) /\ other(half) \in halves /\ other(half) \in SUBSET (1 .. PboBlocks)
  BY <1>1, OtherHalf
<1>5. misses = {half \in halves : Missed(scores(half), scores(other(half)), n)}
  <2>1. DOMAIN columns = 1 .. n /\ Len(columns) = n
    OBVIOUS
  <2> QED
    BY <2>1 DEF Misses, Missed
<1> HIDE DEF scores, other, halves, misses, blocks
<1>6. ASSUME NEW half \in halves, NEW v \in 1 .. n, Leads(scores(half), n, v)
      PROVE  /\ Leads(scores(other(half)), n, v) => half \notin misses
             /\ Trails(scores(other(half)), n, v) => half \in misses
  <2> DEFINE inside == scores(half)
             outside == scores(other(half))
  <2>1. inside \in [1 .. n -> Scored] /\ outside \in [1 .. n -> Scored]
    BY <1>3, <1>4
  <2>2. Leads(inside, n, v)
    BY <1>6
  <2>3. half \in misses <=> Missed(inside, outside, n)
    BY <1>5
  <2> HIDE DEF inside, outside
  <2>4. /\ Leads(outside, n, v) => ~Missed(inside, outside, n)
        /\ Trails(outside, n, v) => Missed(inside, outside, n)
    BY <2>1, <2>2, LeaderIsNoMiss
  <2> QED
    BY <2>3, <2>4 DEF inside, outside
<1>7. ASSUME NEW v \in 1 .. n, \A half \in halves : Leads(scores(half), n, v) PROVE misses = {}
  <2>1. ASSUME NEW half \in misses PROVE FALSE
    <3>1. half \in halves
      BY <1>5
    <3>2. Leads(scores(half), n, v) /\ Leads(scores(other(half)), n, v)
      BY <1>4, <1>7, <3>1
    <3> QED
      BY <1>6, <2>1, <3>1, <3>2
  <2> QED
    BY <2>1
<1>8. ASSUME NEW half \in halves, NEW v \in 1 .. n, Leads(scores(half), n, v), Trails(scores(other(half)), n, v)
      PROVE  half \in misses
  BY <1>6, <1>8
<1>9. (\E v \in 1 .. n : \A half \in halves : Leads(scores(half), n, v)) => misses = {}
  BY <1>7
<1>10. \A half \in halves : (\E v \in 1 .. n : Leads(scores(half), n, v) /\ Trails(scores(other(half)), n, v))
         => half \in misses
  BY <1>8
<1> QED
  BY <1>9, <1>10, Zenon DEF misses, blocks, halves, scores, other

-----------------------------------------------------------------------------
(* What a fill costs is a number, whatever the price. *)
LEMMA MaxOfNumbers ==
  ASSUME NEW a \in Int, NEW b \in Int, NEW c \in Int
  PROVE  Max({a, b, c}) \in Int /\ Max({a, b}) \in Int
<1>1. ASSUME NEW S \in SUBSET Int, \E x \in S : \A y \in S : x >= y PROVE Max(S) \in Int
  BY <1>1 DEF Max
<1>2. \E x \in {a, b, c} : \A y \in {a, b, c} : x >= y
  <2>1. CASE a >= b /\ a >= c
    BY <2>1
  <2>2. CASE b >= a /\ b >= c
    BY <2>2
  <2>3. CASE c >= a /\ c >= b
    BY <2>3
  <2> QED
    BY <2>1, <2>2, <2>3
<1>3. \E x \in {a, b} : \A y \in {a, b} : x >= y
  OBVIOUS
<1> QED
  BY <1>1, <1>2, <1>3

LEMMA QuotientIsANumber ==
  ASSUME NEW n \in Int, NEW f \in Nat, NEW d \in Nat \ {0}
  PROVE  (n * f) \div d \in Int
<1> DEFINE p == n * f
<1>1. p \in Int
  OBVIOUS
<1> HIDE DEF p
<1>2. p \div d \in Int
  BY <1>1
<1> QED
  BY <1>2 DEF p

LEMMA NearestIsANumber ==
  ASSUME NEW n \in Int, NEW d \in Nat \ {0}
  PROVE  Nearest(n, d) \in Int
<1>1. n \div d \in Int
  OBVIOUS
<1> QED
  BY <1>1 DEF Nearest

LEMMA CostIsANumber ==
  ASSUME NEW l \in DOMAIN Models, NEW price \in Int
  PROVE  Cost(Models[l], price) \in Int
<1> DEFINE model == Models[l]
<1>1. /\ model.min_spread \in Nat /\ model.per_share \in Nat /\ model.min_fee \in Nat
      /\ model.fraction \in Nat \X (Nat \ {0}) /\ model.max_fraction \in Nat \X (Nat \ {0})
  BY ModelsAssumption
<1>2. Quantity \in Nat /\ TickSize(price) \in Int
  BY LabellingAssumption DEF TickSize
<1>3. /\ model.fraction[1] \in Nat /\ model.fraction[2] \in Nat \ {0}
      /\ model.max_fraction[1] \in Nat /\ model.max_fraction[2] \in Nat \ {0}
  BY <1>1
<1> HIDE DEF model
<1> DEFINE share == (price * model.fraction[1]) \div model.fraction[2]
           value == price * Quantity
           cap == (value * model.max_fraction[1]) \div model.max_fraction[2]
           fee == model.per_share * Quantity
           tick == TickSize(price)
           floor == model.min_spread
<1>4. share \in Int
  BY <1>3, QuotientIsANumber
<1>5. value \in Int /\ fee \in Int
  BY <1>1, <1>2
<1>6. cap \in Int
  <2> HIDE DEF value
  <2> QED
    BY <1>3, <1>5, QuotientIsANumber
<1>7. Spread(model, price) = Max({share, tick, floor})
  BY DEF Spread
<1>8. Commission(model, price) = LeastOf(Max({fee, model.min_fee}), cap)
  BY DEF Commission
<1>a. tick \in Int /\ floor \in Int
  BY <1>1, <1>2
<1> HIDE DEF share, cap, fee, value, tick, floor
<1>9. Spread(model, price) \in Int
  <2>1. Max({share, tick, floor}) \in Int
    BY <1>4, <1>a, MaxOfNumbers
  <2> QED
    BY <1>7, <2>1
<1>10. Max({fee, model.min_fee}) \in Int
  BY <1>1, <1>5, MaxOfNumbers
<1>11. Commission(model, price) \in Int
  BY <1>6, <1>8, <1>10 DEF LeastOf
<1> DEFINE spread == Spread(model, price)
           commission == Commission(model, price)
<1>12. Cost(model, price) = (spread * Quantity) \div 2 + commission
  BY DEF Cost
<1> HIDE DEF spread, commission
<1>13. (spread * Quantity) \div 2 \in Int
  BY <1>2, <1>9, QuotientIsANumber DEF spread
<1> DEFINE half == (spread * Quantity) \div 2
<1> HIDE DEF half
<1>14. Cost(model, price) \in Int
  BY <1>11, <1>12, <1>13 DEF half, commission
<1> QED
  BY <1>14 DEF model

(* What holding a position returned is a number. *)
LEMMA ReturnIsANumber ==
  ASSUME NEW bars, Series(bars), \A i \in DOMAIN bars : bars[i].close > 0,
         NEW index \in DOMAIN bars, NEW signal \in Decisions, NEW l \in DOMAIN Models,
         TripleBarrier(bars, index, signal, Models[l]) # NoTouch
  PROVE  TripleBarrier(bars, index, signal, Models[l]).realised_return \in Int
<1> DEFINE entry == bars[index].close
           forward == Forward(bars, index, signal.max_bars)
           last == ClosedOn(forward, signal, entry)
           closed == forward[last].close
           stopped == last \in HitStop(forward, signal, entry)
           taken == last \in HitProfit(forward, signal, entry)
           exit == IF stopped THEN entry - Sign(signal.side) * signal.stop_loss
                   ELSE IF taken THEN entry + Sign(signal.side) * signal.profit_target
                   ELSE closed
           gross == (exit - entry) * Sign(signal.side)
           net == gross * Quantity - Cost(Models[l], entry) - Cost(Models[l], exit)
<1>1. /\ forward # <<>>
      /\ TripleBarrier(bars, index, signal, Models[l]).realised_return
           = Nearest(net * ReturnPlaces, entry * Quantity)
  <2>1. forward # <<>>
    BY DEF TripleBarrier
  <2> QED
    BY <2>1 DEF TripleBarrier, Touch
<1>2. signal.max_bars \in Nat /\ signal.stop_loss \in Int /\ signal.profit_target \in Int
  BY DEF Decisions
<1>3. Sign(signal.side) \in Int
  BY DEF Sign
<1>4. entry \in Nat \ {0}
  <2>1. bars[index] \in Bars
    <3> HIDE DEF Bars
    <3> QED
      BY DEF Series
  <2> QED
    BY <2>1 DEF Bars
<1>5. closed \in Int
  <2>1. bars \in Seq(Bars)
    BY DEF Series
  <2>2. last \in 1 .. Len(forward) /\ Follows(forward, bars, index, signal.max_bars, Len(forward))
    <3> HIDE DEF Bars, Decisions
    <3> QED
      BY <1>2, <2>1, LabelIsOfItsWalk
  <2> HIDE DEF last, forward
  <2>3. forward[last] = bars[index + last] /\ index + last \in DOMAIN bars
    <3>1. index \in Nat /\ index >= 1 /\ Len(bars) \in Nat /\ DOMAIN bars = 1 .. Len(bars)
      BY <2>1
    <3> QED
      BY <2>2, <3>1 DEF Follows
  <2>4. bars[index + last] \in Bars
    <3> HIDE DEF Bars
    <3> QED
      BY <2>1, <2>3
  <2> QED
    BY <2>3, <2>4 DEF Bars
<1> HIDE DEF closed, entry, forward, last, stopped, taken
<1>6. exit \in Int
  <2>1. Sign(signal.side) * signal.stop_loss \in Int /\ Sign(signal.side) * signal.profit_target \in Int
    BY <1>2, <1>3
  <2> QED
    BY <1>4, <1>5, <2>1
<1> HIDE DEF exit
<1>7. gross \in Int
  BY <1>3, <1>4, <1>6
<1> HIDE DEF gross
<1>8. Cost(Models[l], entry) \in Int /\ Cost(Models[l], exit) \in Int
  BY <1>4, <1>6, CostIsANumber
<1>9. Quantity \in Nat \ {0} /\ ReturnPlaces \in Nat \ {0}
  BY LabellingAssumption
<1>10. gross * Quantity \in Int
  BY <1>7, <1>9
<1>11. net \in Int
  BY <1>8, <1>10
<1> HIDE DEF net
<1>12. net * ReturnPlaces \in Int /\ entry * Quantity \in Nat \ {0}
  BY <1>4, <1>9, <1>11
<1>13. Nearest(net * ReturnPlaces, entry * Quantity) \in Int
  BY <1>12, NearestIsANumber
<1> QED
  BY <1>1, <1>13

LEMMA LabelsEarnNumbers ==
  ASSUME LeakInv, SweepIsAsked, run.id # 0, NEW symbol \in Range(Universe), NEW v \in DOMAIN run.variants,
         NEW k \in DOMAIN PartOf(symbol).observations.spans
  PROVE  Earned(PartOf(symbol).observations.trades[v][k]) \in Int
<1>1. corpus \in Corpora
  BY DEF LeakInv
<1> DEFINE bars == corpus[symbol]
           intents == run.variants[v].intents
           signals == SignalsFor(symbol)
           labels == LabelSignals(bars, signals, Models[1])
           opened == labels.spans[k].opened
           s == CHOOSE s \in signals[v] : s.index = opened
           label == labels.trades[v][k]
           meant == Meant(symbol, bars, intents, opened)
<1>2. Series(bars) /\ \A i \in DOMAIN bars : bars[i].close > 0
  <2>1. PICK i \in DOMAIN Universe : symbol = Universe[i]
    BY DEF Range
  <2> QED
    BY <1>1, <2>1, CorporaAssumption DEF Series, Bars
<1>3. PartOf(symbol).observations = labels
  BY DEF PartOf
<1>4. DOMAIN signals = DOMAIN run.variants /\ signals[v] = SignalsOf(bars, ProposedOn(symbol, bars, intents))
  BY DEF SignalsFor
<1>5. ASSUME NEW u \in DOMAIN signals PROVE Decided(bars, signals[u])
  <2>1. signals[u] = SignalsOf(bars, ProposedOn(symbol, bars, run.variants[u].intents))
    BY DEF SignalsFor
  <2> HIDE DEF bars, signals
  <2> QED
    BY <1>2, <2>1, SignalsAreDecided
<1>6. WellMeant(intents) /\ OnePerBar(SignalsOf(bars, ProposedOn(symbol, bars, intents)))
  <2>1. PICK j \in DOMAIN Requests : \E request \in Requests[j] : run.variants = request.variants
    BY DEF SweepIsAsked
  <2>2. PICK request \in Requests[j] : run.variants = request.variants
    BY <2>1
  <2>3. WellMeant(intents)
    BY <2>2, RequestsAssumption DEF WellMeant
  <2>4. OnePerBar(SignalsOf(bars, ProposedOn(symbol, bars, intents)))
    BY <1>1, <2>2, DecisionsAssumption DEF OnePerBar
  <2> QED
    BY <2>3, <2>4
<1>7. labels = LabelSignals(bars, signals, Models[1]) /\ k \in DOMAIN labels.spans
  BY <1>3
<1> HIDE DEF bars, signals, labels
<1>8. PICK n \in Nat : SoundLabels(labels, bars, signals, Models[1], n)
  BY <1>2, <1>5, <1>7, LabelsAreWithinReach
<1>9. k \in 1 .. n /\ v \in DOMAIN signals
  BY <1>4, <1>7, <1>8 DEF SoundLabels
<1>10. CASE label = NoTouch
  BY <1>3, <1>10 DEF Earned
<1>11. CASE label # NoTouch
  <2>1. s \in signals[v] /\ s.index = opened /\ label = TripleBarrier(bars, opened, s, Models[1])
    BY <1>8, <1>9, <1>11 DEF SoundLabels
  <2> HIDE DEF s, opened, intents
  <2>2. /\ meant.horizon \in Nat /\ meant.ts = bars[opened].ts /\ s \in Decisions /\ opened \in DOMAIN bars
        /\ s.max_bars = BarsWithin(bars, opened, meant.ts + meant.horizon)
        /\ (CHOOSE signal \in SignalsOf(bars, {meant}) : TRUE) = s
    BY <1>2, <1>4, <1>6, <2>1, SignalIsOfWhatWasMeant
  <2>3. 1 \in DOMAIN Models
    BY ModelsAssumption
  <2>4. label.realised_return \in Int
    <3> HIDE DEF label, Decisions
    <3>1. TripleBarrier(bars, opened, s, Models[1]) # NoTouch
      BY <1>11, <2>1
    <3>2. TripleBarrier(bars, opened, s, Models[1]).realised_return \in Int
      BY <1>2, <2>2, <2>3, <3>1, ReturnIsANumber
    <3> QED
      BY <2>1, <3>2
  <2> QED
    BY <1>3, <1>11, <2>4 DEF Earned
<1> QED
  BY <1>10, <1>11

(* The columns that are ranked: as many as variants, of as many numbers as  *)
(* there are pooled rows.                                                  *)
Comparable(pooled, n) ==
  \E m \in Nat : Len(pooled.spans) = m /\ Returns(pooled) \in [1 .. n -> [1 .. m -> Int]]

LEMMA PooledIsComparable ==
  ASSUME LeakInv, SweepIsAsked, run.id # 0
  PROVE  Comparable(Pool(run.parts, Len(run.variants)), Len(run.variants))
<1> DEFINE parts == run.parts
           n_variants == Len(run.variants)
           pooled == Pool(parts, n_variants)
<1>1. run.phase # "idle" /\ PartsAreInTurn /\ corpus \in Corpora
  BY DEF SweepIsAsked, LeakInv
<1>2. /\ run.variants \in Seq(Range(run.variants)) /\ parts \in Seq(AllParts)
      /\ \A p, q \in DOMAIN parts : p < q => Place(parts[p].key) < Place(parts[q].key)
  BY <1>1 DEF PartsAreInTurn
<1>3. n_variants \in Nat /\ DOMAIN run.variants = 1 .. n_variants
  BY <1>2
<1>4. Len(parts) \in Nat /\ DOMAIN parts = 1 .. Len(parts)
  <2> HIDE DEF AllParts
  <2> QED
    BY <1>2
<1>5. ASSUME NEW p \in DOMAIN parts
      PROVE  SoundPart(parts[p], 1 .. n_variants) /\ Place(parts[p].key) \in Nat
  BY <1>1, <1>2, KeysHavePlaces, PartsAreSound
<1>6. ASSUME NEW p \in DOMAIN parts, NEW q \in DOMAIN parts, Place(parts[p].key) = Place(parts[q].key)
      PROVE  p = q
  <2>1. p \in Nat /\ q \in Nat
    BY <1>4
  <2> QED
    BY <1>2, <1>5, <1>6, <2>1
<1>7. ASSUME NEW p \in DOMAIN parts, NEW k \in DOMAIN parts[p].observations.spans, NEW v \in 1 .. n_variants
      PROVE  Earned(parts[p].observations.trades[v][k]) \in Int
  <2>1. PICK symbol \in Range(Universe) : parts[p] = PartOf(symbol)
    BY <1>1, KeysHavePlaces
  <2>2. v \in DOMAIN run.variants
    BY <1>3
  <2> QED
    BY <2>1, <2>2, LabelsEarnNumbers
<1>8. pooled = Pool(parts, n_variants)
  OBVIOUS
<1> HIDE DEF parts, n_variants, pooled
<1>9. PICK n \in Nat :
        /\ pooled.spans \in [1 .. n -> [opened : Nat, closed : Nat]]
        /\ \A v \in 1 .. n_variants : \A i \in 1 .. n : pooled.trades[v][i] # NoTouch =>
             pooled.trades[v][i].touched_at \in Nat /\ pooled.trades[v][i].touched_at <= pooled.spans[i].closed
        /\ PooledFrom(pooled, parts, n_variants, n)
  BY <1>3, <1>4, <1>5, <1>6, <1>8, PoolIsSound
<1>10. Len(pooled.spans) = n
  BY <1>9
<1>11. /\ DOMAIN pooled.trades = 1 .. n_variants
       /\ \A v \in 1 .. n_variants : DOMAIN pooled.trades[v] = 1 .. n
  BY <1>9 DEF PooledFrom
<1>12. ASSUME NEW v \in 1 .. n_variants, NEW i \in 1 .. n PROVE Earned(pooled.trades[v][i]) \in Int
  <2>1. PICK p \in DOMAIN parts : \E k \in DOMAIN parts[p].observations.spans :
          pooled.trades[v][i] = parts[p].observations.trades[v][k]
    BY <1>9 DEF PooledFrom
  <2>2. PICK k \in DOMAIN parts[p].observations.spans : pooled.trades[v][i] = parts[p].observations.trades[v][k]
    BY <2>1
  <2> QED
    BY <1>7, <2>2
<1>13. Returns(pooled) = [v \in 1 .. n_variants |-> [i \in 1 .. n |-> Earned(pooled.trades[v][i])]]
  BY <1>11 DEF Returns
<1>14. Returns(pooled) \in [1 .. n_variants -> [1 .. n -> Int]]
  BY <1>12, <1>13
<1>15. Comparable(pooled, n_variants)
  BY <1>10, <1>14 DEF Comparable
<1> QED
  BY <1>15 DEF pooled, parts, n_variants

(* From the pooling on, what is ranked can be compared, and what is missed  *)
(* is what the ranking says.                                               *)
Measured(columns, rows, missed) ==
  LET blocks == Groups(rows, PboBlocks)
      halves == kSubset(PboBlocks \div 2, 1 .. PboBlocks)
      scores(half) == Scores(columns, Rows(half, blocks))
      leads(v, half) == \A u \in DOMAIN columns \ {v} : Worse(scores(half)[u], scores(half)[v])
      trails(v, half) == \A u \in DOMAIN columns \ {v} : Worse(scores(half)[v], scores(half)[u])
      other(half) == (1 .. PboBlocks) \ half
  IN /\ (\E v \in DOMAIN columns : \A half \in halves : leads(v, half)) => missed = {}
     /\ \A half \in halves : (\E v \in DOMAIN columns : leads(v, half) /\ trails(v, other(half)))
          => half \in missed

ColumnsAreComparable ==
  run.phase = "recording" =>
    /\ {"id", "phase", "variants", "pooled"} \subseteq DOMAIN run
    /\ Comparable(run.pooled, Len(run.variants))
PboInv == ColumnsAreComparable /\ PboMeasuresTheRanking

LEMMA MissesAreMeasured ==
  ASSUME NEW pooled, NEW n \in Nat, n >= 2, Comparable(pooled, n)
  PROVE  Measured(Returns(pooled), Len(pooled.spans), Misses(Returns(pooled), Len(pooled.spans), PboBlocks))
<1> DEFINE columns == Returns(pooled)
<1>1. PICK m \in Nat : Len(pooled.spans) = m /\ columns \in [1 .. n -> [1 .. m -> Int]]
  BY DEF Comparable
<1> HIDE DEF columns
<1>2. DOMAIN columns = 1 .. n
  BY <1>1
<1> DEFINE misses == Misses(columns, m, PboBlocks)
           blocks == Groups(m, PboBlocks)
           halves == kSubset(PboBlocks \div 2, 1 .. PboBlocks)
           scores(half) == Scores(columns, Rows(half, blocks))
           other(half) == (1 .. PboBlocks) \ half
<1>3. /\ (\E v \in 1 .. n : \A half \in halves : Leads(scores(half), n, v)) => misses = {}
      /\ \A half \in halves : (\E v \in 1 .. n : Leads(scores(half), n, v) /\ Trails(scores(other(half)), n, v))
           => half \in misses
  BY <1>1, MissesAreOfTheRanking
<1> HIDE DEF misses
<1>4. Measured(columns, m, misses)
  BY <1>2, <1>3 DEF Measured, Leads, Trails
<1> QED
  BY <1>1, <1>4 DEF columns, misses

LEMMA PboInit == Init => PboInv
BY DEF Init, NoRun, PboInv, ColumnsAreComparable, PboMeasuresTheRanking

LEMMA PboPoolParts == ASSUME LeakInv, SweepIsAsked, SearchInv, PoolParts PROVE PboInv'
<1> DEFINE pooled == Pool(run.parts, Len(run.variants))
           found == [phase |-> "recording", recorded |-> 0, pooled |-> pooled]
<1>1. /\ run.phase = "labelling" /\ run.id # 0 /\ {"id", "phase", "variants"} \subseteq DOMAIN run
  BY DEF PoolParts, SearchInv, RunsAreCounted, LeakInv, PartsAreInTurn
<1>2. Over("refused") \/ run' = Having(found)
  BY DEF PoolParts
<1>3. Comparable(pooled, Len(run.variants))
  BY <1>1, PooledIsComparable
<1> HIDE DEF pooled
<1>4. CASE Over("refused")
  <2>1. run'.phase = "refused"
    BY <1>1, <1>4 DEF Over
  <2> QED
    BY <2>1 DEF PboInv, ColumnsAreComparable, PboMeasuresTheRanking
<1>5. CASE run' = Having(found)
  <2>1. /\ run'.phase = "recording" /\ run'.pooled = pooled /\ run'.variants = run.variants
        /\ {"id", "phase", "variants", "pooled"} \subseteq DOMAIN run'
    BY <1>1, <1>5 DEF Having
  <2> QED
    BY <1>3, <2>1 DEF PboInv, ColumnsAreComparable, PboMeasuresTheRanking
<1> QED
  BY <1>2, <1>4, <1>5

LEMMA PboRecordTrial == ASSUME PboInv, RecordTrial PROVE PboInv'
<1>1. /\ run.phase = "recording" /\ {"id", "phase", "variants", "pooled"} \subseteq DOMAIN run
      /\ Comparable(run.pooled, Len(run.variants))
  BY DEF RecordTrial, PboInv, ColumnsAreComparable
<1>2. CASE Over("raised")
  <2>1. run'.phase = "raised"
    BY <1>1, <1>2 DEF Over
  <2> QED
    BY <2>1 DEF PboInv, ColumnsAreComparable, PboMeasuresTheRanking
<1>3. CASE run' = [run EXCEPT !.recorded = @ + 1, !.clock = @ + 1]
  <2>1. /\ run'.phase = "recording" /\ run'.pooled = run.pooled /\ run'.variants = run.variants
        /\ DOMAIN run' = DOMAIN run
    BY <1>1, <1>3
  <2> QED
    BY <1>1, <2>1 DEF PboInv, ColumnsAreComparable, PboMeasuresTheRanking
<1> QED
  BY <1>2, <1>3 DEF RecordTrial

LEMMA PboJudge == ASSUME PboInv, SearchInv, Judge PROVE PboInv'
<1>1. /\ run.phase = "recording" /\ {"id", "phase", "variants", "pooled"} \subseteq DOMAIN run
      /\ Comparable(run.pooled, Len(run.variants))
  BY DEF Judge, PboInv, ColumnsAreComparable
<1>2. Len(run.variants) \in Nat /\ Len(run.variants) >= 2
  BY <1>1 DEF SearchInv, TrialsComeInTurn, Sweeping
<1>3. CASE ~Legible(ledger)
  <2>1. Over("raised")
    BY <1>3 DEF Judge
  <2>2. run'.phase = "raised"
    BY <1>1, <2>1 DEF Over
  <2> QED
    BY <2>2 DEF PboInv, ColumnsAreComparable, PboMeasuresTheRanking
<1>4. CASE Legible(ledger)
  <2> DEFINE missed == Misses(Returns(run.pooled), Len(run.pooled.spans), PboBlocks)
  <2>1. PICK best, charged, looks, clusters, chosen, tally, coverage, costs :
          run' = Having([phase |-> "judged", best |-> best, charged |-> charged, looks |-> looks,
                         clusters |-> clusters, misses |-> missed, chosen |-> chosen, tally |-> tally,
                         coverage |-> coverage, costs |-> costs])
    <3> HIDE DEF Having, Trials
    <3>1. PICK independent \in 1 .. Len(run.variants) :
            LET pooled == run.pooled
                columns == Columns
                best == FirstBest([v \in DOMAIN columns |-> Moments(columns[v])])
                charged == Trials(run.family)
            IN run' = Having([phase |-> "judged", best |-> best, charged |-> charged,
                       looks |-> Max({1, independent + Len(charged) - Len(run.variants)}),
                       clusters |-> Cardinality({DayOf(pooled.spans[i].opened) : i \in DOMAIN pooled.spans}),
                       misses |-> Misses(columns, Len(pooled.spans), PboBlocks),
                       chosen |-> ChosenBy(pooled.spans, columns, CV),
                       tally |-> Tally(pooled.trades[best]),
                       coverage |-> CoverageOf(pooled, best),
                       costs |-> CurveOf(run.curve, best)])
      BY <1>4 DEF Judge
    <3> QED
      BY <3>1 DEF Columns
  <2>2. Measured(Returns(run.pooled), Len(run.pooled.spans), missed)
    BY <1>1, <1>2, MissesAreMeasured
  <2> HIDE DEF missed
  <2>3. run'.phase = "judged" /\ run'.misses = missed /\ run'.pooled = run.pooled
    BY <1>1, <2>1 DEF Having
  <2>4. PboMeasuresTheRanking' <=> Measured(Returns(run.pooled), Len(run.pooled.spans), missed)
    BY <2>3 DEF PboMeasuresTheRanking, Measured
  <2> QED
    BY <2>2, <2>3, <2>4 DEF PboInv, ColumnsAreComparable
<1> QED
  BY <1>3, <1>4

LEMMA PboStep == PboInv /\ SweepIsAsked /\ LeakInv /\ SearchInv /\ [Next]_vars => PboInv'
<1> SUFFICES ASSUME PboInv, SweepIsAsked, LeakInv, SearchInv, [Next]_vars PROVE PboInv'
  OBVIOUS
<1>1. CASE UNCHANGED vars
  BY <1>1 DEF vars, PboInv, ColumnsAreComparable, PboMeasuresTheRanking
<1>2. CASE Measure
  <2>1. PICK request : run' = Asked(request)
    BY <1>2 DEF Measure
  <2>2. run'.phase = "labelling"
    BY <2>1 DEF Asked
  <2> QED
    BY <2>2 DEF PboInv, ColumnsAreComparable, PboMeasuresTheRanking
<1>3. CASE PassOver \/ LabelSymbol
  <2>1. ASSUME PassOver PROVE run.phase = "labelling" /\ run'.phase = run.phase
    BY <2>1 DEF PassOver
  <2>2. ASSUME LabelSymbol PROVE run.phase = "labelling" /\ run'.phase = run.phase
    BY <2>2 DEF LabelSymbol
  <2> QED
    BY <1>3, <2>1, <2>2 DEF PboInv, ColumnsAreComparable, PboMeasuresTheRanking
<1>4. CASE Die \/ DieJournalling \/ DieRecording
  <2>1. Over("died") /\ "phase" \in DOMAIN run
    BY <1>4 DEF Die, DieJournalling, DieRecording, SearchInv, RunsAreCounted
  <2>2. run'.phase = "died"
    BY <2>1 DEF Over
  <2> QED
    BY <2>2 DEF PboInv, ColumnsAreComparable, PboMeasuresTheRanking
<1> QED
  BY <1>1, <1>2, <1>3, <1>4, PboPoolParts, PboRecordTrial, PboJudge DEF Next

(* A verdict's measure of overfitting is of the ranking: a variant that     *)
(* leads every half is missed in none, one that leads a half and comes     *)
(* last in the other is missed there (probability_of_backtest_overfitting, *)
(* over whatever pool made of the labels).                                 *)
THEOREM PboAlwaysMeasuresTheRanking == Spec => []PboMeasuresTheRanking
<1>1. PboInv => PboMeasuresTheRanking
  BY DEF PboInv
<1> QED
  BY <1>1, SearchInit, SearchStep, LeakInit, LeakStep, AskedInit, AskedStep, PboInit, PboStep, PTL DEF Spec
-----------------------------------------------------------------------------
(* What holds at none and is handed on holds up to the last. *)
LEMMA StepByStep ==
  ASSUME NEW n \in Nat, NEW good, 0 \in good, \A k \in 1 .. n : k - 1 \in good => k \in good
  PROVE  \A k \in 0 .. n : k \in good
<1> DEFINE Bad == {k \in 0 .. n : k \notin good}
           m == Min(Bad)
<1> SUFFICES ASSUME Bad # {} PROVE FALSE
  OBVIOUS
<1>1. Bad \in SUBSET Nat
  OBVIOUS
<1>2. m \in Bad /\ \A x \in Bad : m <= x
  BY <1>1, LeastMember
<1> HIDE DEF m
<1>3. m \in 0 .. n /\ m \notin good /\ m # 0
  BY <1>2
<1>4. m \in 1 .. n /\ m - 1 \in 0 .. n /\ ~(m <= m - 1)
  BY <1>3
<1>5. m - 1 \in good
  BY <1>2, <1>4
<1> QED
  BY <1>3, <1>4, <1>5

(* The total is where any running total ends. *)
LEMMA TotalIsTheLast ==
  ASSUME NEW n \in Nat, NEW seq \in [1 .. n -> Int], NEW h, Running(h, seq, n)
  PROVE  Total(seq) = h[n]
<1> DEFINE sum == CHOOSE f : f = [k \in 0 .. Len(seq) |-> IF k = 0 THEN 0 ELSE f[k - 1] + seq[k]]
<1>1. Total(seq) = sum[Len(seq)]
  BY DEF Total
<1>2. Len(seq) = n
  OBVIOUS
<1>3. h = [k \in 0 .. n |-> IF k = 0 THEN 0 ELSE h[k - 1] + seq[k]]
  BY DEF Running
<1>4. sum = [k \in 0 .. n |-> IF k = 0 THEN 0 ELSE sum[k - 1] + seq[k]]
  BY <1>2, <1>3, Zenon
<1> HIDE DEF sum
<1> DEFINE good == {k \in 0 .. n : sum[k] = h[k]}
<1>5. 0 \in good
  BY <1>3, <1>4
<1>6. ASSUME NEW k \in 1 .. n, k - 1 \in good PROVE k \in good
  <2>1. k \in 0 .. n /\ k # 0 /\ sum[k - 1] = h[k - 1]
    BY <1>6
  <2>2. sum[k] = sum[k - 1] + seq[k] /\ h[k] = h[k - 1] + seq[k]
    BY <1>4, <2>1 DEF Running
  <2> QED
    BY <2>1, <2>2
<1> HIDE DEF good
<1>7. \A k \in 0 .. n : k \in good
  BY <1>5, <1>6, StepByStep
<1> QED
  BY <1>1, <1>2, <1>7 DEF good

LEMMA TotalRuns ==
  ASSUME NEW n \in Nat, NEW seq \in [1 .. n -> Int]
  PROVE  Total(seq) \in Int /\ \E h : Running(h, seq, n) /\ Total(seq) = h[n]
<1>1. PICK h : Running(h, seq, n)
  BY TotalsRun
<1>2. Total(seq) = h[n]
  BY <1>1, TotalIsTheLast
<1>3. h[n] \in Int
  BY <1>1 DEF Running
<1> QED
  BY <1>1, <1>2, <1>3

LEMMA TotalOfASum ==
  ASSUME NEW n \in Nat, NEW a \in [1 .. n -> Int], NEW b \in [1 .. n -> Int], NEW c \in [1 .. n -> Int],
         \A i \in 1 .. n : c[i] = a[i] + b[i]
  PROVE  Total(c) = Total(a) + Total(b)
<1>1. PICK f : Running(f, a, n) /\ Total(a) = f[n]
  BY TotalRuns
<1>2. PICK g : Running(g, b, n) /\ Total(b) = g[n]
  BY TotalRuns
<1> DEFINE h == [k \in 0 .. n |-> f[k] + g[k]]
<1>3. Running(h, c, n)
  <2>1. h \in [0 .. n -> Int]
    BY <1>1, <1>2 DEF Running
  <2>2. ASSUME NEW k \in 0 .. n PROVE h[k] = IF k = 0 THEN 0 ELSE h[k - 1] + c[k]
    <3>1. f[0] = 0 /\ g[0] = 0 /\ 0 \in 0 .. n
      BY <1>1, <1>2 DEF Running
    <3>2. CASE k = 0
      BY <3>1, <3>2
    <3>3. CASE k # 0
      <4>1. k \in 1 .. n /\ k - 1 \in 0 .. n
        BY <3>3
      <4>2. f[k] = f[k - 1] + a[k] /\ f[k - 1] \in Int
        BY <1>1, <3>3, <4>1 DEF Running
      <4>4. g[k] = g[k - 1] + b[k] /\ g[k - 1] \in Int
        BY <1>2, <3>3, <4>1 DEF Running
      <4>3. a[k] \in Int /\ b[k] \in Int /\ c[k] = a[k] + b[k]
        BY <4>1
      <4>5. h[k] = f[k] + g[k] /\ h[k - 1] = f[k - 1] + g[k - 1]
        BY <4>1
      <4> HIDE DEF h
      <4>6. h[k] = h[k - 1] + c[k]
        BY <4>2, <4>3, <4>4, <4>5
      <4> QED
        BY <3>3, <4>6
    <3> QED
      BY <3>2, <3>3
  <2> HIDE DEF h
  <2> QED
    BY <2>1, <2>2 DEF Running
<1>4. Total(c) = h[n]
  <2> HIDE DEF h
  <2> QED
    BY <1>3, TotalIsTheLast
<1> QED
  BY <1>1, <1>2, <1>4

LEMMA TotalOfLess ==
  ASSUME NEW n \in Nat, NEW a \in [1 .. n -> Int], NEW b \in [1 .. n -> Int], \A i \in 1 .. n : a[i] <= b[i]
  PROVE  Total(a) <= Total(b)
<1>1. PICK f : Running(f, a, n) /\ Total(a) = f[n]
  BY TotalRuns
<1>2. PICK g : Running(g, b, n) /\ Total(b) = g[n]
  BY TotalRuns
<1> DEFINE good == {k \in 0 .. n : f[k] <= g[k]}
<1>3. 0 \in good
  BY <1>1, <1>2 DEF Running
<1>4. ASSUME NEW k \in 1 .. n, k - 1 \in good PROVE k \in good
  <2>1. k \in 0 .. n /\ k # 0 /\ k - 1 \in 0 .. n /\ f[k - 1] <= g[k - 1]
    BY <1>4
  <2>2. f[k] = f[k - 1] + a[k] /\ f[k - 1] \in Int
    BY <1>1, <2>1 DEF Running
  <2>4. g[k] = g[k - 1] + b[k] /\ g[k - 1] \in Int
    BY <1>2, <2>1 DEF Running
  <2>3. a[k] \in Int /\ b[k] \in Int /\ a[k] <= b[k]
    OBVIOUS
  <2> QED
    BY <2>1, <2>2, <2>3, <2>4
<1> HIDE DEF good
<1>5. \A k \in 0 .. n : k \in good
  BY <1>3, <1>4, StepByStep
<1> QED
  BY <1>1, <1>2, <1>5 DEF good

LEMMA TotalOfZeros ==
  ASSUME NEW n \in Nat, NEW a \in [1 .. n -> Int], \A i \in 1 .. n : a[i] = 0
  PROVE  Total(a) = 0
<1> DEFINE h == [k \in 0 .. n |-> 0]
<1>1. Running(h, a, n)
  BY DEF Running
<1>2. Total(a) = h[n]
  <2> HIDE DEF h
  <2> QED
    BY <1>1, TotalIsTheLast
<1> QED
  BY <1>2

LEMMA TotalOfOne ==
  ASSUME NEW n \in Nat, NEW a \in [1 .. n -> Int], NEW j \in 1 .. n, \A i \in 1 .. n : i # j => a[i] = 0
  PROVE  Total(a) = a[j]
<1> DEFINE h == [k \in 0 .. n |-> IF k < j THEN 0 ELSE a[j]]
<1>1. Running(h, a, n)
  <2>1. h \in [0 .. n -> Int]
    OBVIOUS
  <2>2. ASSUME NEW k \in 0 .. n PROVE h[k] = IF k = 0 THEN 0 ELSE h[k - 1] + a[k]
    <3>1. CASE k < j
      BY <3>1
    <3>2. CASE k = j
      BY <3>2
    <3>3. CASE k > j
      <4>1. a[k] = 0 /\ k # 0 /\ h[k] = a[j] /\ h[k - 1] = a[j]
        BY <3>3
      <4> HIDE DEF h
      <4> QED
        BY <4>1
    <3> QED
      BY <3>1, <3>2, <3>3
  <2> HIDE DEF h
  <2> QED
    BY <2>1, <2>2 DEF Running
<1>2. Total(a) = h[n]
  <2> HIDE DEF h
  <2> QED
    BY <1>1, TotalIsTheLast
<1> QED
  BY <1>2

LEMMA TotalOfOneMore ==
  ASSUME NEW n \in Nat, NEW a \in [1 .. n -> Int], NEW b \in [1 .. n + 1 -> Int], \A i \in 1 .. n : b[i] = a[i]
  PROVE  Total(b) = Total(a) + b[n + 1]
<1>1. PICK f : Running(f, a, n) /\ Total(a) = f[n]
  BY TotalRuns
<1> DEFINE h == [k \in 0 .. n + 1 |-> IF k = n + 1 THEN f[n] + b[n + 1] ELSE f[k]]
<1>2. Running(h, b, n + 1)
  <2>1. /\ \A k \in 0 .. n : f[k] \in Int
        /\ \A k \in 0 .. n : f[k] = IF k = 0 THEN 0 ELSE f[k - 1] + a[k]
    BY <1>1 DEF Running
  <2>2. h \in [0 .. n + 1 -> Int]
    BY <2>1
  <2>3. ASSUME NEW k \in 0 .. n + 1 PROVE h[k] = IF k = 0 THEN 0 ELSE h[k - 1] + b[k]
    <3>1. CASE k = n + 1
      BY <3>1
    <3>2. CASE k \in 0 .. n
      <4>1. h[k] = f[k] /\ (k # 0 => k - 1 \in 0 .. n /\ h[k - 1] = f[k - 1] /\ a[k] = b[k])
        BY <3>2
      <4> HIDE DEF h
      <4> QED
        BY <2>1, <3>2, <4>1
    <3> QED
      BY <3>1, <3>2
  <2> HIDE DEF h
  <2> QED
    BY <2>2, <2>3 DEF Running
<1>3. Total(b) = h[n + 1]
  <2> HIDE DEF h
  <2> QED
    BY <1>2, TotalIsTheLast
<1> QED
  BY <1>1, <1>3

(* A list whose entries but for some are zero adds up to those, wherever    *)
(* each of them stands.                                                    *)
Placed(held, m, seq, n, place) ==
  /\ seq \in [1 .. n -> Int] /\ held \in [1 .. m -> Int]
  /\ place \in [1 .. m -> 1 .. n]
  /\ \A k, l \in 1 .. m : place[k] = place[l] => k = l
  /\ \A i \in 1 .. n : seq[i] = 0 \/ \E k \in 1 .. m : place[k] = i
  /\ \A k \in 1 .. m : held[k] = seq[place[k]]

LEMMA TotalOfPlaced ==
  ASSUME NEW n \in Nat, NEW m \in Nat, NEW seq, NEW held, NEW place, Placed(held, m, seq, n, place)
  PROVE  Total(seq) = Total(held)
<1> DEFINE upto(k) == [i \in 1 .. n |-> IF \E l \in 1 .. k : place[l] = i THEN seq[i] ELSE 0]
           only(k) == [i \in 1 .. n |-> IF place[k] = i THEN seq[i] ELSE 0]
           h == [k \in 0 .. m |-> Total(upto(k))]
<1>0. seq \in [1 .. n -> Int] /\ held \in [1 .. m -> Int]
  BY DEF Placed
<1>1. ASSUME NEW k \in 0 .. m PROVE upto(k) \in [1 .. n -> Int] /\ Total(upto(k)) \in Int
  <2>1. upto(k) \in [1 .. n -> Int]
    BY <1>0
  <2> HIDE DEF upto
  <2> QED
    BY <2>1, TotalRuns
<1>2. Total(upto(0)) = 0
  <2>1. \A i \in 1 .. n : upto(0)[i] = 0
    OBVIOUS
  <2>2. upto(0) \in [1 .. n -> Int]
    BY <1>0
  <2> HIDE DEF upto
  <2> QED
    BY <2>1, <2>2, TotalOfZeros
<1>3. ASSUME NEW k \in 1 .. m PROVE Total(upto(k)) = Total(upto(k - 1)) + held[k]
  <2>1. only(k) \in [1 .. n -> Int] /\ place[k] \in 1 .. n
    BY <1>0 DEF Placed
  <2>2. \A i \in 1 .. n : i # place[k] => only(k)[i] = 0
    OBVIOUS
  <2>3. only(k)[place[k]] = held[k]
    BY <2>1 DEF Placed
  <2>4. \A i \in 1 .. n : upto(k)[i] = upto(k - 1)[i] + only(k)[i]
    <3> SUFFICES ASSUME NEW i \in 1 .. n PROVE upto(k)[i] = upto(k - 1)[i] + only(k)[i]
      OBVIOUS
    <3>1. k \in 1 .. k /\ ~(k \in 1 .. k - 1) /\ \A l \in 1 .. k : l \in 1 .. m /\ (l = k \/ l \in 1 .. k - 1)
      OBVIOUS
    <3>2. \A l \in 1 .. k - 1 : l \in 1 .. k /\ l \in 1 .. m /\ l # k
      OBVIOUS
    <3>3. CASE place[k] = i
      <4>1. \E l \in 1 .. k : place[l] = i
        BY <3>1, <3>3
      <4>2. ~\E l \in 1 .. k - 1 : place[l] = i
        BY <3>2, <3>3 DEF Placed
      <4> QED
        BY <1>0, <3>3, <4>1, <4>2
    <3>4. CASE place[k] # i
      <4>1. (\E l \in 1 .. k : place[l] = i) <=> \E l \in 1 .. k - 1 : place[l] = i
        BY <3>1, <3>2, <3>4
      <4> QED
        BY <1>0, <3>4, <4>1
    <3> QED
      BY <3>3, <3>4
  <2>5. Total(only(k)) = held[k]
    <3> DEFINE one == only(k)
               j == place[k]
    <3>1. one \in [1 .. n -> Int] /\ j \in 1 .. n /\ one[j] = held[k] /\ \A i \in 1 .. n : i # j => one[i] = 0
      BY <2>1, <2>2, <2>3
    <3> HIDE DEF one, j
    <3>2. Total(one) = one[j]
      BY <3>1, TotalOfOne
    <3> QED
      BY <3>1, <3>2 DEF one
  <2>6. k \in 0 .. m /\ k - 1 \in 0 .. m
    OBVIOUS
  <2>7. upto(k) \in [1 .. n -> Int] /\ upto(k - 1) \in [1 .. n -> Int]
    BY <1>1, <2>6
  <2> HIDE DEF upto, only
  <2> DEFINE after == upto(k)
             before == upto(k - 1)
             one == only(k)
  <2>8. /\ before \in [1 .. n -> Int] /\ one \in [1 .. n -> Int] /\ after \in [1 .. n -> Int]
        /\ \A i \in 1 .. n : after[i] = before[i] + one[i]
    BY <2>1, <2>4, <2>7
  <2> HIDE DEF after, before, one
  <2>9. Total(after) = Total(before) + Total(one)
    BY <2>8, TotalOfASum
  <2> QED
    BY <2>5, <2>9 DEF after, before, one
<1>4. upto(m) = seq
  <2>1. \A i \in 1 .. n : upto(m)[i] = seq[i]
    BY <1>0 DEF Placed
  <2> QED
    BY <1>0, <2>1
<1> HIDE DEF upto
<1>5. Running(h, held, m)
  <2>1. h \in [0 .. m -> Int]
    BY <1>1
  <2>2. ASSUME NEW k \in 0 .. m PROVE h[k] = IF k = 0 THEN 0 ELSE h[k - 1] + held[k]
    <3>1. CASE k = 0
      BY <1>2, <3>1
    <3>2. CASE k # 0
      <4>1. k \in 1 .. m /\ k - 1 \in 0 .. m
        BY <3>2
      <4> QED
        BY <1>0, <1>3, <3>2, <4>1
    <3> QED
      BY <3>1, <3>2
  <2> HIDE DEF h
  <2> QED
    BY <2>1, <2>2 DEF Running
<1>6. Total(held) = h[m]
  <2> HIDE DEF h
  <2> QED
    BY <1>0, <1>5, TotalIsTheLast
<1> QED
  BY <1>4, <1>6

(* What is cut into parts adds up to what the parts add up to. *)
Only(seq, n, part, p) == [i \in 1 .. n |-> IF part[i] = p THEN seq[i] ELSE 0]

Parted(sums, m, seq, n, part) ==
  /\ seq \in [1 .. n -> Int] /\ sums \in [1 .. m -> Int] /\ part \in [1 .. n -> 1 .. m]
  /\ \A p \in 1 .. m : sums[p] = Total(Only(seq, n, part, p))

LEMMA TotalByParts ==
  ASSUME NEW n \in Nat, NEW m \in Nat, NEW seq, NEW part, NEW sums, Parted(sums, m, seq, n, part)
  PROVE  Total(seq) = Total(sums)
<1> DEFINE upto(p) == [i \in 1 .. n |-> IF part[i] <= p THEN seq[i] ELSE 0]
           only(p) == Only(seq, n, part, p)
           h == [p \in 0 .. m |-> Total(upto(p))]
<1>0. /\ seq \in [1 .. n -> Int] /\ sums \in [1 .. m -> Int] /\ part \in [1 .. n -> 1 .. m]
      /\ \A p \in 1 .. m : sums[p] = Total(Only(seq, n, part, p))
  BY DEF Parted
<1>1. ASSUME NEW p \in 0 .. m PROVE upto(p) \in [1 .. n -> Int] /\ Total(upto(p)) \in Int
  <2>1. upto(p) \in [1 .. n -> Int]
    BY <1>0
  <2> HIDE DEF upto
  <2> QED
    BY <2>1, TotalRuns
<1>2. Total(upto(0)) = 0
  <2>1. \A i \in 1 .. n : upto(0)[i] = 0
    BY <1>0
  <2>2. upto(0) \in [1 .. n -> Int]
    BY <1>0
  <2> HIDE DEF upto
  <2> QED
    BY <2>1, <2>2, TotalOfZeros
<1>3. ASSUME NEW p \in 1 .. m PROVE Total(upto(p)) = Total(upto(p - 1)) + sums[p]
  <2>1. only(p) \in [1 .. n -> Int] /\ sums[p] = Total(only(p))
    BY <1>0 DEF Only
  <2>2. \A i \in 1 .. n : upto(p)[i] = upto(p - 1)[i] + only(p)[i]
    <3> SUFFICES ASSUME NEW i \in 1 .. n PROVE upto(p)[i] = upto(p - 1)[i] + only(p)[i]
      OBVIOUS
    <3>1. part[i] \in 1 .. m /\ seq[i] \in Int
      BY <1>0
    <3> QED
      BY <3>1 DEF Only
  <2>3. p \in 0 .. m /\ p - 1 \in 0 .. m
    OBVIOUS
  <2>4. upto(p) \in [1 .. n -> Int] /\ upto(p - 1) \in [1 .. n -> Int]
    BY <1>1, <2>3
  <2> DEFINE after == upto(p)
             before == upto(p - 1)
             one == only(p)
  <2>5. /\ before \in [1 .. n -> Int] /\ one \in [1 .. n -> Int] /\ after \in [1 .. n -> Int]
        /\ \A i \in 1 .. n : after[i] = before[i] + one[i]
    BY <2>1, <2>2, <2>4
  <2>6. sums[p] = Total(one)
    BY <2>1
  <2> HIDE DEF after, before, one, upto, only
  <2>7. Total(after) = Total(before) + Total(one)
    BY <2>5, TotalOfASum
  <2> QED
    BY <2>6, <2>7 DEF after, before
<1>4. upto(m) = seq
  <2>1. \A i \in 1 .. n : upto(m)[i] = seq[i]
    BY <1>0
  <2> QED
    BY <1>0, <2>1
<1> HIDE DEF upto
<1>5. Running(h, sums, m)
  <2>1. h \in [0 .. m -> Int]
    BY <1>1
  <2>2. ASSUME NEW p \in 0 .. m PROVE h[p] = IF p = 0 THEN 0 ELSE h[p - 1] + sums[p]
    <3>1. CASE p = 0
      BY <1>2, <3>1
    <3>2. CASE p # 0
      <4>1. p \in 1 .. m /\ p - 1 \in 0 .. m
        BY <3>2
      <4> QED
        BY <1>3, <3>2, <4>1
    <3> QED
      BY <3>1, <3>2
  <2> HIDE DEF h
  <2> QED
    BY <2>1, <2>2 DEF Running
<1>6. Total(sums) = h[m]
  <2> HIDE DEF h
  <2> QED
    BY <1>0, <1>5, TotalIsTheLast
<1> QED
  BY <1>4, <1>6

(* How many there are is the total of a one for each. *)
LEMMA CountIsATotal ==
  ASSUME NEW n \in Nat, NEW those \in SUBSET (1 .. n)
  PROVE  /\ IsFiniteSet(those) /\ Cardinality(those) \in Nat
         /\ Cardinality(those) = Total([i \in 1 .. n |-> IF i \in those THEN 1 ELSE 0])
<1> DEFINE ones == [i \in 1 .. n |-> IF i \in those THEN 1 ELSE 0]
           upto(k) == those \cap (1 .. k)
           h == [k \in 0 .. n |-> Cardinality(upto(k))]
<1>1. IsFiniteSet(those) /\ Cardinality(those) \in Nat
  <2>1. IsFiniteSet(1 .. n)
    BY FS_Interval
  <2> QED
    BY <2>1, FS_Subset, FS_CardinalityType
<1>2. ASSUME NEW k \in 0 .. n PROVE IsFiniteSet(upto(k)) /\ Cardinality(upto(k)) \in Nat
  <2>1. upto(k) \in SUBSET those
    OBVIOUS
  <2> HIDE DEF upto
  <2> QED
    BY <1>1, <2>1, FS_Subset, FS_CardinalityType
<1>3. Cardinality(upto(0)) = 0
  <2>1. upto(0) = {}
    OBVIOUS
  <2> QED
    BY <2>1, FS_EmptySet
<1>4. ASSUME NEW k \in 1 .. n PROVE Cardinality(upto(k)) = Cardinality(upto(k - 1)) + ones[k]
  <2>1. k - 1 \in 0 .. n /\ k \notin upto(k - 1)
    OBVIOUS
  <2>2. CASE k \in those
    <3>1. upto(k) = upto(k - 1) \cup {k}
      BY <2>2
    <3>2. IsFiniteSet(upto(k - 1)) /\ ones[k] = 1
      BY <1>2, <2>1, <2>2
    <3> HIDE DEF upto, ones
    <3>3. Cardinality(upto(k - 1) \cup {k}) = Cardinality(upto(k - 1)) + 1
      BY <2>1, <3>2, FS_AddElement
    <3> QED
      BY <3>1, <3>2, <3>3
  <2>3. CASE k \notin those
    <3>1. upto(k) = upto(k - 1)
      BY <2>3
    <3>2. Cardinality(upto(k - 1)) \in Nat /\ ones[k] = 0
      BY <1>2, <2>1, <2>3
    <3> HIDE DEF upto, ones
    <3> QED
      BY <3>1, <3>2
  <2> QED
    BY <2>2, <2>3
<1>5. upto(n) = those
  OBVIOUS
<1>6. ones \in [1 .. n -> Int]
  OBVIOUS
<1> HIDE DEF upto, ones
<1>7. Running(h, ones, n)
  <2>1. h \in [0 .. n -> Int]
    BY <1>2
  <2>2. ASSUME NEW k \in 0 .. n PROVE h[k] = IF k = 0 THEN 0 ELSE h[k - 1] + ones[k]
    <3>1. CASE k = 0
      BY <1>3, <3>1
    <3>2. CASE k # 0
      <4>1. k \in 1 .. n /\ k - 1 \in 0 .. n
        BY <3>2
      <4> QED
        BY <1>4, <3>2, <4>1
    <3> QED
      BY <3>1, <3>2
  <2> HIDE DEF h
  <2> QED
    BY <2>1, <2>2 DEF Running
<1>8. Total(ones) = h[n]
  <2> HIDE DEF h
  <2> QED
    BY <1>6, <1>7, TotalIsTheLast
<1>9. Cardinality(those) = Total(ones)
  BY <1>5, <1>8
<1> QED
  BY <1>1, <1>9 DEF ones

(* Entries taken from columns, each entry of each column once. *)
Gathered(seq, n, columns, m, part, position) ==
  /\ \A i \in 1 .. n : /\ part[i] \in 1 .. m /\ position[i] \in DOMAIN columns[part[i]]
                       /\ seq[i] = columns[part[i]][position[i]]
  /\ \A p \in 1 .. m : \E long \in Nat : columns[p] \in [1 .. long -> Int]
  /\ \A p \in 1 .. m : \A k \in DOMAIN columns[p] : \E i \in 1 .. n : part[i] = p /\ position[i] = k
  /\ \A i, j \in 1 .. n : part[i] = part[j] /\ position[i] = position[j] => i = j

Sums(columns, m) == [p \in 1 .. m |-> Total(columns[p])]

LEMMA TotalOfGathered ==
  ASSUME NEW n \in Nat, NEW m \in Nat, NEW seq \in [1 .. n -> Int], NEW columns, NEW part, NEW position,
         Gathered(seq, n, columns, m, part, position)
  PROVE  Total(seq) = Total(Sums(columns, m))
<1> DEFINE sums == Sums(columns, m)
           parts == [i \in 1 .. n |-> part[i]]
           only(p) == Only(seq, n, parts, p)
<1>1. parts \in [1 .. n -> 1 .. m]
  BY DEF Gathered
<1>2. sums \in [1 .. m -> Int]
  <2>1. ASSUME NEW p \in 1 .. m PROVE Total(columns[p]) \in Int
    <3>1. PICK long \in Nat : columns[p] \in [1 .. long -> Int]
      BY DEF Gathered
    <3> QED
      BY <3>1, TotalRuns
  <2> QED
    BY <2>1 DEF Sums
<1>3. ASSUME NEW p \in 1 .. m PROVE sums[p] = Total(only(p))
  <2>1. PICK long \in Nat : columns[p] \in [1 .. long -> Int]
    BY DEF Gathered
  <2> DEFINE place == [k \in 1 .. long |-> CHOOSE i \in 1 .. n : part[i] = p /\ position[i] = k]
             held == columns[p]
             those == only(p)
  <2>2. ASSUME NEW k \in 1 .. long
        PROVE  place[k] \in 1 .. n /\ part[place[k]] = p /\ position[place[k]] = k
    <3>1. k \in DOMAIN columns[p]
      BY <2>1
    <3>2. \E i \in 1 .. n : part[i] = p /\ position[i] = k
      BY <3>1 DEF Gathered
    <3> QED
      BY <3>2
  <2>3. place \in [1 .. long -> 1 .. n]
    BY <2>2
  <2>4. \A k, l \in 1 .. long : place[k] = place[l] => k = l
    BY <2>2
  <2> HIDE DEF place
  <2>5. ASSUME NEW i \in 1 .. n PROVE those[i] = 0 \/ \E k \in 1 .. long : place[k] = i
    <3>1. CASE part[i] # p
      BY <3>1 DEF Only
    <3>2. CASE part[i] = p
      <4>1. position[i] \in 1 .. long
        BY <2>1, <3>2 DEF Gathered
      <4>2. place[position[i]] \in 1 .. n /\ part[place[position[i]]] = p
            /\ position[place[position[i]]] = position[i]
        BY <2>2, <4>1
      <4>3. place[position[i]] = i
        BY <3>2, <4>2 DEF Gathered
      <4> QED
        BY <4>1, <4>3
    <3> QED
      BY <3>1, <3>2
  <2>6. ASSUME NEW k \in 1 .. long PROVE held[k] = those[place[k]]
    <3>1. place[k] \in 1 .. n /\ part[place[k]] = p /\ position[place[k]] = k
      BY <2>2
    <3>2. those[place[k]] = seq[place[k]]
      BY <3>1 DEF Only
    <3>3. seq[place[k]] = columns[part[place[k]]][position[place[k]]]
      BY <3>1 DEF Gathered
    <3> QED
      BY <3>1, <3>2, <3>3
  <2>7. those \in [1 .. n -> Int] /\ held \in [1 .. long -> Int]
    BY <2>1 DEF Only
  <2> HIDE DEF those, held
  <2>8. Placed(held, long, those, n, place)
    BY <2>3, <2>4, <2>5, <2>6, <2>7 DEF Placed
  <2>9. Total(those) = Total(held)
    BY <2>8, TotalOfPlaced
  <2> QED
    BY <2>9 DEF those, held, Sums
<1> HIDE DEF parts, sums
<1>4. \A p \in 1 .. m : sums[p] = Total(Only(seq, n, parts, p))
  BY <1>3
<1>5. Parted(sums, m, seq, n, parts)
  BY <1>1, <1>2, <1>4 DEF Parted
<1>6. Total(seq) = Total(sums)
  BY <1>5, TotalByParts
<1> QED
  BY <1>6 DEF sums
-----------------------------------------------------------------------------
(* A tally is two totals over the column. *)
Ones(column) == [i \in DOMAIN column |-> IF column[i] # NoTouch THEN 1 ELSE 0]
Gains(column) == [i \in DOMAIN column |-> Earned(column[i])]
Column(column, n) == DOMAIN column = 1 .. n /\ \A i \in 1 .. n : Earned(column[i]) \in Int

LEMMA TallyIsOfTotals ==
  ASSUME NEW n \in Nat, NEW column, Column(column, n)
  PROVE  /\ Tally(column) = [n_trades |-> Total(Ones(column)), total |-> Total(Gains(column))]
         /\ Ones(column) \in [1 .. n -> Int] /\ Gains(column) \in [1 .. n -> Int]
         /\ Total(Ones(column)) \in Nat /\ Total(Gains(column)) \in Int
         /\ Total(Ones(column)) = Cardinality(Taken(column)) /\ IsFiniteSet(Taken(column))
<1>1. DOMAIN column = 1 .. n
  BY DEF Column
<1>2. Taken(column) \in SUBSET (1 .. n)
  BY <1>1 DEF Taken
<1>3. Ones(column) = [i \in 1 .. n |-> IF i \in Taken(column) THEN 1 ELSE 0]
  BY <1>1 DEF Ones, Taken
<1>4. Ones(column) \in [1 .. n -> Int]
  BY <1>1 DEF Ones
<1>5. Gains(column) \in [1 .. n -> Int]
  BY <1>1 DEF Gains, Column
<1> DEFINE those == Taken(column)
<1> HIDE DEF those
<1>6. those \in SUBSET (1 .. n) /\ Ones(column) = [i \in 1 .. n |-> IF i \in those THEN 1 ELSE 0]
  BY <1>2, <1>3 DEF those
<1>7. IsFiniteSet(those) /\ Cardinality(those) \in Nat /\ Cardinality(those) = Total(Ones(column))
  BY <1>6, CountIsATotal
<1>8. Total(Gains(column)) \in Int
  BY <1>5, TotalRuns
<1>9. Tally(column) = [n_trades |-> Cardinality(those), total |-> Total(Gains(column))]
  BY DEF Tally, Gains, those
<1> QED
  BY <1>4, <1>5, <1>7, <1>8, <1>9 DEF those

Tallies == [n_trades : Int, total : Int]
Adding(tallies) ==
  [n_trades |-> Total([i \in DOMAIN tallies |-> tallies[i].n_trades]),
   total |-> Total([i \in DOMAIN tallies |-> tallies[i].total])]
TalliesOf(parts, v) == [p \in DOMAIN parts |-> Tally(parts[p].observations.trades[v])]

LEMMA AddingOneMore ==
  ASSUME NEW n \in Nat, NEW few \in [1 .. n -> Tallies], NEW more \in [1 .. n + 1 -> Tallies],
         \A i \in 1 .. n : more[i] = few[i]
  PROVE  Adding(few) \in Tallies /\ Adding(more) = AddTallies(Adding(few), more[n + 1])
<1> DEFINE few_trades == [i \in DOMAIN few |-> few[i].n_trades]
           few_totals == [i \in DOMAIN few |-> few[i].total]
           more_trades == [i \in DOMAIN more |-> more[i].n_trades]
           more_totals == [i \in DOMAIN more |-> more[i].total]
<1>1. /\ few_trades \in [1 .. n -> Int] /\ few_totals \in [1 .. n -> Int]
      /\ more_trades \in [1 .. n + 1 -> Int] /\ more_totals \in [1 .. n + 1 -> Int]
  BY DEF Tallies
<1>2. /\ \A i \in 1 .. n : more_trades[i] = few_trades[i] /\ more_totals[i] = few_totals[i]
      /\ more_trades[n + 1] = more[n + 1].n_trades /\ more_totals[n + 1] = more[n + 1].total
  OBVIOUS
<1>3. /\ Adding(few) = [n_trades |-> Total(few_trades), total |-> Total(few_totals)]
      /\ Adding(more) = [n_trades |-> Total(more_trades), total |-> Total(more_totals)]
  BY DEF Adding
<1> HIDE DEF few_trades, few_totals, more_trades, more_totals
<1>4. Total(few_trades) \in Int /\ Total(few_totals) \in Int
  BY <1>1, TotalRuns
<1>5. Total(more_trades) = Total(few_trades) + more_trades[n + 1]
  BY <1>1, <1>2, TotalOfOneMore
<1>6. Total(more_totals) = Total(few_totals) + more_totals[n + 1]
  BY <1>1, <1>2, TotalOfOneMore
<1> QED
  BY <1>2, <1>3, <1>4, <1>5, <1>6 DEF AddTallies, Tallies

LEMMA AddingNone ==
  ASSUME NEW n \in Nat, n = 0, NEW none, DOMAIN none = 1 .. n
  PROVE  Adding(none) = NoTally
<1> DEFINE trades == [i \in DOMAIN none |-> none[i].n_trades]
           totals == [i \in DOMAIN none |-> none[i].total]
<1>1. trades \in [1 .. n -> Int] /\ totals \in [1 .. n -> Int]
  OBVIOUS
<1>2. Adding(none) = [n_trades |-> Total(trades), total |-> Total(totals)]
  BY DEF Adding
<1> HIDE DEF trades, totals
<1>3. Total(trades) = 0
  <2>1. \A i \in 1 .. n : trades[i] = 0
    OBVIOUS
  <2> QED
    BY <1>1, <2>1, TotalOfZeros
<1>4. Total(totals) = 0
  <2>1. \A i \in 1 .. n : totals[i] = 0
    OBVIOUS
  <2> QED
    BY <1>1, <2>1, TotalOfZeros
<1> QED
  BY <1>2, <1>3, <1>4 DEF NoTally

(* What the pooled columns tally is what the parts tally. *)
Columned(part, n_variants) ==
  \E m \in Nat :
    /\ DOMAIN part.observations.spans = 1 .. m /\ DOMAIN part.observations.trades = 1 .. n_variants
    /\ \A v \in 1 .. n_variants : Column(part.observations.trades[v], m)

LEMMA PoolAddsUp ==
  ASSUME NEW n \in Nat, NEW m \in Nat, NEW parts, DOMAIN parts = 1 .. m, NEW n_variants \in Nat,
         \A p \in 1 .. m : Columned(parts[p], n_variants),
         NEW pooled, NEW part, NEW position, Pooling(pooled, parts, n_variants, n, part, position),
         NEW v \in 1 .. n_variants
  PROVE  /\ Column(pooled.trades[v], n)
         /\ Tally(pooled.trades[v]) = Adding(TalliesOf(parts, v))
<1> DEFINE column(p) == parts[p].observations.trades[v]
           pool == pooled.trades[v]
           ones == [p \in 1 .. m |-> Ones(column(p))]
           gains == [p \in 1 .. m |-> Gains(column(p))]
<1>1. ASSUME NEW p \in 1 .. m
      PROVE  \E long \in Nat : Column(column(p), long) /\ DOMAIN parts[p].observations.spans = 1 .. long
  BY DEF Columned
<1>2. ASSUME NEW i \in 1 .. n
      PROVE  part[i] \in 1 .. m /\ position[i] \in DOMAIN column(part[i]) /\ pool[i] = column(part[i])[position[i]]
  <2>1. /\ part[i] \in 1 .. m /\ position[i] \in DOMAIN parts[part[i]].observations.spans
        /\ pool[i] = column(part[i])[position[i]]
    BY DEF Pooling
  <2>2. PICK long \in Nat : Column(column(part[i]), long) /\ DOMAIN parts[part[i]].observations.spans = 1 .. long
    BY <1>1, <2>1
  <2> QED
    BY <2>1, <2>2 DEF Column
<1>3. ASSUME NEW p \in 1 .. m, NEW k \in DOMAIN column(p)
      PROVE  \E i \in 1 .. n : part[i] = p /\ position[i] = k
  <2>1. k \in DOMAIN parts[p].observations.spans
    BY <1>1 DEF Column
  <2> QED
    BY <2>1 DEF Pooling
<1>4. \A i, j \in 1 .. n : part[i] = part[j] /\ position[i] = position[j] => i = j
  BY DEF Pooling
<1>5. Column(pool, n)
  <2>1. DOMAIN pool = 1 .. n
    BY DEF Pooling
  <2>2. ASSUME NEW i \in 1 .. n PROVE Earned(pool[i]) \in Int
    <3>1. PICK long \in Nat : Column(column(part[i]), long)
      BY <1>1, <1>2
    <3> QED
      BY <1>2, <3>1 DEF Column
  <2> QED
    BY <2>1, <2>2 DEF Column
<1> HIDE DEF pool, column
<1>6. ASSUME NEW p \in 1 .. m
      PROVE  /\ \E long \in Nat : ones[p] \in [1 .. long -> Int] /\ gains[p] \in [1 .. long -> Int]
             /\ DOMAIN ones[p] = DOMAIN column(p) /\ DOMAIN gains[p] = DOMAIN column(p)
             /\ Tally(column(p)).n_trades = Total(ones[p]) /\ Tally(column(p)).total = Total(gains[p])
  <2>1. PICK long \in Nat : Column(column(p), long)
    BY <1>1
  <2>2. /\ Tally(column(p)) = [n_trades |-> Total(Ones(column(p))), total |-> Total(Gains(column(p)))]
        /\ Ones(column(p)) \in [1 .. long -> Int] /\ Gains(column(p)) \in [1 .. long -> Int]
    BY <2>1, TallyIsOfTotals
  <2>3. DOMAIN Ones(column(p)) = DOMAIN column(p) /\ DOMAIN Gains(column(p)) = DOMAIN column(p)
    BY DEF Ones, Gains
  <2> QED
    BY <2>2, <2>3
<1>7. /\ Tally(pool) = [n_trades |-> Total(Ones(pool)), total |-> Total(Gains(pool))]
      /\ Ones(pool) \in [1 .. n -> Int] /\ Gains(pool) \in [1 .. n -> Int] /\ DOMAIN pool = 1 .. n
  BY <1>5, TallyIsOfTotals DEF Column
<1>8. Gathered(Ones(pool), n, ones, m, part, position)
  <2>1. ASSUME NEW i \in 1 .. n
        PROVE  /\ part[i] \in 1 .. m /\ position[i] \in DOMAIN ones[part[i]]
               /\ Ones(pool)[i] = ones[part[i]][position[i]]
    BY <1>2, <1>6, <1>7 DEF Ones
  <2>2. ASSUME NEW p \in 1 .. m, NEW k \in DOMAIN ones[p]
        PROVE  \E i \in 1 .. n : part[i] = p /\ position[i] = k
    <3>1. DOMAIN ones[p] = DOMAIN column(p)
      BY <1>6
    <3> HIDE DEF ones
    <3> QED
      BY <1>3, <3>1
  <2>3. \A p \in 1 .. m : \E long \in Nat : ones[p] \in [1 .. long -> Int]
    BY <1>6
  <2> HIDE DEF ones
  <2> QED
    BY <1>4, <2>1, <2>2, <2>3 DEF Gathered
<1>9. Gathered(Gains(pool), n, gains, m, part, position)
  <2>1. ASSUME NEW i \in 1 .. n
        PROVE  /\ part[i] \in 1 .. m /\ position[i] \in DOMAIN gains[part[i]]
               /\ Gains(pool)[i] = gains[part[i]][position[i]]
    BY <1>2, <1>6, <1>7 DEF Gains
  <2>2. ASSUME NEW p \in 1 .. m, NEW k \in DOMAIN gains[p]
        PROVE  \E i \in 1 .. n : part[i] = p /\ position[i] = k
    <3>1. DOMAIN gains[p] = DOMAIN column(p)
      BY <1>6
    <3> HIDE DEF gains
    <3> QED
      BY <1>3, <3>1
  <2>3. \A p \in 1 .. m : \E long \in Nat : gains[p] \in [1 .. long -> Int]
    BY <1>6
  <2> HIDE DEF gains
  <2> QED
    BY <1>4, <2>1, <2>2, <2>3 DEF Gathered
<1> HIDE DEF ones, gains
<1>10. Total(Ones(pool)) = Total(Sums(ones, m))
  BY <1>7, <1>8, TotalOfGathered
<1>11. Total(Gains(pool)) = Total(Sums(gains, m))
  BY <1>7, <1>9, TotalOfGathered
<1>12. /\ Sums(ones, m) = [p \in 1 .. m |-> Tally(column(p)).n_trades]
       /\ Sums(gains, m) = [p \in 1 .. m |-> Tally(column(p)).total]
  BY <1>6 DEF Sums
<1>13. Tally(pool) = [n_trades |-> Total([p \in 1 .. m |-> Tally(column(p)).n_trades]),
                      total |-> Total([p \in 1 .. m |-> Tally(column(p)).total])]
  BY <1>7, <1>10, <1>11, <1>12
<1> DEFINE those == [p \in 1 .. m |-> Tally(column(p))]
<1>14. Adding(those) = [n_trades |-> Total([p \in 1 .. m |-> Tally(column(p)).n_trades]),
                        total |-> Total([p \in 1 .. m |-> Tally(column(p)).total])]
  <2>1. /\ [p \in DOMAIN those |-> those[p].n_trades] = [p \in 1 .. m |-> Tally(column(p)).n_trades]
        /\ [p \in DOMAIN those |-> those[p].total] = [p \in 1 .. m |-> Tally(column(p)).total]
    OBVIOUS
  <2> HIDE DEF those
  <2> QED
    BY <2>1 DEF Adding
<1>15. TalliesOf(parts, v) = those
  BY DEF TalliesOf, column
<1> QED
  BY <1>5, <1>13, <1>14, <1>15 DEF pool
-----------------------------------------------------------------------------
(* Dearer: each operation that makes a cost or a return is monotone. *)
LEMMA GreaterProduct ==
  ASSUME NEW a \in Int, NEW b \in Int, a <= b, NEW d \in Nat
  PROVE  a * d <= b * d /\ a * d \in Int /\ b * d \in Int
<1>1. (b - a) * d = b * d - a * d
  OBVIOUS
<1>2. (b - a) * d \in Nat
  OBVIOUS
<1> DEFINE p == a * d
           q == b * d
<1>3. p \in Int /\ q \in Int
  OBVIOUS
<1>4. q - p \in Nat
  BY <1>1, <1>2
<1> HIDE DEF p, q
<1>5. p <= q
  BY <1>3, <1>4
<1> QED
  BY <1>3, <1>5 DEF p, q

LEMMA GreaterQuotient ==
  ASSUME NEW a \in Int, NEW b \in Int, a <= b, NEW d \in Nat \ {0}
  PROVE  a \div d <= b \div d /\ a \div d \in Int /\ b \div d \in Int
<1> DEFINE p == a \div d
           q == b \div d
           r == a % d
           s == b % d
<1>1. p \in Int /\ q \in Int /\ r \in 0 .. d - 1 /\ s \in 0 .. d - 1
  OBVIOUS
<1>2. a = d * p + r /\ b = d * q + s
  OBVIOUS
<1> HIDE DEF p, q, r, s
<1>3. p <= q
  <2> SUFFICES ASSUME q + 1 <= p PROVE FALSE
    BY <1>1
  <2>1. (q + 1) * d <= p * d /\ (q + 1) * d \in Int /\ p * d \in Int
    BY <1>1, GreaterProduct
  <2>2. (q + 1) * d = d * q + d /\ p * d = d * p
    BY <1>1
  <2> DEFINE x == d * q
             y == d * p
  <2>3. x \in Int /\ y \in Int
    BY <1>1
  <2>4. a = y + r /\ b = x + s /\ x + d <= y
    BY <1>2, <2>1, <2>2
  <2> HIDE DEF x, y
  <2> QED
    BY <1>1, <2>3, <2>4
<1> QED
  BY <1>1, <1>3 DEF p, q

LEMMA GreaterNearest ==
  ASSUME NEW a \in Int, NEW b \in Int, a <= b, NEW d \in Nat \ {0}
  PROVE  Nearest(a, d) <= Nearest(b, d)
<1> DEFINE p == a \div d
           q == b \div d
           r == a % d
           s == b % d
<1>1. p \in Int /\ q \in Int /\ p <= q
  BY GreaterQuotient
<1>2. r \in 0 .. d - 1 /\ s \in 0 .. d - 1
  OBVIOUS
<1>3. a = d * p + r /\ b = d * q + s
  OBVIOUS
<1>4. /\ Nearest(a, d) = IF 2 * r > d \/ (2 * r = d /\ p % 2 = 1) THEN p + 1 ELSE p
      /\ Nearest(b, d) = IF 2 * s > d \/ (2 * s = d /\ q % 2 = 1) THEN q + 1 ELSE q
  BY DEF Nearest
<1> HIDE DEF p, q, r, s
<1>5. CASE p = q
  <2>1. r <= s
    <3> DEFINE x == d * p
    <3>1. x \in Int /\ a = x + r /\ b = x + s
      BY <1>1, <1>3, <1>5
    <3> HIDE DEF x
    <3> QED
      BY <1>2, <3>1
  <2> QED
    BY <1>1, <1>2, <1>4, <1>5, <2>1
<1>6. CASE p + 1 <= q
  <2>1. Nearest(a, d) <= p + 1 /\ q <= Nearest(b, d) /\ Nearest(a, d) \in Int /\ Nearest(b, d) \in Int
    BY <1>1, <1>4
  <2> QED
    BY <1>1, <1>6, <2>1
<1> QED
  BY <1>1, <1>5, <1>6

LEMMA MaxOfTwo ==
  ASSUME NEW a \in Int, NEW b \in Int
  PROVE  Max({a, b}) = IF a >= b THEN a ELSE b
<1>1. ASSUME a >= b PROVE Max({a, b}) = a
  <2>1. \A x \in {a, b} : (\A y \in {a, b} : x >= y) => x = a
    BY <1>1
  <2>2. \E x \in {a, b} : \A y \in {a, b} : x >= y
    BY <1>1
  <2> QED
    BY <2>1, <2>2 DEF Max
<1>2. ASSUME ~(a >= b) PROVE Max({a, b}) = b
  <2>1. \A x \in {a, b} : (\A y \in {a, b} : x >= y) => x = b
    BY <1>2
  <2>2. \E x \in {a, b} : \A y \in {a, b} : x >= y
    BY <1>2
  <2> QED
    BY <2>1, <2>2 DEF Max
<1> QED
  BY <1>1, <1>2

Tops(top, a, b, c) == (top = a \/ top = b \/ top = c) /\ top >= a /\ top >= b /\ top >= c
LEMMA MaxOfThree ==
  ASSUME NEW a \in Int, NEW b \in Int, NEW c \in Int
  PROVE  Tops(Max({a, b, c}), a, b, c)
<1>1. \E x \in {a, b, c} : \A y \in {a, b, c} : x >= y
  <2>1. CASE a >= b /\ a >= c
    BY <2>1
  <2>2. CASE b >= a /\ b >= c
    BY <2>2
  <2>3. CASE c >= a /\ c >= b
    BY <2>3
  <2> QED
    BY <2>1, <2>2, <2>3
<1> QED
  BY <1>1 DEF Max, Tops

(* One cost model charges no less than another: no term of it is smaller,   *)
(* and it caps a fee at the same share of the price.                       *)
Dearer(cheap, dear) ==
  /\ {cheap.min_spread, cheap.per_share, cheap.min_fee} \subseteq Nat
  /\ {dear.min_spread, dear.per_share, dear.min_fee} \subseteq Nat
  /\ {cheap.fraction, dear.fraction} \subseteq Nat \X (Nat \ {0})
  /\ cheap.max_fraction \in Nat \X (Nat \ {0}) /\ dear.max_fraction = cheap.max_fraction
  /\ cheap.min_spread <= dear.min_spread /\ cheap.per_share <= dear.per_share /\ cheap.min_fee <= dear.min_fee
  /\ cheap.fraction[1] <= dear.fraction[1] /\ cheap.fraction[2] = dear.fraction[2]

LEMMA DearerSpread ==
  ASSUME NEW cheap, NEW dear, Dearer(cheap, dear), NEW price \in Int
  PROVE  Spread(cheap, price) <= Spread(dear, price) /\ Spread(cheap, price) \in Int /\ Spread(dear, price) \in Int
<1>1. /\ cheap.min_spread \in Nat /\ dear.min_spread \in Nat /\ cheap.min_spread <= dear.min_spread
      /\ cheap.fraction[1] \in Nat /\ dear.fraction[1] \in Nat /\ cheap.fraction[1] <= dear.fraction[1]
      /\ cheap.fraction[2] \in Nat \ {0} /\ dear.fraction[2] = cheap.fraction[2]
  BY DEF Dearer
<1>2. TickSize(price) \in Nat
  BY LabellingAssumption DEF TickSize
<1> DEFINE f == cheap.fraction[1]
           g == dear.fraction[1]
           d == cheap.fraction[2]
           m == cheap.min_spread
           n == dear.min_spread
           tick == TickSize(price)
           x == (price * f) \div d
           y == (price * g) \div d
<1>3. Spread(cheap, price) = Max({x, tick, m}) /\ Spread(dear, price) = Max({y, tick, n})
  BY <1>1 DEF Spread
<1>4. f \in Nat /\ g \in Nat /\ f <= g /\ d \in Nat \ {0} /\ m \in Nat /\ n \in Nat /\ m <= n /\ tick \in Nat
  BY <1>1, <1>2
<1> HIDE DEF f, g, d, m, n, tick
<1>5. x \in Int /\ y \in Int
  BY <1>4, QuotientIsANumber
<1>6. x <= y \/ x <= 0
  <2>1. CASE price >= 0
    <3>1. price \in Nat
      BY <2>1
    <3>2. f * price <= g * price /\ f * price \in Int /\ g * price \in Int
      BY <1>4, <3>1, GreaterProduct
    <3>3. price * f = f * price /\ price * g = g * price
      BY <1>4
    <3> QED
      BY <1>4, <3>2, <3>3, GreaterQuotient
  <2>2. CASE price < 0
    <3>1. price * f <= 0 * f /\ price * f \in Int
      BY <1>4, <2>2, GreaterProduct
    <3>2. 0 * f = 0
      BY <1>4
    <3>3. (price * f) \div d <= 0 \div d
      <4> DEFINE p == price * f
      <4>1. p \in Int /\ p <= 0
        BY <3>1, <3>2
      <4> HIDE DEF p
      <4> QED
        BY <1>4, <4>1, GreaterQuotient DEF p
    <3>4. 0 \div d = 0
      BY <1>4
    <3> QED
      BY <3>3, <3>4
  <2> QED
    BY <2>1, <2>2
<1> HIDE DEF x, y
<1> DEFINE low == Max({x, tick, m})
           high == Max({y, tick, n})
<1>7. x \in Int /\ y \in Int /\ tick \in Int /\ m \in Int /\ n \in Int
  BY <1>4, <1>5
<1>8. Tops(low, x, tick, m)
  BY <1>7, MaxOfThree
<1>9. Tops(high, y, tick, n)
  BY <1>7, MaxOfThree
<1> HIDE DEF low, high
<1>10. low <= high /\ low \in Int /\ high \in Int
  BY <1>4, <1>6, <1>7, <1>8, <1>9 DEF Tops
<1> QED
  BY <1>3, <1>10 DEF low, high

LEMMA DearerCommission ==
  ASSUME NEW cheap, NEW dear, Dearer(cheap, dear), NEW price \in Int
  PROVE  /\ Commission(cheap, price) <= Commission(dear, price)
         /\ Commission(cheap, price) \in Int /\ Commission(dear, price) \in Int
<1>1. /\ cheap.per_share \in Nat /\ dear.per_share \in Nat /\ cheap.per_share <= dear.per_share
      /\ cheap.min_fee \in Nat /\ dear.min_fee \in Nat /\ cheap.min_fee <= dear.min_fee
      /\ cheap.max_fraction[1] \in Nat /\ cheap.max_fraction[2] \in Nat \ {0}
      /\ dear.max_fraction = cheap.max_fraction /\ Quantity \in Nat
  BY LabellingAssumption DEF Dearer
<1> DEFINE a == cheap.per_share * Quantity
           b == dear.per_share * Quantity
           m == cheap.min_fee
           n == dear.min_fee
           value == price * Quantity
           cap == (value * cheap.max_fraction[1]) \div cheap.max_fraction[2]
<1>2. a <= b /\ a \in Int /\ b \in Int
  BY <1>1, GreaterProduct
<1>3. cap \in Int
  <2>1. value \in Int
    BY <1>1
  <2> HIDE DEF value
  <2> QED
    BY <1>1, <2>1, QuotientIsANumber
<1>4. Commission(cheap, price) = LeastOf(Max({a, m}), cap) /\ Commission(dear, price) = LeastOf(Max({b, n}), cap)
  BY <1>1 DEF Commission
<1>5. m \in Int /\ n \in Int /\ m <= n
  BY <1>1
<1> HIDE DEF a, b, m, n, cap
<1>6. Max({a, m}) = IF a >= m THEN a ELSE m
  BY <1>2, <1>5, MaxOfTwo
<1>7. Max({b, n}) = IF b >= n THEN b ELSE n
  BY <1>2, <1>5, MaxOfTwo
<1> QED
  BY <1>2, <1>3, <1>4, <1>5, <1>6, <1>7 DEF LeastOf

LEMMA DearerCost ==
  ASSUME NEW cheap, NEW dear, Dearer(cheap, dear), NEW price \in Int
  PROVE  Cost(cheap, price) <= Cost(dear, price) /\ Cost(cheap, price) \in Int /\ Cost(dear, price) \in Int
<1> DEFINE s == Spread(cheap, price)
           t == Spread(dear, price)
           c == Commission(cheap, price)
           e == Commission(dear, price)
           x == (s * Quantity) \div 2
           y == (t * Quantity) \div 2
<1>1. s <= t /\ s \in Int /\ t \in Int
  BY DearerSpread
<1>2. c <= e /\ c \in Int /\ e \in Int
  BY DearerCommission
<1>3. Quantity \in Nat
  BY LabellingAssumption
<1>4. Cost(cheap, price) = x + c /\ Cost(dear, price) = y + e
  BY DEF Cost
<1> HIDE DEF s, t, c, e
<1>5. s * Quantity <= t * Quantity /\ s * Quantity \in Int /\ t * Quantity \in Int
  BY <1>1, <1>3, GreaterProduct
<1> DEFINE p == s * Quantity
           q == t * Quantity
<1>6. p \div 2 <= q \div 2 /\ p \div 2 \in Int /\ q \div 2 \in Int
  <2>1. p <= q /\ p \in Int /\ q \in Int
    BY <1>5
  <2> HIDE DEF p, q
  <2> QED
    BY <2>1
<1>7. x <= y /\ x \in Int /\ y \in Int
  BY <1>6
<1> HIDE DEF x, y
<1> QED
  BY <1>2, <1>4, <1>7
-----------------------------------------------------------------------------
(* Which candidates are kept does not depend on what a trade costs. *)
Decides(bars, variants) ==
  /\ Series(bars) /\ \A i \in DOMAIN bars : bars[i].close > 0
  /\ \A v \in DOMAIN variants : \A s \in variants[v] : s \in Decisions /\ s.index \in DOMAIN bars
KeptBars(bars, variants) ==
  {i \in {s.index : s \in UNION {variants[v] : v \in DOMAIN variants}} :
     \A v \in DOMAIN variants : \A s \in At(variants[v], i) : Forward(bars, s.index, s.max_bars) # <<>>}
KeptOf(bars, variants) == Ascending(KeptBars(bars, variants))
DecisionAt(signals, i) == CHOOSE s \in signals : s.index = i
LabelAt(bars, signals, i, model) ==
  IF At(signals, i) = {} THEN NoTouch
  ELSE TripleBarrier(bars, DecisionAt(signals, i).index, DecisionAt(signals, i), model)
LabelsOf(bars, variants, model) ==
  [v \in DOMAIN variants |-> [k \in DOMAIN KeptOf(bars, variants) |->
     LabelAt(bars, variants[v], KeptOf(bars, variants)[k], model)]]

LEMMA NoWalkNoTouch ==
  ASSUME NEW bars, NEW index, NEW signal, NEW model
  PROVE  TripleBarrier(bars, index, signal, model) = NoTouch <=> Forward(bars, index, signal.max_bars) = <<>>
<1> DEFINE entry == bars[index].close
           forward == Forward(bars, index, signal.max_bars)
           last == ClosedOn(forward, signal, entry)
           touch == Touch(forward, signal, entry, last, model)
<1>1. touch.label \in {"STOP", "PROFIT", "TIMEOUT"}
  BY DEF Touch
<1>2. touch # NoTouch
  <2> HIDE DEF touch
  <2> QED
    BY <1>1 DEF NoTouch
<1>3. TripleBarrier(bars, index, signal, model) = IF forward = <<>> THEN NoTouch ELSE touch
  BY DEF TripleBarrier
<1> HIDE DEF touch, forward
<1>4. TripleBarrier(bars, index, signal, model) = NoTouch <=> forward = <<>>
  BY <1>2, <1>3
<1> QED
  BY <1>4 DEF forward

LEMMA LabelsAreOfTheKept ==
  ASSUME NEW bars, NEW variants, NEW model
  PROVE  LabelSignals(bars, variants, model).trades = LabelsOf(bars, variants, model)
<1> DEFINE touch(s) == TripleBarrier(bars, s.index, s, model)
           grid == {s.index : s \in UNION {variants[v] : v \in DOMAIN variants}}
           keeps == {i \in grid : \A v \in DOMAIN variants : \A s \in At(variants[v], i) : touch(s) # NoTouch}
           kept == Ascending(keeps)
           trade(v, i) == IF At(variants[v], i) = {} THEN NoTouch ELSE touch(CHOOSE s \in variants[v] : s.index = i)
           trades == [v \in DOMAIN variants |-> [k \in DOMAIN kept |-> trade(v, kept[k])]]
<1>1. LabelSignals(bars, variants, model).trades = trades
  BY DEF LabelSignals
<1>2. keeps = KeptBars(bars, variants)
  <2>1. \A s : touch(s) # NoTouch <=> Forward(bars, s.index, s.max_bars) # <<>>
    BY NoWalkNoTouch
  <2> HIDE DEF touch
  <2> QED
    BY <2>1 DEF KeptBars
<1>3. kept = KeptOf(bars, variants)
  BY <1>2 DEF KeptOf
<1>4. ASSUME NEW v, NEW i PROVE trade(v, i) = LabelAt(bars, variants[v], i, model)
  BY DEF LabelAt, DecisionAt
<1> HIDE DEF kept, trade
<1>5. trades = [v \in DOMAIN variants |-> [k \in DOMAIN kept |-> LabelAt(bars, variants[v], kept[k], model)]]
  BY <1>4
<1> HIDE DEF trades
<1> QED
  BY <1>1, <1>3, <1>5 DEF LabelsOf

LEMMA KeptIsAList ==
  ASSUME NEW bars, NEW variants, Decides(bars, variants)
  PROVE  \E n \in Nat :
           /\ DOMAIN KeptOf(bars, variants) = 1 .. n
           /\ \A k \in 1 .. n : KeptOf(bars, variants)[k] \in KeptBars(bars, variants)
           /\ \A k, l \in 1 .. n : KeptOf(bars, variants)[k] = KeptOf(bars, variants)[l] => k = l
<1> DEFINE keeps == KeptBars(bars, variants)
           kept == KeptOf(bars, variants)
           n == Cardinality(keeps)
<1>1. keeps \subseteq DOMAIN bars
  BY DEF KeptBars, Decides
<1>2. Len(bars) \in Nat /\ DOMAIN bars = 1 .. Len(bars)
  BY DEF Decides, Series
<1> HIDE DEF keeps
<1>3. IsFiniteSet(keeps) /\ n \in Nat
  <2>1. IsFiniteSet(1 .. Len(bars))
    BY <1>2, FS_Interval
  <2>2. IsFiniteSet(keeps)
    BY <1>1, <1>2, <2>1, FS_Subset
  <2> QED
    BY <2>2, FS_CardinalityType
<1>4. Numbers(keeps)
  BY <1>1, <1>2 DEF Numbers
<1>5. Lists(kept, keeps)
  BY <1>3, <1>4, AscendingTakesAll DEF KeptOf, keeps
<1> HIDE DEF kept
<1>6. DOMAIN kept = 1 .. n /\ (\A k \in 1 .. n : kept[k] \in keeps) /\ \A k, l \in 1 .. n : kept[k] = kept[l] => k = l
  <2> HIDE DEF n
  <2> QED
    BY <1>3, <1>5 DEF Lists, n
<1> HIDE DEF n
<1> QED
  BY <1>3, <1>6 DEF kept, keeps

(* A kept candidate that a variant decided on is labelled at any cost. *)
LEMMA KeptIsLabelled ==
  ASSUME NEW bars, NEW variants, Decides(bars, variants), NEW v \in DOMAIN variants, NEW i \in KeptBars(bars, variants)
  PROVE  /\ \A model : LabelAt(bars, variants[v], i, model) = NoTouch <=> At(variants[v], i) = {}
         /\ At(variants[v], i) # {} =>
              DecisionAt(variants[v], i) \in Decisions /\ DecisionAt(variants[v], i).index \in DOMAIN bars
<1>1. CASE At(variants[v], i) = {}
  BY <1>1 DEF LabelAt
<1>2. CASE At(variants[v], i) # {}
  <2> DEFINE s == DecisionAt(variants[v], i)
  <2>1. s \in variants[v] /\ s.index = i
    BY <1>2 DEF At, DecisionAt
  <2> HIDE DEF s
  <2>2. Forward(bars, s.index, s.max_bars) # <<>>
    BY <2>1 DEF KeptBars, At
  <2>3. \A model : TripleBarrier(bars, s.index, s, model) # NoTouch
    BY <2>2, NoWalkNoTouch
  <2>4. s \in Decisions /\ s.index \in DOMAIN bars
    BY <2>1 DEF Decides
  <2> QED
    BY <1>2, <2>3, <2>4 DEF LabelAt, s
<1> QED
  BY <1>1, <1>2
-----------------------------------------------------------------------------
(* What a trade makes at a cost model: where it was entered and left does   *)
(* not depend on the model.                                                *)
ReturnOf(model, entry, exit, gross) ==
  Nearest((gross * Quantity - Cost(model, entry) - Cost(model, exit)) * ReturnPlaces, entry * Quantity)

LEMMA ReturnIsOfAMove ==
  ASSUME NEW bars, Series(bars), \A i \in DOMAIN bars : bars[i].close > 0,
         NEW index \in DOMAIN bars, NEW signal \in Decisions, Forward(bars, index, signal.max_bars) # <<>>
  PROVE  \E entry \in Nat \ {0} : \E exit \in Int : \E gross \in Int : \A model :
           TripleBarrier(bars, index, signal, model).realised_return = ReturnOf(model, entry, exit, gross)
<1> DEFINE entry == bars[index].close
           forward == Forward(bars, index, signal.max_bars)
           last == ClosedOn(forward, signal, entry)
           closed == forward[last].close
           stopped == last \in HitStop(forward, signal, entry)
           taken == last \in HitProfit(forward, signal, entry)
           exit == IF stopped THEN entry - Sign(signal.side) * signal.stop_loss
                   ELSE IF taken THEN entry + Sign(signal.side) * signal.profit_target
                   ELSE closed
           gross == (exit - entry) * Sign(signal.side)
<1>0. forward # <<>>
  OBVIOUS
<1>1. ASSUME NEW model
      PROVE  TripleBarrier(bars, index, signal, model).realised_return = ReturnOf(model, entry, exit, gross)
  BY <1>0 DEF TripleBarrier, Touch, ReturnOf
<1>2. signal.max_bars \in Nat /\ signal.stop_loss \in Int /\ signal.profit_target \in Int
  BY DEF Decisions
<1>3. Sign(signal.side) \in Int
  BY DEF Sign
<1>4. entry \in Nat \ {0}
  <2>1. bars[index] \in Bars
    <3> HIDE DEF Bars
    <3> QED
      BY DEF Series
  <2> QED
    BY <2>1 DEF Bars
<1>a. TripleBarrier(bars, index, signal, Models[1]) # NoTouch
  BY <1>0, NoWalkNoTouch
<1>5. closed \in Int
  <2>1. bars \in Seq(Bars)
    BY DEF Series
  <2>2. last \in 1 .. Len(forward) /\ Follows(forward, bars, index, signal.max_bars, Len(forward))
    <3> HIDE DEF Bars, Decisions
    <3> QED
      BY <1>2, <1>a, <2>1, LabelIsOfItsWalk
  <2> HIDE DEF last, forward
  <2>3. forward[last] = bars[index + last] /\ index + last \in DOMAIN bars
    <3>1. index \in Nat /\ index >= 1 /\ Len(bars) \in Nat /\ DOMAIN bars = 1 .. Len(bars)
      BY <2>1
    <3> QED
      BY <2>2, <3>1 DEF Follows
  <2>4. bars[index + last] \in Bars
    <3> HIDE DEF Bars
    <3> QED
      BY <2>1, <2>3
  <2> QED
    BY <2>3, <2>4 DEF Bars
<1> HIDE DEF closed, entry, forward, last, stopped, taken
<1>6. exit \in Int
  <2>1. Sign(signal.side) * signal.stop_loss \in Int /\ Sign(signal.side) * signal.profit_target \in Int
    BY <1>2, <1>3
  <2> QED
    BY <1>4, <1>5, <2>1
<1> HIDE DEF exit
<1>7. gross \in Int
  BY <1>3, <1>4, <1>6
<1> HIDE DEF gross
<1> QED
  BY <1>1, <1>4, <1>6, <1>7

LEMMA ReturnOfDearer ==
  ASSUME NEW cheap, NEW dear, Dearer(cheap, dear), NEW entry \in Nat \ {0}, NEW exit \in Int, NEW gross \in Int
  PROVE  ReturnOf(dear, entry, exit, gross) <= ReturnOf(cheap, entry, exit, gross)
<1> DEFINE low == gross * Quantity - Cost(dear, entry) - Cost(dear, exit)
           high == gross * Quantity - Cost(cheap, entry) - Cost(cheap, exit)
<1>1. Quantity \in Nat \ {0} /\ ReturnPlaces \in Nat \ {0}
  BY LabellingAssumption
<1>2. Cost(cheap, entry) <= Cost(dear, entry) /\ Cost(cheap, entry) \in Int /\ Cost(dear, entry) \in Int
  BY DearerCost
<1>3. Cost(cheap, exit) <= Cost(dear, exit) /\ Cost(cheap, exit) \in Int /\ Cost(dear, exit) \in Int
  BY DearerCost
<1>4. gross * Quantity \in Int
  BY <1>1
<1>5. low <= high /\ low \in Int /\ high \in Int
  <2> DEFINE g == gross * Quantity
  <2>1. g \in Int
    BY <1>4
  <2> HIDE DEF g
  <2> QED
    BY <1>2, <1>3, <2>1 DEF g
<1> HIDE DEF low, high
<1>6. low * ReturnPlaces <= high * ReturnPlaces /\ low * ReturnPlaces \in Int /\ high * ReturnPlaces \in Int
  BY <1>1, <1>5, GreaterProduct
<1>7. entry * Quantity \in Nat \ {0}
  BY <1>1
<1> DEFINE p == low * ReturnPlaces
           q == high * ReturnPlaces
           d == entry * Quantity
<1>8. Nearest(p, d) <= Nearest(q, d)
  <2>1. p <= q /\ p \in Int /\ q \in Int /\ d \in Nat \ {0}
    BY <1>6, <1>7
  <2> HIDE DEF p, q, d
  <2> QED
    BY <2>1, GreaterNearest
<1> QED
  BY <1>8 DEF ReturnOf, low, high

LEMMA LabelsMakeAColumn ==
  ASSUME NEW bars, NEW variants, Decides(bars, variants), NEW v \in DOMAIN variants,
         NEW n \in Nat, DOMAIN KeptOf(bars, variants) = 1 .. n,
         \A k \in 1 .. n : KeptOf(bars, variants)[k] \in KeptBars(bars, variants),
         NEW l \in DOMAIN Models
  PROVE  /\ Column(LabelsOf(bars, variants, Models[l])[v], n)
         /\ \A k \in 1 .. n :
              LabelsOf(bars, variants, Models[l])[v][k]
                = LabelAt(bars, variants[v], KeptOf(bars, variants)[k], Models[l])
<1> DEFINE kept == KeptOf(bars, variants)
           column == LabelsOf(bars, variants, Models[l])[v]
<1>1. DOMAIN column = 1 .. n /\ \A k \in 1 .. n : column[k] = LabelAt(bars, variants[v], kept[k], Models[l])
  BY DEF LabelsOf
<1>2. \A k \in 1 .. n : kept[k] \in KeptBars(bars, variants)
  OBVIOUS
<1> HIDE DEF column, kept
<1>3. ASSUME NEW k \in 1 .. n PROVE Earned(column[k]) \in Int
  <2> DEFINE i == kept[k]
             s == DecisionAt(variants[v], i)
  <2>1. i \in KeptBars(bars, variants) /\ column[k] = LabelAt(bars, variants[v], i, Models[l])
    BY <1>1, <1>2
  <2> HIDE DEF i
  <2>2. CASE At(variants[v], i) = {}
    BY <2>1, <2>2 DEF LabelAt, Earned
  <2>3. CASE At(variants[v], i) # {}
    <3>1. s \in Decisions /\ s.index \in DOMAIN bars
      BY <2>1, <2>3, KeptIsLabelled
    <3>2. LabelAt(bars, variants[v], i, Models[l]) # NoTouch
      BY <2>1, <2>3, KeptIsLabelled
    <3>3. LabelAt(bars, variants[v], i, Models[l]) = TripleBarrier(bars, s.index, s, Models[l])
      BY <2>3 DEF LabelAt
    <3> HIDE DEF s
    <3>4. TripleBarrier(bars, s.index, s, Models[l]).realised_return \in Int
      BY <3>1, <3>2, <3>3, ReturnIsANumber DEF Decides
    <3> QED
      BY <2>1, <3>2, <3>3, <3>4 DEF Earned
  <2> QED
    BY <2>2, <2>3
<1>4. Column(column, n)
  BY <1>1, <1>3 DEF Column
<1> QED
  BY <1>1, <1>4 DEF column, kept

(* Every cost model keeps the same trades, and a dearer one makes no more   *)
(* of any of them.                                                         *)
LEMMA DearerLabels ==
  ASSUME NEW bars, NEW variants, Decides(bars, variants), NEW v \in DOMAIN variants,
         NEW i \in KeptBars(bars, variants), NEW cheap, NEW dear
  PROVE  /\ LabelAt(bars, variants[v], i, cheap) = NoTouch <=> LabelAt(bars, variants[v], i, dear) = NoTouch
         /\ Dearer(cheap, dear) =>
              Earned(LabelAt(bars, variants[v], i, dear)) <= Earned(LabelAt(bars, variants[v], i, cheap))
<1>1. CASE At(variants[v], i) = {}
  BY <1>1 DEF LabelAt, Earned
<1>2. CASE At(variants[v], i) # {}
  <2> DEFINE s == DecisionAt(variants[v], i)
  <2>1. s \in Decisions /\ s.index \in DOMAIN bars
    BY <1>2, KeptIsLabelled
  <2>2. LabelAt(bars, variants[v], i, cheap) # NoTouch /\ LabelAt(bars, variants[v], i, dear) # NoTouch
    BY <1>2, KeptIsLabelled
  <2>3. /\ LabelAt(bars, variants[v], i, cheap) = TripleBarrier(bars, s.index, s, cheap)
        /\ LabelAt(bars, variants[v], i, dear) = TripleBarrier(bars, s.index, s, dear)
    BY <1>2 DEF LabelAt
  <2> HIDE DEF s
  <2>4. Forward(bars, s.index, s.max_bars) # <<>>
    BY <2>2, <2>3, NoWalkNoTouch
  <2>5. PICK entry \in Nat \ {0}, exit \in Int, gross \in Int : \A model :
          TripleBarrier(bars, s.index, s, model).realised_return = ReturnOf(model, entry, exit, gross)
    BY <2>1, <2>4, ReturnIsOfAMove DEF Decides
  <2>6. ASSUME Dearer(cheap, dear)
        PROVE  ReturnOf(dear, entry, exit, gross) <= ReturnOf(cheap, entry, exit, gross)
    BY <2>6, ReturnOfDearer
  <2>7. /\ Earned(LabelAt(bars, variants[v], i, cheap)) = ReturnOf(cheap, entry, exit, gross)
        /\ Earned(LabelAt(bars, variants[v], i, dear)) = ReturnOf(dear, entry, exit, gross)
    BY <2>2, <2>3, <2>5 DEF Earned
  <2> QED
    BY <2>2, <2>6, <2>7
<1> QED
  BY <1>1, <1>2

(* A column without an entry less, or with entries that make no more. *)
LEMMA TallyOfLess ==
  ASSUME NEW n \in Nat, NEW more, NEW less, Column(more, n), Column(less, n),
         \A k \in 1 .. n : more[k] = NoTouch <=> less[k] = NoTouch
  PROVE  /\ Tally(more) \in Tallies /\ Tally(less) \in Tallies
         /\ Tally(less).n_trades = Tally(more).n_trades
         /\ (\A k \in 1 .. n : Earned(less[k]) <= Earned(more[k])) => Tally(less).total <= Tally(more).total
<1>1. /\ Tally(more) = [n_trades |-> Total(Ones(more)), total |-> Total(Gains(more))]
      /\ Gains(more) \in [1 .. n -> Int] /\ Total(Ones(more)) \in Nat /\ Total(Gains(more)) \in Int
  BY TallyIsOfTotals
<1>2. /\ Tally(less) = [n_trades |-> Total(Ones(less)), total |-> Total(Gains(less))]
      /\ Gains(less) \in [1 .. n -> Int] /\ Total(Ones(less)) \in Nat /\ Total(Gains(less)) \in Int
  BY TallyIsOfTotals
<1>3. DOMAIN more = 1 .. n /\ DOMAIN less = 1 .. n
  BY DEF Column
<1>4. Ones(more) = Ones(less)
  BY <1>3 DEF Ones
<1>5. ASSUME \A k \in 1 .. n : Earned(less[k]) <= Earned(more[k]) PROVE Total(Gains(less)) <= Total(Gains(more))
  <2>1. \A k \in 1 .. n : Gains(less)[k] <= Gains(more)[k]
    BY <1>3, <1>5 DEF Gains
  <2> QED
    BY <1>1, <1>2, <2>1, TotalOfLess
<1>6. Tally(more) \in Tallies /\ Tally(less) \in Tallies
  BY <1>1, <1>2 DEF Tallies
<1> QED
  BY <1>1, <1>2, <1>4, <1>5, <1>6

LEMMA LabelsTally ==
  ASSUME NEW bars, NEW variants, Decides(bars, variants), NEW v \in DOMAIN variants,
         NEW a \in DOMAIN Models, NEW b \in DOMAIN Models
  PROVE  LET cheap == Tally(LabelsOf(bars, variants, Models[a])[v])
             dear == Tally(LabelsOf(bars, variants, Models[b])[v])
         IN /\ cheap \in Tallies /\ dear \in Tallies /\ cheap.n_trades = dear.n_trades
            /\ Dearer(Models[a], Models[b]) => dear.total <= cheap.total
<1>1. PICK n \in Nat :
        /\ DOMAIN KeptOf(bars, variants) = 1 .. n
        /\ \A k \in 1 .. n : KeptOf(bars, variants)[k] \in KeptBars(bars, variants)
  BY KeptIsAList
<1> DEFINE kept == KeptOf(bars, variants)
           more == LabelsOf(bars, variants, Models[a])[v]
           less == LabelsOf(bars, variants, Models[b])[v]
<1>2. Column(more, n) /\ \A k \in 1 .. n : more[k] = LabelAt(bars, variants[v], kept[k], Models[a])
  BY <1>1, LabelsMakeAColumn
<1>3. Column(less, n) /\ \A k \in 1 .. n : less[k] = LabelAt(bars, variants[v], kept[k], Models[b])
  BY <1>1, LabelsMakeAColumn
<1>4. \A k \in 1 .. n : kept[k] \in KeptBars(bars, variants)
  BY <1>1
<1> HIDE DEF more, less, kept
<1>5. ASSUME NEW k \in 1 .. n
      PROVE  /\ more[k] = NoTouch <=> less[k] = NoTouch
             /\ Dearer(Models[a], Models[b]) => Earned(less[k]) <= Earned(more[k])
  <2>1. kept[k] \in KeptBars(bars, variants)
    BY <1>4
  <2> QED
    BY <1>2, <1>3, <2>1, DearerLabels
<1>6. /\ Tally(more) \in Tallies /\ Tally(less) \in Tallies
      /\ Tally(less).n_trades = Tally(more).n_trades
      /\ (\A k \in 1 .. n : Earned(less[k]) <= Earned(more[k])) => Tally(less).total <= Tally(more).total
  BY <1>2, <1>3, <1>5, TallyOfLess
<1> QED
  BY <1>5, <1>6 DEF more, less

(* A level of the curve that charges more is dearer. *)
LEMMA MoreScaleIsDearer ==
  ASSUME NEW a \in DOMAIN Models \ {1}, NEW b \in DOMAIN Models \ {1}, Models[a].scale < Models[b].scale
  PROVE  Dearer(Models[a], Models[b])
<1>1. /\ {Models[a].min_spread, Models[a].per_share, Models[a].min_fee} \subseteq Nat
      /\ {Models[a].fraction, Models[a].max_fraction} \subseteq Nat \X (Nat \ {0})
  BY ModelsAssumption
<1>2. /\ {Models[b].min_spread, Models[b].per_share, Models[b].min_fee} \subseteq Nat
      /\ {Models[b].fraction, Models[b].max_fraction} \subseteq Nat \X (Nat \ {0})
  BY ModelsAssumption
<1>3. /\ Models[a].min_spread <= Models[b].min_spread
      /\ Models[a].per_share <= Models[b].per_share /\ Models[a].min_fee <= Models[b].min_fee
      /\ Models[a].fraction[1] <= Models[b].fraction[1] /\ Models[a].fraction[2] = Models[b].fraction[2]
      /\ Models[a].max_fraction = Models[b].max_fraction
  BY LevelsAssumption
<1> QED
  BY <1>1, <1>2, <1>3 DEF Dearer
-----------------------------------------------------------------------------
(* The decisions of a sweep, and the part of an instrument. *)
LEMMA SweepDecides ==
  ASSUME corpus \in Corpora, SweepIsAsked, run.id # 0, NEW symbol \in Range(Universe)
  PROVE  Decides(corpus[symbol], SignalsFor(symbol)) /\ DOMAIN SignalsFor(symbol) = DOMAIN run.variants
<1> DEFINE bars == corpus[symbol]
           signals == SignalsFor(symbol)
<1>1. Series(bars) /\ \A i \in DOMAIN bars : bars[i].close > 0
  <2>1. PICK i \in DOMAIN Universe : symbol = Universe[i]
    BY DEF Range
  <2> QED
    BY <2>1, CorporaAssumption DEF Series, Bars
<1>2. DOMAIN signals = DOMAIN run.variants
  BY DEF SignalsFor
<1>3. ASSUME NEW v \in DOMAIN signals, NEW s \in signals[v] PROVE s \in Decisions /\ s.index \in DOMAIN bars
  <2> DEFINE intents == run.variants[v].intents
  <2>1. signals[v] = SignalsOf(bars, ProposedOn(symbol, bars, intents))
    BY DEF SignalsFor
  <2>2. WellMeant(intents) /\ OnePerBar(SignalsOf(bars, ProposedOn(symbol, bars, intents)))
    <3>1. PICK j \in DOMAIN Requests : \E request \in Requests[j] : run.variants = request.variants
      BY DEF SweepIsAsked
    <3>2. PICK request \in Requests[j] : run.variants = request.variants
      BY <3>1
    <3>3. v \in DOMAIN run.variants
      BY <1>2
    <3>4. WellMeant(intents)
      BY <3>2, <3>3, RequestsAssumption DEF WellMeant
    <3>5. OnePerBar(SignalsOf(bars, ProposedOn(symbol, bars, intents)))
      BY <3>2, <3>3, DecisionsAssumption DEF OnePerBar
    <3> QED
      BY <3>4, <3>5
  <2> HIDE DEF bars, signals, intents
  <2>3. s \in SignalsOf(bars, ProposedOn(symbol, bars, intents))
    BY <1>3, <2>1
  <2> QED
    BY <1>1, <2>2, <2>3, SignalIsOfWhatWasMeant
<1> HIDE DEF bars, signals
<1>4. Decides(bars, signals)
  BY <1>1, <1>3 DEF Decides
<1> QED
  BY <1>2, <1>4 DEF bars, signals

LEMMA PartsAreColumned ==
  ASSUME corpus \in Corpora, SweepIsAsked, run.id # 0, run.variants \in Seq(Range(run.variants)),
         NEW symbol \in Range(Universe)
  PROVE  /\ Columned(PartOf(symbol), Len(run.variants))
         /\ PartOf(symbol).observations.trades = LabelsOf(corpus[symbol], SignalsFor(symbol), Models[1])
<1> DEFINE bars == corpus[symbol]
           signals == SignalsFor(symbol)
           labels == LabelSignals(bars, signals, Models[1])
           part == PartOf(symbol)
           w == Len(run.variants)
<1>1. w \in Nat /\ DOMAIN run.variants = 1 .. w
  OBVIOUS
<1>2. part.observations = labels
  BY DEF PartOf
<1>3. Decides(bars, signals) /\ DOMAIN signals = 1 .. w
  BY <1>1, SweepDecides
<1>4. labels.trades = LabelsOf(bars, signals, Models[1])
  BY LabelsAreOfTheKept
<1>5. labels = LabelSignals(bars, signals, Models[1])
  OBVIOUS
<1>6. \A v \in DOMAIN signals : Decided(bars, signals[v])
  <2>1. PICK i \in DOMAIN Universe : symbol = Universe[i]
    BY DEF Range
  <2>2. Series(bars)
    BY <1>3 DEF Decides
  <2> TAKE v \in DOMAIN signals
  <2>3. signals[v] = SignalsOf(bars, ProposedOn(symbol, bars, run.variants[v].intents))
    BY DEF SignalsFor
  <2> HIDE DEF bars, signals
  <2> QED
    BY <2>2, <2>3, SignalsAreDecided
<1>7. Series(bars)
  BY <1>3 DEF Decides
<1> HIDE DEF bars, signals, labels, part, w
<1>8. PICK n \in Nat : SoundLabels(labels, bars, signals, Models[1], n)
  BY <1>5, <1>6, <1>7, LabelsAreWithinReach
<1>9. DOMAIN labels.spans = 1 .. n /\ DOMAIN labels.trades = 1 .. w /\ \A v \in 1 .. w : DOMAIN labels.trades[v] = 1 .. n
  BY <1>3, <1>8 DEF SoundLabels
<1>10. 1 \in DOMAIN Models
  BY ModelsAssumption
<1>11. PICK m \in Nat :
         /\ DOMAIN KeptOf(bars, signals) = 1 .. m
         /\ \A k \in 1 .. m : KeptOf(bars, signals)[k] \in KeptBars(bars, signals)
  BY <1>3, KeptIsAList
<1>12. ASSUME NEW v \in 1 .. w PROVE Column(labels.trades[v], n)
  <2>1. Column(LabelsOf(bars, signals, Models[1])[v], m)
    BY <1>3, <1>10, <1>11, LabelsMakeAColumn
  <2>2. Column(labels.trades[v], m)
    BY <1>4, <2>1
  <2>3. DOMAIN labels.trades[v] = 1 .. m /\ DOMAIN labels.trades[v] = 1 .. n
    BY <1>9, <2>2 DEF Column
  <2> QED
    BY <2>2, <2>3 DEF Column
<1>13. Columned(part, w)
  BY <1>2, <1>9, <1>12 DEF Columned
<1> QED
  BY <1>2, <1>4, <1>13 DEF part, w, bars, signals
-----------------------------------------------------------------------------
(* A list that takes each member of a set once. *)
Numbering(f, n, S) ==
  /\ \A i \in 1 .. n : f[i] \in S
  /\ \A x \in S : \E i \in 1 .. n : f[i] = x
  /\ \A i, j \in 1 .. n : f[i] = f[j] => i = j

LEMMA NumberingCounts ==
  ASSUME NEW n \in Nat, NEW S, NEW f, Numbering(f, n, S)
  PROVE  IsFiniteSet(S) /\ Cardinality(S) = n
<1> DEFINE g == [i \in 1 .. n |-> f[i]]
<1>1. g \in [1 .. n -> S]
  BY DEF Numbering
<1>2. g \in Injection(1 .. n, S)
  BY <1>1 DEF Numbering, Injection, IsInjective
<1>3. g \in Surjection(1 .. n, S)
  BY <1>1 DEF Numbering, Surjection
<1>4. g \in Bijection(1 .. n, S)
  BY <1>2, <1>3 DEF Bijection
<1>5. ExistsBijection(1 .. n, S)
  BY <1>4 DEF ExistsBijection
<1>6. IsFiniteSet(1 .. n) /\ Cardinality(1 .. n) = n
  BY FS_Interval
<1> QED
  BY <1>5, <1>6, FS_Bijection, FS_SameCardinalityBij

(* A list is a numbering of what it lists. *)
LEMMA ListIsANumbering ==
  ASSUME NEW S, NEW seq, IsFiniteSet(S), Lists(seq, S)
  PROVE  /\ Cardinality(S) \in Nat /\ DOMAIN seq = 1 .. Cardinality(S) /\ Len(seq) = Cardinality(S)
         /\ Numbering(seq, Cardinality(S), S)
<1>1. Cardinality(S) \in Nat
  BY FS_CardinalityType
<1>2. seq \in Seq(S) /\ Len(seq) = Cardinality(S)
  BY DEF Lists
<1>3. DOMAIN seq = 1 .. Cardinality(S) /\ \A i \in 1 .. Cardinality(S) : seq[i] \in S
  BY <1>1, <1>2
<1> QED
  BY <1>1, <1>2, <1>3 DEF Lists, Numbering

(* One numbering after another. *)
Continued(f, n, g, m) == [i \in 1 .. n + m |-> IF i <= n THEN f[i] ELSE g[i - n]]

LEMMA NumberingContinues ==
  ASSUME NEW n \in Nat, NEW m \in Nat, NEW S, NEW T, NEW f, NEW g,
         Numbering(f, n, S), Numbering(g, m, T), S \cap T = {}
  PROVE  Numbering(Continued(f, n, g, m), n + m, S \cup T)
<1> DEFINE h == Continued(f, n, g, m)
<1>1. ASSUME NEW i \in 1 .. n PROVE i \in 1 .. n + m /\ h[i] = f[i]
  BY DEF Continued
<1>2. ASSUME NEW i \in 1 .. m PROVE i + n \in 1 .. n + m /\ h[i + n] = g[i]
  <2>1. i + n \in 1 .. n + m /\ ~(i + n <= n) /\ i + n - n = i
    OBVIOUS
  <2> QED
    BY <2>1 DEF Continued
<1>3. ASSUME NEW i \in 1 .. n + m PROVE i \in 1 .. n \/ \E k \in 1 .. m : i = k + n
  <2>1. CASE i <= n
    BY <2>1
  <2>2. CASE ~(i <= n)
    <3>1. i - n \in 1 .. m /\ i = i - n + n
      BY <2>2
    <3> QED
      BY <3>1
  <2> QED
    BY <2>1, <2>2
<1> HIDE DEF h
<1>4. ASSUME NEW i \in 1 .. n + m PROVE h[i] \in S \cup T
  BY <1>1, <1>2, <1>3 DEF Numbering
<1>5. ASSUME NEW x \in S \cup T PROVE \E i \in 1 .. n + m : h[i] = x
  <2>1. CASE x \in S
    <3>1. PICK i \in 1 .. n : f[i] = x
      BY <2>1 DEF Numbering
    <3> QED
      BY <1>1, <3>1
  <2>2. CASE x \in T
    <3>1. PICK i \in 1 .. m : g[i] = x
      BY <2>2 DEF Numbering
    <3> QED
      BY <1>2, <3>1
  <2> QED
    BY <2>1, <2>2
<1>6. ASSUME NEW i \in 1 .. n, NEW j \in 1 .. m PROVE h[i] # h[j + n]
  <2>1. h[i] \in S
    BY <1>1 DEF Numbering
  <2>2. h[j + n] \in T
    BY <1>2 DEF Numbering
  <2> QED
    BY <2>1, <2>2
<1>7. ASSUME NEW i \in 1 .. n + m, NEW j \in 1 .. n + m, h[i] = h[j] PROVE i = j
  <2>1. CASE i \in 1 .. n /\ j \in 1 .. n
    BY <1>1, <1>7, <2>1 DEF Numbering
  <2>2. CASE \E k, l \in 1 .. m : i = k + n /\ j = l + n
    <3>1. PICK k \in 1 .. m, l \in 1 .. m : i = k + n /\ j = l + n
      BY <2>2
    <3>2. g[k] = g[l]
      BY <1>2, <1>7, <3>1
    <3> QED
      BY <3>1, <3>2 DEF Numbering
  <2> QED
    BY <1>3, <1>6, <1>7, <2>1, <2>2
<1>8. Numbering(h, n + m, S \cup T)
  BY <1>4, <1>5, <1>7 DEF Numbering
<1> QED
  BY <1>8 DEF h

(* Rows filed one after another stand at the end of a file that was ended. *)
Upto(lines, n, rows, i) == [k \in 1 .. n + i |-> IF k <= n THEN lines[k] ELSE Line(rows[k - n])]

EndedWith(lines) == [lines |-> lines, ended |-> TRUE]
MayBeFiled(rows, m, lines, n, L) ==
  /\ lines \in [1 .. n -> L] /\ DOMAIN rows = 1 .. m /\ Len(rows) = m
  /\ \A k \in 1 .. m : Line(rows[k]) \in L

LEMMA FiledStandsAtTheEnd ==
  ASSUME NEW n \in Nat, NEW m \in Nat, NEW L, NEW lines, NEW rows, MayBeFiled(rows, m, lines, n, L),
         NEW file, file = EndedWith(lines)
  PROVE  Filed(file, rows) = EndedWith(Upto(lines, n, rows, m))
<1> USE DEF EndedWith
<1> DEFINE upto(i) == Upto(lines, n, rows, i)
           state(i) == [lines |-> upto(i), ended |-> TRUE]
           h == [i \in 0 .. m |-> state(i)]
           after == CHOOSE f : f = [i \in 0 .. Len(rows) |-> IF i = 0 THEN file ELSE Written(f[i - 1], rows[i])]
<1>0. lines \in [1 .. n -> L] /\ DOMAIN rows = 1 .. m /\ Len(rows) = m /\ \A k \in 1 .. m : Line(rows[k]) \in L
  BY DEF MayBeFiled
<1>1. Filed(file, rows) = after[Len(rows)]
  BY DEF Filed
<1>2. upto(0) = lines
  BY <1>0 DEF Upto
<1>3. ASSUME NEW i \in 0 .. m
      PROVE  upto(i) \in Seq(L) /\ Len(upto(i)) = n + i /\ \A k \in 1 .. n + i : upto(i)[k] = IF k <= n THEN lines[k] ELSE Line(rows[k - n])
  <2>1. ASSUME NEW k \in 1 .. n + i PROVE (IF k <= n THEN lines[k] ELSE Line(rows[k - n])) \in L
    <3>1. CASE k <= n
      BY <1>0, <3>1
    <3>2. CASE ~(k <= n)
      <4>1. k - n \in 1 .. m
        BY <3>2
      <4> QED
        BY <1>0, <3>2, <4>1
    <3> QED
      BY <3>1, <3>2
  <2>2. upto(i) \in [1 .. n + i -> L]
    BY <2>1 DEF Upto
  <2>3. n + i \in Nat
    OBVIOUS
  <2>4. upto(i) \in Seq(L) /\ Len(upto(i)) = n + i
    <3> HIDE DEF upto
    <3> QED
      BY <2>2, <2>3
  <2> QED
    BY <2>4 DEF Upto
<1>4. ASSUME NEW i \in 1 .. m PROVE Append(upto(i - 1), Line(rows[i])) = upto(i)
  <2> DEFINE a == upto(i - 1)
             b == upto(i)
             line == Line(rows[i])
  <2>1. i - 1 \in 0 .. m /\ i \in 0 .. m /\ line \in L /\ n + (i - 1) + 1 = n + i /\ n + (i - 1) = n + i - 1
    BY <1>0
  <2>2. /\ a \in Seq(L) /\ Len(a) = n + i - 1
        /\ \A k \in 1 .. n + i - 1 : a[k] = IF k <= n THEN lines[k] ELSE Line(rows[k - n])
    BY <1>3, <2>1
  <2>3. /\ b \in Seq(L) /\ Len(b) = n + i
        /\ \A k \in 1 .. n + i : b[k] = IF k <= n THEN lines[k] ELSE Line(rows[k - n])
    BY <1>3, <2>1
  <2> HIDE DEF a, b, upto
  <2>4. ASSUME NEW k \in 1 .. n + i - 1 PROVE b[k] = a[k]
    <3>1. k \in 1 .. n + i
      OBVIOUS
    <3>2. b[k] = IF k <= n THEN lines[k] ELSE Line(rows[k - n])
      BY <2>3, <3>1
    <3>3. a[k] = IF k <= n THEN lines[k] ELSE Line(rows[k - n])
      BY <2>2
    <3> QED
      BY <3>2, <3>3
  <2>5. b[n + i] = line
    <3>1. n + i \in 1 .. n + i /\ ~(n + i <= n) /\ n + i - n = i
      OBVIOUS
    <3> QED
      BY <2>3, <3>1
  <2> HIDE DEF line
  <2>6. Append(a, line) \in Seq(L) /\ Len(Append(a, line)) = n + i
        /\ (\A k \in 1 .. n + i - 1 : Append(a, line)[k] = a[k]) /\ Append(a, line)[n + i] = line
    BY <2>1, <2>2
  <2>7. \A k \in 1 .. n + i : Append(a, line)[k] = b[k]
    BY <2>4, <2>5, <2>6
  <2>8. Append(a, line) = b
    BY <2>3, <2>6, <2>7
  <2> QED
    BY <2>8 DEF a, b, line
<1>5. ASSUME NEW i \in 1 .. m PROVE Written(state(i - 1), rows[i]) = state(i)
  BY <1>4 DEF Written
<1> HIDE DEF upto
<1>6. state(0) = file
  BY <1>2
<1> HIDE DEF state
<1>7. h = [i \in 0 .. m |-> IF i = 0 THEN file ELSE Written(h[i - 1], rows[i])]
  <2>1. ASSUME NEW i \in 0 .. m PROVE state(i) = IF i = 0 THEN file ELSE Written(h[i - 1], rows[i])
    <3>1. CASE i = 0
      BY <1>6, <3>1
    <3>2. CASE i # 0
      <4>1. i \in 1 .. m /\ i - 1 \in 0 .. m
        BY <3>2
      <4> QED
        BY <1>5, <3>2, <4>1
    <3> QED
      BY <3>1, <3>2
  <2> QED
    BY <2>1
<1> HIDE DEF h
<1>8. after = [i \in 0 .. m |-> IF i = 0 THEN file ELSE Written(after[i - 1], rows[i])]
  BY <1>0, <1>7, Zenon
<1> HIDE DEF after
<1> DEFINE good == {i \in 0 .. m : after[i] = h[i]}
<1>9. 0 \in good
  BY <1>7, <1>8
<1>10. ASSUME NEW i \in 1 .. m, i - 1 \in good PROVE i \in good
  <2>1. i \in 0 .. m /\ i # 0 /\ after[i - 1] = h[i - 1]
    BY <1>10
  <2>2. after[i] = Written(after[i - 1], rows[i])
    BY <1>8, <2>1
  <2>3. h[i] = Written(h[i - 1], rows[i])
    BY <1>7, <2>1
  <2> QED
    BY <2>1, <2>2, <2>3
<1> HIDE DEF good
<1>11. \A i \in 0 .. m : i \in good
  BY <1>9, <1>10, StepByStep
<1>12. after[m] = h[m]
  BY <1>11 DEF good
<1>13. h[m] = state(m)
  BY DEF h
<1> QED
  BY <1>0, <1>1, <1>12, <1>13 DEF state, upto
-----------------------------------------------------------------------------
(* The journal: a row for each labelled trade of the parts so far. *)
Cells(parts, w) ==
  {c \in (DOMAIN parts) \X Nat \X (1 .. w) :
     /\ c[2] \in DOMAIN parts[c[1]].observations.spans
     /\ parts[c[1]].observations.trades[c[3]][c[2]] # NoTouch}
CellRow(parts, variants, c) ==
  [symbol |-> parts[c[1]].key, variant |-> variants[c[3]].label,
   entry_ns |-> SpanOf(parts[c[1]], c[2]).opened,
   trade |-> parts[c[1]].observations.trades[c[3]][c[2]]]
Journalled(file, parts, variants) ==
  \E n \in Nat : \E f :
    /\ Numbering(f, n, Cells(parts, Len(variants)))
    /\ file = [lines |-> [i \in 1 .. n |-> Line(CellRow(parts, variants, f[i]))], ended |-> TRUE]

TurnsUpTo(S) == [x \in S |-> {y \in S : y = x \/ InTurn(y, x)}]
TurnsBefore(S) == [x \in S |-> {y \in S : InTurn(y, x)}]

LEMMA TurnsAreOrdered ==
  ASSUME NEW S, S \subseteq Nat \X Nat
  PROVE  Ordering(S, TurnsUpTo(S)) /\ Precedes(S, TurnsUpTo(S), TurnsBefore(S))
<1>0. \A a \in S : a[1] \in Nat /\ a[2] \in Nat
  OBVIOUS
<1>1. ASSUME NEW a \in S, NEW b \in S, a # b PROVE InTurn(a, b) \/ InTurn(b, a)
  <2>1. a[1] # b[1] \/ a[2] # b[2]
    BY <1>1
  <2> QED
    BY <1>0, <2>1 DEF InTurn
<1>2. \A a, b \in S : ~(InTurn(a, b) /\ InTurn(b, a))
  BY <1>0 DEF InTurn
<1>3. \A a, b, c \in S : InTurn(a, b) /\ InTurn(b, c) => InTurn(a, c)
  BY <1>0 DEF InTurn
<1>4. \A a \in S : ~InTurn(a, a)
  BY <1>2
<1>5. /\ TurnsUpTo(S) \in [S -> SUBSET S]
      /\ \A a, b \in S : a \in TurnsUpTo(S)[b] <=> a = b \/ InTurn(a, b)
  BY DEF TurnsUpTo
<1>6. Ordering(S, TurnsUpTo(S))
  BY <1>1, <1>2, <1>3, <1>5 DEF Ordering
<1>7. ASSUME NEW x \in S PROVE TurnsBefore(S)[x] = TurnsUpTo(S)[x] \ {x}
  BY <1>4 DEF TurnsBefore, TurnsUpTo
<1> QED
  BY <1>6, <1>7 DEF Precedes

LEMMA TurnsTakeAll ==
  ASSUME NEW S, IsFiniteSet(S), S \subseteq Nat \X Nat
  PROVE  Lists(InOrder(S, InTurn), S)
<1> DEFINE seq == [i \in 1 .. Cardinality(S) |-> CHOOSE x \in S : Cardinality({y \in S : InTurn(y, x)}) = i - 1]
<1>1. InOrder(S, InTurn) = seq
  BY DEF InOrder
<1>2. ASSUME NEW i \in 1 .. Cardinality(S), NEW z \in S, Cardinality(TurnsBefore(S)[z]) = i - 1
      PROVE  seq[i] \in S /\ Cardinality(TurnsBefore(S)[seq[i]]) = i - 1
  <2>1. Cardinality({y \in S : InTurn(y, z)}) = i - 1
    BY <1>2 DEF TurnsBefore
  <2>2. seq[i] \in S /\ Cardinality({y \in S : InTurn(y, seq[i])}) = i - 1
    BY <2>1
  <2> HIDE DEF seq
  <2> QED
    BY <2>2 DEF TurnsBefore
<1>3. seq = [i \in 1 .. Cardinality(S) |-> seq[i]]
  OBVIOUS
<1> HIDE DEF seq
<1>4. Chosen(seq, S, TurnsBefore(S))
  BY <1>2, <1>3 DEF Chosen
<1>5. Lists(seq, S)
  BY <1>4, TurnsAreOrdered, ChoiceTakesAll
<1> QED
  BY <1>1, <1>5

(* The rows of one part, each labelled trade once. *)
TakenOf(observations, w) ==
  {c \in (DOMAIN observations.spans) \X (1 .. w) : observations.trades[c[2]][c[1]] # NoTouch}
RowAt(symbol, bars, variants, observations, c) ==
  [symbol |-> symbol, variant |-> variants[c[2]].label, entry_ns |-> bars[observations.spans[c[1]].opened].ts,
   trade |-> observations.trades[c[2]][c[1]]]

LEMMA JournalRowsTakeAll ==
  ASSUME NEW symbol, NEW bars, NEW variants, NEW observations, NEW w \in Nat, DOMAIN variants = 1 .. w,
         NEW m \in Nat, DOMAIN observations.spans = 1 .. m,
         NEW rows, rows = JournalRows(symbol, bars, variants, observations)
  PROVE  \E n \in Nat : \E g :
           /\ Numbering(g, n, TakenOf(observations, w))
           /\ DOMAIN rows = 1 .. n /\ Len(rows) = n
           /\ \A i \in 1 .. n : rows[i] = RowAt(symbol, bars, variants, observations, g[i])
<1> DEFINE S == TakenOf(observations, w)
           g == InOrder(S, InTurn)
           n == Cardinality(S)
<1>1. rows = [i \in DOMAIN g |-> RowAt(symbol, bars, variants, observations, g[i])]
  BY DEF JournalRows, TakenOf, RowAt
<1>2. S \subseteq (1 .. m) \X (1 .. w)
  BY DEF TakenOf
<1> HIDE DEF S
<1>3. IsFiniteSet((1 .. m) \X (1 .. w))
  <2>1. IsFiniteSet(1 .. m) /\ IsFiniteSet(1 .. w)
    BY FS_Interval
  <2> QED
    BY <2>1, FS_Product
<1>4. IsFiniteSet(S)
  BY <1>2, <1>3, FS_Subset
<1>5. S \subseteq Nat \X Nat
  BY <1>2
<1>6. Lists(g, S)
  BY <1>4, <1>5, TurnsTakeAll
<1> HIDE DEF g
<1>7. n \in Nat /\ DOMAIN g = 1 .. n /\ Numbering(g, n, S)
  BY <1>4, <1>6, ListIsANumbering
<1> HIDE DEF n
<1> DEFINE row(i) == RowAt(symbol, bars, variants, observations, g[i])
<1> HIDE DEF row
<1>8. rows = [i \in 1 .. n |-> row(i)]
  BY <1>1, <1>7 DEF row
<1>9. DOMAIN rows = 1 .. n /\ Len(rows) = n
  BY <1>7, <1>8
<1>10. \A i \in 1 .. n : rows[i] = RowAt(symbol, bars, variants, observations, g[i])
  BY <1>8 DEF row
<1> QED
  BY <1>7, <1>9, <1>10 DEF S

(* A part more, and its rows at the end of the journal. *)
OnePartMore(more, parts, n, part) ==
  /\ DOMAIN parts = 1 .. n /\ DOMAIN more = 1 .. n + 1
  /\ (\A p \in 1 .. n : more[p] = parts[p]) /\ more[n + 1] = part
NewCells(n, taken) == {<<n + 1, c[1], c[2]>> : c \in taken}
InNewCells(n, g, N) == [i \in 1 .. N |-> <<n + 1, g[i][1], g[i][2]>>]

LEMMA CellsOfOneMore ==
  ASSUME NEW n \in Nat, NEW w \in Nat, NEW parts, NEW more, NEW part, OnePartMore(more, parts, n, part),
         NEW m \in Nat, DOMAIN part.observations.spans = 1 .. m,
         NEW N \in Nat, NEW g, Numbering(g, N, TakenOf(part.observations, w))
  PROVE  /\ Cells(more, w) = Cells(parts, w) \cup NewCells(n, TakenOf(part.observations, w))
         /\ Cells(parts, w) \cap NewCells(n, TakenOf(part.observations, w)) = {}
         /\ Numbering(InNewCells(n, g, N), N, NewCells(n, TakenOf(part.observations, w)))
<1> DEFINE taken == TakenOf(part.observations, w)
           fresh == NewCells(n, taken)
<1>0. /\ DOMAIN parts = 1 .. n /\ DOMAIN more = 1 .. n + 1
      /\ (\A p \in 1 .. n : more[p] = parts[p]) /\ more[n + 1] = part
  BY DEF OnePartMore
<1>1. \A c : c \in taken <=> c \in (1 .. m) \X (1 .. w) /\ part.observations.trades[c[2]][c[1]] # NoTouch
  BY DEF TakenOf
<1>2. ASSUME NEW c \in Cells(parts, w) PROVE c \in Cells(more, w) /\ c \notin fresh
  <2>1. /\ c \in (1 .. n) \X Nat \X (1 .. w) /\ c[2] \in DOMAIN parts[c[1]].observations.spans
        /\ parts[c[1]].observations.trades[c[3]][c[2]] # NoTouch
    BY <1>0 DEF Cells
  <2>2. c[1] \in 1 .. n /\ c \in (1 .. n + 1) \X Nat \X (1 .. w)
    BY <2>1
  <2>3. more[c[1]] = parts[c[1]]
    BY <1>0, <2>2
  <2>4. c \in Cells(more, w)
    BY <1>0, <2>1, <2>2, <2>3 DEF Cells
  <2>5. c \notin fresh
    <3>1. \A d : c # <<n + 1, d[1], d[2]>>
      BY <2>2
    <3> QED
      BY <3>1 DEF NewCells
  <2> QED
    BY <2>4, <2>5
<1>3. ASSUME NEW c \in fresh PROVE c \in Cells(more, w)
  <2>1. PICK d \in taken : c = <<n + 1, d[1], d[2]>>
    BY DEF NewCells
  <2>2. d[1] \in 1 .. m /\ d[2] \in 1 .. w /\ part.observations.trades[d[2]][d[1]] # NoTouch
    BY <1>1
  <2>3. c \in (1 .. n + 1) \X Nat \X (1 .. w) /\ c[1] = n + 1 /\ c[2] = d[1] /\ c[3] = d[2]
    BY <2>1, <2>2
  <2> QED
    BY <1>0, <2>2, <2>3 DEF Cells
<1>4. ASSUME NEW c \in Cells(more, w) PROVE c \in Cells(parts, w) \/ c \in fresh
  <2>1. /\ c \in (1 .. n + 1) \X Nat \X (1 .. w) /\ c[2] \in DOMAIN more[c[1]].observations.spans
        /\ more[c[1]].observations.trades[c[3]][c[2]] # NoTouch
    BY <1>0 DEF Cells
  <2>2. c = <<c[1], c[2], c[3]>> /\ c[1] \in 1 .. n + 1 /\ c[2] \in Nat /\ c[3] \in 1 .. w
    BY <2>1
  <2>3. CASE c[1] \in 1 .. n
    <3>1. more[c[1]] = parts[c[1]]
      BY <1>0, <2>3
    <3>2. c \in (1 .. n) \X Nat \X (1 .. w)
      BY <2>2, <2>3
    <3> QED
      BY <1>0, <2>1, <3>1, <3>2 DEF Cells
  <2>4. CASE c[1] = n + 1
    <3>1. c[2] \in 1 .. m /\ part.observations.trades[c[3]][c[2]] # NoTouch
      BY <1>0, <2>1, <2>4
    <3> DEFINE d == <<c[2], c[3]>>
    <3>2. d \in taken /\ c = <<n + 1, d[1], d[2]>>
      BY <1>1, <2>2, <2>4, <3>1
    <3> QED
      BY <3>2 DEF NewCells
  <2> QED
    BY <2>2, <2>3, <2>4
<1> DEFINE h == [i \in 1 .. N |-> <<n + 1, g[i][1], g[i][2]>>]
<1>5. ASSUME NEW i \in 1 .. N PROVE h[i] \in fresh
  BY DEF Numbering, NewCells
<1>6. ASSUME NEW c \in fresh PROVE \E i \in 1 .. N : h[i] = c
  <2>1. PICK d \in taken : c = <<n + 1, d[1], d[2]>>
    BY DEF NewCells
  <2>2. PICK i \in 1 .. N : g[i] = d
    BY DEF Numbering
  <2> QED
    BY <2>1, <2>2
<1>7. ASSUME NEW i \in 1 .. N, NEW j \in 1 .. N, h[i] = h[j] PROVE i = j
  <2>1. g[i] \in taken /\ g[j] \in taken
    BY DEF Numbering
  <2>2. g[i] = <<g[i][1], g[i][2]>> /\ g[j] = <<g[j][1], g[j][2]>>
    BY <1>1, <2>1
  <2>3. h[i] = <<n + 1, g[i][1], g[i][2]>> /\ h[j] = <<n + 1, g[j][1], g[j][2]>>
    OBVIOUS
  <2>4. g[i][1] = g[j][1] /\ g[i][2] = g[j][2]
    BY <1>7, <2>3
  <2>5. g[i] = g[j]
    BY <2>2, <2>4
  <2> QED
    BY <2>5 DEF Numbering
<1> HIDE DEF h, fresh
<1>8. Numbering(h, N, fresh)
  BY <1>5, <1>6, <1>7 DEF Numbering
<1>9. Cells(more, w) = Cells(parts, w) \cup fresh
  BY <1>2, <1>3, <1>4
<1>10. Cells(parts, w) \cap fresh = {}
  BY <1>2
<1> QED
  BY <1>8, <1>9, <1>10 DEF h, fresh, InNewCells

LEMMA JournalGrows ==
  ASSUME NEW n \in Nat, NEW variants, Len(variants) \in Nat, DOMAIN variants = 1 .. Len(variants),
         NEW parts, NEW more, NEW part, OnePartMore(more, parts, n, part),
         NEW m \in Nat, DOMAIN part.observations.spans = 1 .. m,
         NEW bars, \A k \in 1 .. m : SpanOf(part, k).opened = bars[part.observations.spans[k].opened].ts,
         NEW file, Journalled(file, parts, variants)
  PROVE  Journalled(Filed(file, JournalRows(part.key, bars, variants, part.observations)), more, variants)
<1> DEFINE w == Len(variants)
           rows == JournalRows(part.key, bars, variants, part.observations)
           taken == TakenOf(part.observations, w)
           row(c) == CellRow(more, variants, c)
<1>0. w \in Nat /\ DOMAIN variants = 1 .. w
  OBVIOUS
<1>1. PICK N \in Nat : \E f :
        /\ Numbering(f, N, Cells(parts, w))
        /\ file = [lines |-> [i \in 1 .. N |-> Line(CellRow(parts, variants, f[i]))], ended |-> TRUE]
  BY DEF Journalled
<1>11. PICK f :
        /\ Numbering(f, N, Cells(parts, w))
        /\ file = [lines |-> [i \in 1 .. N |-> Line(CellRow(parts, variants, f[i]))], ended |-> TRUE]
  BY <1>1
<1> HIDE DEF w
<1>2. PICK M \in Nat : \E g :
        /\ Numbering(g, M, taken)
        /\ DOMAIN rows = 1 .. M /\ Len(rows) = M
        /\ \A i \in 1 .. M : rows[i] = RowAt(part.key, bars, variants, part.observations, g[i])
  BY <1>0, JournalRowsTakeAll
<1>12. PICK g :
        /\ Numbering(g, M, taken)
        /\ DOMAIN rows = 1 .. M /\ Len(rows) = M
        /\ \A i \in 1 .. M : rows[i] = RowAt(part.key, bars, variants, part.observations, g[i])
  BY <1>2
<1> DEFINE h == InNewCells(n, g, M)
           both == Continued(f, N, h, M)
<1>3. /\ Cells(more, w) = Cells(parts, w) \cup NewCells(n, taken)
      /\ Cells(parts, w) \cap NewCells(n, taken) = {}
      /\ Numbering(h, M, NewCells(n, taken))
  <2>1. Numbering(g, M, TakenOf(part.observations, w))
    BY <1>12
  <2> QED
    BY <1>0, <2>1, CellsOfOneMore
<1>4. Numbering(both, N + M, Cells(more, w))
  <2> HIDE DEF h, both
  <2>1. Numbering(Continued(f, N, h, M), N + M, Cells(parts, w) \cup NewCells(n, taken))
    BY <1>11, <1>3, NumberingContinues
  <2> QED
    BY <1>3, <2>1 DEF both
<1>5. ASSUME NEW i \in 1 .. N PROVE CellRow(parts, variants, f[i]) = row(f[i])
  <2>1. f[i] \in Cells(parts, w)
    BY <1>11 DEF Numbering
  <2>2. more[f[i][1]] = parts[f[i][1]]
    BY <2>1 DEF Cells, OnePartMore
  <2> QED
    BY <2>2 DEF CellRow
<1>6. ASSUME NEW i \in 1 .. M PROVE rows[i] = row(h[i])
  <2>1. g[i] \in taken /\ rows[i] = RowAt(part.key, bars, variants, part.observations, g[i])
    BY <1>12 DEF Numbering
  <2>2. g[i][1] \in 1 .. m /\ h[i][1] = n + 1 /\ h[i][2] = g[i][1] /\ h[i][3] = g[i][2]
    BY <2>1 DEF TakenOf, InNewCells
  <2>3. more[h[i][1]] = part
    BY <2>2 DEF OnePartMore
  <2>4. SpanOf(part, g[i][1]).opened = bars[part.observations.spans[g[i][1]].opened].ts
    BY <2>2
  <2> QED
    BY <2>1, <2>2, <2>3, <2>4 DEF RowAt, CellRow
<1> HIDE DEF row, rows, h
<1> DEFINE L == {Line(row(f[i])) : i \in 1 .. N} \cup {Line(rows[i]) : i \in 1 .. M}
           lines == [i \in 1 .. N |-> Line(row(f[i]))]
<1>7. file = EndedWith(lines)
  BY <1>11, <1>5 DEF EndedWith
<1>8. MayBeFiled(rows, M, lines, N, L)
  BY <1>12 DEF MayBeFiled
<1> HIDE DEF L, lines
<1>9. Filed(file, rows) = EndedWith(Upto(lines, N, rows, M))
  BY <1>7, <1>8, FiledStandsAtTheEnd
<1>10. Upto(lines, N, rows, M) = [i \in 1 .. N + M |-> Line(row(both[i]))]
  <2>1. ASSUME NEW i \in 1 .. N + M
        PROVE  (IF i <= N THEN lines[i] ELSE Line(rows[i - N])) = Line(row(both[i]))
    <3>1. CASE i <= N
      <4>1. i \in 1 .. N /\ both[i] = f[i]
        BY <3>1 DEF both, Continued
      <4>2. lines[i] = Line(row(f[i]))
        BY <4>1 DEF lines
      <4> QED
        BY <3>1, <4>1, <4>2
    <3>2. CASE ~(i <= N)
      <4>1. i - N \in 1 .. M /\ both[i] = h[i - N]
        BY <3>2 DEF both, Continued
      <4>2. rows[i - N] = row(h[i - N])
        BY <1>6, <4>1
      <4> QED
        BY <3>2, <4>1, <4>2
    <3> QED
      BY <3>1, <3>2
  <2> HIDE DEF both
  <2> QED
    BY <2>1 DEF Upto
<1> HIDE DEF both
<1>13. N + M \in Nat
  OBVIOUS
<1>14. Journalled(Filed(file, rows), more, variants)
  BY <1>4, <1>9, <1>10, <1>13 DEF Journalled, EndedWith, row, w
<1> QED
  BY <1>14 DEF rows

LEMMA NothingIsJournalled ==
  ASSUME NEW parts, DOMAIN parts = {}, NEW variants
  PROVE  Journalled(EmptyFile, parts, variants)
<1>1. Cells(parts, Len(variants)) = {}
  BY DEF Cells
<1> DEFINE none == [i \in 1 .. 0 |-> i]
<1>2. Numbering(none, 0, Cells(parts, Len(variants)))
  BY <1>1 DEF Numbering
<1>3. [i \in 1 .. 0 |-> Line(CellRow(parts, variants, none[i]))] = <<>>
  OBVIOUS
<1> HIDE DEF none
<1> QED
  BY <1>2, <1>3 DEF Journalled, EmptyFile

(* What the journal of a run reads back as, once the parts are pooled. *)
PooledCells(pooled, w, n) == {d \in (1 .. w) \X (1 .. n) : pooled.trades[d[1]][d[2]] # NoTouch}
PooledRowOf(pooled, variants, d) ==
  [symbol |-> pooled.keys[d[2]], variant |-> variants[d[1]].label,
   entry_ns |-> pooled.spans[d[2]].opened, trade |-> pooled.trades[d[1]][d[2]]]
CellOf(part, position, d) == <<part[d[2]], position[d[2]], d[1]>>

LEMMA PooledCellsAreCells ==
  ASSUME NEW w \in Nat, NEW n \in Nat, NEW parts, NEW variants, NEW pooled, NEW part, NEW position,
         Pooling(pooled, parts, w, n, part, position),
         \A p \in DOMAIN parts : \A k \in DOMAIN parts[p].observations.spans : k \in Nat
  PROVE  /\ \A d \in PooledCells(pooled, w, n) :
              /\ CellOf(part, position, d) \in Cells(parts, w)
              /\ CellRow(parts, variants, CellOf(part, position, d)) = PooledRowOf(pooled, variants, d)
         /\ \A c \in Cells(parts, w) : \E d \in PooledCells(pooled, w, n) : CellOf(part, position, d) = c
         /\ \A d, e \in PooledCells(pooled, w, n) :
              CellOf(part, position, d) = CellOf(part, position, e) => d = e
<1> DEFINE S == PooledCells(pooled, w, n)
           cell(d) == CellOf(part, position, d)
<1>1. ASSUME NEW d \in S
      PROVE  /\ d[1] \in 1 .. w /\ d[2] \in 1 .. n /\ d = <<d[1], d[2]>> /\ pooled.trades[d[1]][d[2]] # NoTouch
             /\ cell(d) = <<part[d[2]], position[d[2]], d[1]>>
             /\ cell(d)[1] = part[d[2]] /\ cell(d)[2] = position[d[2]] /\ cell(d)[3] = d[1]
  <2>1. d \in (1 .. w) \X (1 .. n) /\ pooled.trades[d[1]][d[2]] # NoTouch
    BY DEF PooledCells
  <2>2. cell(d) = <<part[d[2]], position[d[2]], d[1]>>
    BY DEF CellOf
  <2> HIDE DEF cell
  <2> QED
    BY <2>1, <2>2
<1> HIDE DEF S, cell
<1>2. ASSUME NEW i \in 1 .. n, NEW v \in 1 .. w
      PROVE  /\ part[i] \in DOMAIN parts /\ position[i] \in DOMAIN parts[part[i]].observations.spans
             /\ pooled.keys[i] = parts[part[i]].key
             /\ pooled.spans[i] = SpanOf(parts[part[i]], position[i])
             /\ pooled.trades[v][i] = parts[part[i]].observations.trades[v][position[i]]
  BY DEF Pooling
<1>3. ASSUME NEW d \in S PROVE cell(d) \in Cells(parts, w)
  <2>1. part[d[2]] \in DOMAIN parts /\ position[d[2]] \in DOMAIN parts[part[d[2]]].observations.spans
    BY <1>1, <1>2
  <2>2. parts[part[d[2]]].observations.trades[d[1]][position[d[2]]] # NoTouch
    BY <1>1, <1>2
  <2>3. position[d[2]] \in Nat
    BY <2>1
  <2>4. cell(d) \in (DOMAIN parts) \X Nat \X (1 .. w)
    BY <1>1, <2>1, <2>3
  <2> QED
    BY <1>1, <2>1, <2>2, <2>4 DEF Cells
<1>4. ASSUME NEW d \in S PROVE CellRow(parts, variants, cell(d)) = PooledRowOf(pooled, variants, d)
  <2>1. /\ pooled.keys[d[2]] = parts[part[d[2]]].key
        /\ pooled.spans[d[2]] = SpanOf(parts[part[d[2]]], position[d[2]])
        /\ pooled.trades[d[1]][d[2]] = parts[part[d[2]]].observations.trades[d[1]][position[d[2]]]
    BY <1>1, <1>2
  <2>2. /\ cell(d)[1] = part[d[2]] /\ cell(d)[2] = position[d[2]] /\ cell(d)[3] = d[1]
    BY <1>1
  <2> QED
    BY <2>1, <2>2 DEF CellRow, PooledRowOf
<1>5. ASSUME NEW c \in Cells(parts, w) PROVE \E d \in S : cell(d) = c
  <2>1. /\ c \in (DOMAIN parts) \X Nat \X (1 .. w) /\ c[2] \in DOMAIN parts[c[1]].observations.spans
        /\ parts[c[1]].observations.trades[c[3]][c[2]] # NoTouch
    BY DEF Cells
  <2>2. c = <<c[1], c[2], c[3]>> /\ c[1] \in DOMAIN parts /\ c[3] \in 1 .. w
    BY <2>1
  <2>3. PICK i \in 1 .. n : part[i] = c[1] /\ position[i] = c[2]
    BY <2>1, <2>2 DEF Pooling
  <2>4. pooled.trades[c[3]][i] # NoTouch
    BY <1>2, <2>1, <2>2, <2>3
  <2> DEFINE d == <<c[3], i>>
  <2>5. d \in (1 .. w) \X (1 .. n) /\ d[1] = c[3] /\ d[2] = i
    BY <2>2
  <2> HIDE DEF d
  <2>6. d \in S
    BY <2>4, <2>5 DEF S, PooledCells
  <2>7. cell(d) = c
    BY <1>1, <2>2, <2>3, <2>5, <2>6
  <2> QED
    BY <2>6, <2>7
<1>6. ASSUME NEW d \in S, NEW e \in S, cell(d) = cell(e) PROVE d = e
  <2>1. part[d[2]] = part[e[2]] /\ position[d[2]] = position[e[2]] /\ d[1] = e[1]
    BY <1>1, <1>6
  <2>2. d[2] \in 1 .. n /\ e[2] \in 1 .. n /\ d = <<d[1], d[2]>> /\ e = <<e[1], e[2]>>
    BY <1>1
  <2>3. d[2] = e[2]
    BY <2>1, <2>2 DEF Pooling
  <2> QED
    BY <2>1, <2>2, <2>3
<1> QED
  BY <1>3, <1>4, <1>5, <1>6 DEF S, cell

LEMMA JournalIsOfThePool ==
  ASSUME NEW variants, Len(variants) \in Nat, NEW n \in Nat, NEW parts, NEW pooled, NEW part, NEW position,
         Pooling(pooled, parts, Len(variants), n, part, position),
         \A p \in DOMAIN parts : \A k \in DOMAIN parts[p].observations.spans : k \in Nat,
         NEW file, Journalled(file, parts, variants)
  PROVE  /\ Legible(file)
         /\ Len(RowsOf(file)) = Cardinality(PooledCells(pooled, Len(variants), n))
         /\ Range(RowsOf(file)) = {PooledRowOf(pooled, variants, d) : d \in PooledCells(pooled, Len(variants), n)}
<1> DEFINE w == Len(variants)
           C == Cells(parts, w)
           S == PooledCells(pooled, w, n)
           row(c) == CellRow(parts, variants, c)
           A == {row(c) : c \in C}
           cell(d) == CellOf(part, position, d)
           rows == RowsOf(file)
<1>1. PICK N \in Nat : \E f :
        /\ Numbering(f, N, C)
        /\ file = [lines |-> [i \in 1 .. N |-> Line(row(f[i]))], ended |-> TRUE]
  BY DEF Journalled
<1>2. PICK f :
        /\ Numbering(f, N, C)
        /\ file = [lines |-> [i \in 1 .. N |-> Line(row(f[i]))], ended |-> TRUE]
  BY <1>1
<1>3. /\ \A d \in S : cell(d) \in C /\ row(cell(d)) = PooledRowOf(pooled, variants, d)
      /\ \A c \in C : \E d \in S : cell(d) = c
      /\ \A d, e \in S : cell(d) = cell(e) => d = e
  BY PooledCellsAreCells
<1> HIDE DEF w, C, S, row, cell
<1> DEFINE lines == [i \in 1 .. N |-> Line(row(f[i]))]
<1>4. file.lines = lines /\ file.ended = TRUE
  BY <1>2
<1>5. \A i \in 1 .. N : f[i] \in C
  BY <1>2 DEF Numbering
<1>6. lines \in Seq(LinesOf(A)) /\ Len(lines) = N /\ DOMAIN lines = 1 .. N
  <2>1. \A i \in 1 .. N : Line(row(f[i])) \in LinesOf(A)
    BY <1>5 DEF LinesOf
  <2> HIDE DEF A
  <2>2. lines \in [1 .. N -> LinesOf(A)]
    BY <2>1
  <2> QED
    BY <2>2
<1>7. \A i \in 1 .. N : lines[i] = Line(row(f[i]))
  OBVIOUS
<1> HIDE DEF lines
<1>8. Legible(file)
  <2>1. \A i \in 1 .. N : lines[i].readable
    BY <1>7, LinesRead
  <2> QED
    BY <1>4, <1>6, <2>1 DEF Legible
<1>9. Holds(file, A)
  <2>1. ASSUME NEW t \in A PROVE \E i \in DOMAIN file.lines : file.lines[i] = Line(t)
    <3>1. PICK c \in C : t = row(c)
      OBVIOUS
    <3>2. PICK i \in 1 .. N : f[i] = c
      BY <1>2 DEF Numbering
    <3> QED
      BY <1>4, <1>6, <1>7, <3>1, <3>2
  <2> HIDE DEF A
  <2> QED
    BY <1>4, <1>6, <2>1 DEF Holds
<1>10. /\ DOMAIN rows = 1 .. N
       /\ \A k \in 1 .. N : lines[k] = Line(rows[k]) /\ rows[k] \in A
       /\ \A t \in A : \E k \in 1 .. N : rows[k] = t
  <2> HIDE DEF A, rows
  <2> QED
    BY <1>4, <1>6, <1>8, <1>9, EveryRowIsRead DEF rows
<1>11. rows = [k \in DOMAIN rows |-> rows[k]]
  BY DEF RowsOf
<1> HIDE DEF rows
<1>12. Len(rows) = N /\ Range(rows) = A
  <2> HIDE DEF A
  <2>1. rows \in [1 .. N -> A]
    BY <1>10, <1>11
  <2>2. Len(rows) = N
    BY <2>1
  <2>3. Range(rows) = A
    BY <1>10 DEF Range
  <2> QED
    BY <2>2, <2>3
<1>13. A = {PooledRowOf(pooled, variants, d) : d \in S}
  BY <1>3
<1> DEFINE g == [j \in 1 .. N |-> CHOOSE d \in S : cell(d) = f[j]]
<1>14. ASSUME NEW j \in 1 .. N PROVE g[j] \in S /\ cell(g[j]) = f[j]
  BY <1>3, <1>5
<1> HIDE DEF g
<1>15. ASSUME NEW d \in S PROVE \E j \in 1 .. N : g[j] = d
  <2>1. cell(d) \in C
    BY <1>3
  <2>2. PICK j \in 1 .. N : f[j] = cell(d)
    BY <1>2, <2>1 DEF Numbering
  <2> QED
    BY <1>3, <1>14, <2>2
<1>16. ASSUME NEW i \in 1 .. N, NEW j \in 1 .. N, g[i] = g[j] PROVE i = j
  <2>1. f[i] = f[j]
    BY <1>14, <1>16
  <2> QED
    BY <1>2, <2>1 DEF Numbering
<1>17. Numbering(g, N, S)
  BY <1>14, <1>15, <1>16 DEF Numbering
<1>18. Cardinality(S) = N
  BY <1>17, NumberingCounts
<1> QED
  BY <1>8, <1>12, <1>13, <1>18 DEF rows, S, w
-----------------------------------------------------------------------------
(* The regimes: a day with a range before it falls in one third of them. *)
LEMMA EveryDayHasABucket ==
  ASSUME NEW volatility
  PROVE  /\ DOMAIN BucketSessions(volatility) = DOMAIN volatility
         /\ \A day \in DOMAIN volatility : BucketSessions(volatility)[day] \in Buckets
BY DEF BucketSessions, Buckets

(* A row is in the regime of the day it opened on, and in no other. *)
Regimes == BucketSessions(TrailingVolatility(corpus))
InRegime(pooled, i, b) ==
  DayOf(pooled.spans[i].opened) \in DOMAIN Regimes /\ Regimes[DayOf(pooled.spans[i].opened)] = b

LEMMA RegimesShareOut ==
  ASSUME NEW pooled, NEW best, NEW n \in Nat, DOMAIN pooled.spans = 1 .. n, DOMAIN pooled.trades[best] = 1 .. n
  PROVE  CoverageOf(pooled, best)["LOW"].n_trades + CoverageOf(pooled, best)["MID"].n_trades
           + CoverageOf(pooled, best)["HIGH"].n_trades
         = Cardinality({i \in Taken(pooled.trades[best]) : DayOf(pooled.spans[i].opened) \in DOMAIN TrailingVolatility(corpus)})
<1> DEFINE column == pooled.trades[best]
           in(b) == {i \in Taken(column) : InRegime(pooled, i, b)}
           masked(b) == [i \in DOMAIN pooled.spans |-> IF InRegime(pooled, i, b) THEN column[i] ELSE NoTouch]
           all == {i \in Taken(column) : DayOf(pooled.spans[i].opened) \in DOMAIN TrailingVolatility(corpus)}
<1>1. ASSUME NEW b \in Buckets PROVE CoverageOf(pooled, best)[b] = Tally(masked(b))
  BY DEF CoverageOf, InRegime, Regimes
<1>2. ASSUME NEW b \in Buckets PROVE Taken(masked(b)) = in(b)
  BY DEF Taken
<1>3. ASSUME NEW b \in Buckets PROVE CoverageOf(pooled, best)[b].n_trades = Cardinality(in(b))
  <2>1. Tally(masked(b)).n_trades = Cardinality(Taken(masked(b)))
    BY DEF Tally
  <2> HIDE DEF masked, in
  <2> QED
    BY <1>1, <1>2, <2>1
<1>4. IsFiniteSet(Taken(column))
  <2>1. IsFiniteSet(1 .. n) /\ Taken(column) \in SUBSET (1 .. n)
    BY FS_Interval DEF Taken
  <2> QED
    BY <2>1, FS_Subset
<1>5. ASSUME NEW b \in Buckets PROVE in(b) \in SUBSET Taken(column)
  OBVIOUS
<1>6. in("LOW") \cup in("MID") \cup in("HIGH") = all
  <2>1. ASSUME NEW i \in all PROVE i \in in("LOW") \/ i \in in("MID") \/ i \in in("HIGH")
    BY EveryDayHasABucket DEF InRegime, Regimes, Buckets
  <2>2. ASSUME NEW b \in Buckets, NEW i \in in(b) PROVE i \in all
    BY EveryDayHasABucket DEF InRegime, Regimes
  <2>3. {"LOW", "MID", "HIGH"} \subseteq Buckets
    BY DEF Buckets
  <2> HIDE DEF in, all
  <2> QED
    BY <2>1, <2>2, <2>3
<1>7. in("LOW") \cap in("MID") = {} /\ (in("LOW") \cup in("MID")) \cap in("HIGH") = {}
  BY DEF InRegime
<1>8. /\ CoverageOf(pooled, best)["LOW"].n_trades = Cardinality(in("LOW"))
      /\ CoverageOf(pooled, best)["MID"].n_trades = Cardinality(in("MID"))
      /\ CoverageOf(pooled, best)["HIGH"].n_trades = Cardinality(in("HIGH"))
  <2> HIDE DEF in
  <2> QED
    BY <1>3 DEF Buckets
<1>9. in("LOW") \in SUBSET Taken(column) /\ in("MID") \in SUBSET Taken(column) /\ in("HIGH") \in SUBSET Taken(column)
  BY DEF Buckets
<1> DEFINE l == in("LOW")
           m == in("MID")
           h == in("HIGH")
<1>10. IsFiniteSet(l) /\ IsFiniteSet(m) /\ IsFiniteSet(h)
  BY <1>4, <1>9, FS_Subset
<1> HIDE DEF in, all
<1>11. l \cup m \cup h = all /\ l \cap m = {} /\ (l \cup m) \cap h = {}
  BY <1>6, <1>7
<1> HIDE DEF l, m, h
<1>12. /\ Cardinality(l) \in Nat /\ Cardinality(m) \in Nat /\ Cardinality(h) \in Nat
  BY <1>10, FS_CardinalityType
<1>13. IsFiniteSet(l \cup m) /\ Cardinality(l \cup m) = Cardinality(l) + Cardinality(m) - Cardinality(l \cap m)
  BY <1>10, FS_Union
<1>14. Cardinality(l \cup m \cup h) = Cardinality(l \cup m) + Cardinality(h) - Cardinality((l \cup m) \cap h)
  BY <1>10, <1>13, FS_Union
<1>15. Cardinality({}) = 0
  BY FS_EmptySet
<1>16. Cardinality(all) = Cardinality(l) + Cardinality(m) + Cardinality(h)
  <2>1. Cardinality(l \cap m) = 0 /\ Cardinality((l \cup m) \cap h) = 0
    BY <1>11, <1>15
  <2>2. Cardinality(all) = Cardinality(l \cup m) + Cardinality(h) - Cardinality((l \cup m) \cap h)
    BY <1>11, <1>14
  <2> QED
    BY <1>12, <1>13, <2>1, <2>2
<1> QED
  BY <1>8, <1>16 DEF all, l, m, h
-----------------------------------------------------------------------------
(* Of scores whose second term is positive one is the best: being worse is  *)
(* handed on.                                                              *)
Ranking == Int \X (Nat \ {0})

LEMMA SmallerProduct ==
  ASSUME NEW a \in Int, NEW b \in Int, NEW d \in Nat \ {0}
  PROVE  a < b <=> a * d < b * d
<1>1. a < b => a * d < b * d
  <2> SUFFICES ASSUME a < b PROVE a * d < b * d
    OBVIOUS
  <2>1. a + 1 <= b /\ a + 1 \in Int /\ d \in Nat
    OBVIOUS
  <2>2. (a + 1) * d <= b * d /\ b * d \in Int
    BY <2>1, GreaterProduct
  <2>3. (a + 1) * d = a * d + d /\ a * d \in Int
    OBVIOUS
  <2> DEFINE p == a * d
             q == b * d
             r == (a + 1) * d
  <2>4. r <= q /\ r = p + d /\ p \in Int /\ q \in Int
    BY <2>2, <2>3
  <2> HIDE DEF p, q, r
  <2>5. p < q
    BY <2>4
  <2> QED
    BY <2>5 DEF p, q
<1>2. b <= a => b * d <= a * d /\ a * d \in Int /\ b * d \in Int
  <2>1. d \in Nat
    OBVIOUS
  <2> QED
    BY <2>1, GreaterProduct
<1> DEFINE p == a * d
           q == b * d
<1>3. p \in Int /\ q \in Int
  OBVIOUS
<1>4. (a < b => p < q) /\ (b <= a => q <= p)
  BY <1>1, <1>2
<1> HIDE DEF p, q
<1>5. a < b <=> p < q
  BY <1>3, <1>4
<1> QED
  BY <1>5 DEF p, q

LEMMA WorseIsHandedOn ==
  ASSUME NEW a \in Ranking, NEW b \in Ranking, NEW c \in Ranking, Worse(a, b), Worse(b, c)
  PROVE  Worse(a, c)
<1> DEFINE A == SignedSquare(a[1])
           B == SignedSquare(b[1])
           C == SignedSquare(c[1])
           x == a[2]
           y == b[2]
           z == c[2]
<1>1. A \in Int /\ B \in Int /\ C \in Int
  BY DEF SignedSquare, Ranking
<1>2. x \in Nat \ {0} /\ y \in Nat \ {0} /\ z \in Nat \ {0}
  BY DEF Ranking
<1>3. A * y < B * x /\ B * z < C * y
  BY DEF Worse
<1>4. Worse(a, c) <=> A * z < C * x
  BY DEF Worse
<1> HIDE DEF A, B, C, x, y, z
<1>5. A * y \in Int /\ B * x \in Int /\ B * z \in Int /\ C * y \in Int /\ A * z \in Int /\ C * x \in Int
  BY <1>1, <1>2
<1>6. (A * y) * z < (B * x) * z
  BY <1>2, <1>3, <1>5, SmallerProduct
<1>7. (B * z) * x < (C * y) * x
  BY <1>2, <1>3, <1>5, SmallerProduct
<1>8. (B * x) * z = (B * z) * x
  BY <1>1, <1>2
<1>9. (A * y) * z = (A * z) * y
  BY <1>1, <1>2
<1>10. (C * y) * x = (C * x) * y
  BY <1>1, <1>2
<1> DEFINE p == (A * z) * y
           q == (B * z) * x
           r == (C * x) * y
<1>11. p < q /\ q < r /\ p \in Int /\ q \in Int /\ r \in Int
  BY <1>1, <1>2, <1>6, <1>7, <1>8, <1>9, <1>10
<1> HIDE DEF p, q, r
<1>12. p < r
  BY <1>11
<1>13. (A * z) * y < (C * x) * y
  BY <1>12 DEF p, r
<1>14. A * z < C * x
  BY <1>2, <1>5, <1>13, SmallerProduct
<1> QED
  BY <1>4, <1>14

LEMMA BestIsAmongThem ==
  ASSUME NEW n \in Nat \ {0}, NEW scores \in [1 .. n -> Ranking]
  PROVE  FirstBest(scores) \in 1 .. n
<1> DEFINE tops(k, c) == c \in 1 .. k /\ \A d \in 1 .. k : ~Worse(scores[c], scores[d])
           good == {k \in 0 .. n : k = 0 \/ \E c \in 1 .. k : tops(k, c)}
           best == {c \in DOMAIN scores : \A d \in DOMAIN scores : ~Worse(scores[c], scores[d])}
<1>1. \A a \in Ranking : ~Worse(a, a)
  <2> SUFFICES ASSUME NEW a \in Ranking PROVE ~Worse(a, a)
    OBVIOUS
  <2>1. a \in Scored
    BY DEF Ranking, Scored
  <2> QED
    BY <2>1, WorseIsOneWay
<1>2. 0 \in good
  OBVIOUS
<1>3. ASSUME NEW k \in 1 .. n, k - 1 \in good PROVE k \in good
  <2>1. scores[k] \in Ranking
    OBVIOUS
  <2>2. CASE k = 1
    <3>1. tops(k, 1)
      BY <1>1, <2>1, <2>2
    <3> QED
      BY <2>2, <3>1
  <2>3. CASE k # 1
    <3>1. PICK c \in 1 .. k - 1 : tops(k - 1, c)
      BY <1>3, <2>3
    <3>2. c \in 1 .. n /\ c \in 1 .. k /\ scores[c] \in Ranking /\ \A d \in 1 .. k : d \in 1 .. k - 1 \/ d = k
      BY <3>1
    <3>3. CASE Worse(scores[c], scores[k])
      <4>1. ASSUME NEW d \in 1 .. k PROVE ~Worse(scores[k], scores[d])
        <5>1. CASE d = k
          BY <1>1, <2>1, <5>1
        <5>2. CASE d \in 1 .. k - 1
          <6>1. scores[d] \in Ranking /\ ~Worse(scores[c], scores[d])
            BY <3>1, <5>2
          <6> QED
            BY <2>1, <3>2, <3>3, <6>1, WorseIsHandedOn
        <5> QED
          BY <3>2, <5>1, <5>2
      <4>2. tops(k, k)
        BY <4>1
      <4> QED
        BY <4>2
    <3>4. CASE ~Worse(scores[c], scores[k])
      <4>1. tops(k, c)
        BY <3>1, <3>2, <3>4
      <4> QED
        BY <3>2, <4>1
    <3> QED
      BY <3>3, <3>4
  <2> QED
    BY <2>2, <2>3
<1> HIDE DEF good
<1>4. n \in good
  BY <1>2, <1>3, StepByStep
<1>5. PICK c \in 1 .. n : tops(n, c)
  BY <1>4 DEF good
<1>6. DOMAIN scores = 1 .. n
  OBVIOUS
<1>7. best # {} /\ best \in SUBSET Nat
  BY <1>5, <1>6
<1>8. Min(best) \in best
  <2> HIDE DEF best
  <2> QED
    BY <1>7, LeastMember
<1>9. FirstBest(scores) = Min(best)
  BY DEF FirstBest
<1> HIDE DEF best
<1>10. best \in SUBSET (1 .. n)
  BY <1>6 DEF best
<1> QED
  BY <1>8, <1>9, <1>10

LEMMA RankedByMoments ==
  ASSUME NEW m \in Nat, NEW series \in [1 .. m -> Int], HasSharpe(series)
  PROVE  Moments(series) \in Ranking
<1>1. SharpeOrFlat(series) = Moments(series) /\ Moments(series)[2] > 0
  BY DEF SharpeOrFlat, HasSharpe
<1>2. Moments(series) \in Scored
  BY <1>1, SharpeIsAPair
<1> HIDE DEF Moments
<1> QED
  BY <1>1, <1>2 DEF Scored, Ranking
-----------------------------------------------------------------------------
(* What stands earlier in a list comes earlier in the order. *)
LEMMA RanksAscend ==
  ASSUME NEW S, IsFiniteSet(S), NEW below, Ordering(S, below), NEW seq, Ranked(seq, S, below),
         NEW i \in 1 .. Cardinality(S), NEW j \in 1 .. Cardinality(S), i < j
  PROVE  seq[i] \in S /\ seq[j] \in S /\ seq[i] \in below[seq[j]] /\ seq[i] # seq[j]
<1>1. /\ seq[i] \in S /\ Cardinality(below[seq[i]]) = i
      /\ seq[j] \in S /\ Cardinality(below[seq[j]]) = j
  BY DEF Ranked
<1>2. Cardinality(S) \in Nat
  BY FS_CardinalityType
<1>3. seq[i] # seq[j]
  BY <1>1, <1>2
<1>4. CASE seq[j] \in below[seq[i]]
  <2>1. below[seq[j]] \in SUBSET below[seq[i]]
    BY <1>1, <1>4 DEF Ordering
  <2>2. IsFiniteSet(below[seq[i]])
    BY <1>1, RankIsAPlace
  <2>3. Cardinality(below[seq[j]]) <= Cardinality(below[seq[i]])
    BY <2>1, <2>2, FS_Subset
  <2> QED
    BY <1>1, <1>2, <2>3
<1>5. seq[i] \in below[seq[j]]
  BY <1>1, <1>4 DEF Ordering
<1> QED
  BY <1>1, <1>3, <1>5

(* The levels of the curve, dearer and dearer. *)
ScaleUpTo(S) == [x \in S |-> {y \in S : y = x \/ ByScale(y, x)}]
ScaleBefore(S) == [x \in S |-> {y \in S : ByScale(y, x)}]
Priced(S) ==
  /\ \A a \in S : a.scale \in Nat
  /\ \A a, b \in S : a.scale = b.scale => a = b

LEMMA LevelsAreOrdered ==
  ASSUME NEW S, Priced(S)
  PROVE  Ordering(S, ScaleUpTo(S)) /\ Precedes(S, ScaleUpTo(S), ScaleBefore(S))
<1>1. \A a, b \in S : (a # b => ByScale(a, b) \/ ByScale(b, a)) /\ ~(ByScale(a, b) /\ ByScale(b, a))
  BY DEF ByScale, Priced
<1>2. \A a, b, c \in S : ByScale(a, b) /\ ByScale(b, c) => ByScale(a, c)
  BY DEF ByScale, Priced
<1>3. \A a \in S : ~ByScale(a, a)
  BY <1>1
<1>4. /\ ScaleUpTo(S) \in [S -> SUBSET S]
      /\ \A a, b \in S : a \in ScaleUpTo(S)[b] <=> a = b \/ ByScale(a, b)
  BY DEF ScaleUpTo
<1>5. Ordering(S, ScaleUpTo(S))
  BY <1>1, <1>2, <1>4 DEF Ordering
<1>6. ASSUME NEW x \in S PROVE ScaleBefore(S)[x] = ScaleUpTo(S)[x] \ {x}
  BY <1>3 DEF ScaleBefore, ScaleUpTo
<1> QED
  BY <1>5, <1>6 DEF Precedes

LEMMA LevelsTakeAll ==
  ASSUME NEW S, IsFiniteSet(S), Priced(S)
  PROVE  /\ Cardinality(S) \in Nat /\ DOMAIN InOrder(S, ByScale) = 1 .. Cardinality(S)
         /\ \A i \in 1 .. Cardinality(S) : InOrder(S, ByScale)[i] \in S
         /\ \A i, j \in 1 .. Cardinality(S) :
              i < j => InOrder(S, ByScale)[i].scale < InOrder(S, ByScale)[j].scale
<1> DEFINE seq == [i \in 1 .. Cardinality(S) |-> CHOOSE x \in S : Cardinality({y \in S : ByScale(y, x)}) = i - 1]
<1>1. InOrder(S, ByScale) = seq
  BY DEF InOrder
<1>2. ASSUME NEW i \in 1 .. Cardinality(S), NEW z \in S, Cardinality(ScaleBefore(S)[z]) = i - 1
      PROVE  seq[i] \in S /\ Cardinality(ScaleBefore(S)[seq[i]]) = i - 1
  <2>1. Cardinality({y \in S : ByScale(y, z)}) = i - 1
    BY <1>2 DEF ScaleBefore
  <2>2. seq[i] \in S /\ Cardinality({y \in S : ByScale(y, seq[i])}) = i - 1
    BY <2>1
  <2> HIDE DEF seq
  <2> QED
    BY <2>2 DEF ScaleBefore
<1>3. seq = [i \in 1 .. Cardinality(S) |-> seq[i]]
  OBVIOUS
<1> HIDE DEF seq
<1>4. Chosen(seq, S, ScaleBefore(S))
  BY <1>2, <1>3 DEF Chosen
<1>5. Ranked(seq, S, ScaleUpTo(S))
  BY <1>4, LevelsAreOrdered, ChoiceIsRanked
<1>6. ASSUME NEW i \in 1 .. Cardinality(S), NEW j \in 1 .. Cardinality(S), i < j
      PROVE  seq[i].scale < seq[j].scale
  <2>1. seq[i] \in S /\ seq[j] \in S /\ seq[i] \in ScaleUpTo(S)[seq[j]] /\ seq[i] # seq[j]
    BY <1>5, <1>6, LevelsAreOrdered, RanksAscend
  <2> QED
    BY <2>1 DEF ScaleUpTo, ByScale
<1>7. DOMAIN seq = 1 .. Cardinality(S) /\ \A i \in 1 .. Cardinality(S) : seq[i] \in S
  BY <1>3, <1>5 DEF Ranked
<1>8. Cardinality(S) \in Nat
  BY FS_CardinalityType
<1> QED
  BY <1>1, <1>6, <1>7, <1>8

(* Levels that take no more trades, and no more of them the dearer. *)
Curved(curve, v, tally) ==
  /\ DOMAIN curve = 1 .. Len(Models) - 1
  /\ \A l \in DOMAIN curve : curve[l][v].n_trades = tally.n_trades /\ curve[l][v].total \in Int
  /\ \A l, h \in DOMAIN curve :
       Models[l + 1].scale < Models[h + 1].scale => curve[h][v].total <= curve[l][v].total

LEMMA CurveFalls ==
  ASSUME NEW curve, NEW v, NEW tally, Curved(curve, v, tally), NEW costs, costs = CurveOf(curve, v)
  PROVE  \A a, b \in DOMAIN costs : a < b =>
           /\ costs[a].tally.n_trades = tally.n_trades
           /\ costs[b].tally.n_trades = tally.n_trades
           /\ costs[a].tally.total >= costs[b].tally.total
<1> DEFINE L == Len(Models) - 1
           item(l) == [scale |-> Models[l + 1].scale, tally |-> curve[l][v]]
           S == {item(l) : l \in DOMAIN curve}
           those == [l \in 1 .. L |-> item(l)]
<1>1. Len(Models) \in Nat /\ Len(Models) >= 1 /\ DOMAIN Models = 1 .. Len(Models)
  BY ModelsAreListed, ModelsAssumption
<1>2. L \in Nat /\ DOMAIN curve = 1 .. L /\ \A l \in 1 .. L : l + 1 \in DOMAIN Models \ {1}
  BY <1>1 DEF Curved
<1>3. \A k, l \in 1 .. L : /\ Models[l + 1].scale \in Nat
                           /\ Models[k + 1].scale = Models[l + 1].scale => k = l
  <2> TAKE k, l \in 1 .. L
  <2>1. k + 1 \in DOMAIN Models \ {1} /\ l + 1 \in DOMAIN Models \ {1}
    BY <1>2
  <2>2. Models[l + 1].scale \in Nat /\ (Models[k + 1].scale = Models[l + 1].scale => k + 1 = l + 1)
    BY <2>1, LevelsAssumption
  <2> HIDE DEF L
  <2> QED
    BY <1>2, <2>2
<1>4. costs = InOrder(S, ByScale)
  BY DEF CurveOf
<1>5. \A l \in 1 .. L : item(l) \in S /\ item(l).scale = Models[l + 1].scale /\ item(l).tally = curve[l][v]
  BY <1>2
<1>6. \A x \in S : \E l \in 1 .. L : x = item(l)
  BY <1>2
<1>7. \A l \in 1 .. L : those[l] = item(l)
  OBVIOUS
<1> HIDE DEF S, item, those, L
<1>8. Numbering(those, L, S)
  <2>1. \A i \in 1 .. L : those[i] \in S
    BY <1>5, <1>7
  <2>2. \A x \in S : \E i \in 1 .. L : those[i] = x
    BY <1>6, <1>7
  <2>3. \A i, j \in 1 .. L : those[i] = those[j] => i = j
    BY <1>3, <1>5, <1>7
  <2> QED
    BY <2>1, <2>2, <2>3 DEF Numbering
<1>9. IsFiniteSet(S)
  BY <1>2, <1>8, NumberingCounts
<1>10. Priced(S)
  BY <1>3, <1>5, <1>6 DEF Priced
<1>11. /\ Cardinality(S) \in Nat /\ DOMAIN costs = 1 .. Cardinality(S)
       /\ \A i \in 1 .. Cardinality(S) : costs[i] \in S
       /\ \A i, j \in 1 .. Cardinality(S) : i < j => costs[i].scale < costs[j].scale
  BY <1>4, <1>9, <1>10, LevelsTakeAll
<1> SUFFICES ASSUME NEW a \in DOMAIN costs, NEW b \in DOMAIN costs, a < b
             PROVE  /\ costs[a].tally.n_trades = tally.n_trades
                    /\ costs[b].tally.n_trades = tally.n_trades
                    /\ costs[a].tally.total >= costs[b].tally.total
  OBVIOUS
<1>12. costs[a] \in S /\ costs[b] \in S /\ costs[a].scale < costs[b].scale
  BY <1>11
<1>13. PICK l \in 1 .. L : costs[a] = item(l)
  BY <1>6, <1>12
<1>14. PICK h \in 1 .. L : costs[b] = item(h)
  BY <1>6, <1>12
<1>15. Models[l + 1].scale < Models[h + 1].scale
  BY <1>5, <1>12, <1>13, <1>14
<1>16. /\ curve[l][v].n_trades = tally.n_trades /\ curve[l][v].total \in Int
       /\ curve[h][v].n_trades = tally.n_trades /\ curve[h][v].total \in Int
       /\ curve[h][v].total <= curve[l][v].total
  BY <1>2, <1>15 DEF Curved
<1>17. costs[a].tally = curve[l][v] /\ costs[b].tally = curve[h][v]
  BY <1>5, <1>13, <1>14
<1> QED
  BY <1>16, <1>17
-----------------------------------------------------------------------------
(* One set of trades. *)
LEMMA PartsAreListed ==
  ASSUME LeakInv, SweepIsAsked, run.id # 0
  PROVE  /\ run.variants \in Seq(Range(run.variants)) /\ Len(run.variants) \in Nat
         /\ DOMAIN run.variants = 1 .. Len(run.variants)
         /\ run.parts \in Seq(AllParts) /\ Len(run.parts) \in Nat /\ DOMAIN run.parts = 1 .. Len(run.parts)
         /\ \A p \in DOMAIN run.parts : \E symbol \in Range(Universe) : run.parts[p] = PartOf(symbol)
         /\ \A p \in DOMAIN run.parts : SoundPart(run.parts[p], 1 .. Len(run.variants))
         /\ \A p, q \in DOMAIN run.parts : Place(run.parts[p].key) = Place(run.parts[q].key) => p = q
         /\ \A p \in DOMAIN run.parts : Columned(run.parts[p], Len(run.variants))
<1> DEFINE parts == run.parts
           w == Len(run.variants)
<1>1. run.phase # "idle" /\ PartsAreInTurn /\ corpus \in Corpora
  BY DEF SweepIsAsked, LeakInv
<1>2. /\ run.variants \in Seq(Range(run.variants)) /\ parts \in Seq(AllParts)
      /\ \A p, q \in DOMAIN parts : p < q => Place(parts[p].key) < Place(parts[q].key)
  BY <1>1 DEF PartsAreInTurn
<1>3. w \in Nat /\ DOMAIN run.variants = 1 .. w
  BY <1>2
<1>4. Len(parts) \in Nat /\ DOMAIN parts = 1 .. Len(parts)
  <2> HIDE DEF AllParts
  <2> QED
    BY <1>2
<1>5. ASSUME NEW p \in DOMAIN parts
      PROVE  Place(parts[p].key) \in Nat /\ \E symbol \in Range(Universe) : parts[p] = PartOf(symbol)
  BY <1>1, KeysHavePlaces
<1>6. ASSUME NEW p \in DOMAIN parts
      PROVE  SoundPart(parts[p], 1 .. w) /\ Columned(parts[p], w)
  <2>1. PICK symbol \in Range(Universe) : parts[p] = PartOf(symbol)
    BY <1>5
  <2>2. SoundPart(PartOf(symbol), 1 .. w)
    BY <1>1, <1>2, PartsAreSound
  <2>3. Columned(PartOf(symbol), w)
    BY <1>1, <1>2, PartsAreColumned
  <2> QED
    BY <2>1, <2>2, <2>3
<1>7. ASSUME NEW p \in DOMAIN parts, NEW q \in DOMAIN parts, Place(parts[p].key) = Place(parts[q].key)
      PROVE  p = q
  <2>1. p \in Nat /\ q \in Nat
    BY <1>4
  <2>2. Place(parts[p].key) \in Nat
    BY <1>5
  <2>3. ~(p < q) /\ ~(q < p)
    BY <1>2, <1>7, <2>2
  <2> QED
    BY <2>1, <2>3
<1> HIDE DEF AllParts
<1> QED
  BY <1>2, <1>3, <1>4, <1>5, <1>6, <1>7

(* What the pool holds is what the parts hold, column by column. *)
LEMMA PoolIsOfTheParts ==
  ASSUME LeakInv, SweepIsAsked, run.id # 0, NEW pooled, pooled = Pool(run.parts, Len(run.variants))
  PROVE  /\ \E n \in Nat : \E part, position :
              /\ Pooling(pooled, run.parts, Len(run.variants), n, part, position)
              /\ \A v \in 1 .. Len(run.variants) : Column(pooled.trades[v], n)
         /\ \A v \in 1 .. Len(run.variants) : Tally(pooled.trades[v]) = Adding(TalliesOf(run.parts, v))
<1> DEFINE parts == run.parts
           w == Len(run.variants)
           m == Len(parts)
<1>1. /\ w \in Nat /\ m \in Nat /\ DOMAIN parts = 1 .. m
      /\ \A p \in DOMAIN parts : SoundPart(parts[p], 1 .. w)
      /\ \A p, q \in DOMAIN parts : Place(parts[p].key) = Place(parts[q].key) => p = q
      /\ \A p \in DOMAIN parts : Columned(parts[p], w)
  BY PartsAreListed
<1>2. pooled = Pool(parts, w)
  OBVIOUS
<1> HIDE DEF parts, w
<1>3. PICK n \in Nat : \E part, position : Pooling(pooled, parts, w, n, part, position)
  BY <1>1, <1>2, PoolTakesEveryRow
<1>4. PICK part, position : Pooling(pooled, parts, w, n, part, position)
  BY <1>3
<1> HIDE DEF m
<1>5. \A p \in 1 .. m : Columned(parts[p], w)
  BY <1>1
<1>6. ASSUME NEW v \in 1 .. w
      PROVE  Column(pooled.trades[v], n) /\ Tally(pooled.trades[v]) = Adding(TalliesOf(parts, v))
  BY <1>1, <1>4, <1>5, PoolAddsUp
<1> QED
  BY <1>4, <1>6 DEF parts, w

LEMMA PartsTally ==
  ASSUME LeakInv, SweepIsAsked, run.id # 0, NEW v \in DOMAIN run.variants
  PROVE  /\ TalliesOf(run.parts, v) \in [1 .. Len(run.parts) -> Tallies]
         /\ \A symbol \in Range(Universe) : Tally(PartOf(symbol).observations.trades[v]) \in Tallies
<1>1. corpus \in Corpora /\ run.variants \in Seq(Range(run.variants)) /\ 1 \in DOMAIN Models
  BY PartsAreListed, ModelsAssumption DEF LeakInv
<1>2. ASSUME NEW symbol \in Range(Universe)
      PROVE  Tally(PartOf(symbol).observations.trades[v]) \in Tallies
  <2>1. Decides(corpus[symbol], SignalsFor(symbol)) /\ v \in DOMAIN SignalsFor(symbol)
    BY <1>1, SweepDecides
  <2>2. PartOf(symbol).observations.trades = LabelsOf(corpus[symbol], SignalsFor(symbol), Models[1])
    BY <1>1, PartsAreColumned
  <2>3. Tally(LabelsOf(corpus[symbol], SignalsFor(symbol), Models[1])[v]) \in Tallies
    BY <1>1, <2>1, LabelsTally
  <2> QED
    BY <2>2, <2>3
<1>3. DOMAIN run.parts = 1 .. Len(run.parts)
  BY PartsAreListed
<1>4. ASSUME NEW p \in DOMAIN run.parts PROVE Tally(run.parts[p].observations.trades[v]) \in Tallies
  <2>1. PICK symbol \in Range(Universe) : run.parts[p] = PartOf(symbol)
    BY PartsAreListed
  <2> QED
    BY <1>2, <2>1
<1> QED
  BY <1>2, <1>3, <1>4 DEF TalliesOf

(* A symbol more on the curve. *)
Scoring(scored, more) ==
  /\ more \in Tallies /\ DOMAIN scored = 1 .. Len(Models) - 1
  /\ \A l \in DOMAIN scored : scored[l] \in Tallies /\ scored[l].n_trades = more.n_trades
  /\ \A l, h \in DOMAIN scored : Models[l + 1].scale < Models[h + 1].scale => scored[h].total <= scored[l].total

LEMMA CurvedMore ==
  ASSUME NEW curve, NEW after, NEW scored, NEW v, NEW tally \in Tallies, NEW more,
         Curved(curve, v, tally), Scoring(scored, more), DOMAIN after = 1 .. Len(Models) - 1,
         \A l \in DOMAIN after : after[l][v] = AddTallies(curve[l][v], scored[l])
  PROVE  Curved(after, v, AddTallies(tally, more))
<1> DEFINE L == 1 .. Len(Models) - 1
<1>1. ASSUME NEW l \in L
      PROVE  /\ after[l][v].n_trades = curve[l][v].n_trades + scored[l].n_trades
             /\ after[l][v].total = curve[l][v].total + scored[l].total
             /\ curve[l][v].n_trades = tally.n_trades /\ scored[l].n_trades = more.n_trades
             /\ curve[l][v].total \in Int /\ scored[l].total \in Int
  <2>1. after[l][v] = AddTallies(curve[l][v], scored[l])
    OBVIOUS
  <2>2. curve[l][v].n_trades = tally.n_trades /\ curve[l][v].total \in Int
    BY DEF Curved
  <2>3. scored[l] \in Tallies /\ scored[l].n_trades = more.n_trades
    BY DEF Scoring
  <2> QED
    BY <2>1, <2>2, <2>3 DEF AddTallies, Tallies
<1>2. AddTallies(tally, more).n_trades = tally.n_trades + more.n_trades
  BY DEF AddTallies
<1>3. ASSUME NEW l \in L PROVE after[l][v].n_trades = AddTallies(tally, more).n_trades /\ after[l][v].total \in Int
  <2>1. after[l][v].n_trades = tally.n_trades + more.n_trades
    <3>1. /\ after[l][v].n_trades = curve[l][v].n_trades + scored[l].n_trades
          /\ curve[l][v].n_trades = tally.n_trades /\ scored[l].n_trades = more.n_trades
      BY <1>1
    <3> QED
      BY <3>1
  <2>2. after[l][v].total \in Int
    <3>1. /\ after[l][v].total = curve[l][v].total + scored[l].total
          /\ curve[l][v].total \in Int /\ scored[l].total \in Int
      BY <1>1
    <3> HIDE DEF L
    <3> QED
      BY <3>1
  <2> QED
    BY <2>1, <2>2, <1>2
<1>4. ASSUME NEW l \in L, NEW h \in L, Models[l + 1].scale < Models[h + 1].scale
      PROVE  after[h][v].total <= after[l][v].total
  <2>1. curve[h][v].total <= curve[l][v].total
    BY <1>4 DEF Curved
  <2>2. scored[h].total <= scored[l].total
    BY <1>4 DEF Scoring
  <2>3. /\ after[l][v].total = curve[l][v].total + scored[l].total
        /\ curve[l][v].total \in Int /\ scored[l].total \in Int
    BY <1>1
  <2>4. /\ after[h][v].total = curve[h][v].total + scored[h].total
        /\ curve[h][v].total \in Int /\ scored[h].total \in Int
    BY <1>1
  <2> QED
    BY <2>1, <2>2, <2>3, <2>4
<1> QED
  BY <1>3, <1>4 DEF Curved

(* An instrument at every level: as many trades at each, and no more made   *)
(* of them at a dearer one.                                                 *)
ScoredAt(symbol, v) ==
  [l \in 1 .. Len(Models) - 1 |-> Tally(LabelSignals(corpus[symbol], SignalsFor(symbol), Models[l + 1]).trades[v])]

LEMMA SymbolsAreScored ==
  ASSUME LeakInv, SweepIsAsked, run.id # 0, NEW v \in DOMAIN run.variants, NEW symbol \in Range(Universe)
  PROVE  Scoring(ScoredAt(symbol, v), Tally(PartOf(symbol).observations.trades[v]))
<1> DEFINE bars == corpus[symbol]
           signals == SignalsFor(symbol)
           at(l) == Tally(LabelsOf(bars, signals, Models[l])[v])
           scored == ScoredAt(symbol, v)
           more == Tally(PartOf(symbol).observations.trades[v])
<1>1. corpus \in Corpora /\ run.variants \in Seq(Range(run.variants)) /\ 1 \in DOMAIN Models
  BY PartsAreListed, ModelsAssumption DEF LeakInv
<1>2. Decides(bars, signals) /\ v \in DOMAIN signals
  BY <1>1, SweepDecides
<1>3. more = at(1)
  BY <1>1, PartsAreColumned
<1>4. ASSUME NEW a \in DOMAIN Models, NEW b \in DOMAIN Models
      PROVE  /\ at(a) \in Tallies /\ at(b) \in Tallies /\ at(a).n_trades = at(b).n_trades
             /\ Dearer(Models[a], Models[b]) => at(b).total <= at(a).total
  BY <1>2, LabelsTally
<1>5. Len(Models) \in Nat /\ Len(Models) >= 1 /\ DOMAIN Models = 1 .. Len(Models)
  BY ModelsAreListed, ModelsAssumption
<1>6. \A l \in 1 .. Len(Models) - 1 : l + 1 \in DOMAIN Models /\ l + 1 \in DOMAIN Models \ {1}
  BY <1>5
<1>7. ASSUME NEW l \in 1 .. Len(Models) - 1 PROVE scored[l] = at(l + 1)
  <2>1. LabelSignals(bars, signals, Models[l + 1]).trades = LabelsOf(bars, signals, Models[l + 1])
    BY LabelsAreOfTheKept
  <2>2. scored[l] = Tally(LabelSignals(bars, signals, Models[l + 1]).trades[v])
    BY DEF ScoredAt
  <2> QED
    BY <2>1, <2>2
<1>8. DOMAIN scored = 1 .. Len(Models) - 1
  BY DEF ScoredAt
<1> HIDE DEF at, scored, more
<1>9. \A l \in 1 .. Len(Models) - 1 : scored[l] \in Tallies /\ scored[l].n_trades = more.n_trades
  BY <1>1, <1>3, <1>4, <1>6, <1>7
<1>10. ASSUME NEW l \in 1 .. Len(Models) - 1, NEW h \in 1 .. Len(Models) - 1,
              Models[l + 1].scale < Models[h + 1].scale
       PROVE  scored[h].total <= scored[l].total
  <2>1. Dearer(Models[l + 1], Models[h + 1])
    BY <1>6, <1>10, MoreScaleIsDearer
  <2> QED
    BY <1>4, <1>6, <1>7, <2>1
<1>11. more \in Tallies
  BY <1>1, <1>3, <1>4
<1>12. Scoring(scored, more)
  BY <1>8, <1>9, <1>10, <1>11 DEF Scoring
<1> QED
  BY <1>12 DEF scored, more

LEMMA PartsAreDecided ==
  ASSUME corpus \in Corpora, SweepIsAsked, run.id # 0, NEW symbol \in Range(Universe)
  PROVE  Series(corpus[symbol]) /\ \A v \in DOMAIN SignalsFor(symbol) : Decided(corpus[symbol], SignalsFor(symbol)[v])
<1> DEFINE bars == corpus[symbol]
           signals == SignalsFor(symbol)
<1>1. Series(bars)
  BY SweepDecides DEF Decides
<1>2. ASSUME NEW v \in DOMAIN signals PROVE Decided(bars, signals[v])
  <2>1. signals[v] = SignalsOf(bars, ProposedOn(symbol, bars, run.variants[v].intents))
    BY DEF SignalsFor
  <2> HIDE DEF bars, signals
  <2> QED
    BY <1>1, <2>1, SignalsAreDecided
<1> QED
  BY <1>1, <1>2
-----------------------------------------------------------------------------
(* From the first label to the verdict the journal, the reports of the      *)
(* instruments and the levels of the curve are of the parts labelled.      *)
ReportsOf(runs, v) == [r \in DOMAIN runs |-> runs[r].tallies[v]]
OfTheParts(file, variants, parts, runs, curve) ==
  /\ Journalled(file, parts, variants)
  /\ \E S : runs \in Seq(S)
  /\ \A v \in DOMAIN variants :
       /\ \A r \in DOMAIN runs : runs[r].tallies[v] \in Tallies
       /\ Adding(ReportsOf(runs, v)) = Adding(TalliesOf(parts, v))
       /\ Curved(curve, v, Adding(TalliesOf(parts, v)))

JournalsAreCounted == \E S : journals \in Seq(S) /\ Len(journals) = run.id
LabelsAreKept ==
  UnderWay =>
    /\ {"runs", "curve"} \subseteq DOMAIN run
    /\ OfTheParts(journals[run.id], run.variants, run.parts, run.runs, run.curve)
PoolIsKept ==
  run.phase = "recording" =>
    /\ "pooled" \in DOMAIN run /\ run.pooled = Pool(run.parts, Len(run.variants))
    /\ \A v \in 1 .. run.recorded : HasSharpe(Columns[v])
TradesInv == JournalsAreCounted /\ LabelsAreKept /\ PoolIsKept /\ OneSetOfTrades

(* What a report adds, and what a part adds. *)
LEMMA ReportsGrow ==
  ASSUME NEW runs, \E S : runs \in Seq(S), NEW v, \A r \in DOMAIN runs : runs[r].tallies[v] \in Tallies,
         NEW row, row.tallies[v] \in Tallies
  PROVE  /\ \E S : Append(runs, row) \in Seq(S)
         /\ \A r \in DOMAIN Append(runs, row) : Append(runs, row)[r].tallies[v] \in Tallies
         /\ Adding(ReportsOf(runs, v)) \in Tallies
         /\ Adding(ReportsOf(Append(runs, row), v)) = AddTallies(Adding(ReportsOf(runs, v)), row.tallies[v])
<1>1. PICK S : runs \in Seq(S)
  OBVIOUS
<1> DEFINE T == S \cup {row}
           n == Len(runs)
           more == Append(runs, row)
<1>2. runs \in Seq(T) /\ row \in T
  BY <1>1
<1> HIDE DEF T
<1>3. /\ n \in Nat /\ DOMAIN runs = 1 .. n /\ more \in Seq(T) /\ DOMAIN more = 1 .. n + 1
      /\ more[n + 1] = row /\ \A r \in 1 .. n : more[r] = runs[r]
  BY <1>2
<1> HIDE DEF n, more
<1>4. ASSUME NEW r \in 1 .. n + 1 PROVE more[r].tallies[v] \in Tallies
  <2>1. CASE r \in 1 .. n
    BY <1>3, <2>1
  <2>2. CASE r = n + 1
    BY <1>3, <2>2
  <2> QED
    BY <1>3, <2>1, <2>2
<1>5. ReportsOf(runs, v) \in [1 .. n -> Tallies]
  BY <1>3 DEF ReportsOf
<1>6. ReportsOf(more, v) \in [1 .. n + 1 -> Tallies]
  BY <1>3, <1>4 DEF ReportsOf
<1>7. /\ \A r \in 1 .. n : ReportsOf(more, v)[r] = ReportsOf(runs, v)[r]
      /\ ReportsOf(more, v)[n + 1] = row.tallies[v]
  BY <1>3 DEF ReportsOf
<1>8. /\ Adding(ReportsOf(runs, v)) \in Tallies
      /\ Adding(ReportsOf(more, v)) = AddTallies(Adding(ReportsOf(runs, v)), ReportsOf(more, v)[n + 1])
  BY <1>3, <1>5, <1>6, <1>7, AddingOneMore
<1> QED
  BY <1>3, <1>4, <1>7, <1>8 DEF more

LEMMA TalliesGrow ==
  ASSUME NEW n \in Nat, NEW parts, NEW more, NEW part, OnePartMore(more, parts, n, part), NEW v,
         TalliesOf(parts, v) \in [1 .. n -> Tallies], Tally(part.observations.trades[v]) \in Tallies
  PROVE  /\ Adding(TalliesOf(parts, v)) \in Tallies
         /\ Adding(TalliesOf(more, v)) = AddTallies(Adding(TalliesOf(parts, v)), Tally(part.observations.trades[v]))
<1>1. /\ DOMAIN parts = 1 .. n /\ DOMAIN more = 1 .. n + 1
      /\ (\A p \in 1 .. n : more[p] = parts[p]) /\ more[n + 1] = part
  BY DEF OnePartMore
<1>2. /\ \A p \in 1 .. n : TalliesOf(more, v)[p] = TalliesOf(parts, v)[p]
      /\ TalliesOf(more, v)[n + 1] = Tally(part.observations.trades[v])
  BY <1>1 DEF TalliesOf
<1>3. ASSUME NEW p \in 1 .. n + 1 PROVE TalliesOf(more, v)[p] \in Tallies
  <2>1. CASE p \in 1 .. n
    BY <1>2, <2>1
  <2>2. CASE p = n + 1
    BY <1>2, <2>2
  <2> QED
    BY <2>1, <2>2
<1>4. TalliesOf(more, v) \in [1 .. n + 1 -> Tallies]
  BY <1>1, <1>3 DEF TalliesOf
<1>5. /\ Adding(TalliesOf(parts, v)) \in Tallies
      /\ Adding(TalliesOf(more, v)) = AddTallies(Adding(TalliesOf(parts, v)), TalliesOf(more, v)[n + 1])
  BY <1>2, <1>4, AddingOneMore
<1> QED
  BY <1>2, <1>5

LEMMA JournalAdded ==
  ASSUME JournalsAreCounted, run.id \in Nat, NEW file, NEW after, after = Append(journals, file)
  PROVE  /\ \E S : after \in Seq(S) /\ Len(after) = run.id + 1
         /\ DOMAIN after = 1 .. run.id + 1 /\ after[run.id + 1] = file
<1>1. PICK S : journals \in Seq(S) /\ Len(journals) = run.id
  BY DEF JournalsAreCounted
<1> DEFINE T == S \cup {file}
           n == run.id
<1>2. journals \in Seq(T) /\ file \in T /\ Len(journals) = n /\ n \in Nat
  BY <1>1
<1> HIDE DEF T, n
<1>3. after \in Seq(T) /\ Len(after) = n + 1 /\ DOMAIN after = 1 .. n + 1 /\ after[n + 1] = file
  BY <1>2
<1> QED
  BY <1>3 DEF n

LEMMA JournalReplaced ==
  ASSUME JournalsAreCounted, run.id \in Nat \ {0}, NEW file, NEW after, after = [journals EXCEPT ![run.id] = file]
  PROVE  /\ \E S : after \in Seq(S) /\ Len(after) = run.id
         /\ DOMAIN after = 1 .. run.id /\ after[run.id] = file
<1>1. PICK S : journals \in Seq(S) /\ Len(journals) = run.id
  BY DEF JournalsAreCounted
<1> DEFINE T == S \cup {file}
           n == run.id
<1>2. journals \in Seq(T) /\ file \in T /\ Len(journals) = n /\ n \in Nat /\ n \in 1 .. n
  BY <1>1
<1> HIDE DEF T, n
<1>3. after = [journals EXCEPT ![n] = file]
  BY DEF n
<1>4. after \in Seq(T) /\ Len(after) = n /\ DOMAIN after = 1 .. n /\ after[n] = file
  <2>1. journals \in [1 .. n -> T]
    BY <1>2
  <2>2. after \in [1 .. n -> T] /\ after[n] = file
    BY <1>2, <1>3, <2>1
  <2> QED
    BY <1>2, <2>2
<1> QED
  BY <1>4 DEF n

LEMMA JournalsStay ==
  ASSUME JournalsAreCounted, run.id \in Nat, UNCHANGED journals
  PROVE  (\E S : journals' \in Seq(S) /\ Len(journals') = run.id) /\ DOMAIN journals' = 1 .. run.id
<1>1. PICK S : journals \in Seq(S) /\ Len(journals) = run.id
  BY DEF JournalsAreCounted
<1> QED
  BY <1>1

LEMMA TradesInit == Init => TradesInv
<1> SUFFICES ASSUME Init PROVE TradesInv
  OBVIOUS
<1>1. /\ run.id = 0 /\ run.phase = "idle" /\ journals = <<>> /\ tried = {} /\ now = 0 /\ corpus \in Corpora
  BY DEF Init, NoRun
<1>2. journals \in Seq({}) /\ Len(journals) = 0 /\ DOMAIN journals = 1 .. 0
  BY <1>1
<1>3. TypeOK
  BY <1>1, <1>2, CommandsAssumption DEF TypeOK
<1> QED
  BY <1>1, <1>2, <1>3 DEF TradesInv, JournalsAreCounted, LabelsAreKept, PoolIsKept, UnderWay, OneSetOfTrades,
                          TalliesAgree, DearerIsNeverBetter

(* A step of a run that leaves the clock and the corpus alone. *)
LEMMA TypeStays ==
  ASSUME TypeOK, corpus' = corpus, now' = now, run'.id = run.id,
         run'.phase \in {"labelling", "recording", "judged", "refused", "raised", "died"},
         DOMAIN journals' = 1 .. run.id, \A t \in tried' : t.run \in 1 .. run.id
  PROVE  TypeOK'
BY DEF TypeOK

(* A run that ends without a verdict. *)
LEMMA TradesOver ==
  ASSUME TradesInv, SearchInv, run.phase # "idle", NEW phase \in {"died", "raised", "refused"}, Over(phase),
         corpus' = corpus, now' = now, \A t \in tried' : t.run \in 1 .. run.id,
         \E S : journals' \in Seq(S) /\ Len(journals') = run.id, DOMAIN journals' = 1 .. run.id
  PROVE  TradesInv'
<1>1. run'.phase = phase /\ run'.id = run.id
  BY DEF SearchInv, RunsAreCounted, Over
<1>2. TypeOK'
  BY <1>1, TypeStays DEF TradesInv, OneSetOfTrades
<1>3. JournalsAreCounted'
  BY <1>1 DEF JournalsAreCounted
<1> QED
  BY <1>1, <1>2, <1>3 DEF TradesInv, LabelsAreKept, PoolIsKept, UnderWay, OneSetOfTrades, TalliesAgree,
                          DearerIsNeverBetter

LEMMA TradesMeasure == ASSUME TradesInv, SearchInv, Measure PROVE TradesInv'
<1>1. /\ run.id \in Nat /\ run.id < Len(Requests) /\ corpus' = corpus /\ now' = now + CommandTicks
      /\ tried' = tried /\ journals' = Append(journals, EmptyFile)
  BY DEF SearchInv, RunsAreCounted, Measure
<1>2. PICK request \in Requests[run.id + 1] : run' = Asked(request)
  BY DEF Measure
<1> DEFINE variants == request.variants
           curve == [l \in 1 .. Len(Models) - 1 |-> [v \in DOMAIN variants |-> NoTally]]
<1>3. /\ run'.id = run.id + 1 /\ run'.phase = "labelling" /\ run'.variants = variants /\ run'.parts = <<>>
      /\ run'.runs = <<>> /\ run'.curve = curve
      /\ {"runs", "curve"} \subseteq DOMAIN run'
  BY <1>2 DEF Asked
<1>4. /\ \E S : journals' \in Seq(S) /\ Len(journals') = run.id + 1
      /\ DOMAIN journals' = 1 .. run.id + 1 /\ journals'[run.id + 1] = EmptyFile
  BY <1>1, JournalAdded DEF TradesInv
<1>5. TypeOK'
  <2>1. now \in Nat /\ now = run.id * CommandTicks /\ corpus \in Corpora
    BY DEF TradesInv, OneSetOfTrades, TypeOK
  <2>2. now' \in Nat /\ now' = (run.id + 1) * CommandTicks
    BY <1>1, <2>1, CommandsAssumption
  <2>3. \A t \in tried' : t.run \in 1 .. run.id + 1
    BY <1>1 DEF SearchInv, RunsAreCounted
  <2> QED
    BY <1>1, <1>3, <1>4, <2>1, <2>2, <2>3 DEF TypeOK
<1>6. JournalsAreCounted'
  BY <1>3, <1>4 DEF JournalsAreCounted
<1>7. OfTheParts(EmptyFile, variants, <<>>, <<>>, curve)
  <2> DEFINE none == <<>>
  <2>1. DOMAIN none = {} /\ DOMAIN none = 1 .. 0 /\ none \in Seq({})
    OBVIOUS
  <2> HIDE DEF none
  <2>2. Journalled(EmptyFile, none, variants)
    BY <2>1, NothingIsJournalled
  <2>3. ASSUME NEW v \in DOMAIN variants
        PROVE  /\ Adding(ReportsOf(none, v)) = NoTally /\ Adding(TalliesOf(none, v)) = NoTally
               /\ Curved(curve, v, NoTally)
    <3>1. DOMAIN ReportsOf(none, v) = 1 .. 0 /\ DOMAIN TalliesOf(none, v) = 1 .. 0
      BY <2>1 DEF ReportsOf, TalliesOf
    <3>2. Adding(ReportsOf(none, v)) = NoTally /\ Adding(TalliesOf(none, v)) = NoTally
      BY <3>1, AddingNone
    <3>3. \A l \in 1 .. Len(Models) - 1 : curve[l][v] = NoTally
      OBVIOUS
    <3>4. DOMAIN curve = 1 .. Len(Models) - 1
      OBVIOUS
    <3> HIDE DEF curve
    <3>5. Curved(curve, v, NoTally)
      BY <3>3, <3>4 DEF Curved, NoTally
    <3> QED
      BY <3>2, <3>5
  <2> HIDE DEF curve
  <2>4. OfTheParts(EmptyFile, variants, none, none, curve)
    BY <2>1, <2>2, <2>3 DEF OfTheParts
  <2> QED
    BY <2>4 DEF none
<1> HIDE DEF variants, curve
<1>8. LabelsAreKept'
  BY <1>3, <1>4, <1>7 DEF LabelsAreKept
<1> QED
  BY <1>3, <1>5, <1>6, <1>8 DEF TradesInv, PoolIsKept, OneSetOfTrades, TalliesAgree, DearerIsNeverBetter

(* What a step of labelling must show. *)
LEMMA TradesLabelling ==
  ASSUME TradesInv, SearchInv, run.phase = "labelling", corpus' = corpus, now' = now, tried' = tried,
         run'.phase = "labelling", run'.id = run.id, {"runs", "curve"} \subseteq DOMAIN run',
         \E S : journals' \in Seq(S) /\ Len(journals') = run.id, DOMAIN journals' = 1 .. run.id,
         OfTheParts(journals'[run.id], run'.variants, run'.parts, run'.runs, run'.curve)
  PROVE  TradesInv'
<1>1. TypeOK'
  <2>1. \A t \in tried' : t.run \in 1 .. run.id
    BY DEF SearchInv, RunsAreCounted
  <2> QED
    BY <2>1, TypeStays DEF TradesInv, OneSetOfTrades
<1>2. JournalsAreCounted'
  BY DEF JournalsAreCounted
<1>3. LabelsAreKept'
  BY DEF LabelsAreKept
<1> QED
  BY <1>1, <1>2, <1>3 DEF TradesInv, PoolIsKept, OneSetOfTrades, TalliesAgree, DearerIsNeverBetter

LEMMA TradesPassOver == ASSUME TradesInv, LeakInv, SearchInv, PassOver PROVE TradesInv'
<1> DEFINE nothing == [spans |-> <<>>, trades |-> [v \in DOMAIN run.variants |-> <<>>]]
           row == SymbolRun(nothing)
<1>1. /\ run.phase = "labelling" /\ UNCHANGED <<corpus, now, tried, journals>>
      /\ run' = [run EXCEPT !.todo = Tail(run.todo), !.runs = Append(run.runs, row)]
  BY DEF PassOver
<1>2. ASSUME NEW v \in DOMAIN run.variants PROVE row.tallies[v] = NoTally
  <2> DEFINE none == <<>>
  <2>1. row.tallies[v] = Tally(none)
    BY DEF SymbolRun
  <2>2. Tally(none) = NoTally
    <3> DEFINE zeros == [i \in 1 .. 0 |-> 0]
    <3>1. Taken(none) = {} /\ [i \in DOMAIN none |-> Earned(none[i])] = zeros
      BY DEF Taken
    <3>2. Total(zeros) = 0
      <4>1. 0 \in Nat /\ zeros \in [1 .. 0 -> Int] /\ \A i \in 1 .. 0 : zeros[i] = 0
        OBVIOUS
      <4> HIDE DEF zeros
      <4> QED
        BY <4>1, TotalOfZeros
    <3>3. Cardinality(Taken(none)) = 0
      BY <3>1, FS_EmptySet
    <3> HIDE DEF zeros
    <3> QED
      BY <3>1, <3>2, <3>3 DEF Tally, NoTally
  <2> QED
    BY <2>1, <2>2
<1> HIDE DEF row
<1>3. /\ {"id", "phase", "variants", "parts", "todo", "runs", "curve"} \subseteq DOMAIN run /\ run.id \in Nat
      /\ OfTheParts(journals[run.id], run.variants, run.parts, run.runs, run.curve)
  BY <1>1 DEF TradesInv, LabelsAreKept, UnderWay, SearchInv, RunsAreCounted, LeakInv, PartsAreInTurn, TodoIsTheRest
<1>4. /\ run'.phase = "labelling" /\ run'.id = run.id /\ run'.variants = run.variants /\ run'.parts = run.parts
      /\ run'.runs = Append(run.runs, row) /\ run'.curve = run.curve /\ DOMAIN run' = DOMAIN run
  BY <1>1, <1>3
<1>5. (\E S : journals' \in Seq(S) /\ Len(journals') = run.id) /\ DOMAIN journals' = 1 .. run.id
  BY <1>1, <1>3, JournalsStay DEF TradesInv
<1>6. NoTally \in Tallies
  BY DEF NoTally, Tallies
<1>7. ASSUME NEW v \in DOMAIN run.variants
      PROVE  /\ \E S : Append(run.runs, row) \in Seq(S)
             /\ \A r \in DOMAIN Append(run.runs, row) : Append(run.runs, row)[r].tallies[v] \in Tallies
             /\ Adding(ReportsOf(Append(run.runs, row), v)) = Adding(ReportsOf(run.runs, v))
  <2>1. /\ \E S : run.runs \in Seq(S)
        /\ \A r \in DOMAIN run.runs : run.runs[r].tallies[v] \in Tallies
    BY <1>3 DEF OfTheParts
  <2>2. row.tallies[v] \in Tallies
    BY <1>2, <1>6
  <2>3. /\ \E S : Append(run.runs, row) \in Seq(S)
        /\ \A r \in DOMAIN Append(run.runs, row) : Append(run.runs, row)[r].tallies[v] \in Tallies
        /\ Adding(ReportsOf(run.runs, v)) \in Tallies
        /\ Adding(ReportsOf(Append(run.runs, row), v)) = AddTallies(Adding(ReportsOf(run.runs, v)), row.tallies[v])
    BY <2>1, <2>2, ReportsGrow
  <2>4. AddTallies(Adding(ReportsOf(run.runs, v)), NoTally) = Adding(ReportsOf(run.runs, v))
    BY <2>3 DEF AddTallies, NoTally, Tallies
  <2> QED
    BY <1>2, <2>3, <2>4
<1>8. \E S : Append(run.runs, row) \in Seq(S)
  <2>1. PICK S : run.runs \in Seq(S)
    BY <1>3 DEF OfTheParts
  <2> DEFINE T == S \cup {row}
  <2>2. run.runs \in Seq(T) /\ row \in T
    BY <2>1
  <2> HIDE DEF T
  <2>3. Append(run.runs, row) \in Seq(T)
    BY <2>2
  <2> QED
    BY <2>3
<1>9. OfTheParts(journals'[run.id], run'.variants, run'.parts, run'.runs, run'.curve)
  BY <1>1, <1>3, <1>4, <1>7, <1>8 DEF OfTheParts
<1> QED
  BY <1>1, <1>3, <1>4, <1>5, <1>9, TradesLabelling

LEMMA TradesLabelSymbol == ASSUME TradesInv, LeakInv, SweepIsAsked, SearchInv, LabelSymbol PROVE TradesInv'
<1> DEFINE variants == run.variants
           w == Len(variants)
           part == PartOf(Symbol)
           row == SymbolRun(part.observations)
           rows == JournalRows(Symbol, corpus[Symbol], variants, part.observations)
           curve == [l \in DOMAIN run.curve |-> [v \in DOMAIN variants |->
                       AddTallies(run.curve[l][v], ScoredAt(Symbol, v)[l])]]
           file == journals[run.id]
<1>1. /\ run.phase = "labelling" /\ run.todo # <<>> /\ UNCHANGED <<corpus, now, tried>>
      /\ run.id \in Nat /\ run.id # 0
      /\ {"id", "phase", "variants", "parts", "todo", "runs", "curve"} \subseteq DOMAIN run
      /\ OfTheParts(file, variants, run.parts, run.runs, run.curve)
  BY DEF LabelSymbol, TradesInv, LabelsAreKept, UnderWay, SearchInv, RunsAreCounted, LeakInv, PartsAreInTurn,
         TodoIsTheRest
<1>2. /\ corpus \in Corpora /\ variants \in Seq(Range(variants)) /\ w \in Nat /\ DOMAIN variants = 1 .. w
  BY <1>1, PartsAreListed DEF LeakInv
<1>3. PICK done \in 0 .. Len(Universe) : run.todo = SubSeq(Universe, done + 1, Len(Universe))
  BY <1>1 DEF LeakInv, TodoIsTheRest
<1>4. Symbol \in Range(Universe)
  BY <1>1, <1>3, TurnOfTheFirst DEF Range
<1>5. SignalsNow = SignalsFor(Symbol)
  BY DEF SignalsNow, SignalsFor
<1>6. ASSUME NEW model PROVE LabelledAt(model) = LabelSignals(corpus[Symbol], SignalsFor(Symbol), model)
  BY <1>5 DEF LabelledAt
<1>7. LabelledAt(Models[1]) = part.observations /\ part.key = Symbol
  BY <1>6 DEF PartOf
<1>8. \A v \in DOMAIN variants : DOMAIN run.curve = 1 .. Len(Models) - 1
  BY <1>1 DEF OfTheParts, Curved
<1>9. PICK todo : /\ run' = [run EXCEPT !.todo = todo, !.runs = Append(run.runs, row),
                                        !.parts = Append(run.parts, part), !.curve = curve]
                  /\ journals' = [journals EXCEPT ![run.id] = Filed(file, rows)]
  <2> DEFINE scored == [l \in DOMAIN run.curve |-> LabelledAt(Models[l + 1])]
             made == [key |-> Symbol, timestamps |-> [i \in DOMAIN corpus[Symbol] |-> corpus[Symbol][i].ts],
                      observations |-> LabelledAt(Models[1])]
             levels == [l \in DOMAIN run.curve |-> [v \in DOMAIN variants |->
                          AddTallies(run.curve[l][v], Tally(scored[l].trades[v]))]]
  <2>1. /\ run' = [run EXCEPT !.todo = Tail(run.todo), !.runs = Append(run.runs, SymbolRun(LabelledAt(Models[1]))),
                              !.parts = Append(run.parts, made), !.curve = levels]
        /\ journals' = [journals EXCEPT ![run.id] = Filed(file, RowsNow)]
    BY DEF LabelSymbol
  <2>2. made = part
    BY <1>6 DEF PartOf
  <2>3. RowsNow = rows
    BY <1>7 DEF RowsNow
  <2>4. levels = curve
    <3>1. ASSUME NEW l \in DOMAIN run.curve, NEW v \in DOMAIN variants
          PROVE  Tally(scored[l].trades[v]) = ScoredAt(Symbol, v)[l]
      <4>1. scored[l] = LabelSignals(corpus[Symbol], SignalsFor(Symbol), Models[l + 1])
        BY <1>6
      <4>2. l \in 1 .. Len(Models) - 1
        BY <1>8
      <4>3. ScoredAt(Symbol, v)[l] = Tally(LabelSignals(corpus[Symbol], SignalsFor(Symbol), Models[l + 1]).trades[v])
        BY <4>2 DEF ScoredAt
      <4> HIDE DEF scored
      <4> QED
        BY <4>1, <4>3
    <3> HIDE DEF scored
    <3> QED
      BY <3>1
  <2> HIDE DEF scored, made, levels, part, rows, curve, file
  <2> QED
    BY <1>7, <2>1, <2>2, <2>3, <2>4 DEF row
<1> HIDE DEF part, row, rows, curve, file
<1>10. /\ run'.phase = "labelling" /\ run'.id = run.id /\ run'.variants = variants
       /\ run'.parts = Append(run.parts, part) /\ run'.runs = Append(run.runs, row) /\ run'.curve = curve
       /\ DOMAIN run' = DOMAIN run
  BY <1>1, <1>9
<1>11. /\ \E S : journals' \in Seq(S) /\ Len(journals') = run.id
       /\ DOMAIN journals' = 1 .. run.id /\ journals'[run.id] = Filed(file, rows)
  BY <1>1, <1>9, JournalReplaced DEF TradesInv
<1> DEFINE parts == run.parts
           more == Append(run.parts, part)
           n == Len(run.parts)
<1>12. n \in Nat /\ OnePartMore(more, parts, n, part)
  <2>1. /\ parts \in Seq(AllParts) /\ part \in AllParts
    BY <1>1, <1>4, PartsAreListed DEF AllParts, part
  <2> HIDE DEF AllParts, parts
  <2>2. /\ Len(parts) \in Nat /\ DOMAIN parts = 1 .. Len(parts) /\ DOMAIN Append(parts, part) = 1 .. Len(parts) + 1
        /\ Append(parts, part)[Len(parts) + 1] = part
        /\ \A p \in 1 .. Len(parts) : Append(parts, part)[p] = parts[p]
    BY <2>1
  <2> QED
    BY <2>2 DEF OnePartMore, parts
<1> HIDE DEF parts, more, n
<1>13. Journalled(Filed(file, rows), more, variants)
  <2>1. PICK m \in Nat :
          /\ DOMAIN part.observations.spans = 1 .. m
          /\ \A k \in 1 .. m : SpanOf(part, k).opened = corpus[Symbol][part.observations.spans[k].opened].ts
    <3> DEFINE bars == corpus[Symbol]
               signals == SignalsFor(Symbol)
               labels == LabelSignals(bars, signals, Models[1])
    <3>1. part.observations = labels /\ part.timestamps = [i \in DOMAIN bars |-> bars[i].ts]
      BY DEF part, PartOf
    <3>2. labels = LabelSignals(bars, signals, Models[1])
      OBVIOUS
    <3>3. Series(bars) /\ \A v \in DOMAIN signals : Decided(bars, signals[v])
      BY <1>1, <1>2, <1>4, PartsAreDecided
    <3> HIDE DEF bars, signals, labels
    <3>4. PICK m \in Nat : SoundLabels(labels, bars, signals, Models[1], m)
      BY <3>2, <3>3, LabelsAreWithinReach
    <3>5. DOMAIN labels.spans = 1 .. m /\ \A k \in 1 .. m : labels.spans[k].opened \in DOMAIN bars
      BY <3>4 DEF SoundLabels
    <3>6. \A k \in 1 .. m : SpanOf(part, k).opened = bars[part.observations.spans[k].opened].ts
      BY <3>1, <3>5 DEF SpanOf
    <3> QED
      BY <3>1, <3>5, <3>6 DEF bars
  <2> DEFINE bars == corpus[Symbol]
  <2>2. Journalled(file, parts, variants)
    BY <1>1 DEF OfTheParts, parts
  <2>3. \A k \in 1 .. m : SpanOf(part, k).opened = bars[part.observations.spans[k].opened].ts
    BY <2>1
  <2>4. rows = JournalRows(part.key, bars, variants, part.observations)
    BY <1>7 DEF rows
  <2> HIDE DEF bars
  <2>5. Len(variants) \in Nat /\ DOMAIN variants = 1 .. Len(variants)
    BY <1>2
  <2> HIDE DEF variants
  <2> QED
    BY <1>12, <2>1, <2>2, <2>3, <2>4, <2>5, JournalGrows
<1>14. ASSUME NEW v \in DOMAIN variants
       PROVE  /\ \A r \in DOMAIN Append(run.runs, row) : Append(run.runs, row)[r].tallies[v] \in Tallies
              /\ Adding(ReportsOf(Append(run.runs, row), v)) = Adding(TalliesOf(more, v))
              /\ Curved(curve, v, Adding(TalliesOf(more, v)))
  <2> DEFINE tally == Adding(TalliesOf(parts, v))
             earned == Tally(part.observations.trades[v])
  <2>1. /\ \E S : run.runs \in Seq(S)
        /\ \A r \in DOMAIN run.runs : run.runs[r].tallies[v] \in Tallies
        /\ Adding(ReportsOf(run.runs, v)) = tally /\ Curved(run.curve, v, tally)
    BY <1>1 DEF OfTheParts, parts
  <2>2. TalliesOf(parts, v) \in [1 .. n -> Tallies] /\ earned \in Tallies
    BY <1>1, <1>4, PartsTally DEF part, parts, n
  <2>3. row.tallies[v] = earned
    BY DEF row, SymbolRun
  <2>4. tally \in Tallies /\ Adding(TalliesOf(more, v)) = AddTallies(tally, earned)
    BY <1>12, <2>2, TalliesGrow
  <2>5. Scoring(ScoredAt(Symbol, v), earned)
    BY <1>1, <1>4, SymbolsAreScored DEF part
  <2> HIDE DEF tally, earned
  <2>6. /\ \A r \in DOMAIN Append(run.runs, row) : Append(run.runs, row)[r].tallies[v] \in Tallies
        /\ Adding(ReportsOf(Append(run.runs, row), v)) = AddTallies(tally, earned)
    BY <2>1, <2>2, <2>3, ReportsGrow
  <2>7. DOMAIN run.curve = 1 .. Len(Models) - 1
    BY <2>1 DEF Curved
  <2>8. DOMAIN curve = 1 .. Len(Models) - 1
        /\ \A l \in DOMAIN curve : curve[l][v] = AddTallies(run.curve[l][v], ScoredAt(Symbol, v)[l])
    BY <2>7 DEF curve
  <2>9. Curved(curve, v, AddTallies(tally, earned))
    BY <2>1, <2>4, <2>5, <2>8, CurvedMore
  <2> QED
    BY <2>4, <2>6, <2>9
<1>15. \E S : Append(run.runs, row) \in Seq(S)
  <2>1. PICK S : run.runs \in Seq(S)
    BY <1>1 DEF OfTheParts
  <2> DEFINE T == S \cup {row}
  <2>2. run.runs \in Seq(T) /\ row \in T
    BY <2>1
  <2> HIDE DEF T
  <2>3. Append(run.runs, row) \in Seq(T)
    BY <2>2
  <2> QED
    BY <2>3
<1> HIDE DEF variants
<1>16. OfTheParts(Filed(file, rows), variants, more, Append(run.runs, row), curve)
  BY <1>13, <1>14, <1>15 DEF OfTheParts
<1>17. OfTheParts(journals'[run.id], run'.variants, run'.parts, run'.runs, run'.curve)
  BY <1>10, <1>11, <1>16 DEF more
<1> QED
  BY <1>1, <1>10, <1>11, <1>17, TradesLabelling

(* The counts that are kept apart, of a journal, the reports and a pool. *)
Agreeing(file, variants, runs, pooled) ==
  LET trades == {c \in (DOMAIN variants) \X (DOMAIN pooled.spans) : pooled.trades[c[1]][c[2]] # NoTouch}
      row(v, i) == [symbol |-> pooled.keys[i], variant |-> variants[v].label,
                    entry_ns |-> pooled.spans[i].opened, trade |-> pooled.trades[v][i]]
      reported(v) == [n_trades |-> Total([r \in DOMAIN runs |-> runs[r].tallies[v].n_trades]),
                      total |-> Total([r \in DOMAIN runs |-> runs[r].tallies[v].total])]
      filed == RowsOf(file)
  IN /\ Legible(file)
     /\ Len(filed) = Cardinality(trades) /\ Range(filed) = {row(c[1], c[2]) : c \in trades}
     /\ \A v \in DOMAIN variants : reported(v) = Tally(pooled.trades[v])

LEMMA TheyAgree ==
  ASSUME LeakInv, SweepIsAsked, run.id # 0, NEW pooled, pooled = Pool(run.parts, Len(run.variants)),
         NEW file, NEW curve, OfTheParts(file, run.variants, run.parts, run.runs, curve)
  PROVE  Agreeing(file, run.variants, run.runs, pooled)
<1> DEFINE variants == run.variants
           parts == run.parts
           runs == run.runs
           w == Len(variants)
<1>1. w \in Nat /\ DOMAIN variants = 1 .. w
  BY PartsAreListed
<1>2. PICK n \in Nat : \E part, position : Pooling(pooled, parts, w, n, part, position)
  BY PoolIsOfTheParts
<1>3. PICK part, position : Pooling(pooled, parts, w, n, part, position)
  BY <1>2
<1>4. \A v \in 1 .. w : Tally(pooled.trades[v]) = Adding(TalliesOf(parts, v))
  BY PoolIsOfTheParts
<1>5. \A p \in DOMAIN parts : \A k \in DOMAIN parts[p].observations.spans : k \in Nat
  <2> TAKE p \in DOMAIN parts
  <2>1. SoundPart(parts[p], 1 .. w)
    BY PartsAreListed
  <2>2. /\ Len(parts[p].observations.spans) \in Nat
        /\ DOMAIN parts[p].observations.spans = 1 .. Len(parts[p].observations.spans)
    BY <2>1 DEF SoundPart
  <2> QED
    BY <2>2
<1>6. OfTheParts(file, variants, parts, runs, curve)
  OBVIOUS
<1> HIDE DEF variants, parts, runs
<1>7. Journalled(file, parts, variants)
  BY <1>6 DEF OfTheParts
<1> DEFINE S == PooledCells(pooled, w, n)
           trades == {c \in (DOMAIN variants) \X (DOMAIN pooled.spans) : pooled.trades[c[1]][c[2]] # NoTouch}
           row(v, i) == [symbol |-> pooled.keys[i], variant |-> variants[v].label,
                         entry_ns |-> pooled.spans[i].opened, trade |-> pooled.trades[v][i]]
<1>8. /\ Legible(file) /\ Len(RowsOf(file)) = Cardinality(S)
      /\ Range(RowsOf(file)) = {PooledRowOf(pooled, variants, d) : d \in S}
  BY <1>1, <1>3, <1>5, <1>7, JournalIsOfThePool
<1>9. S = trades
  <2>1. DOMAIN pooled.spans = 1 .. n
    BY <1>3 DEF Pooling
  <2> QED
    BY <1>1, <2>1 DEF PooledCells
<1>10. {PooledRowOf(pooled, variants, d) : d \in S} = {row(c[1], c[2]) : c \in trades}
  BY <1>9 DEF PooledRowOf
<1> DEFINE reported(v) == [n_trades |-> Total([r \in DOMAIN runs |-> runs[r].tallies[v].n_trades]),
                           total |-> Total([r \in DOMAIN runs |-> runs[r].tallies[v].total])]
<1>11. ASSUME NEW v \in DOMAIN variants PROVE reported(v) = Tally(pooled.trades[v])
  <2>1. Adding(ReportsOf(runs, v)) = Adding(TalliesOf(parts, v))
    BY <1>6 DEF OfTheParts
  <2>2. Adding(ReportsOf(runs, v)) = reported(v)
    <3>1. /\ [r \in DOMAIN ReportsOf(runs, v) |-> ReportsOf(runs, v)[r].n_trades]
               = [r \in DOMAIN runs |-> runs[r].tallies[v].n_trades]
          /\ [r \in DOMAIN ReportsOf(runs, v) |-> ReportsOf(runs, v)[r].total]
               = [r \in DOMAIN runs |-> runs[r].tallies[v].total]
      BY DEF ReportsOf
    <3> QED
      BY <3>1 DEF Adding
  <2> QED
    BY <1>1, <1>4, <2>1, <2>2
<1> HIDE DEF S, trades, row, reported
<1>12. Agreeing(file, variants, runs, pooled)
  <2>1. /\ Len(RowsOf(file)) = Cardinality(trades)
        /\ Range(RowsOf(file)) = {row(c[1], c[2]) : c \in trades}
    BY <1>8, <1>9, <1>10
  <2> QED
    BY <1>8, <1>11, <2>1 DEF Agreeing, trades, row, reported
<1> QED
  BY <1>12 DEF variants, runs

LEMMA TradesPoolParts == ASSUME TradesInv, LeakInv, SweepIsAsked, SearchInv, PoolParts PROVE TradesInv'
<1> DEFINE pooled == Pool(run.parts, Len(run.variants))
           found == [phase |-> "recording", recorded |-> 0, pooled |-> pooled]
           file == journals[run.id]
<1>1. /\ run.phase = "labelling" /\ UNCHANGED <<corpus, now, journals, tried>>
      /\ run.id \in Nat /\ run.id # 0 /\ \A t \in tried : t.run \in 1 .. run.id
      /\ {"id", "phase", "variants", "parts", "runs", "curve"} \subseteq DOMAIN run
      /\ OfTheParts(file, run.variants, run.parts, run.runs, run.curve)
  BY DEF PoolParts, TradesInv, LabelsAreKept, UnderWay, SearchInv, RunsAreCounted, LeakInv, PartsAreInTurn
<1>2. Over("refused") \/ run' = Having(found)
  BY DEF PoolParts
<1>3. (\E S : journals' \in Seq(S) /\ Len(journals') = run.id) /\ DOMAIN journals' = 1 .. run.id
  BY <1>1, JournalsStay DEF TradesInv
<1>4. Agreeing(file, run.variants, run.runs, pooled)
  BY <1>1, TheyAgree
<1> HIDE DEF pooled
<1>5. CASE Over("refused")
  BY <1>1, <1>3, <1>5, TradesOver
<1>6. CASE run' = Having(found)
  <2>1. /\ run'.phase = "recording" /\ run'.recorded = 0 /\ run'.pooled = pooled /\ run'.id = run.id
        /\ run'.variants = run.variants /\ run'.parts = run.parts /\ run'.runs = run.runs /\ run'.curve = run.curve
        /\ {"runs", "curve", "pooled"} \subseteq DOMAIN run'
    BY <1>1, <1>6 DEF Having
  <2>2. TypeOK'
    BY <1>1, <1>3, <2>1, TypeStays DEF TradesInv, OneSetOfTrades
  <2>3. JournalsAreCounted'
    BY <1>3, <2>1 DEF JournalsAreCounted
  <2>4. LabelsAreKept'
    BY <1>1, <2>1 DEF LabelsAreKept
  <2>5. PoolIsKept'
    BY <2>1 DEF PoolIsKept, pooled
  <2>6. TalliesAgree' <=> Agreeing(journals'[run'.id], run'.variants, run'.runs, run'.pooled)
    BY <2>1 DEF TalliesAgree, Agreeing, PooledTrades, PooledRow, Reported
  <2>7. TalliesAgree'
    BY <1>1, <1>4, <2>1, <2>6
  <2> QED
    BY <2>1, <2>2, <2>3, <2>4, <2>5, <2>7 DEF TradesInv, OneSetOfTrades, DearerIsNeverBetter
<1> QED
  BY <1>2, <1>5, <1>6

LEMMA TradesRecordTrial == ASSUME TradesInv, LeakInv, SweepIsAsked, SearchInv, RecordTrial PROVE TradesInv'
<1> DEFINE file == journals[run.id]
<1>1. /\ run.phase = "recording" /\ UNCHANGED <<corpus, now, journals>>
      /\ run.id \in Nat /\ run.id # 0 /\ \A t \in tried : t.run \in 1 .. run.id
      /\ {"id", "phase", "variants", "parts", "runs", "curve", "pooled", "recorded"} \subseteq DOMAIN run
      /\ run.recorded \in Nat /\ run.pooled = Pool(run.parts, Len(run.variants))
      /\ \A v \in 1 .. run.recorded : HasSharpe(Columns[v])
      /\ OfTheParts(file, run.variants, run.parts, run.runs, run.curve)
  BY DEF RecordTrial, TradesInv, LabelsAreKept, PoolIsKept, UnderWay, SearchInv, RunsAreCounted, LeakInv,
         PartsAreInTurn, TrialsAreCounted
<1>2. \/ Over("raised") /\ tried' = tried
      \/ /\ HasSharpe(Columns[Turn]) /\ tried' = tried \cup {TrialNow}
         /\ run' = [run EXCEPT !.recorded = @ + 1, !.clock = @ + 1]
  BY DEF RecordTrial
<1>3. (\E S : journals' \in Seq(S) /\ Len(journals') = run.id) /\ DOMAIN journals' = 1 .. run.id
  BY <1>1, JournalsStay DEF TradesInv
<1>4. \A t \in tried' : t.run \in 1 .. run.id
  <2>1. TrialNow.run = run.id /\ run.id \in 1 .. run.id
    BY <1>1 DEF TrialNow
  <2> HIDE DEF TrialNow
  <2> QED
    BY <1>1, <1>2, <2>1
<1>5. CASE Over("raised")
  BY <1>1, <1>3, <1>4, <1>5, TradesOver
<1>6. CASE /\ HasSharpe(Columns[Turn])
           /\ run' = [run EXCEPT !.recorded = @ + 1, !.clock = @ + 1]
  <2>1. /\ run'.phase = "recording" /\ run'.recorded = run.recorded + 1 /\ run'.pooled = run.pooled /\ run'.id = run.id
        /\ run'.variants = run.variants /\ run'.parts = run.parts /\ run'.runs = run.runs /\ run'.curve = run.curve
        /\ DOMAIN run' = DOMAIN run
    BY <1>1, <1>6
  <2>2. TypeOK'
    BY <1>1, <1>3, <1>4, <2>1, TypeStays DEF TradesInv, OneSetOfTrades
  <2>3. JournalsAreCounted'
    BY <1>3, <2>1 DEF JournalsAreCounted
  <2>4. LabelsAreKept'
    BY <1>1, <2>1 DEF LabelsAreKept
  <2>5. Columns' = Columns
    BY <2>1 DEF Columns
  <2>6. \A v \in 1 .. run'.recorded : HasSharpe(Columns[v])
    <3>1. HasSharpe(Columns[run.recorded + 1])
      BY <1>6 DEF Turn
    <3> HIDE DEF Columns
    <3> TAKE v \in 1 .. run'.recorded
    <3>2. v = run.recorded + 1 \/ v \in 1 .. run.recorded
      BY <1>1, <2>1
    <3> QED
      BY <1>1, <3>1, <3>2
  <2>7. PoolIsKept'
    <3> HIDE DEF Columns
    <3> QED
      BY <1>1, <2>1, <2>5, <2>6 DEF PoolIsKept
  <2>8. Agreeing(file, run.variants, run.runs, run.pooled)
    BY <1>1, TheyAgree
  <2>9. TalliesAgree' <=> Agreeing(journals'[run'.id], run'.variants, run'.runs, run'.pooled)
    BY <2>1 DEF TalliesAgree, Agreeing, PooledTrades, PooledRow, Reported
  <2>10. TalliesAgree'
    BY <1>1, <2>1, <2>8, <2>9
  <2> QED
    BY <2>1, <2>2, <2>3, <2>4, <2>7, <2>10 DEF TradesInv, OneSetOfTrades, DearerIsNeverBetter
<1> QED
  BY <1>2, <1>5, <1>6

(* The variant chosen is one of the sweep. *)
LEMMA ChosenOfTheSweep ==
  ASSUME NEW pooled, NEW n \in Nat, n >= 2, Comparable(pooled, n),
         NEW columns, columns = Returns(pooled), \A v \in 1 .. n : HasSharpe(columns[v])
  PROVE  FirstBest([v \in DOMAIN columns |-> Moments(columns[v])]) \in 1 .. n
<1>1. PICK m \in Nat : columns \in [1 .. n -> [1 .. m -> Int]]
  BY DEF Comparable
<1> DEFINE scores == [v \in DOMAIN columns |-> Moments(columns[v])]
<1>2. ASSUME NEW v \in 1 .. n PROVE Moments(columns[v]) \in Ranking
  <2> DEFINE series == columns[v]
  <2>1. series \in [1 .. m -> Int] /\ HasSharpe(series)
    BY <1>1
  <2> HIDE DEF series
  <2>2. Moments(series) \in Ranking
    BY <2>1, RankedByMoments
  <2> QED
    BY <2>2 DEF series
<1>3. scores \in [1 .. n -> Ranking]
  BY <1>1, <1>2
<1> HIDE DEF scores
<1>4. FirstBest(scores) \in 1 .. n
  BY <1>3, BestIsAmongThem
<1> QED
  BY <1>4 DEF scores

LEMMA TradesJudge == ASSUME TradesInv, LeakInv, SweepIsAsked, SearchInv, PboInv, Judge PROVE TradesInv'
<1> DEFINE file == journals[run.id]
           pooled == run.pooled
           w == Len(run.variants)
<1>1. /\ run.phase = "recording" /\ run.recorded = w /\ UNCHANGED <<corpus, now, journals, tried>>
      /\ run.id \in Nat /\ run.id # 0 /\ \A t \in tried : t.run \in 1 .. run.id
      /\ {"id", "phase", "variants", "parts", "runs", "curve", "pooled"} \subseteq DOMAIN run
      /\ pooled = Pool(run.parts, w) /\ \A v \in 1 .. run.recorded : HasSharpe(Columns[v])
      /\ OfTheParts(file, run.variants, run.parts, run.runs, run.curve)
  BY DEF Judge, TradesInv, LabelsAreKept, PoolIsKept, UnderWay, SearchInv, RunsAreCounted, LeakInv, PartsAreInTurn
<1>2. w \in Nat /\ w >= 2 /\ DOMAIN run.variants = 1 .. w
  BY <1>1, PartsAreListed DEF SearchInv, TrialsComeInTurn
<1>3. (\E S : journals' \in Seq(S) /\ Len(journals') = run.id) /\ DOMAIN journals' = 1 .. run.id
  BY <1>1, JournalsStay DEF TradesInv
<1>4. CASE ~Legible(ledger)
  <2>1. Over("raised")
    BY <1>4 DEF Judge
  <2> QED
    BY <1>1, <1>3, <2>1, TradesOver
<1>5. CASE Legible(ledger)
  <2> DEFINE best == FirstBest([v \in DOMAIN Columns |-> Moments(Columns[v])])
             tally == Tally(pooled.trades[best])
             coverage == CoverageOf(pooled, best)
             costs == CurveOf(run.curve, best)
  <2>1. PICK charged, looks, clusters, misses, chosen :
          run' = Having([phase |-> "judged", best |-> best, charged |-> charged, looks |-> looks,
                         clusters |-> clusters, misses |-> misses, chosen |-> chosen, tally |-> tally,
                         coverage |-> coverage, costs |-> costs])
    <3> HIDE DEF Having, Trials
    <3>1. PICK independent \in 1 .. Len(run.variants) :
            LET pool == run.pooled
                columns == Columns
                winner == FirstBest([v \in DOMAIN columns |-> Moments(columns[v])])
                charged == Trials(run.family)
            IN run' = Having([phase |-> "judged", best |-> winner, charged |-> charged,
                       looks |-> Max({1, independent + Len(charged) - Len(run.variants)}),
                       clusters |-> Cardinality({DayOf(pool.spans[i].opened) : i \in DOMAIN pool.spans}),
                       misses |-> Misses(columns, Len(pool.spans), PboBlocks),
                       chosen |-> ChosenBy(pool.spans, columns, CV),
                       tally |-> Tally(pool.trades[winner]),
                       coverage |-> CoverageOf(pool, winner),
                       costs |-> CurveOf(run.curve, winner)])
      BY <1>5 DEF Judge
    <3> QED
      BY <3>1
  <2>2. best \in 1 .. w
    <3>1. Comparable(pooled, w)
      BY <1>1 DEF PboInv, ColumnsAreComparable
    <3> DEFINE columns == Returns(pooled)
    <3>2. Columns = columns
      BY DEF Columns
    <3>3. \A v \in 1 .. w : HasSharpe(columns[v])
      BY <1>1, <3>2
    <3> HIDE DEF pooled, w
    <3>4. columns = Returns(pooled)
      OBVIOUS
    <3> HIDE DEF columns, Columns
    <3>5. FirstBest([v \in DOMAIN columns |-> Moments(columns[v])]) \in 1 .. w
      BY <1>2, <3>1, <3>3, <3>4, ChosenOfTheSweep
    <3> QED
      BY <3>2, <3>5
  <2> HIDE DEF best
  <2>3. /\ run'.phase = "judged" /\ run'.best = best /\ run'.tally = tally /\ run'.coverage = coverage
        /\ run'.costs = costs /\ run'.pooled = pooled /\ run'.id = run.id
        /\ run'.variants = run.variants /\ run'.runs = run.runs
    <3> HIDE DEF tally, coverage, costs, pooled, w
    <3>1. run' = Having([phase |-> "judged", best |-> best, charged |-> charged, looks |-> looks,
                         clusters |-> clusters, misses |-> misses, chosen |-> chosen, tally |-> tally,
                         coverage |-> coverage, costs |-> costs])
      BY <2>1
    <3> QED
      BY <1>1, <3>1 DEF Having, pooled
  <2>4. TypeOK'
    BY <1>1, <1>3, <2>3, TypeStays DEF TradesInv, OneSetOfTrades
  <2>5. JournalsAreCounted'
    BY <1>3, <2>3 DEF JournalsAreCounted
  <2>6. Agreeing(file, run.variants, run.runs, pooled)
    BY <1>1, TheyAgree
  <2>7. PICK n \in Nat : DOMAIN pooled.spans = 1 .. n /\ DOMAIN pooled.trades[best] = 1 .. n
    <3> HIDE DEF pooled
    <3>1. PICK n \in Nat : \E part, position : Pooling(pooled, run.parts, w, n, part, position)
      BY <1>1, PoolIsOfTheParts
    <3> QED
      BY <2>2, <3>1 DEF Pooling
  <2>8. coverage["LOW"].n_trades + coverage["MID"].n_trades + coverage["HIGH"].n_trades
          = Cardinality({i \in Taken(pooled.trades[best]) :
                           DayOf(pooled.spans[i].opened) \in DOMAIN TrailingVolatility(corpus)})
    <3> HIDE DEF pooled
    <3> QED
      BY <2>7, RegimesShareOut
  <2>9. TalliesAgree' <=>
          /\ Agreeing(journals'[run'.id], run'.variants, run'.runs, run'.pooled)
          /\ run'.coverage["LOW"].n_trades + run'.coverage["MID"].n_trades + run'.coverage["HIGH"].n_trades
               = Cardinality({i \in Taken(run'.pooled.trades[run'.best]) :
                                DayOf(run'.pooled.spans[i].opened) \in DOMAIN TrailingVolatility(corpus')})
    BY <2>3 DEF TalliesAgree, Agreeing, PooledTrades, PooledRow, Reported
  <2>10. TalliesAgree'
    <3> HIDE DEF pooled, coverage
    <3> QED
      BY <1>1, <2>3, <2>6, <2>8, <2>9
  <2>11. /\ \A a, b \in DOMAIN costs : a < b =>
              /\ costs[a].tally.n_trades = tally.n_trades
              /\ costs[b].tally.n_trades = tally.n_trades
              /\ costs[a].tally.total >= costs[b].tally.total
    <3> DEFINE sum == Adding(TalliesOf(run.parts, best))
    <3>1. Curved(run.curve, best, sum)
      BY <1>1, <1>2, <2>2 DEF OfTheParts
    <3>2. tally = sum
      BY <1>1, <2>2, PoolIsOfTheParts
    <3>3. costs = CurveOf(run.curve, best)
      OBVIOUS
    <3> HIDE DEF sum, tally, costs
    <3> QED
      BY <3>1, <3>2, <3>3, CurveFalls
  <2>12. DearerIsNeverBetter'
    <3> HIDE DEF tally, costs
    <3> QED
      BY <2>3, <2>11 DEF DearerIsNeverBetter
  <2> QED
    BY <2>3, <2>4, <2>5, <2>10, <2>12 DEF TradesInv, LabelsAreKept, PoolIsKept, UnderWay, OneSetOfTrades
<1> QED
  BY <1>4, <1>5

LEMMA TradesDie ==
  ASSUME TradesInv, SearchInv, Die \/ DieJournalling \/ DieRecording
  PROVE  TradesInv'
<1>1. /\ Over("died") /\ run.phase # "idle" /\ corpus' = corpus /\ now' = now
      /\ run.id \in Nat /\ run.id # 0 /\ \A t \in tried : t.run \in 1 .. run.id
  BY DEF Die, DieJournalling, DieRecording, UnderWay, SearchInv, RunsAreCounted
<1>2. (\E S : journals' \in Seq(S) /\ Len(journals') = run.id) /\ DOMAIN journals' = 1 .. run.id
  <2>1. CASE UNCHANGED journals
    BY <1>1, <2>1, JournalsStay DEF TradesInv
  <2>2. CASE \E left : journals' = [journals EXCEPT ![run.id] = left]
    BY <1>1, <2>2, JournalReplaced DEF TradesInv
  <2> QED
    BY <2>1, <2>2 DEF Die, DieJournalling, DieRecording
<1>3. \A t \in tried' : t.run \in 1 .. run.id
  <2>1. TrialNow.run = run.id /\ run.id \in 1 .. run.id
    BY <1>1 DEF TrialNow
  <2>2. tried' \subseteq tried \cup {TrialNow}
    BY DEF Die, DieJournalling, DieRecording
  <2> HIDE DEF TrialNow
  <2> QED
    BY <1>1, <2>1, <2>2
<1> QED
  BY <1>1, <1>2, <1>3, TradesOver

LEMMA TradesStep ==
  TradesInv /\ PboInv /\ SweepIsAsked /\ LeakInv /\ SearchInv /\ [Next]_vars => TradesInv'
<1> SUFFICES ASSUME TradesInv, PboInv, SweepIsAsked, LeakInv, SearchInv, [Next]_vars PROVE TradesInv'
  OBVIOUS
<1>1. CASE UNCHANGED vars
  <2>1. /\ run' = run /\ corpus' = corpus /\ now' = now /\ journals' = journals /\ tried' = tried
    BY <1>1 DEF vars
  <2>2. TypeOK'
    BY <2>1 DEF TradesInv, OneSetOfTrades, TypeOK
  <2>3. TalliesAgree'
    BY <2>1 DEF TradesInv, OneSetOfTrades, TalliesAgree, PooledTrades, PooledRow, Reported
  <2>4. DearerIsNeverBetter'
    BY <2>1 DEF TradesInv, OneSetOfTrades, DearerIsNeverBetter
  <2>5. JournalsAreCounted' /\ LabelsAreKept'
    BY <2>1 DEF TradesInv, JournalsAreCounted, LabelsAreKept, UnderWay
  <2>6. PoolIsKept'
    BY <2>1 DEF TradesInv, PoolIsKept, Columns
  <2> QED
    BY <2>2, <2>3, <2>4, <2>5, <2>6 DEF TradesInv, OneSetOfTrades
<1>2. CASE Next
  BY <1>2, TradesMeasure, TradesPassOver, TradesLabelSymbol, TradesPoolParts, TradesRecordTrial, TradesJudge,
     TradesDie DEF Next
<1> QED
  BY <1>1, <1>2

(* One set of trades is behind everything a measurement says.  The journal  *)
(* (_journal_trades, part by part, whatever died before) reads back a row   *)
(* for each trade of the pooled columns and no other; what the instruments *)
(* report adds up to what each column holds; the regimes share out those   *)
(* of the winner that opened on a day with a history; and each level of    *)
(* its cost curve has as many trades, and earns no more the dearer it is.  *)
THEOREM TradesAreAlwaysOneSet == Spec => []OneSetOfTrades
<1>1. TradesInv => OneSetOfTrades
  BY DEF TradesInv
<1> QED
  BY <1>1, SearchInit, SearchStep, LeakInit, LeakStep, AskedInit, AskedStep, PboInit, PboStep, TradesInit, TradesStep,
     PTL DEF Spec
=============================================================================
