--------------------------- MODULE SessionLevels ---------------------------
(***************************************************************************)
(* features/levels.py: the anchors of a session, kept current one bar at a *)
(* time.  A tick is a minute.  Prices are integers and never 0, so 0 stands *)
(* for None; fractions are integers over Scale.  Sums behind the VWAP are   *)
(* kept exactly, in thirds of a price because a typical price is a third.   *)
(***************************************************************************)
EXTENDS Integers, Sequences, SequencesExt, FiniteSets, FiniteSetsExt

CONSTANTS
  OpeningWindows,  \* OPENING_WINDOWS
  RangeMemory,     \* RANGE_MEMORY
  MoveMemory,      \* MOVE_MEMORY
  VolumeMemory,    \* VOLUME_MEMORY
  Scale            \* the denominator of a fraction

None == 0
Nowhere == <<>>

Magnitude(n) == IF n < 0 THEN -n ELSE n
Total(seq) == FoldLeft(LAMBDA sum, n : sum + n, 0, seq)
Newest(seq, n) == IF Len(seq) <= n THEN seq ELSE SubSeq(seq, Len(seq) - n + 1, Len(seq))
HighestOf(bars) == Max({bars[i].high : i \in DOMAIN bars})
LowestOf(bars) == Min({bars[i].low : i \in DOMAIN bars})

(* The places up to n, in order, and what a sequence has at such places; *)
(* and a dictionary with one entry set.                                  *)
Listed(places, n) ==
  LET listed[k \in 0..n] ==
        IF k = 0 THEN <<>> ELSE IF k \in places THEN Append(listed[k - 1], k) ELSE listed[k - 1]
  IN listed[n]
Kept(seq, places) ==
  LET at == Listed(places, Len(seq)) IN [i \in DOMAIN at |-> seq[at[i]]]

With(f, x, v) == [y \in DOMAIN f \cup {x} |-> IF y = x THEN v ELSE f[y]]
-----------------------------------------------------------------------------
(* opening_range, of a session's first bars. *)
OpeningRange(bars, minutes) ==
  IF Len(bars) < minutes THEN Nowhere
  ELSE LET window == SubSeq(bars, 1, minutes)
       IN [high |-> HighestOf(window), low |-> LowestOf(window)]

Width(range) == range.high - range.low
BreaksUp(range, price) == price > range.high
BreaksDown(range, price) == price < range.low

(* vwap_contribution and dispersion_contribution: the feed's average where *)
(* there is one, the typical price otherwise, weighed by the volume.       *)
NothingPaid == [value |-> 0, volume |-> 0, square |-> 0]
PaidIn(bar) ==
  LET price == IF bar.vwap # None THEN 3 * bar.vwap ELSE bar.high + bar.low + bar.close
  IN IF bar.volume <= 0 THEN NothingPaid
     ELSE [value |-> price * bar.volume, volume |-> bar.volume,
           square |-> price * price * bar.volume]
AndPaid(paid, bar) == [f \in DOMAIN paid |-> paid[f] + PaidIn(bar)[f]]

(* session_vwap, of the bars that closed by then. *)
SessionPaid(bars, until) ==
  LET paid[k \in 0..Len(bars)] ==
        IF k = 0 THEN NothingPaid
        ELSE IF bars[k].ts <= until THEN AndPaid(paid[k - 1], bars[k]) ELSE paid[k - 1]
  IN paid[Len(bars)]

(* vwap_distance and vwap_sigma_of, both times 3 * volume * VWAP; the second squared. *)
Distance(price, paid) == 3 * price * paid.volume - paid.value
Variance(paid) == Max({0, paid.square * paid.volume - paid.value * paid.value})
-----------------------------------------------------------------------------
(* SessionLevels: what a strategy may read of a session.                   *)
LevelFields ==
  {"day", "open", "close_at", "next_open", "session_open", "high", "low", "close", "paid",
   "bar_count", "prior_close", "prior_range_mean", "ranges", "relative_volume", "mean_move"}
NoLevels == [day |-> 0]

Gap(l) == IF l.prior_close = None THEN 0 ELSE l.session_open - l.prior_close

(* gap_in_ranges, at least that many hundredths of a range wide. *)
GapReaches(l, ranges) ==
  /\ l.prior_close # None /\ l.prior_range_mean # None
  /\ Magnitude(Gap(l)) * Scale >= ranges * l.prior_range_mean

NewBook ==
  [levels |-> NoLevels, session |-> -1, prior_close |-> None, ranges |-> <<>>,
   moves |-> <<>>, session_moves |-> <<>>, volumes |-> <<>>, session_volumes |-> <<>>,
   paid |-> NothingPaid, opening |-> <<>>]

Archived(profiles, profile, memory) ==
  IF profile = <<>> THEN profiles ELSE Newest(Append(profiles, profile), memory)

(* What the bell leaves of a book, before the close and the profiles are carried. *)
ClearedButThePaid(book) == [NewBook EXCEPT !.paid = book.paid]
Cleared(book) == NewBook

(* _roll: only the close, the range and the two profiles survive the bell. *)
Roll(book, s) ==
  LET finished == book.levels
      traded == finished # NoLevels
  IN [Cleared(book) EXCEPT
        !.session = s.open,
        !.prior_close = IF traded THEN finished.close ELSE book.prior_close,
        !.ranges = IF traded THEN Newest(Append(book.ranges, finished.high - finished.low), RangeMemory)
                   ELSE book.ranges,
        !.moves = Archived(book.moves, book.session_moves, MoveMemory),
        !.volumes = Archived(book.volumes, book.session_volumes, VolumeMemory)]

(* What the completed sessions that reached this minute had there. *)
SamplesAt(profiles, minute) ==
  LET reached == Kept(profiles, {i \in DOMAIN profiles : minute \in DOMAIN profiles[i]})
  IN [i \in DOMAIN reached |-> reached[i][minute]]

RangeMean(book) ==
  IF Len(book.ranges) < RangeMemory THEN None ELSE Total(book.ranges) \div Len(book.ranges)

MeanMove(book, minute) ==
  LET samples == SamplesAt(book.moves, minute)
  IN IF Len(book.moves) < MoveMemory \/ samples = <<>> THEN None
     ELSE Total(samples) \div Len(samples)

RelativeVolume(book, minute) ==
  LET samples == SamplesAt(book.volumes, minute)
  IN IF Len(book.volumes) < VolumeMemory \/ Total(samples) <= 0 THEN None
     ELSE (book.paid.volume * Len(samples) * Scale) \div Total(samples)

MoveFrom(start, price) == (Magnitude(price - start) * Scale) \div start

(* The session's first bar sets the open; each window is cut when it fills. *)
LevelsAfterBar(book, before, bar, s) ==
  LET first == before = NoLevels
      count == IF first THEN 1 ELSE before.bar_count + 1
      minute == bar.ts - s.open
      filled == (IF first THEN {} ELSE DOMAIN before.ranges) \cup ({count} \cap OpeningWindows)
  IN [day |-> s.day, open |-> s.open, close_at |-> s.close, next_open |-> s.next_open,
      session_open |-> IF first THEN bar.open ELSE before.session_open,
      high |-> IF first THEN bar.high ELSE Max({before.high, bar.high}),
      low |-> IF first THEN bar.low ELSE Min({before.low, bar.low}),
      close |-> bar.close, paid |-> book.paid, bar_count |-> count,
      prior_close |-> book.prior_close, prior_range_mean |-> RangeMean(book),
      ranges |-> [w \in filled |-> IF w = count THEN OpeningRange(book.opening, w) ELSE before.ranges[w]],
      relative_volume |-> RelativeVolume(book, minute),
      mean_move |-> MeanMove(book, minute)]

(* SessionLevelTracker.update; a bar that no session holds changes nothing. *)
Update(book, bar, s) ==
  LET today == IF book.session = s.open THEN book ELSE Roll(book, s)
      start == IF today.levels = NoLevels THEN bar.open ELSE today.levels.session_open
      minute == bar.ts - s.open
      paid == AndPaid(today.paid, bar)
      folded == [today EXCEPT
        !.paid = paid,
        !.opening = IF Len(@) < Max(OpeningWindows) THEN Append(@, bar) ELSE @,
        !.session_moves = With(@, minute, MoveFrom(start, bar.close)),
        !.session_volumes = With(@, minute, paid.volume)]
  IN IF s = Nowhere THEN book
     ELSE [folded EXCEPT !.levels = LevelsAfterBar(folded, today.levels, bar, s)]
=============================================================================
