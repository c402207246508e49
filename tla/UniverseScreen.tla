--------------------------- MODULE UniverseScreen ---------------------------
(***************************************************************************)
(* `universe build`: which instruments were liquid enough on which day     *)
(* (ingest/universe_history.py), the membership a reader is given          *)
(* (core/universe.py) and the file between them                            *)
(* (universe_history_parquet.py).  And core/sectors.py: which sector an    *)
(* instrument was in on a day, from a file of dated assignments.           *)
(***************************************************************************)
EXTENDS DailyCorpus

CONSTANTS
  Lookback,       \* sessions in the trailing window
  Slack,          \* _SLACK_DAYS
  FloorOf,        \* per venue's currency: the least median value and the least close
  Starts,         \* first days a build may be asked for
  SectorFiles,    \* files of assignments a reader may be handed
  Forever         \* an assignment with no end; a day after every other

VARIABLES
  history,    \* history.parquet
  built,      \* the last build that was screened, and the corpus it saw
  loaded,     \* what the last reader of the file was given
  sectors     \* the assignments in force; none until a file is accepted

screenVars == <<history, built, loaded, sectors>>

ASSUME StartsAssumption == Starts \subseteq Days

Venues == {VenueOf[s] : s \in Traded}
NoRows == [d \in {} |-> {}]
NotBuilt == [start |-> 0, end |-> 0, corpus |-> daily, rows |-> NoRows, writing |-> FALSE]
NoHistory == [state |-> "absent", rows |-> {}, digest |-> NoRows]
NotLoaded == [given |-> FALSE, rows |-> NoRows]
NoSectors == [file |-> {}, accepted |-> FALSE]

ScreenTypeOK ==
  /\ history.state \in {"absent", "torn", "whole"}
  /\ DOMAIN built.rows \subseteq Days /\ DOMAIN loaded.rows \subseteq Days
  /\ built.writing \in BOOLEAN /\ loaded.given \in BOOLEAN /\ sectors.accepted \in BOOLEAN

ScreenInit ==
  /\ history = NoHistory
  /\ built = NotBuilt
  /\ loaded = NotLoaded
  /\ sectors = NoSectors
-----------------------------------------------------------------------------
(* _window_start: every venue must have the window before the first day.   *)
ReachBack(start) == start - (2 * Lookback + Slack)
WindowFits(start) ==
  \A v \in Venues : Cardinality({d \in SessionsOf[v] : ReachBack(start) <= d /\ d < start}) >= Lookback

(* statistics.median of the window, doubled. *)
TwiceMedian(values) ==
  LET ordered == SortSeq(values, <)
      n == Len(ordered)
  IN ordered[(n + 1) \div 2] + ordered[n \div 2 + 1]

(* The last bars of a window that ends before the session. *)
UpToTheDay(bars, d) == SubSeq(bars, 1, Cardinality({i \in DOMAIN bars : bars[i].day <= d}))
Past(bars, d) == SubSeq(bars, 1, Cardinality({i \in DOMAIN bars : bars[i].day < d}))
Window(bars, d) ==
  LET past == Past(bars, d) IN SubSeq(past, Len(past) - Lookback + 1, Len(past))

Passes(s, bars, d) ==
  LET window == Window(bars, d)
      floor == FloorOf[VenueOf[s]]
  IN /\ Len(Past(bars, d)) >= Lookback
     /\ window[Lookback].close >= floor.close
     /\ TwiceMedian([i \in 1 .. Lookback |-> window[i].close * window[i].volume]) >= 2 * floor.value

(* screen_universe: a row for every day some venue trades; an instrument   *)
(* is in it only on its own venue's days.                                  *)
InSession(s, d) == d \in SessionDays(s)

Screen(start, end) ==
  [d \in (UNION {SessionsOf[v] : v \in Venues}) \cap (start .. end) |->
     {s \in Traded : InSession(s, d) /\ Passes(s, ReadDaily(s, ReachBack(start), end), d)}]

Build(start, end) ==
  /\ start <= end
  /\ ~built.writing
  /\ WindowFits(start)
  /\ built' = [start |-> start, end |-> end, corpus |-> daily, rows |-> Screen(start, end), writing |-> TRUE]
  /\ history' = [NoHistory EXCEPT !.state = "torn"]
  /\ UNCHANGED <<loaded, sectors>>

(* UniverseHistoryStore.write: a row per member, a null row for a day with none. *)
Nobody == "nobody"
ASSUME NobodyAssumption == Nobody \notin Traded

MembersOnly(rows) == {r \in (DOMAIN rows) \X Traded : r[2] \in rows[r[1]]}
Encoded(rows) ==
  {r \in (DOMAIN rows) \X (Traded \cup {Nobody}) :
     IF r[2] = Nobody THEN rows[r[1]] = {} ELSE r[2] \in rows[r[1]]}
Decoded(file) == [d \in {r[1] : r \in file} |-> {s \in Traded : <<d, s>> \in file}]

FinishBuild ==
  /\ built.writing
  /\ built' = [built EXCEPT !.writing = FALSE]
  /\ history' = [state |-> "whole", rows |-> Encoded(built.rows), digest |-> built.rows]
  /\ UNCHANGED <<loaded, sectors>>

DieBuilding ==
  /\ built.writing
  /\ built' = [built EXCEPT !.writing = FALSE]
  /\ UNCHANGED <<history, loaded, sectors>>

(* UniverseHistoryStore.read refuses what does not digest as written. *)
Load ==
  /\ history.state = "whole"
  /\ loaded' = LET rows == Decoded(history.rows)
               IN IF rows = history.digest THEN [given |-> TRUE, rows |-> rows] ELSE NotLoaded
  /\ UNCHANGED <<history, built, sectors>>

(* UniverseHistory.as_of: the latest row at or before the day.  Before the *)
(* first there is no answer.                                               *)
AsOf(rows, day) == rows[Max({d \in DOMAIN rows : d <= day})]
-----------------------------------------------------------------------------
(* SectorAssignment and SectorMap: a file lists dated assignments. *)
ASSUME SectorFilesAssumption ==
  /\ Forever \in Nat
  /\ \A rows \in SectorFiles : IsFiniteSet(rows) /\ \A row \in rows : row.from \in Nat /\ row.until \in 0 .. Forever

Holds(row, day) == row.from <= day /\ day < row.until
WellFormed(row) == row.from < row.until /\ row.symbol # row.sector

(* sorted(assignments), of one instrument, and _refuse_overlaps of neighbours. *)
Later(a, b) == a.symbol = b.symbol /\ a.from <= b.from /\ a # b
Neighbours(rows, a, b) ==
  Later(a, b) /\ ~\E c \in rows : c # a /\ c # b /\ Later(a, c) /\ Later(c, b) /\ ~Later(c, a) /\ ~Later(b, c)
TouchOrOverlap(a, b) == a.until = Forever \/ b.from <= a.until
Overlap(a, b) == a.until = Forever \/ b.from < a.until

Accepts(rows) ==
  /\ \A row \in rows : WellFormed(row)
  /\ \A a, b \in rows : Neighbours(rows, a, b) => ~Overlap(a, b)

(* SectorFile: a process reads its one file once. *)
LoadSectors ==
  /\ sectors.file = {}
  /\ \E rows \in SectorFiles :
       sectors' = [file |-> rows, accepted |-> Accepts(rows)]
  /\ UNCHANGED <<history, built, loaded>>

SectorsOn(symbol, day) == {row.sector : row \in {r \in sectors.file : r.symbol = symbol /\ Holds(r, day)}}
-----------------------------------------------------------------------------
(* Who was eligible on a day is settled by the sessions before it: two     *)
(* builds that saw the same earlier bars say the same of it, whatever has  *)
(* been filled in for the day itself or later (the point-in-time rule of   *)
(* universe_history.py).                                                   *)
RowsComeFromTheirPast ==
  [][(built'.start = built.start) =>
       \A d \in DOMAIN built.rows \cap DOMAIN built'.rows : \A s \in Traded :
         (\A e \in 1 .. d - 1 : built.corpus[s][e] = built'.corpus[s][e])
         => (s \in built.rows[d] <=> s \in built'.rows[d])]_built

(* Every screen that was written to the end reads back as it was screened, *)
(* the days on which nobody qualified included (UniverseHistoryStore).     *)
FinishedFileReadsBack ==
  history.state = "whole" => Decoded(history.rows) = history.digest

(* Nobody is traded on an old decision: on any day a venue trades inside   *)
(* the range, whoever the history answers with was screened for that very  *)
(* day, on a session of its own venue (as_of carries rows forward).        *)
NobodyIsCarriedForward ==
  \A d \in DOMAIN loaded.rows :
    /\ AsOf(loaded.rows, d) = loaded.rows[d]
    /\ \A s \in AsOf(loaded.rows, d) : d \in SessionDays(s)

(* The history answers for the day it is asked about, from the file that    *)
(* was written.                                                             *)
HistoryAnswersForItsDay == DailyTypeOK /\ ScreenTypeOK /\ FinishedFileReadsBack /\ NobodyIsCarriedForward

(* A file of sectors is accepted exactly when it never has an instrument   *)
(* in two sectors on one day, though only neighbours are compared          *)
(* (_refuse_overlaps).                                                     *)
SectorIsUnique ==
  LET wellFormed == \A row \in sectors.file : WellFormed(row)
      unique == \A s \in {row.symbol : row \in sectors.file}, d \in 0 .. Forever - 1 :
                  Cardinality({row \in sectors.file : row.symbol = s /\ Holds(row, d)}) <= 1
  IN sectors.file # {} => (sectors.accepted <=> wellFormed /\ unique)

(* Who is in the universe on a day, and in which sector, has one answer,    *)
(* and it is that day's.                                                    *)
AnswersAreOfTheirDay == HistoryAnswersForItsDay /\ SectorIsUnique
=============================================================================
