---------------------------- MODULE CorpusAudit -----------------------------
(***************************************************************************)
(* `corpus check`: what ingest/quality.py finds wrong with a corpus, from  *)
(* the questions adapters/storage/duckdb_catalog.py answers about it and   *)
(* the sessions of core/calendar.py.  A cell is the bars held of one       *)
(* instrument and session: how many at each time, and whether they look    *)
(* like trading.                                                           *)
(***************************************************************************)
EXTENDS Integers, FiniteSets, FiniteSetsExt

CONSTANTS
  Audited,       \* the instruments of the universe file
  Unlisted,      \* one the corpus also holds, in no universe
  VenueHeld,     \* the venue of every instrument held
  Calendar,      \* Calendar[v][d]: when the session of day d opens and closes
  BarTicks,      \* interval.nanos, of the interval audited
  Asked,         \* the days asked for: first and last
  MaxEdits       \* changes to the corpus between its creation and the audit

VARIABLES
  cells,     \* cells[s][d]: bars (copies at each time) and how they traded
  edits,     \* changes made so far
  report     \* the last audit

auditVars == <<cells, edits, report>>

Held == Audited \cup {Unlisted}

(* A venue's sessions are days, each opens before it closes, and a bar     *)
(* lasts a while (TradingSession and BarInterval).                         *)
ASSUME AuditAssumption ==
  /\ BarTicks \in Nat \ {0} /\ MaxEdits \in Nat
  /\ Asked[1] \in Int /\ Asked[2] \in Int
  /\ \A s \in Held : DOMAIN Calendar[VenueHeld[s]] \subseteq Int
  /\ \A s \in Held : \A d \in DOMAIN Calendar[VenueHeld[s]] :
       LET session == Calendar[VenueHeld[s]][d]
       IN session.open \in Int /\ session.close \in Int /\ session.open < session.close

SessionsBetween(v, first, last) == {d \in DOMAIN Calendar[v] : first <= d /\ d <= last}
InRange(s) == SessionsBetween(VenueHeld[s], Asked[1], Asked[2])

(* TradingSession.expected_bars and holds_bar. *)
ExpectedBars(session) ==
  IF BarTicks >= session.close - session.open THEN 1 ELSE (session.close - session.open) \div BarTicks
HoldsBar(session, ts) == session.open < ts /\ ts <= session.close

(* The times a feed stamps bars with: every interval from the open. *)
Grid(session) ==
  IF BarTicks >= session.close - session.open THEN {session.close}
  ELSE {ts \in session.open + 1 .. session.close : (ts - session.open) % BarTicks = 0}

NoBars == [copies |-> [ts \in {} |-> 0], traded |-> "normally"]
Whole(session) == [copies |-> [ts \in Grid(session) |-> 1], traded |-> "normally"]
NoReport == [made |-> FALSE, missing |-> {}, short |-> {}, gaps |-> {}, duplicates |-> {}, suspect |-> {}, late |-> {}]

AuditTypeOK ==
  /\ \A s \in Held : \A d \in DOMAIN Calendar[VenueHeld[s]] :
       /\ \A ts \in DOMAIN cells[s][d].copies : HoldsBar(Calendar[VenueHeld[s]][d], ts) /\ cells[s][d].copies[ts] \in 1 .. 2
       /\ cells[s][d].traded \in {"normally", "flat", "halted"}
  /\ edits \in 0 .. MaxEdits
  /\ report.made \in BOOLEAN

AuditInit ==
  /\ cells = [s \in Held |-> [d \in DOMAIN Calendar[VenueHeld[s]] |-> Whole(Calendar[VenueHeld[s]][d])]]
  /\ edits = 0
  /\ report = NoReport
-----------------------------------------------------------------------------
(* What can be wrong with a session's bars. *)
Edit(s, d, cell) ==
  /\ edits < MaxEdits
  /\ cells' = [cells EXCEPT ![s][d] = cell]
  /\ edits' = edits + 1
  /\ report' = NoReport

(* The feed never answered for the session, or lacked one bar of it. *)
LeftUnfilled(s, d) == DOMAIN cells[s][d].copies # {} /\ Edit(s, d, NoBars)

LostBar(s, d) ==
  \E ts \in DOMAIN cells[s][d].copies :
    Edit(s, d, [cells[s][d] EXCEPT !.copies = [t \in DOMAIN @ \ {ts} |-> @[t]]])

(* A second file under the partition holds a bar of it as well. *)
SecondCopy(s, d) ==
  \E ts \in DOMAIN cells[s][d].copies :
    cells[s][d].copies[ts] = 1 /\ Edit(s, d, [cells[s][d] EXCEPT !.copies[ts] = 2])

(* Volume stays away, or several bars close alike (one has but one close). *)
NotTraded(s, d) ==
  \E how \in {"flat", "halted"} :
    /\ cells[s][d].traded # how
    /\ how = "flat" => Cardinality(DOMAIN cells[s][d].copies) > 1
    /\ Edit(s, d, [cells[s][d] EXCEPT !.traded = how])
-----------------------------------------------------------------------------
(* DuckDBCatalog: bar_counts, gaps, duplicate_timestamps, suspect_sessions *)
RowCount(copies) == Cardinality(UNION {{ts} \X (1 .. copies[ts]) : ts \in DOMAIN copies})

Gaps(copies) ==
  {gap \in (DOMAIN copies) \X (DOMAIN copies) :
     /\ gap[2] - gap[1] > BarTicks
     /\ ~\E ts \in DOMAIN copies : gap[1] < ts /\ ts < gap[2]}

MissingBars(gap) == (gap[2] - gap[1]) \div BarTicks - 1

ThreeOrMore(s, d) == {<<s, d, ts>> : ts \in {t \in DOMAIN cells[s][d].copies : cells[s][d].copies[t] > 2}}
Duplicates(s, d) == {<<s, d, ts>> : ts \in {t \in DOMAIN cells[s][d].copies : cells[s][d].copies[t] > 1}}

Suspect(cell) ==
  \/ cell.traded = "halted" /\ DOMAIN cell.copies # {}
  \/ cell.traded = "flat" /\ RowCount(cell.copies) > 1

(* audit_corpus.  Duplicates and suspects are asked of the whole corpus.   *)
HeldDays(s) == {d \in DOMAIN Calendar[VenueHeld[s]] : RowCount(cells[s][d].copies) # 0}

Short(s, d) ==
  LET held == RowCount(cells[s][d].copies)
  IN held # 0 /\ held < ExpectedBars(Calendar[VenueHeld[s]][d])

LateListing(s) == HeldDays(s) # {} /\ InRange(s) # {} /\ Min(HeldDays(s)) > Min(InRange(s))

AskedOf(symbols) == {c \in symbols \X (Asked[1] .. Asked[2]) : c[2] \in InRange(c[1])}

Findings ==
  [made |-> TRUE,
   missing |-> {c \in AskedOf(Audited) : c[2] \notin HeldDays(c[1])},
   short |-> {c \in AskedOf(Audited) : Short(c[1], c[2])},
   gaps |-> UNION {{<<c[1], c[2], gap>> : gap \in Gaps(cells[c[1]][c[2]].copies)} : c \in AskedOf(Audited)},
   duplicates |-> UNION {Duplicates(c[1], c[2]) : c \in AskedOf(Held)},
   suspect |-> {c \in AskedOf(Held) : Suspect(cells[c[1]][c[2]])},
   late |-> {s \in Audited : LateListing(s)}]

Audit == report' = Findings /\ UNCHANGED <<cells, edits>>

Clean(r) == r.missing = {} /\ r.short = {} /\ r.gaps = {} /\ r.duplicates = {} /\ r.suspect = {}
-----------------------------------------------------------------------------
Sound(s, d) == cells[s][d] = Whole(Calendar[VenueHeld[s]][d])

(* A clean report means every session asked for is held, bar for bar, once *)
(* and traded: counts, holes and copies are found by different questions,  *)
(* and a copy must not make up for a bar that is not there (audit_corpus). *)
CleanMeansWhole ==
  (report.made /\ Clean(report)) => \A s \in Audited : \A d \in InRange(s) : Sound(s, d)

(* And it is not clean for nothing: a range of whole sessions is, half     *)
(* days included, whatever is wrong outside the range.                     *)
WholeMeansClean ==
  (report.made /\ \A s \in Held : \A d \in InRange(s) : Sound(s, d)) => Clean(report)

(* Every bar a session lacks was before its first, after its last, or in   *)
(* one hole the report names; a hole says of how many bars, and they with  *)
(* those held make up the count (Gap.missing_bars, ShortSession.missing).  *)
HolesAccountForTheCount ==
  report.made =>
    \A s \in Audited : \A d \in InRange(s) :
      LET session == Calendar[VenueHeld[s]][d]
          copies == cells[s][d].copies
          lacks == Grid(session) \ DOMAIN copies
          before == {ts \in lacks : \A t \in DOMAIN copies : ts < t}
          after == {ts \in lacks : \A t \in DOMAIN copies : ts > t}
          holes == {g \in report.gaps : g[1] = s /\ g[2] = d}
          in(g) == {ts \in Grid(session) : g[3][1] < ts /\ ts < g[3][2]}
      IN (copies # NoBars.copies /\ \A ts \in DOMAIN copies : copies[ts] = 1) =>
           /\ lacks = before \cup after \cup UNION {in(g) : g \in holes}
           /\ \A g \in holes : MissingBars(g[3]) = Cardinality(in(g)) /\ in(g) \subseteq lacks \ (before \cup after)
           /\ \A g, h \in holes : g # h => in(g) \cap in(h) = {}
           /\ RowCount(copies) + Cardinality(lacks) = ExpectedBars(session)

(* The report says what is wrong with the corpus, and nothing else.         *)
CleanIsWhole == AuditTypeOK /\ CleanMeansWhole /\ WholeMeansClean /\ HolesAccountForTheCount

=============================================================================
