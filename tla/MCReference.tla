---------------------------- MODULE MCReference -----------------------------
(***************************************************************************)
(* The desks that keep the corpus honest share nothing but what they *)
(* read, so each behaviour works one of them: desk says which.             *)
(***************************************************************************)
EXTENDS CorporateActions, UniverseScreen, CorpusAudit, VendorSnapshots

VARIABLE desk

Desks == {"prices", "check", "screen", "sectors", "audit", "seeds"}

vars == <<desk, dailyVars, actionVars, screenVars, auditVars, seedVars>>

Init ==
  /\ desk \in Desks
  /\ DailyInit /\ ActionsInit /\ ScreenInit /\ AuditInit
  /\ SeedsInit /\ (desk = "seeds" \/ vendor = "kibot")

CONSTANT FillDays    \* the days a daily backfill is run on

FillsToday ==
  /\ desk \in {"check", "screen"} /\ today \in FillDays
  /\ \E s \in Traded : BackfillDaily(s)
  /\ UNCHANGED <<desk, actionVars, screenVars, auditVars, seedVars>>

(* A command is over within its day. *)
DayEnds ==
  /\ desk \in {"prices", "check", "screen"}
  /\ NextDay /\ pass.at = 0 /\ ~built.writing
  /\ UNCHANGED <<desk, actionVars, screenVars, auditVars, seedVars>>

(* A check does not look at what is in the file: one that is whole will do. *)
FetchesActions ==
  /\ desk = "prices" \/ (desk = "check" /\ stored.state # "whole")
  /\ BeginFetch \/ FetchOne \/ GiveUp \/ BeginWrite \/ EndWrite \/ DieFetching
  /\ UNCHANGED <<desk, dailyVars, screenVars, auditVars, seedVars>>

ReadsPrices ==
  /\ desk = "prices"
  /\ \E as_of \in 1 .. today, total_return \in BOOLEAN : ReadAdjusted(as_of, total_return)
  /\ UNCHANGED <<desk, dailyVars, screenVars, auditVars, seedVars>>

ChecksActions ==
  /\ desk = "check" /\ Check(today)
  /\ UNCHANGED <<desk, dailyVars, screenVars, auditVars, seedVars>>

BuildsUniverse ==
  /\ desk = "screen"
  /\ (\E start \in Starts : Build(start, today)) \/ FinishBuild \/ DieBuilding \/ Load
  /\ UNCHANGED <<desk, dailyVars, actionVars, auditVars, seedVars>>

ReadsSectors ==
  /\ desk = "sectors" /\ LoadSectors
  /\ UNCHANGED <<desk, dailyVars, actionVars, auditVars, seedVars>>

AuditsCorpus ==
  /\ desk = "audit"
  /\ \/ \E s \in Held : \E d \in DOMAIN Calendar[VenueHeld[s]] :
          LeftUnfilled(s, d) \/ LostBar(s, d) \/ SecondCopy(s, d) \/ NotTraded(s, d)
     \/ Audit
  /\ UNCHANGED <<desk, dailyVars, actionVars, screenVars, seedVars>>

(* An ingest reads its folder once, at the start, so what a fetch does while *)
(* it goes on it may as well do afterwards.                                 *)
FetchesSamples ==
  /\ desk = "seeds" /\ ingesting = NoIngest
  /\ TimePasses \/ BeginSeedFetch \/ Ask \/ Overwrites \/ Store \/ Enter \/ FetchOver
  /\ UNCHANGED <<desk, dailyVars, actionVars, screenVars, auditVars>>

IngestsSamples ==
  /\ desk = "seeds"
  /\ (\E day \in Sessions : BeginIngest(day)) \/ IngestOne \/ IngestDone \/ DieIngesting
  /\ UNCHANGED <<desk, dailyVars, actionVars, screenVars, auditVars>>

Next ==
  \/ FillsToday \/ DayEnds \/ FetchesActions \/ ReadsPrices \/ ChecksActions
  \/ BuildsUniverse \/ ReadsSectors \/ AuditsCorpus \/ FetchesSamples \/ IngestsSamples

Spec == Init /\ [][Next]_vars

-----------------------------------------------------------------------------
(* A stock that splits two for one, or three for one, or the other way     *)
(* round, and pays a dividend; and a Toronto stock that does not.          *)
TheUniverse == <<"AAA", "TTT">>
TheVenues == [s \in {"AAA", "TTT"} |-> IF s = "AAA" THEN "NYSE" ELSE "TSX"]
TheSessions == [v \in {"NYSE", "TSX"} |-> IF v = "NYSE" THEN {1, 2, 3, 5} ELSE {1, 2, 4, 5}]
TheStrays == [v \in {"NYSE", "TSX"} |-> IF v = "NYSE" THEN {} ELSE {3}]

Flat(open, close, volume) == [open |-> open, close |-> close, volume |-> volume]
TheMarket ==
  [s \in {"AAA", "TTT"} |-> [d \in 1 .. 5 |->
     CASE s = "AAA" -> <<Flat(3600, 3600, 2400), Flat(3600, 3660, 1800), Flat(3540, 3600, 2400), Flat(3600, 3600, 600),
                         Flat(3600, 3540, 3000)>>[d]
       [] s = "TTT" -> <<Flat(1200, 1200, 600), Flat(1200, 1260, 1200), Flat(1260, 1260, 600), Flat(1740, 1800, 1200),
                         Flat(1800, 1800, 600)>>[d]]]

Split(on, new, old) == [on |-> on, split |-> <<new, old>>, dividend |-> 0]
Dividend(on, cash) == [on |-> on, split |-> <<1, 1>>, dividend |-> cash]
TheTruths ==
  {[s \in {"AAA", "TTT"} |-> IF s = "AAA" THEN {Dividend(3, 120), Split(5, 3, 1)} ELSE {}],
   [s \in {"AAA", "TTT"} |-> IF s = "AAA" THEN {Split(2, 2, 1)} ELSE {Split(5, 1, 2)}]}

TheFloors == [v \in {"NYSE", "TSX"} |-> IF v = "NYSE" THEN [value |-> 7000000, close |-> 1500]
                                                     ELSE [value |-> 1100000, close |-> 1200]]

Row(symbol, sector, from, until) == [symbol |-> symbol, sector |-> sector, from |-> from, until |-> until]
TheRows == {Row("AAA", x, f, u) : x \in {"XLK", "XLC", "AAA"}, f \in 0 .. 2, u \in {2, 4}} \cup {Row("TTT", "XLK", 0, 4)}
TheSectorFiles == {rows \in SUBSET TheRows : Cardinality(rows) \in 1 .. 3}

ListedNames == {"AAA", "BBB"}
TheCalendar ==
  [v \in {"NYSE"} |-> <<[open |-> 0, close |-> 9], [open |-> 20, close |-> 25], [open |-> 40, close |-> 48]>>]
TheVenueHeld == [s \in {"AAA", "BBB", "ZZZ"} |-> "NYSE"]
TheAsked == <<2, 3>>
AQuarter == <<1, 4>>
=============================================================================
