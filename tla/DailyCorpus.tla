---------------------------- MODULE DailyCorpus -----------------------------
(***************************************************************************)
(* The daily bars of adapters/feeds/yfinance_daily.py as `daily backfill`  *)
(* keeps them, and the instruments they are of.  Yahoo states every price  *)
(* on the share count of the day it is asked, and a session once held is   *)
(* never asked for again: a bar is its session and the day it came.        *)
(***************************************************************************)
EXTENDS Integers, Sequences, SequencesExt, FiniteSets, FiniteSetsExt

CONSTANTS
  Universe,    \* the candidate instruments, in the order they are walked
  VenueOf,     \* the venue each one is listed on
  SessionsOf,  \* the days each venue trades
  LastDay,     \* days are 1 .. LastDay
  Market,      \* Market[s][d]: the bar of day d, on the share count of day 1
  Truths,      \* what companies may declare: a set of actions per instrument
  StrayRow,    \* the row Yahoo may answer with on a day a venue is shut
  MaxHoles     \* rows one answer of Yahoo's may lack

VARIABLES
  truth,    \* what they declare in this behaviour
  today,    \* its session is over
  daily     \* daily[s][d]: the day that session's bar came on; 0, not held

dailyVars == <<truth, today, daily>>

Days == 1 .. LastDay
Traded == Range(Universe)
SessionDays(s) == SessionsOf[VenueOf[s]]

(* Universe holds an instrument once (core/universe.py); a calendar's       *)
(* sessions are days.                                                      *)
ASSUME UniverseAssumption ==
  /\ Universe \in Seq(Range(Universe))
  /\ \A i, j \in DOMAIN Universe : Universe[i] = Universe[j] => i = j
ASSUME DaysAssumption == LastDay \in Nat \ {0} /\ \A s \in Traded : SessionDays(s) \subseteq Days

InOrderOfDay(days) == [i \in 1 .. Cardinality(days) |-> CHOOSE d \in days : Cardinality({e \in days : e <= d}) = i]

(* A bar of the market on the share count of day basis. *)
After(actions, s, d, basis) ==
  LET splits == {a \in actions : a.on <= basis}
      new == FoldSet(LAMBDA a, n : a.split[1] * n, 1, splits)
      old == FoldSet(LAMBDA a, n : a.split[2] * n, 1, splits)
      bar == Market[s][d]
  IN [day |-> d, open |-> (bar.open * old) \div new, close |-> (bar.close * old) \div new,
      volume |-> (bar.volume * new) \div old]
OnBasis(s, d, basis) == After(truth[s], s, d, basis)

DailyTypeOK ==
  /\ truth \in Truths
  /\ today \in Days
  /\ daily \in [Traded -> [Days -> 0 .. today]]
  /\ \A s \in Traded, d \in Days : daily[s][d] # 0 => d \in SessionDays(s) /\ d <= daily[s][d]

DailyInit ==
  /\ truth \in Truths
  /\ today = 1
  /\ daily = [s \in Traded |-> [d \in Days |-> 0]]

NextDay ==
  /\ today < LastDay
  /\ today' = today + 1
  /\ UNCHANGED <<truth, daily>>

(* YahooDownloader: a row per session up to the last day asked for. *)
Rows(s, last, holes) == {d \in SessionDays(s) \ holes : d <= last} \cup {d \in StrayRow[VenueOf[s]] : d <= last}

(* YFinanceDailyFeed._download: a row on no session is put aside. *)
Matched(s, rows) == rows \cap SessionDays(s)

(* daily_backfill of one instrument: the crawl asks for what is missing. *)
BackfillDaily(s) ==
  \E holes \in {h \in SUBSET SessionDays(s) : Cardinality(h) <= MaxHoles} :
    LET came == Matched(s, Rows(s, today, holes))
    IN /\ daily' = [daily EXCEPT ![s] = [d \in Days |-> IF @[d] = 0 /\ d \in came THEN today ELSE @[d]]]
       /\ UNCHANGED <<truth, today>>

(* ParquetStore.read_bars of a range of daily bars. *)
ReadDaily(s, first, last) ==
  LET held == InOrderOfDay({d \in Days : first <= d /\ d <= last /\ daily[s][d] # 0})
  IN [i \in DOMAIN held |-> OnBasis(s, held[i], daily[s][held[i]])]
=============================================================================
