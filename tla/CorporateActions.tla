-------------------------- MODULE CorporateActions --------------------------
(***************************************************************************)
(* `actions fetch` (ingest/actions.py into actions_parquet.py),            *)
(* `actions check`, and the corpus read through lab/feed.py's              *)
(* AdjustingStore.  The unadjusted corpus read holds every session on its  *)
(* own day's basis, as the seed vendors ship it.                           *)
(***************************************************************************)
EXTENDS DailyCorpus, Adjustment

CONSTANT Omissions    \* actions one answer of the feed may silently lack

VARIABLES
  stored,    \* actions.parquet
  pass,      \* the fetch that is running
  scan,      \* what `actions check` reported, if it is the last command that read
  reading    \* the adjusted read of the unadjusted corpus, if that is

actionVars == <<stored, pass, scan, reading>>

Empty == [s \in {} |-> {}]
Idle == [at |-> 0, collected |-> Empty, failures |-> {}, said |-> Empty]
Absent == [state |-> "absent", known |-> Empty, failures |-> {}, said |-> Empty]
NoScan == [end |-> 0, gaps |-> [s \in Traded |-> {}], known |-> Empty]
NoReading ==
  [as_of |-> 0, total_return |-> FALSE, known |-> Empty, announced |-> {}, bars |-> [s \in Traded |-> <<>>]]

ActionsTypeOK ==
  /\ stored.state \in {"absent", "torn", "whole"}
  /\ DOMAIN stored.known \subseteq Traded /\ stored.failures \subseteq Traded
  /\ pass.at \in 0 .. Len(Universe) + 1
  /\ scan.end \in 0 .. LastDay /\ \A s \in Traded : scan.gaps[s] \subseteq Days
  /\ reading.as_of \in 0 .. LastDay

ActionsInit ==
  /\ stored = Absent
  /\ pass = Idle
  /\ scan = NoScan
  /\ reading = NoReading
-----------------------------------------------------------------------------
(* fetch_actions: the instruments one by one, up to today. *)
BeginFetch ==
  /\ pass.at = 0
  /\ pass' = [Idle EXCEPT !.at = 1]
  /\ UNCHANGED <<stored, scan, reading>>

With(known, s, actions) == [x \in DOMAIN known \cup {s} |-> IF x = s THEN actions ELSE known[x]]
RefusedMeansNone(p, s) == [p EXCEPT !.at = @ + 1, !.collected = With(@, s, {})]
Refused(p, s) == [p EXCEPT !.at = @ + 1, !.failures = @ \cup {s}]
Answered(p, s, actions) ==
  [p EXCEPT !.at = @ + 1, !.collected = With(@, s, actions), !.said = With(@, s, actions)]

FetchOne ==
  /\ pass.at \in 1 .. Len(Universe)
  /\ LET s == Universe[pass.at]
         declared == {a \in truth[s] : a.on <= today}
     IN \/ pass' = Refused(pass, s)
        \/ \E left_out \in SUBSET declared :
             /\ Cardinality(left_out) <= Omissions
             /\ pass' = Answered(pass, s, declared \ left_out)
  /\ UNCHANGED <<stored, scan, reading>>

(* `actions fetch` when every instrument was refused: nothing is written. *)
GiveUp ==
  /\ pass.at = Len(Universe) + 1
  /\ DOMAIN pass.collected = {}
  /\ pass' = Idle
  /\ UNCHANGED <<stored, scan, reading>>

(* ActionStore.write replaces the one file in place. *)
BeginWrite ==
  /\ pass.at = Len(Universe) + 1
  /\ DOMAIN pass.collected # {}
  /\ stored.state # "torn"
  /\ stored' = [Absent EXCEPT !.state = "torn"]
  /\ UNCHANGED <<pass, scan, reading>>

EndWrite ==
  /\ pass.at = Len(Universe) + 1
  /\ DOMAIN pass.collected # {}
  /\ stored.state = "torn"
  /\ stored' = [state |-> "whole", known |-> pass.collected, failures |-> pass.failures, said |-> pass.said]
  /\ pass' = Idle
  /\ UNCHANGED <<scan, reading>>

DieFetching ==
  /\ pass.at # 0
  /\ pass' = Idle
  /\ UNCHANGED <<stored, scan, reading>>
-----------------------------------------------------------------------------
(* AdjustingStore and ActionStore.series: a name not in the file is read   *)
(* as one with no action.                                                  *)
Known(known, s) == IF s \in DOMAIN known THEN known[s] ELSE {}

(* scan_gaps as `actions check` calls it, its corpus already on one basis. *)
Check(end) ==
  /\ stored.state = "whole"
  /\ scan' = [end |-> end,
              gaps |-> [s \in Traded |-> UnexplainedGaps(ReadDaily(s, 1, end), {}, end)],
              known |-> stored.known]
  /\ reading' = NoReading
  /\ UNCHANGED <<stored, pass>>

Printed(s, last) ==
  LET days == InOrderOfDay({d \in SessionDays(s) : d <= last}) IN [i \in DOMAIN days |-> OnBasis(s, days[i], days[i])]

(* The close of the session before each day, as it was printed. *)
PriorClose(s) ==
  [d \in Days |-> LET before == {e \in SessionDays(s) : e < d}
                  IN IF before = {} THEN 0 ELSE OnBasis(s, Max(before), Max(before)).close]

AdjustedRead(s, known, as_of, total_return) ==
  AdjustBars(Printed(s, as_of), Known(known, s), as_of, total_return, PriorClose(s))

(* AdjustingStore.splits_in_force: what `lab measure` says it will adjust. *)
SplitsInForce(known, since, as_of) ==
  UNION {{<<s, a.on>> : a \in {b \in known[s] : IsSplit(b) /\ since < b.on /\ b.on <= as_of}} : s \in DOMAIN known}

ReadAdjusted(as_of, total_return) ==
  /\ stored.state = "whole"
  /\ total_return => \A s \in Traded : \A i \in DOMAIN Printed(s, as_of) :
       ~BadDividend(Known(stored.known, s), Printed(s, as_of)[i].day, as_of, PriorClose(s))
  /\ reading' = [as_of |-> as_of, total_return |-> total_return, known |-> stored.known,
                 announced |-> SplitsInForce(stored.known, 1, as_of),
                 bars |-> [s \in Traded |-> AdjustedRead(s, stored.known, as_of, total_return)]]
  /\ scan' = NoScan
  /\ UNCHANGED <<stored, pass>>
-----------------------------------------------------------------------------
Apart(a, b) == IF a < b THEN b - a ELSE a - b
Complete(known, s, as_of) == {a \in truth[s] : a.on <= as_of} \subseteq Known(known, s)

(* A price path read through the adjustment is the one the market printed, *)
(* on the share count of the day asked for: every known split is taken out *)
(* once, of the days before it only, and nothing later is (adjust_stream). *)
AdjustedPathIsOnItsBasis ==
  \A s \in Traded :
    (~reading.total_return /\ Complete(reading.known, s, reading.as_of)) =>
      \A i \in DOMAIN reading.bars[s] :
        LET bar == reading.bars[s][i]
            exact == OnBasis(s, bar.day, reading.as_of)
        IN Apart(bar.open, exact.open) <= 1 /\ Apart(bar.close, exact.close) <= 1

(* What changed hands is worth the same on every basis: a split moves the  *)
(* volume by as much as the price, within the rounding of each             *)
(* (adjust_stream).                                                        *)
TradedValueSurvives ==
  ~reading.total_return =>
    \A s \in Traded : \A i \in DOMAIN reading.bars[s] :
      LET bar == reading.bars[s][i]
          printed == OnBasis(s, bar.day, bar.day)
      IN Apart(bar.close * bar.volume, printed.close * printed.volume) <= bar.close + bar.volume

(* A total-return path shows no loss over an ex-dividend night on which    *)
(* the price only fell by the dividend (total_return_factor).              *)
DividendIsNoLoss ==
  \A s \in Traded : reading.total_return =>
    \A i \in 2 .. Len(reading.bars[s]) : \A a \in Known(reading.known, s) :
      LET before == reading.bars[s][i - 1]
          day == reading.bars[s][i].day
          fell == OnBasis(s, before.day, before.day).close - OnBasis(s, day, day).open
      IN (a.on = day /\ ~IsSplit(a) /\ fell = a.dividend) => Apart(before.close, reading.bars[s][i].open) <= 1

(* Nothing is adjusted that was not announced: an instrument whose bars    *)
(* the read changed has a split among those `lab measure` lists            *)
(* (splits_in_force and adjust_stream agree on both ends of the window).   *)
NothingIsAdjustedUnannounced ==
  ~reading.total_return =>
    \A s \in Traded : reading.bars[s] # Printed(s, reading.as_of) => \E d \in Days : <<s, d>> \in reading.announced

(* The adjusted path is the market's own, on another share count: its       *)
(* prices, what changed hands, what a holder earned, and no instrument      *)
(* that was not announced.                                                  *)
AdjustedPathIsTheMarkets ==
  ActionsTypeOK /\ AdjustedPathIsOnItsBasis /\ TradedValueSurvives /\ DividendIsNoLoss /\ NothingIsAdjustedUnannounced

(* Reading the same day's basis again gives the same prices, whatever was  *)
(* declared for later days since (core/actions.py, point-in-time).         *)
ReadIsPointInTime ==
  [][\A s \in Traded :
       LET told(known, as_of) == {a \in Known(known, s) : a.on <= as_of}
       IN (/\ reading'.as_of = reading.as_of /\ reading'.total_return = reading.total_return
           /\ told(reading'.known, reading.as_of) = told(reading.known, reading.as_of))
          => reading'.bars[s] = reading.bars[s]]_reading

(* A file that can be read is one whole pass over the universe, and an     *)
(* instrument it gives no action was asked about and said to have none: a  *)
(* refusal is never written down as "never split" (fetch_actions).         *)
FileIsOneWholePass ==
  stored.state = "whole" =>
    /\ DOMAIN stored.known \cup stored.failures = Traded
    /\ DOMAIN stored.known \cap stored.failures = {}
    /\ stored.known = stored.said

(* The check reports a night exactly when the two stored bars around it    *)
(* stand on different share counts, or the market itself moved that far    *)
(* (unexplained_gaps on the daily corpus as it was filled).                *)
ScanFindsSeamsAndNews ==
  [][\A s \in Traded :
       LET held == InOrderOfDay({d \in 1 .. scan'.end : daily[s][d] # 0})
           basis(d) == OnBasis(s, 1, daily[s][d])
           news(p, d) == FarFrom(OnBasis(s, d, d).open, OnBasis(s, p, d).close)
       IN scan'.end # 0 => scan'.gaps[s] = {held[i] : i \in {j \in 2 .. Len(held) :
                             \/ basis(held[j]) # basis(held[j - 1])
                             \/ news(held[j - 1], held[j])}}]_scan
=============================================================================
