------------------------------ MODULE Crawler -------------------------------
(***************************************************************************)
(* The backfill crawler: `ibkr backfill' of cli.py running passes of       *)
(* crawl() (ingest/crawler.py) over a feed and a ParquetStore              *)
(* (adapters/storage/parquet_store.py), killed and restarted at will.      *)
(*                                                                         *)
(* There is no checkpoint.  The only thing that survives the process is    *)
(* the corpus on disk; everything else is rebuilt from it by the next      *)
(* pass's plan.                                                            *)
(***************************************************************************)
EXTENDS BackfillPlan

CONSTANTS
    Available,      \* Available[s]: timestamps of the bars the feed has for s;
                    \* inside a session they close on the session's own grid
    Resolvable,     \* the instruments whose listing the feed can resolve
    Versions,       \* contents a bar may have; a feed may revise its history
    MaxFailures,    \* max_consecutive_failures
    Passes,         \* --passes
    MaxCrashes,     \* bound: how often the process dies in mid-pass
    MayTear,        \* whether a rewrite of a file may end half-way
    ReliableFeed    \* TRUE: every request is answered, and in full

ASSUME CrawlerAssumption ==
    /\ Available \in [Symbols -> SUBSET Nat]
    /\ \A s \in Symbols : \A t \in Available[s] : \A d \in Days :
          Open(d) < t /\ t <= Close(d) => t \in Grid(d)
    /\ Resolvable \subseteq Symbols
    /\ Versions # {}
    /\ MaxFailures \in Nat \ {0}
    /\ Passes \in Nat \ {0}
    /\ MaxCrashes \in Nat
    /\ MayTear \in BOOLEAN /\ ReliableFeed \in BOOLEAN

VARIABLES
    (* on disk *)
    disk,       \* disk[s][d]: bars readable in the partition of s on day d
    torn,       \* partitions whose file a kill left without a valid footer
    (* in the process *)
    phase,      \* where the process is; "down" when it does not run
    passesLeft, \* passes after this one
    snapshot,   \* held counts the plan of this pass was drawn from
    todo,       \* windows of this pass not yet offered
    current,    \* the window being fetched
    answer,     \* bars the feed returned for it
    cellsLeft,  \* its sessions not yet written
    failed,     \* failed_symbols
    consecutive,\* consecutive_failures
    requests,   \* requests sent in this pass
    outcome,    \* outcome[s][d] of this pass
    (* bound *)
    crashes

onDisk  == <<disk, torn>>
inPass  == <<snapshot, todo, current, answer, cellsLeft, failed, consecutive, requests, outcome>>
vars    == <<disk, torn, phase, passesLeft, snapshot, todo, current, answer, cellsLeft,
             failed, consecutive, requests, outcome, crashes>>

Bar      == [ts : Nat, version : Versions]
Statuses == {"none", "filled", "empty", "failed", "skipped"}
NoWindow == [symbol |-> "none"]
NoCounts == [s \in Symbols |-> [d \in Days |-> 0]]
NoOutcomes == [s \in Symbols |-> [d \in Days |-> "none"]]

-----------------------------------------------------------------------------
(* The store and the catalog. *)

(* Likely mistake: the last sighting wins.                                 *)
MergeLast(existing, incoming) ==
    incoming \cup {b \in existing : \A a \in incoming : a.ts # b.ts}

(* _deduplicate over [*existing, *incoming]: the first sighting of a       *)
(* timestamp is kept.  A feed that repeats itself inside one answer gets   *)
(* one of the repeats stored; which comes first is not modelled.           *)
Merge(existing, incoming) ==
    LET new == {b.ts : b \in incoming} \ {b.ts : b \in existing}
    IN  existing \cup {CHOOSE b \in incoming : b.ts = t : t \in new}

(* bar_counts: rows per session date, whatever feed they came from.        *)
Held == [s \in Symbols |-> [d \in Days |-> Cardinality(disk[s][d])]]

(* _split_by_session: the bars of the answer that close inside session d.  *)
InSession(d, bars) == {b \in bars : HoldsBar(d, b.ts)}

-----------------------------------------------------------------------------
Init ==
    /\ disk = [s \in Symbols |-> [d \in Days |-> {}]]
    /\ torn = {}
    /\ phase = "down" /\ passesLeft = 0
    /\ snapshot = NoCounts /\ todo = {} /\ current = NoWindow
    /\ answer = {} /\ cellsLeft = {}
    /\ failed = {} /\ consecutive = 0 /\ requests = 0
    /\ outcome = NoOutcomes
    /\ crashes = 0

(* The process is gone and with it everything that was not on disk.        *)
Forget ==
    /\ phase' = "down" /\ passesLeft' = 0
    /\ snapshot' = NoCounts /\ todo' = {} /\ current' = NoWindow
    /\ answer' = {} /\ cellsLeft' = {}
    /\ failed' = {} /\ consecutive' = 0 /\ requests' = 0
    /\ outcome' = NoOutcomes

(* The command is run, by hand or by a scheduler, and reaches the Gateway. *)
Start ==
    /\ phase = "down"
    /\ phase' = "planning" /\ passesLeft' = Passes - 1
    /\ UNCHANGED <<disk, torn, inPass, crashes>>

(* Likely mistake: files that cannot be read count as nothing held.        *)
PlanIgnoringDamage ==
    /\ phase = "planning"
    /\ LET windows == PlanWindows(Held)
       IN  IF windows = {}
           THEN Forget
           ELSE /\ snapshot' = Held
                /\ todo' = Offered(Held)
                /\ phase' = "offering"
                /\ UNCHANGED <<passesLeft, current, answer, cellsLeft, failed, consecutive,
                               requests, outcome>>
    /\ UNCHANGED <<onDisk, crashes>>

(* crawl() plans: one catalog query per symbol, over every file of the     *)
(* corpus.  A file without a footer fails all of them.  With nothing to do *)
(* the command's loop ends.                                                *)
Plan ==
    /\ phase = "planning" /\ torn = {}
    /\ LET windows == PlanWindows(Held)
       IN  IF windows = {}
           THEN Forget
           ELSE /\ snapshot' = Held
                /\ todo' = Offered(Held)
                /\ phase' = "offering"
                /\ current' = NoWindow /\ answer' = {} /\ cellsLeft' = {}
                /\ failed' = {} /\ consecutive' = 0 /\ requests' = 0
                /\ outcome' = NoOutcomes
                /\ UNCHANGED passesLeft
    /\ UNCHANGED <<onDisk, crashes>>

PlanRaises ==
    /\ phase = "planning" /\ torn # {}
    /\ Forget
    /\ UNCHANGED <<onDisk, crashes>>

IsNext(w) == w \in todo /\ \A v \in todo : v # w => OfferedBefore(snapshot, w, v)

Record(w, status) ==
    outcome' = [outcome EXCEPT ![w.symbol] =
                   [d \in Days |-> IF d \in w.days THEN status ELSE @[d]]]

(* A window of a symbol that already failed in this pass costs no request. *)
Skip(w) ==
    /\ phase = "offering" /\ IsNext(w)
    /\ w.symbol \in failed
    /\ todo' = todo \ {w}
    /\ Record(w, "skipped")
    /\ UNCHANGED <<onDisk, phase, passesLeft, snapshot, current, answer, cellsLeft, failed,
                   consecutive, requests, crashes>>

(* Likely mistake: a symbol that failed is asked for again.                *)
RequestAnyway(w) ==
    /\ phase = "offering" /\ IsNext(w)
    /\ todo' = todo \ {w}
    /\ current' = w
    /\ phase' = "awaiting"
    /\ UNCHANGED <<onDisk, passesLeft, snapshot, answer, cellsLeft, failed, consecutive,
                   requests, outcome, crashes>>

Request(w) ==
    /\ phase = "offering" /\ IsNext(w)
    /\ w.symbol \notin failed
    /\ todo' = todo \ {w}
    /\ current' = w
    /\ phase' = "awaiting"
    /\ UNCHANGED <<onDisk, passesLeft, snapshot, answer, cellsLeft, failed, consecutive,
                   requests, outcome, crashes>>

-----------------------------------------------------------------------------
(* The feed. *)

Receive(bars) ==
    /\ phase' = "storing"
    /\ answer' = bars /\ cellsLeft' = current.days
    /\ UNCHANGED <<onDisk, passesLeft, snapshot, todo, current, failed, consecutive, requests,
                   outcome, crashes>>

(* Everything the feed has in the requested range.                         *)
AnswerInFull ==
    /\ phase = "awaiting" /\ current.symbol \in Resolvable
    /\ \E v \in Versions :
          Receive([ts : {t \in Available[current.symbol] : InRange(current, t)}, version : {v}])

(* Fewer bars than it has, bars outside the range, or the same bar twice   *)
(* with different contents: the crawler trims the answer itself rather     *)
(* than trusting the adapter.                                              *)
AnswerOtherwise ==
    /\ phase = "awaiting" /\ current.symbol \in Resolvable /\ ~ReliableFeed
    /\ \E bars \in SUBSET [ts : Available[current.symbol], version : Versions] : Receive(bars)

(* The request raises: no session of the window was answered.  Enough      *)
(* failures in a row end the pass, and a pass that gave up ends the loop.  *)
Fail ==
    /\ phase = "awaiting"
    /\ ~ReliableFeed \/ current.symbol \notin Resolvable
    /\ IF consecutive + 1 >= MaxFailures
       THEN Forget
       ELSE /\ phase' = "offering"
            /\ failed' = failed \cup {current.symbol}
            /\ consecutive' = consecutive + 1
            /\ requests' = requests + 1
            /\ Record(current, "failed")
            /\ current' = NoWindow
            /\ UNCHANGED <<passesLeft, snapshot, todo, answer, cellsLeft>>
    /\ UNCHANGED <<onDisk, crashes>>

(* A bar of another symbol or interval is a broken adapter: ValueError     *)
(* before anything of the answer is written.                               *)
AnswerForeign ==
    /\ phase = "awaiting" /\ ~ReliableFeed /\ crashes < MaxCrashes
    /\ crashes' = crashes + 1
    /\ Forget
    /\ UNCHANGED onDisk

-----------------------------------------------------------------------------
(* Writing the answer, one session at a time, oldest first. *)

NextCell == Oldest(cellsLeft)
Fresh    == InSession(NextCell, answer)

(* Likely mistake: an answered request fills every session it covers.      *)
LeaveEmptyAsFilled ==
    /\ phase = "storing" /\ cellsLeft # {} /\ Fresh = {}
    /\ cellsLeft' = cellsLeft \ {NextCell}
    /\ outcome' = [outcome EXCEPT ![current.symbol][NextCell] = "filled"]
    /\ UNCHANGED <<onDisk, phase, passesLeft, snapshot, todo, current, answer, failed,
                   consecutive, requests, crashes>>

(* The feed had nothing for this session: a halt, or not yet listed.       *)
LeaveEmpty ==
    /\ phase = "storing" /\ cellsLeft # {} /\ Fresh = {}
    /\ cellsLeft' = cellsLeft \ {NextCell}
    /\ outcome' = [outcome EXCEPT ![current.symbol][NextCell] = "empty"]
    /\ UNCHANGED <<onDisk, phase, passesLeft, snapshot, todo, current, answer, failed,
                   consecutive, requests, crashes>>

(* _write_partition has read and merged the existing rows; write_table now *)
(* truncates the file and writes it again in place.                        *)
BeginRewrite ==
    /\ phase = "storing" /\ cellsLeft # {} /\ Fresh # {}
    /\ phase' = "rewriting"
    /\ UNCHANGED <<onDisk, passesLeft, inPass, crashes>>

EndRewrite ==
    /\ phase = "rewriting"
    /\ disk' = [disk EXCEPT ![current.symbol][NextCell] = Merge(@, Fresh)]
    /\ outcome' = [outcome EXCEPT ![current.symbol][NextCell] = "filled"]
    /\ cellsLeft' = cellsLeft \ {NextCell}
    /\ phase' = "storing"
    /\ UNCHANGED <<torn, passesLeft, snapshot, todo, current, answer, failed, consecutive,
                   requests, crashes>>

(* Likely mistake: the answered window and its bars are not put down.      *)
SettleHolding ==
    /\ phase = "storing" /\ cellsLeft = {}
    /\ requests' = requests + 1
    /\ consecutive' = 0
    /\ phase' = "offering"
    /\ UNCHANGED <<onDisk, passesLeft, snapshot, todo, current, answer, cellsLeft, failed,
                   outcome, crashes>>

(* Back in crawl's loop after an answered request.                         *)
Settle ==
    /\ phase = "storing" /\ cellsLeft = {}
    /\ requests' = requests + 1
    /\ consecutive' = 0
    /\ phase' = "offering"
    /\ current' = NoWindow /\ answer' = {}
    /\ UNCHANGED <<onDisk, passesLeft, snapshot, todo, cellsLeft, failed, outcome, crashes>>

(* Likely mistake: the passes are not counted down.                        *)
EndPassForever ==
    /\ phase = "offering" /\ todo = {}
    /\ phase' = "planning"
    /\ UNCHANGED <<onDisk, passesLeft, inPass, crashes>>

(* Nothing left to offer: the report is complete and the command runs its  *)
(* next pass, if it has one left.                                          *)
EndPass ==
    /\ phase = "offering" /\ todo = {}
    /\ IF passesLeft = 0
       THEN Forget
       ELSE /\ phase' = "planning" /\ passesLeft' = passesLeft - 1
            /\ UNCHANGED inPass
    /\ UNCHANGED <<onDisk, crashes>>

-----------------------------------------------------------------------------
(* The process is killed between two steps that touch the disk.            *)
Kill ==
    /\ phase \notin {"down", "rewriting"} /\ crashes < MaxCrashes
    /\ crashes' = crashes + 1
    /\ Forget
    /\ UNCHANGED onDisk

(* The rewrite ends half-way.  A kill leaves the truncated file behind; a  *)
(* write that raises, on a full disk, ends the process too, and leaves the *)
(* truncated file or none.  Either way the rows it held are gone.          *)
Tear ==
    /\ phase = "rewriting" /\ MayTear /\ crashes < MaxCrashes
    /\ crashes' = crashes + 1
    /\ disk' = [disk EXCEPT ![current.symbol][NextCell] = {}]
    /\ \/ torn' = torn \cup {<<current.symbol, NextCell>>}
       \/ UNCHANGED torn
    /\ Forget

Step ==
    \/ Plan \/ PlanRaises
    \/ \E w \in todo : Skip(w) \/ Request(w)
    \/ AnswerInFull \/ AnswerOtherwise \/ Fail \/ AnswerForeign
    \/ LeaveEmpty \/ BeginRewrite \/ EndRewrite \/ Settle
    \/ EndPass

Next == Start \/ Step \/ Kill \/ Tear

Spec == Init /\ [][Next]_vars

(* The command is run again whenever it has ended, the process takes its   *)
(* steps, and a request for a given session of a listed instrument that is *)
(* made again and again is answered in full now and then.                  *)
Fairness ==
    /\ WF_vars(Start) /\ WF_vars(Step)
    /\ \A s \in Resolvable, d \in Days :
          SF_vars(AnswerInFull /\ current.symbol = s /\ d \in current.days)

FairSpec == Spec /\ Fairness

-----------------------------------------------------------------------------
(* Properties. *)

IsWindow(w) == w.symbol \in Symbols /\ w.days \in (SUBSET Days) \ {{}}

TypeOK ==
    /\ disk \in [Symbols -> [Days -> SUBSET Bar]]
    /\ torn \subseteq Symbols \X Days
    /\ phase \in {"down", "planning", "offering", "awaiting", "storing", "rewriting"}
    /\ passesLeft \in Nat
    /\ snapshot \in [Symbols -> [Days -> Nat]]
    /\ \A w \in todo : IsWindow(w)
    /\ IF phase \in {"awaiting", "storing", "rewriting"} THEN IsWindow(current)
       ELSE current = NoWindow
    /\ answer \subseteq Bar
    /\ cellsLeft \subseteq Days
    /\ failed \subseteq Symbols
    /\ consecutive \in Nat /\ requests \in Nat
    /\ outcome \in [Symbols -> [Days -> Statuses]]
    /\ crashes \in Nat

(* Every bar of the corpus closes inside the session it is filed under,    *)
(* whatever the feed answers: "a bar filed under the wrong session date is *)
(* invisible to the plan" (_split_by_session).                             *)
FiledUnderOwnSession ==
    \A s \in Symbols, d \in Days : \A b \in disk[s][d] : HoldsBar(d, b.ts)

(* No timestamp is stored twice, however often a session is fetched again: *)
(* a repeated bar would read as doubled volume (parquet_store.py).         *)
OneBarPerTimestamp ==
    \A s \in Symbols, d \in Days : \A a, b \in disk[s][d] : a.ts = b.ts => a = b

(* A session the plan leaves out as complete holds every bar of its grid:  *)
(* comparing counts is enough to decide completeness (plan_backfill).      *)
CompleteMeansWhole ==
    \A s \in Symbols : \A d \in Trades[s] \ Short(Held, s) :
        \A t \in Grid(d) : \E b \in disk[s][d] : b.ts = t

(* A run of failures is a run of different symbols, so a pass gives up     *)
(* because of the connection and not because of one bad listing: "Five     *)
(* different symbols failing back to back" (crawler.py).                   *)
BreakerCountsDistinctSymbols ==
    /\ consecutive <= Cardinality(failed)
    /\ Cardinality(failed) <= requests

(* The report is true of the corpus: only a session reported filled gained *)
(* bars since the plan was drawn, and one reported filled holds some.      *)
ReportMatchesCorpus ==
    phase \in {"offering", "awaiting", "storing", "rewriting"} =>
        \A s \in Symbols, d \in Days :
            IF outcome[s][d] = "filled" THEN Held[s][d] >= 1
            ELSE Held[s][d] = snapshot[s][d]

(* A pass that ran out of work has accounted for each session it offered   *)
(* exactly, and skipped only sessions of symbols that failed in it.        *)
ReportIsComplete ==
    phase = "offering" /\ todo = {} =>
        \A s \in Symbols, d \in Days :
            /\ outcome[s][d] # "none" <=>
                  \E w \in Offered(snapshot) : w.symbol = s /\ d \in w.days
            /\ outcome[s][d] \in {"failed", "skipped"} => s \in failed

(* The report is the only record of what a pass did, and it is true of the  *)
(* corpus and leaves nothing out.                                           *)
ReportIsTrue == ReportMatchesCorpus /\ ReportIsComplete

(* The corpus is a Corpus: it only grows, one bar per timestamp, the first *)
(* sighting of a bar is final.                                             *)
Stored == INSTANCE Corpus WITH corpus <- disk, Bars <- Bar, Belongs <- HoldsBar
ImplementsCorpus == Stored!Spec

(* No kill and no failed write takes a bar the corpus held: "Killing the   *)
(* command loses nothing" (cli.py, ibkr_backfill).                         *)
KillingLosesNothing ==
    [][\A s \in Symbols, d \in Days : disk[s][d] \subseteq disk'[s][d]]_vars

(* A damaged partition is never mistaken for a complete or an untouched    *)
(* one: while there is one, no pass gets past its plan and nothing is      *)
(* written.                                                                *)
DamageIsLoud ==
    [][torn # {} => UNCHANGED onDisk /\ phase' \in {"down", "planning"}]_vars

(* Every session the feed can fill is filled in the end, however often the *)
(* crawler is killed, requests fail or come back short.                    *)
Fillable(s, d) ==
    /\ s \in Resolvable /\ d \in Trades[s]
    /\ Grid(d) \subseteq Available[s]

EveryFillableSessionFills ==
    \A s \in Symbols, d \in Days :
        Fillable(s, d) => <>(Cardinality(disk[s][d]) >= ExpectedBars(d))

(* Once run, the command ends: no pass and no run of passes lasts forever. *)
CommandEnds == phase = "planning" ~> phase = "down"

=============================================================================
