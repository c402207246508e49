-------------------------- MODULE VendorSnapshots ---------------------------
(***************************************************************************)
(* The free samples of the seed vendors (vendor_download.py, cli.py seed   *)
(* fetch and seed ingest).  A fetch stores each file it is sent in a       *)
(* folder of the day, beside a manifest, and may be killed between any two *)
(* of its steps; an ingest fills the vendor's own corpus from one folder.  *)
(*                                                                         *)
(* A tick is half a session, and names the bar of that half; a file is the *)
(* tick it was sent on, and holds the bars of the Span ticks before.       *)
(* Kibot's window rolls; nothing here rests on FirstRate's not doing so.   *)
(* Nothing is 0.                                                           *)
(***************************************************************************)
EXTENDS Integers, Sequences, SequencesExt, FiniteSets, FiniteSetsExt

CONSTANTS
  Samples,    \* the instruments seed_sources.yaml names a file for, in order
  Span,       \* the window of a file
  FirstTick, LastTick

VARIABLES
  vendor,     \* "firstrate" | "kibot"
  tick,       \* the clock
  folders,    \* by day: [made, files, manifest]
  fetching,   \* the fetch under way: [phase, day, todo, data]
  ingesting,  \* the ingest under way: [files, todo]
  seeded      \* the corpus: which file each bar was taken from

seedVars == <<vendor, tick, folders, fetching, ingesting, seeded>>

Names == Range(Samples)

(* A file holds something, and nothing that is told from a file is 0.       *)
ASSUME SamplesAssumption ==
  /\ Samples \in Seq(Names)
  /\ Span \in Nat \ {0} /\ FirstTick \in Nat \ {0} /\ LastTick \in Nat /\ FirstTick <= LastTick

SessionOf(t) == t \div 2
Sessions == SessionOf(FirstTick) .. SessionOf(LastTick)
BarsIn(file) == (file - Span) .. (file - 1)
TicksOf(session) == {2 * session, 2 * session + 1}

NoFolder == [made |-> FALSE, files |-> [n \in Names |-> 0], manifest |-> [n \in Names |-> 0]]
NoFetch == [phase |-> "none", day |-> 0, todo |-> <<>>, data |-> 0]
NoIngest == [files |-> [n \in {} |-> 0], todo |-> <<>>]
NoBar == [bar \in {} |-> 0]

SeedsInit ==
  /\ vendor \in {"firstrate", "kibot"} /\ tick = FirstTick
  /\ folders = [d \in Sessions |-> NoFolder]
  /\ fetching = NoFetch /\ ingesting = NoIngest /\ seeded = NoBar

TimePasses ==
  /\ tick < LastTick /\ tick' = tick + 1
  /\ UNCHANGED <<vendor, folders, fetching, ingesting, seeded>>
-----------------------------------------------------------------------------
(* FirstRate's files have a URL each and are asked for in the order of the  *)
(* configuration; Kibot's page links what it likes in an order of its own.  *)
Links(v) == IF v = "firstrate" THEN {Samples} ELSE UNION {SetToSeqs(linked) : linked \in SUBSET Names}

BeginSeedFetch ==
  /\ fetching.phase = "none"
  /\ \E links \in Links(vendor) :
       fetching' = [phase |-> "asking", day |-> SessionOf(tick), todo |-> links, data |-> 0]
  /\ UNCHANGED <<vendor, tick, folders, ingesting, seeded>>

(* _reserve: makes the folder, and takes no name that is there already.     *)
Made(day) == [folders EXCEPT ![day].made = TRUE]
FreeIfUnlisted(day, name) == folders[day].manifest[name] = 0
Free(day, name) == folders[day].files[name] = 0

(* FirstRate's name is known, and reserved, before the request; Kibot's is  *)
(* in the answer, and reserved when the file is to be written.              *)
ReservedFirst == vendor = "firstrate"

Ask ==
  /\ fetching.phase = "asking" /\ fetching.todo # <<>>
  /\ ReservedFirst => Free(fetching.day, Head(fetching.todo))
  /\ folders' = IF ReservedFirst THEN Made(fetching.day) ELSE folders
  /\ \/ fetching' = [fetching EXCEPT !.phase = "storing", !.data = tick]
     \/ fetching' = NoFetch                                  \* no answer
  /\ UNCHANGED <<vendor, tick, ingesting, seeded>>

Overwrites ==
  /\ fetching.phase = IF ReservedFirst THEN "asking" ELSE "storing"
  /\ fetching.todo # <<>> /\ ~Free(fetching.day, Head(fetching.todo))
  /\ fetching' = NoFetch
  /\ UNCHANGED <<vendor, tick, folders, ingesting, seeded>>

(* _write: a temporary file, renamed. *)
Store ==
  /\ fetching.phase = "storing" /\ (ReservedFirst \/ Free(fetching.day, Head(fetching.todo)))
  /\ folders' = [Made(fetching.day) EXCEPT ![fetching.day].files[Head(fetching.todo)] = fetching.data]
  /\ fetching' = [fetching EXCEPT !.phase = "listing"]
  /\ UNCHANGED <<vendor, tick, ingesting, seeded>>

(* _update_manifest: read, merged, renamed over. *)
Enter ==
  /\ fetching.phase = "listing"
  /\ folders' = [folders EXCEPT ![fetching.day].manifest[Head(fetching.todo)] = fetching.data]
  /\ fetching' = [fetching EXCEPT !.phase = "asking", !.todo = Tail(@)]
  /\ UNCHANGED <<vendor, tick, ingesting, seeded>>

(* The last link was followed, or the process died. *)
FetchOver ==
  /\ \/ fetching.phase = "asking" /\ fetching.todo = <<>>
     \/ fetching.phase \in {"storing", "listing"}
  /\ fetching' = NoFetch
  /\ UNCHANGED <<vendor, tick, folders, ingesting, seeded>>
-----------------------------------------------------------------------------
(* read_manifest, of a folder that a manifest is in. *)
Described(folder) == \E n \in Names : folder.manifest[n] # 0
Present(folder) == [n \in {m \in Names : folder.files[m] # 0} |-> folder.files[n]]

(* coverage: the sessions from the first bar of any of the files to the     *)
(* last, whichever file has them.                                           *)
Covered(files) ==
  LET days == {SessionOf(t) : t \in UNION {BarsIn(files[n]) : n \in DOMAIN files}}
  IN Min(days) .. Max(days)

(* The crawl's plan: what is short by count, of the files' sessions; the    *)
(* instruments with a session of which nothing is held go first.            *)
HeldOf(n, d) == Cardinality({t \in TicksOf(d) : <<n, t>> \in DOMAIN seeded})
ShortOf(files) == {c \in (DOMAIN files) \X Covered(files) : HeldOf(c[1], c[2]) < 2}
PlanOf(files) ==
  LET short == ShortOf(files)
      untouched(n) == \E d \in Covered(files) : HeldOf(n, d) = 0
      rank(c) == (IF untouched(c[1]) THEN 0 ELSE Len(Samples)) + (CHOOSE i \in DOMAIN Samples : Samples[i] = c[1])
      upTo(c) == {x \in short : rank(x) < rank(c) \/ (x[1] = c[1] /\ x[2] <= c[2])}
  IN [i \in 1 .. Cardinality(short) |-> CHOOSE c \in short : Cardinality(upTo(c)) = i]

(* seed ingest, of the newest folder or of one that is named. *)
BeginIngest(day) ==
  /\ ingesting = NoIngest
  /\ folders[day].made /\ Described(folders[day])
  /\ LET files == Present(folders[day])
     IN ingesting' = [files |-> files, todo |-> PlanOf(files)]
  /\ UNCHANGED <<vendor, tick, folders, fetching, seeded>>

(* What the file has of the session, merged under what is held. *)
IngestOne ==
  /\ ingesting.todo # <<>>
  /\ LET cell == Head(ingesting.todo)
         file == ingesting.files[cell[1]]
         found == {<<cell[1], t>> : t \in TicksOf(cell[2]) \cap BarsIn(file)}
     IN seeded' = [bar \in DOMAIN seeded \cup found |->
                     IF bar \in DOMAIN seeded THEN seeded[bar] ELSE file]
  /\ ingesting' = [ingesting EXCEPT !.todo = Tail(@)]
  /\ UNCHANGED <<vendor, tick, folders, fetching>>

IngestDone ==
  /\ ingesting # NoIngest /\ ingesting.todo = <<>>
  /\ ingesting' = NoIngest
  /\ UNCHANGED <<vendor, tick, folders, fetching, seeded>>

DieIngesting ==
  /\ ingesting.todo # <<>>
  /\ ingesting' = NoIngest
  /\ UNCHANGED <<vendor, tick, folders, fetching, seeded>>
-----------------------------------------------------------------------------
SeedsTypeOK ==
  /\ tick \in FirstTick .. LastTick
  /\ fetching.phase \in {"none", "asking", "storing", "listing"}
  /\ \A d \in Sessions : ~folders[d].made => folders[d] = NoFolder
  /\ \A bar \in DOMAIN seeded : bar[1] \in Names /\ bar[2] \in BarsIn(seeded[bar])

(* Every row of the corpus is of a file that is still there as it was sent, *)
(* and every entry of a manifest is of the file beside it, whatever is      *)
(* fetched again and killed when: a window that rolled on is nowhere else   *)
(* (vendor_download.py:16-20).                                              *)
RowsHaveTheirFile ==
  /\ \A bar \in DOMAIN seeded : \E d \in Sessions : folders[d].files[bar[1]] = seeded[bar]
  /\ \A d \in Sessions, n \in Names : folders[d].manifest[n] \in {0, folders[d].files[n]}

(* An ingest that is not cut short leaves no bar of its folder behind, at   *)
(* either end of either file's window, however much of a session an earlier *)
(* snapshot had (cli.py seed ingest).                                       *)
IngestTakesTheSnapshot ==
  ingesting # NoIngest /\ ingesting.todo = <<>> =>
    \A n \in DOMAIN ingesting.files : \A t \in BarsIn(ingesting.files[n]) : <<n, t>> \in DOMAIN seeded

SamplesAreKept == SeedsTypeOK /\ RowsHaveTheirFile /\ IngestTakesTheSnapshot
=============================================================================
