------------------------------ MODULE EventLog ------------------------------
(***************************************************************************)
(* The event log on disk: EventStore (adapters/storage/event_store.py), a  *)
(* process that appends newline-delimited records to one file, is killed   *)
(* and started again, and the reader that replays the file.                *)
(*                                                                         *)
(* A record is named by its append call, the n-th call being n.  Bytes     *)
(* that reached the operating system survive the process; power loss and   *)
(* full disks are not modelled.                                            *)
(***************************************************************************)
EXTENDS Integers, Sequences, FiniteSets

CONSTANTS
    Events,
    TsEvent,        \* TsEvent[e] and
    SeqNo,          \* SeqNo[e]: the two parts of e's sort_key
    Moments,        \* where a range that is read may begin and end
    MaxAppends,     \* bound: append calls
    MaxCrashes      \* bound: kills

ASSUME EventLogAssumption ==
    /\ TsEvent \in [Events -> Nat] /\ SeqNo \in [Events -> Nat] /\ Moments \subseteq Nat
    /\ MaxAppends \in Nat /\ MaxCrashes \in Nat

VARIABLES
    buffered,   \* the store's `buffered' argument, the same for every process
    file,       \* the lines of the file, the last perhaps without its newline
    buffer,     \* calls whose record is not wholly with the operating system
    cut,        \* the file ends inside the record at the head of the buffer
    pc,         \* what the process does
    calls,      \* history: every append call and the life it was made in
    accepted,   \* history: the calls that returned
    life,       \* history: how often the process was started
    crashes

vars == <<buffered, file, buffer, cut, pc, calls, accepted, life, crashes>>

(* A line holds a whole record, the beginning of one, or bytes of several  *)
(* records run together.                                                   *)
Line == [kind : {"whole", "part", "junk"}, call : Nat, ended : BOOLEAN]

OpenTail(f) == f # <<>> /\ ~f[Len(f)].ended

(* Bytes written after an unfinished line run into it.                     *)
GlueTo(f, ended) == [f EXCEPT ![Len(f)] = [kind |-> "junk", call |-> 0, ended |-> ended]]

(* What the file is after the record of call n and its newline.            *)
Lay(f, n) ==
    IF OpenTail(f) THEN GlueTo(f, TRUE)
    ELSE Append(f, [kind |-> "whole", call |-> n, ended |-> TRUE])

(* ... after some of that record's bytes: a beginning that decodes to      *)
(* nothing, or all of it but the newline.                                  *)
LayStart(f, n, kind) ==
    IF OpenTail(f) THEN GlueTo(f, FALSE)
    ELSE Append(f, [kind |-> kind, call |-> n, ended |-> FALSE])

(* ... after the rest of a record that was cut.                            *)
LayRest(f, n) ==
    IF f[Len(f)].kind = "junk" THEN GlueTo(f, TRUE)
    ELSE [f EXCEPT ![Len(f)] = [kind |-> "whole", call |-> n, ended |-> TRUE]]

-----------------------------------------------------------------------------
(* Reading. *)

(* Likely mistake: lines that cannot be decoded are passed over.           *)
ReadableSkipping(f) == TRUE

(* Every line decodes; otherwise stream raises CorruptEventLog.            *)
Readable(f) == \A i \in DOMAIN f : f[i].kind = "whole"

Contents(f) == [i \in DOMAIN f |-> f[i].call]

EventOf(n) == calls[n].event

SortsBefore(m, n) ==
    LET d == EventOf(m)
        e == EventOf(n)
    IN  \/ TsEvent[d] < TsEvent[e]
        \/ TsEvent[d] = TsEvent[e] /\ SeqNo[d] < SeqNo[e]

InRange(n, a, b) == a <= TsEvent[EventOf(n)] /\ TsEvent[EventOf(n)] < b

(* Likely mistake: records that tie come out in no particular order.       *)
ComesFirstUnstable(f, i, j) ==
    \/ SortsBefore(f[i].call, f[j].call)
    \/ i > j /\ ~SortsBefore(f[j].call, f[i].call)

(* The sort is stable: records that tie keep their order in the file.      *)
ComesFirst(f, i, j) ==
    \/ SortsBefore(f[i].call, f[j].call)
    \/ i < j /\ ~SortsBefore(f[j].call, f[i].call)

Rank(f, lines, i) == Cardinality({j \in lines : ComesFirst(f, j, i)})
Sorted(f, lines) == [k \in 1..Cardinality(lines) |-> CHOOSE i \in lines : Rank(f, lines, i) = k - 1]

(* stream(a, b) over a readable file.                                      *)
Lines(f, a, b) == {i \in DOMAIN f : InRange(f[i].call, a, b)}
Stream(f, a, b) ==
    LET order == Sorted(f, Lines(f, a, b))
    IN  [k \in DOMAIN order |-> f[order[k]].call]

(* drive: the clock is moved to each event before the event is published,  *)
(* and refuses to move back.  The digest is of what was published.         *)
Published(run, n) ==
    LET ts == TsEvent[EventOf(n)]
    IN  IF run.raised \/ ts < run.clock THEN [run EXCEPT !.raised = TRUE]
        ELSE [raised |-> FALSE, clock |-> ts, digest |-> Append(run.digest, n),
              first_ts |-> IF run.digest = <<>> THEN ts ELSE run.first_ts, last_ts |-> ts]

(* ReplayEngine.run by a clock that stands at `clock', with no handler but *)
(* the digest.                                                             *)
Runs(read, clock) ==
    LET run[k \in 0..Len(read)] ==
          IF k = 0 THEN [raised |-> FALSE, clock |-> clock, digest |-> <<>>, first_ts |-> 0, last_ts |-> 0]
          ELSE Published(run[k - 1], read[k])
    IN  run
Replay(f, a, b, clock) ==
    LET read == Stream(f, a, b) IN Runs(read, clock)[Len(read)]

-----------------------------------------------------------------------------
(* Writing. *)

Init ==
    /\ buffered \in BOOLEAN
    /\ file = <<>> /\ buffer = <<>> /\ cut = FALSE
    /\ pc = "down"
    /\ calls = <<>> /\ accepted = {} /\ life = 0
    /\ crashes = 0

(* A store is made for the path; the file is opened when first needed, for *)
(* appending.                                                              *)
Start ==
    /\ pc = "down"
    /\ pc' = "idle" /\ life' = life + 1
    /\ UNCHANGED <<buffered, file, buffer, cut, calls, accepted, crashes>>

(* append(e).  Unbuffered, it returns when the line is with the operating  *)
(* system; buffered, at once.                                              *)
AppendCall(e) ==
    /\ pc = "idle" /\ Len(calls) < MaxAppends
    /\ LET n == Len(calls) + 1
       IN  /\ calls' = Append(calls, [event |-> e, life |-> life])
           /\ buffer' = Append(buffer, n)
           /\ IF buffered
              THEN accepted' = accepted \cup {n} /\ UNCHANGED pc
              ELSE pc' = "appending" /\ UNCHANGED accepted
    /\ UNCHANGED <<buffered, file, cut, life, crashes>>

(* flush(), close(), and stream() before it reads.                         *)
Sync ==
    /\ pc = "idle" /\ buffer # <<>>
    /\ pc' = "syncing"
    /\ UNCHANGED <<buffered, file, buffer, cut, calls, accepted, life, crashes>>

Draining ==
    \/ pc \in {"appending", "syncing"}
    \/ buffered /\ pc = "idle"

(* Likely mistake: the file is opened for writing and starts over.         *)
WriteRecordOver ==
    /\ Draining /\ buffer # <<>>
    /\ file' = IF \A n \in DOMAIN calls : calls[n].life = life => n >= Head(buffer)
               THEN Lay(<<>>, Head(buffer)) ELSE Lay(file, Head(buffer))
    /\ buffer' = Tail(buffer) /\ cut' = FALSE
    /\ UNCHANGED <<buffered, pc, calls, accepted, life, crashes>>

(* The oldest record of the buffer reaches the operating system: because   *)
(* it is asked to, or because the buffer is full.                          *)
WriteRecord ==
    /\ Draining /\ buffer # <<>>
    /\ file' = IF cut THEN LayRest(file, Head(buffer)) ELSE Lay(file, Head(buffer))
    /\ buffer' = Tail(buffer) /\ cut' = FALSE
    /\ UNCHANGED <<buffered, pc, calls, accepted, life, crashes>>

(* A full buffer is written by its size, wherever in a record that is.     *)
WritePart ==
    /\ buffered /\ Draining /\ buffer # <<>> /\ ~cut
    /\ \E kind \in {"part", "whole"} : file' = LayStart(file, Head(buffer), kind)
    /\ cut' = TRUE
    /\ UNCHANGED <<buffered, buffer, pc, calls, accepted, life, crashes>>

Return ==
    /\ pc \in {"appending", "syncing"} /\ buffer = <<>>
    /\ pc' = "idle"
    /\ accepted' = IF pc = "appending" THEN accepted \cup {Len(calls)} ELSE accepted
    /\ UNCHANGED <<buffered, file, buffer, cut, calls, life, crashes>>

(* The process dies and its buffer with it.                                *)
Crash ==
    /\ pc # "down" /\ crashes < MaxCrashes
    /\ crashes' = crashes + 1
    /\ pc' = "down" /\ buffer' = <<>> /\ cut' = FALSE
    /\ UNCHANGED <<buffered, file, calls, accepted, life>>

Next ==
    \/ Start \/ Crash
    \/ \E e \in Events : AppendCall(e)
    \/ Sync \/ WriteRecord \/ WritePart \/ Return

Spec == Init /\ [][Next]_vars

-----------------------------------------------------------------------------
(* Properties. *)

TypeOK ==
    /\ buffered \in BOOLEAN
    /\ file \in Seq(Line)
    /\ buffer \in Seq(1..Len(calls))
    /\ cut \in BOOLEAN
    /\ pc \in {"down", "idle", "appending", "syncing"}
    /\ calls \in Seq([event : Events, life : Nat])
    /\ accepted \subseteq 1..Len(calls)
    /\ life \in Nat /\ crashes \in Nat

Stored == {file[i].call : i \in DOMAIN file}

(* "Each append reaches the operating system before the call returns, so a *)
(* crash loses nothing already accepted" (event_store.py): whatever is     *)
(* killed when, an unbuffered log is readable and holds every accepted     *)
(* record.                                                                 *)
NothingAcceptedIsLost == ~buffered => Readable(file) /\ accepted \subseteq Stored

(* The complete records before the first damaged line are an append-only   *)
(* log, whatever is killed when and whichever way the log is buffered:     *)
(* what a process wrote to its newline no later process moves or ruins.    *)
Complete(f, i) == \A j \in 1..i : f[j].kind = "whole" /\ f[j].ended
Durable(f) == [i \in {i \in DOMAIN f : Complete(f, i)} |-> f[i].call]

Promised == INSTANCE AppendOnlyLog WITH log <- Durable(file), Records <- 1..MaxAppends
ImplementsLog == Promised!Spec

(* A log that can be read misses no record in the middle: of each life of  *)
(* the process it holds the first records, in order, and a replay is never *)
(* quietly of a different session (CorruptEventLog).                       *)
NoSilentGap ==
    Readable(file) =>
        /\ \A i, j \in DOMAIN file : i < j => file[i].call < file[j].call
        /\ \A i \in DOMAIN file : \A n \in 1..file[i].call :
              calls[n].life = calls[file[i].call].life => n \in Stored

(* A flush, a close or a read leaves nothing in the process: what this     *)
(* process appended is in the file, buffered or not, if the file could be  *)
(* read when it was opened.                                                *)
FlushedMeansStored ==
    pc = "idle" /\ buffer = <<>> /\ Readable(file) =>
        \A n \in DOMAIN calls : calls[n].life = life => n \in Stored

(* Replaying two adjoining ranges one after the other, by one clock, is    *)
(* replaying the whole: no record falls between half-open ranges, none is  *)
(* in both, and the clock the first has moved does not refuse the second   *)
(* (replay.py).                                                            *)
RangesCompose ==
    Readable(file) =>
        \A a, b, c \in Moments : a <= b /\ b <= c =>
            LET whole == Replay(file, a, c, 0)
                first == Replay(file, a, b, 0)
                second == Replay(file, b, c, first.clock)
            IN  /\ ~whole.raised /\ ~second.raised
                /\ first.digest \o second.digest = whole.digest
                /\ whole.digest # <<>> =>
                      /\ a <= whole.first_ts /\ whole.last_ts < c
                      /\ whole.first_ts \in {first.first_ts, second.first_ts}

(* A writer that appends in order of sort_key, ties included, is replayed  *)
(* word for word: the digest of the replay is the digest of the session.   *)
OrderedWriterReplaysVerbatim ==
    (/\ Readable(file)
     /\ \A i, j \in DOMAIN file : i < j => ~SortsBefore(file[j].call, file[i].call))
    => \A a, b \in Moments :
         Lines(file, a, b) = DOMAIN file => Replay(file, a, b, 0).digest = Contents(file)

(* A reader is never misled about a session: what it can read at all has no *)
(* gap, and what was flushed is there.                                      *)
ReaderIsNotMisled == NoSilentGap /\ FlushedMeansStored

(* Reading ranges and putting them together is the session as it happened.  *)
ReplayIsVerbatim == OrderedWriterReplaysVerbatim /\ RangesCompose

=============================================================================
