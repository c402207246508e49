--------------------------- MODULE EventLogProofs ---------------------------
(***************************************************************************)
(* Proofs about EventLog: its complete records are an append-only log, in  *)
(* either buffering mode; unbuffered, as live trading uses it, nothing     *)
(* accepted is lost; and, in either mode again, a log that can be read has *)
(* no gap, holds all that was flushed, and replays as it was written.      *)
(*                                                                         *)
(* The argument for the first: the file is only ever changed at its last   *)
(* line, and only while that line is unended; the buffer holds the calls   *)
(* after the written ones, in order.  For the second: a line-buffered      *)
(* append is the only thing that writes, and it writes one whole record    *)
(* before it returns.  For the third: damage is permanent, so a file that  *)
(* can be read never had any, and holds the calls begun in order: a first  *)
(* part of each ended process's calls, and all that the running one wrote. *)
(* For the replay: a stable sort has one outcome (SortedInTwoParts,        *)
(* SortedAlready), and a run over events in order of time is known in      *)
(* closed form (RunsToTheEnd).                                             *)
(***************************************************************************)
EXTENDS EventLog, FiniteSetTheorems, SequenceTheorems, WellFoundedInduction, TLAPS

Written == Len(calls) - Len(buffer)
Whole(l) == l.kind = "whole" /\ l.ended

(* The buffer holds the last calls, in order.                              *)
Queue ==
    /\ Len(buffer) <= Len(calls)
    /\ \A i \in DOMAIN buffer : buffer[i] = Written + i

(* Only the last line of the file may lack its newline.                    *)
Shape == \A i \in DOMAIN file : i < Len(file) => file[i].ended

(* Complete records are of written calls, in the order of the calls.       *)
InOrder ==
    /\ \A i \in DOMAIN file : Whole(file[i]) => file[i].call \in 1..Written
    /\ \A i, j \in DOMAIN file :
          i < j /\ Whole(file[i]) /\ Whole(file[j]) => file[i].call < file[j].call

(* A cut record is the last line, or ran into it.                          *)
CutTail == cut => buffer # <<>> /\ file # <<>> /\ ~file[Len(file)].ended

(* Unbuffered, every line is whole and at most the last call is unwritten, *)
(* and that only while it runs.                                            *)
LineByLine ==
    /\ ~cut
    /\ \A i \in DOMAIN file : Whole(file[i])
    /\ buffer = <<>> \/ (pc = "appending" /\ Len(buffer) = 1)
    /\ pc = "appending" /\ buffer = <<>> => Len(calls) \in Stored
    /\ accepted \subseteq Stored

IInv ==
    /\ TypeOK
    /\ Queue
    /\ Shape
    /\ InOrder
    /\ CutTail
    /\ ~buffered => LineByLine
    /\ pc = "appending" => Len(calls) >= 1
    /\ Len(calls) <= MaxAppends

LEMMA InitIInv == Init => IInv
<1> SUFFICES ASSUME Init PROVE IInv
  OBVIOUS
<1>1. /\ file \in Seq(Line) /\ calls \in Seq([event : Events, life : Nat])
      /\ buffer \in Seq(1..Len(calls))
      /\ file = <<>> /\ DOMAIN file = {} /\ calls = <<>> /\ Len(calls) = 0
      /\ buffer = <<>> /\ DOMAIN buffer = {} /\ Len(buffer) = 0
  BY DEF Init
<1>2. /\ buffered \in BOOLEAN /\ cut = FALSE /\ pc = "down" /\ accepted = {}
      /\ life \in Nat /\ crashes \in Nat
  BY DEF Init
<1>3. TypeOK
  BY <1>1, <1>2 DEF TypeOK
<1>4. Queue /\ Shape /\ InOrder /\ CutTail /\ LineByLine
  BY <1>1, <1>2 DEF Queue, Shape, InOrder, CutTail, LineByLine
<1> QED  BY <1>1, <1>2, <1>3, <1>4, EventLogAssumption DEF IInv

(* A step that writes changes the last line, if that is unended, or adds   *)
(* one: the line l is put at place k + 1 behind k lines that stay.         *)
Lays(f, g, k, l) ==
    /\ Len(f) = k \/ Len(f) = k + 1
    /\ Len(f) = k + 1 => ~f[k + 1].ended
    /\ Len(f) = k => ~OpenTail(f)
    /\ Len(g) = k + 1
    /\ \A i \in 1..k : g[i] = f[i]
    /\ g[k + 1] = l

LEMMA AppendLays ==
  ASSUME NEW f \in Seq(Line), NEW l \in Line, ~OpenTail(f)
  PROVE  /\ Lays(f, Append(f, l), Len(f), l)
         /\ Append(f, l) \in Seq(Line) /\ Len(f) \in Nat
BY DEF Lays

LEMMA ExceptLays ==
  ASSUME NEW f \in Seq(Line), NEW l \in Line, OpenTail(f)
  PROVE  /\ Lays(f, [f EXCEPT ![Len(f)] = l], Len(f) - 1, l)
         /\ [f EXCEPT ![Len(f)] = l] \in Seq(Line) /\ Len(f) - 1 \in Nat
<1> DEFINE g == [f EXCEPT ![Len(f)] = l]
<1>1. f # <<>> /\ ~f[Len(f)].ended /\ Len(f) \in Nat /\ Len(f) # 0
  BY DEF OpenTail
<1>2. g \in Seq(Line) /\ Len(g) = Len(f)
  BY <1>1
<1>3. g[Len(f)] = l /\ \A i \in 1..(Len(f) - 1) : g[i] = f[i]
  BY <1>1
<1> HIDE DEF g
<1>4. /\ Len(f) - 1 \in Nat /\ (Len(f) - 1) + 1 = Len(f) /\ Len(f) - 1 # Len(f)
  BY <1>1
<1>5. Lays(f, g, Len(f) - 1, l)
  BY <1>1, <1>2, <1>3, <1>4 DEF Lays
<1> QED  BY <1>2, <1>4, <1>5 DEF g

(* A function over 1..k + 1 is the one over 1..k with its last value added. *)
LEMMA AppendIsLast ==
  ASSUME NEW k \in Nat, NEW d \in [1..k -> Nat], NEW e \in [1..(k + 1) -> Nat],
         \A i \in 1..k : e[i] = d[i]
  PROVE  e = Append(d, e[k + 1])
<1>1. d \in Seq(Nat) /\ Len(d) = k /\ e[k + 1] \in Nat
  OBVIOUS
<1>2. Append(d, e[k + 1]) \in Seq(Nat) /\ Len(Append(d, e[k + 1])) = k + 1
  BY <1>1
<1>3. /\ \A i \in 1..k : Append(d, e[k + 1])[i] = d[i]
      /\ Append(d, e[k + 1])[k + 1] = e[k + 1]
  BY <1>1
<1>4. \A i \in 1..(k + 1) : i \in 1..k \/ i = k + 1
  OBVIOUS
<1>5. \A i \in 1..(k + 1) : Append(d, e[k + 1])[i] = e[i]
  BY <1>3, <1>4
<1>6. Append(d, e[k + 1]) = [i \in 1..(k + 1) |-> Append(d, e[k + 1])[i]]
  BY <1>2
<1> QED  BY <1>5, <1>6

(* Such a step leaves the complete records as they are, or adds one.       *)
LEMMA LaysDurable ==
  ASSUME NEW f \in Seq(Line), NEW g \in Seq(Line), NEW k \in Nat, NEW l \in Line,
         Lays(f, g, k, l)
  PROVE  IF Complete(g, k + 1) THEN Durable(g) = Append(Durable(f), l.call)
         ELSE Durable(g) = Durable(f)
<1> DEFINE F == {i \in DOMAIN f : Complete(f, i)}
           G == {i \in DOMAIN g : Complete(g, i)}
<1>1. /\ DOMAIN g = 1..(k + 1) /\ DOMAIN f = 1..Len(f)
      /\ Len(f) = k \/ Len(f) = k + 1
      /\ \A i \in 1..k : g[i] = f[i] /\ i \in 1..Len(f) /\ i \in 1..(k + 1)
      /\ g[k + 1] = l
  BY DEF Lays
<1>2. \A i \in 1..(k + 1) : i \in 1..k \/ i = k + 1
  OBVIOUS
<1>3. \A i, j : j \in 1..k /\ i \in 1..j => i \in 1..k
  OBVIOUS
<1>4. F \subseteq 1..k
  <2> SUFFICES ASSUME NEW i \in F, i \notin 1..k PROVE FALSE
    OBVIOUS
  <2>1. i \in 1..Len(f)
    BY <1>1
  <2>2. i = k + 1 /\ Len(f) = k + 1
    BY <1>1, <2>1
  <2>3. k + 1 \in 1..(k + 1)
    OBVIOUS
  <2>4. f[k + 1].ended
    BY <2>2, <2>3 DEF Complete
  <2> QED  BY <1>1, <2>2, <2>4 DEF Lays
<1>5. ASSUME NEW i \in 1..k PROVE Complete(g, i) <=> Complete(f, i)
  <2>1. \A j \in 1..i : g[j] = f[j]
    BY <1>1, <1>3
  <2> QED  BY <2>1 DEF Complete
<1>6. CASE Complete(g, k + 1)
  <2>1. ASSUME NEW i \in 1..(k + 1) PROVE Complete(g, i)
    <3>1. \A j \in 1..i : j \in 1..(k + 1)
      OBVIOUS
    <3> QED  BY <1>6, <3>1 DEF Complete
  <2>2. F = 1..k
    <3>1. ASSUME NEW i \in 1..k PROVE i \in F
      BY <1>1, <1>5, <2>1
    <3> QED  BY <1>4, <3>1
  <2>3. G = 1..(k + 1)
    BY <1>1, <2>1
  <2>4. Durable(f) = [i \in 1..k |-> f[i].call] /\ Durable(g) = [i \in 1..(k + 1) |-> g[i].call]
    BY <2>2, <2>3 DEF Durable
  <2> DEFINE d == [i \in 1..k |-> f[i].call]
             e == [i \in 1..(k + 1) |-> g[i].call]
  <2>5. \A i \in 1..(k + 1) : g[i].call \in Nat
    <3>1. \A i \in 1..(k + 1) : g[i] \in Line
      BY DEF Lays
    <3> QED  BY <3>1 DEF Line
  <2>6. \A i \in 1..k : f[i].call = g[i].call /\ i \in 1..(k + 1)
    BY DEF Lays
  <2>7. d \in [1..k -> Nat] /\ e \in [1..(k + 1) -> Nat]
    BY <2>5, <2>6
  <2>8. \A i \in 1..k : e[i] = d[i]
    BY <2>6
  <2>9. e[k + 1] = l.call
    BY DEF Lays
  <2> HIDE DEF d, e
  <2>10. e = Append(d, l.call)
    BY <2>7, <2>8, <2>9, AppendIsLast
  <2> QED  BY <1>6, <2>4, <2>10 DEF d, e
<1>7. CASE ~Complete(g, k + 1)
  <2>1. G \subseteq 1..k
    BY <1>1, <1>2, <1>7
  <2>2. \A i \in 1..k : i \in F <=> i \in G
    BY <1>1, <1>5
  <2>3. F = G
    BY <1>4, <2>1, <2>2
  <2>4. \A i \in F : f[i].call = g[i].call
    BY <1>1, <1>4
  <2> HIDE DEF F, G
  <2>5. Durable(f) = [i \in F |-> f[i].call] /\ Durable(g) = [i \in G |-> g[i].call]
    BY DEF F, G, Durable
  <2> QED  BY <1>7, <2>3, <2>4, <2>5
<1> QED  BY <1>6, <1>7

-----------------------------------------------------------------------------
(* What the two writing actions put into the file. *)

LEMMA WriteRecordLays ==
  ASSUME IInv, WriteRecord
  PROVE  /\ file' \in Seq(Line)
         /\ \E k \in Nat, l \in Line :
               /\ Lays(file, file', k, l)
               /\ l.ended
               /\ Whole(l) => l.call = Head(buffer)
               /\ ~buffered => k = Len(file) /\ Whole(l)
<1> DEFINE n == Head(buffer)
           whole == [kind |-> "whole", call |-> n, ended |-> TRUE]
           junk == [kind |-> "junk", call |-> 0, ended |-> TRUE]
           Fits(k, l) == /\ Lays(file, file', k, l)
                         /\ l.ended
                         /\ Whole(l) => l.call = Head(buffer)
                         /\ ~buffered => k = Len(file) /\ Whole(l)
<1>1. file \in Seq(Line) /\ n \in Nat /\ whole \in Line /\ junk \in Line
  BY DEF IInv, TypeOK, WriteRecord, Line
<1>2. OpenTail(file) => buffered
  <2> SUFFICES ASSUME file # <<>>, ~buffered PROVE file[Len(file)].ended
    BY DEF OpenTail
  <2>1. Len(file) \in DOMAIN file
    BY <1>1
  <2> QED  BY <2>1 DEF IInv, LineByLine, Whole
<1>3. CASE ~OpenTail(file)
  <2>1. ~cut
    BY <1>3 DEF IInv, CutTail, OpenTail
  <2>2. file' = Append(file, whole)
    BY <1>3, <2>1 DEF WriteRecord, Lay
  <2>3. /\ Lays(file, file', Len(file), whole)
        /\ file' \in Seq(Line) /\ Len(file) \in Nat
    BY <1>1, <1>3, <2>2, AppendLays
  <2>4. Fits(Len(file), whole)
    BY <2>3 DEF Whole
  <2> HIDE DEF Fits, whole
  <2>5. \E k \in Nat, l \in Line : Fits(k, l)
    BY <1>1, <2>3, <2>4
  <2> QED  BY <2>3, <2>5 DEF Fits
<1>4. CASE OpenTail(file)
  <2>1. PICK l \in {whole, junk} : file' = [file EXCEPT ![Len(file)] = l]
    BY <1>4 DEF WriteRecord, Lay, LayRest, GlueTo
  <2>2. l \in Line
    BY <1>1, <2>1
  <2>3. /\ Lays(file, file', Len(file) - 1, l)
        /\ file' \in Seq(Line) /\ Len(file) - 1 \in Nat
    BY <1>1, <1>4, <2>1, <2>2, ExceptLays
  <2>4. Fits(Len(file) - 1, l)
    BY <1>2, <1>4, <2>1, <2>3 DEF Whole
  <2> HIDE DEF Fits
  <2>5. \E k \in Nat, m \in Line : Fits(k, m)
    BY <2>2, <2>3, <2>4
  <2> QED  BY <2>3, <2>5 DEF Fits
<1> QED  BY <1>3, <1>4

LEMMA WritePartLays ==
  ASSUME IInv, WritePart
  PROVE  /\ file' \in Seq(Line)
         /\ \E k \in Nat, l \in Line : Lays(file, file', k, l) /\ ~l.ended
<1>1. PICK kind \in {"part", "whole"} : file' = LayStart(file, Head(buffer), kind)
  BY DEF WritePart
<1> DEFINE start == [kind |-> kind, call |-> Head(buffer), ended |-> FALSE]
           junk == [kind |-> "junk", call |-> 0, ended |-> FALSE]
<1>2. /\ file \in Seq(Line) /\ start \in Line /\ junk \in Line
      /\ ~start.ended /\ ~junk.ended
  BY DEF IInv, TypeOK, WritePart, Line
<1>3. CASE OpenTail(file)
  <2>1. file' = [file EXCEPT ![Len(file)] = junk]
    BY <1>1, <1>3 DEF LayStart, GlueTo
  <2>2. /\ Lays(file, file', Len(file) - 1, junk)
        /\ file' \in Seq(Line) /\ Len(file) - 1 \in Nat
    BY <1>2, <1>3, <2>1, ExceptLays
  <2> HIDE DEF junk
  <2> QED  BY <1>2, <2>2
<1>4. CASE ~OpenTail(file)
  <2>1. file' = Append(file, start)
    BY <1>1, <1>4 DEF LayStart
  <2>2. /\ Lays(file, file', Len(file), start)
        /\ file' \in Seq(Line) /\ Len(file) \in Nat
    BY <1>2, <1>4, <2>1, AppendLays
  <2> HIDE DEF start
  <2> QED  BY <1>2, <2>2
<1> QED  BY <1>3, <1>4

(* Laying a line keeps the file in shape and its complete records in       *)
(* order, if a complete line is of the call after those written.           *)
LEMMA LaysInOrder ==
  ASSUME IInv, file' \in Seq(Line),
         NEW k \in Nat, NEW l \in Line, Lays(file, file', k, l),
         Written' \in Nat, Written <= Written',
         Whole(l) => l.call = Written + 1 /\ Written' = Written + 1
  PROVE  Shape' /\ InOrder'
<1>1. Written \in Nat
  BY DEF IInv, TypeOK, Queue, Written
<1>2. ASSUME NEW i \in DOMAIN file'
      PROVE  \/ i \in DOMAIN file /\ i \in 1..k /\ file'[i] = file[i]
             \/ i = k + 1 /\ file'[i] = l
  <2>1. i \in 1..(k + 1)
    BY DEF Lays
  <2>2. CASE i = k + 1
    BY <2>2 DEF Lays
  <2>3. CASE i # k + 1
    <3>1. i \in 1..k
      BY <2>1, <2>3
    <3>2. file \in Seq(Line) /\ i \in 1..Len(file)
      BY <3>1 DEF Lays, IInv, TypeOK
    <3> QED  BY <3>1, <3>2 DEF Lays
  <2> QED  BY <2>2, <2>3
<1>3. Shape'
  <2> SUFFICES ASSUME NEW i \in DOMAIN file', i < Len(file') PROVE file'[i].ended
    BY DEF Shape
  <2>1. i \in DOMAIN file /\ i \in 1..k /\ file'[i] = file[i]
    BY <1>2 DEF Lays
  <2>2. CASE i < Len(file)
    BY <2>1, <2>2 DEF IInv, Shape
  <2>3. CASE ~(i < Len(file))
    <3>1. i = k /\ Len(file) = k
      BY <2>1, <2>3 DEF Lays
    <3>2. ~OpenTail(file)
      BY <3>1 DEF Lays
    <3>3. file # <<>>
      BY <2>1, <3>1
    <3> QED  BY <2>1, <3>1, <3>2, <3>3 DEF OpenTail
  <2> QED  BY <2>2, <2>3
<1>4. ASSUME NEW i \in DOMAIN file', Whole(file'[i])
      PROVE  file'[i].call \in 1..Written'
  <2>1. CASE i \in DOMAIN file /\ i \in 1..k /\ file'[i] = file[i]
    <3>1. file[i].call \in 1..Written
      BY <1>4, <2>1 DEF IInv, InOrder
    <3> QED  BY <1>1, <2>1, <3>1
  <2>2. CASE file'[i] = l
    <3>1. l.call = Written + 1 /\ Written' = Written + 1
      BY <1>4, <2>2
    <3> QED  BY <1>1, <2>2, <3>1
  <2> QED  BY <1>2, <2>1, <2>2
<1>5. ASSUME NEW i \in DOMAIN file', NEW j \in DOMAIN file', i < j,
             Whole(file'[i]), Whole(file'[j])
      PROVE  file'[i].call < file'[j].call
  <2>1. i \in DOMAIN file /\ file'[i] = file[i]
    <3>1. i # k + 1
      BY <1>2, <1>5
    <3> QED  BY <1>2, <3>1
  <2>2. file[i].call \in 1..Written
    BY <1>5, <2>1 DEF IInv, InOrder
  <2>3. CASE j \in DOMAIN file /\ file'[j] = file[j]
    BY <1>5, <2>1, <2>3 DEF IInv, InOrder
  <2>4. CASE file'[j] = l
    <3>1. l.call = Written + 1
      BY <1>5, <2>4
    <3> QED  BY <1>1, <2>1, <2>2, <2>4, <3>1
  <2> QED  BY <1>2, <2>3, <2>4
<1> QED  BY <1>3, <1>4, <1>5 DEF InOrder

LEMMA StepIInv == IInv /\ [Next]_vars => IInv'
<1> SUFFICES ASSUME IInv, [Next]_vars PROVE IInv'
  OBVIOUS
<1>0. /\ TypeOK /\ Queue /\ Shape /\ InOrder /\ CutTail
      /\ Len(calls) <= MaxAppends /\ (~buffered => LineByLine)
      /\ Written \in Nat /\ Len(calls) \in Nat
      /\ (pc = "appending" => Len(calls) >= 1)
  BY DEF IInv, TypeOK, Queue, Written
<1>1. CASE UNCHANGED <<buffered, file, buffer, cut, calls, accepted>> /\
           (Start \/ Sync \/ UNCHANGED vars)
  <2>1. TypeOK'
    BY <1>0, <1>1 DEF TypeOK, Start, Sync, vars
  <2>2. Queue' /\ Shape' /\ InOrder' /\ CutTail'
    BY <1>0, <1>1 DEF Queue, Shape, InOrder, CutTail, Written
  <2>3. ~buffered' => LineByLine'
    <3> SUFFICES ASSUME ~buffered PROVE LineByLine'
      BY <1>1
    <3>1. buffer # <<>> => ~Sync /\ ~Start
      BY <1>0 DEF LineByLine, Sync, Start
    <3>2. pc' = "appending" => pc = "appending"
      BY <1>1 DEF Start, Sync, vars
    <3>3. UNCHANGED <<file, cut, buffer, accepted, calls>> /\ Stored' = Stored
      BY <1>1 DEF Stored
    <3>4. buffer # <<>> => pc' = "appending"
      BY <1>0, <1>1, <3>1 DEF LineByLine, vars
    <3> QED  BY <1>0, <3>2, <3>3, <3>4 DEF LineByLine
  <2>4. pc' = "appending" => pc = "appending"
    BY <1>1 DEF Start, Sync, vars
  <2> QED  BY <1>0, <1>1, <2>1, <2>2, <2>3, <2>4 DEF IInv
<1>2. CASE Crash
  <2>1. /\ pc' = "down" /\ buffer' = <<>> /\ cut' = FALSE /\ crashes' \in Nat
        /\ UNCHANGED <<buffered, file, calls, accepted, life>>
    BY <1>0, <1>2 DEF Crash, TypeOK
  <2>2. buffer' \in Seq(1..Len(calls')) /\ Len(buffer') = 0 /\ DOMAIN buffer' = {}
    BY <2>1
  <2>3. TypeOK'
    BY <1>0, <2>1, <2>2 DEF TypeOK
  <2>4. Queue' /\ Shape' /\ CutTail'
    BY <1>0, <2>1, <2>2 DEF Queue, Shape, CutTail
  <2>5. InOrder'
    <3>1. Written' = Len(calls) /\ Written <= Len(calls)
      BY <1>0, <2>1, <2>2 DEF Written, Queue, TypeOK
    <3> QED  BY <1>0, <2>1, <3>1 DEF InOrder
  <2>6. ~buffered' => LineByLine'
    BY <1>0, <2>1 DEF LineByLine, Stored
  <2> QED  BY <1>0, <2>1, <2>3, <2>4, <2>5, <2>6 DEF IInv
<1>3. ASSUME NEW e \in Events, AppendCall(e) PROVE IInv'
  <2> DEFINE n == Len(calls) + 1
  <2>1. /\ pc = "idle"
        /\ calls' = Append(calls, [event |-> e, life |-> life])
        /\ buffer' = Append(buffer, n) /\ n <= MaxAppends
        /\ UNCHANGED <<buffered, file, cut, life, crashes>>
    BY <1>0, <1>3, EventLogAssumption DEF AppendCall
  <2>2. calls' \in Seq([event : Events, life : Nat]) /\ Len(calls') = n /\ n \in Nat
    BY <1>0, <2>1 DEF TypeOK
  <2>3. /\ buffer' \in Seq(1..Len(calls')) /\ Len(buffer') = Len(buffer) + 1
        /\ DOMAIN buffer' = 1..(Len(buffer) + 1) /\ buffer' # <<>>
        /\ \A i \in 1..Len(buffer) : buffer'[i] = buffer[i]
        /\ buffer'[Len(buffer) + 1] = n /\ Len(buffer) \in Nat
    <3>1. buffer \in Seq(1..n) /\ n \in 1..n
      BY <1>0, <2>2 DEF TypeOK
    <3> QED  BY <2>1, <2>2, <3>1
  <2>4. Written' = Written
    BY <1>0, <2>2, <2>3 DEF Written
  <2>5. TypeOK'
    <3>1. pc' \in {"down", "idle", "appending", "syncing"} /\ accepted' \subseteq 1..n
      <4>1. \A m \in 1..Len(calls) : m \in 1..n
        BY <1>0
      <4>2. n \in 1..n
        BY <2>2
      <4> QED  BY <1>0, <1>3, <2>1, <4>1, <4>2 DEF AppendCall, TypeOK
    <3> QED  BY <1>0, <2>1, <2>2, <2>3, <3>1 DEF TypeOK
  <2>6. Queue'
    <3>1. ASSUME NEW i \in DOMAIN buffer' PROVE buffer'[i] = Written + i
      <4>1. CASE i \in 1..Len(buffer)
        <5>1. i \in DOMAIN buffer
          BY <4>1, <1>0 DEF TypeOK
        <5> QED  BY <1>0, <2>3, <4>1, <5>1 DEF Queue
      <4>2. CASE i = Len(buffer) + 1
        BY <1>0, <2>3, <4>2 DEF Written
      <4> QED  BY <2>3, <4>1, <4>2
    <3> QED  BY <1>0, <2>2, <2>3, <2>4, <3>1 DEF Queue
  <2>7. Shape' /\ InOrder' /\ CutTail'
    BY <1>0, <2>1, <2>3, <2>4 DEF Shape, InOrder, CutTail
  <2>8. ~buffered' => LineByLine'
    <3> SUFFICES ASSUME ~buffered PROVE LineByLine'
      BY <2>1
    <3>1. pc' = "appending" /\ accepted' = accepted /\ buffer = <<>>
      BY <1>0, <1>3, <2>1 DEF AppendCall, LineByLine
    <3>2. Len(buffer') = 1
      BY <2>3, <3>1
    <3> QED  BY <1>0, <2>1, <2>2, <2>3, <3>1, <3>2 DEF LineByLine, Stored
  <2> QED  BY <2>1, <2>2, <2>5, <2>6, <2>7, <2>8 DEF IInv
<1>4. CASE WriteRecord
  <2>1. PICK k \in Nat, l \in Line :
            /\ Lays(file, file', k, l)
            /\ l.ended
            /\ Whole(l) => l.call = Head(buffer)
            /\ ~buffered => k = Len(file) /\ Whole(l)
    BY <1>4, WriteRecordLays
  <2>2. file' \in Seq(Line)
    BY <1>4, WriteRecordLays
  <2>3. /\ buffer # <<>> /\ buffer' = Tail(buffer) /\ cut' = FALSE
        /\ UNCHANGED <<buffered, pc, calls, accepted, life, crashes>>
    BY <1>4 DEF WriteRecord
  <2>4. /\ buffer' \in Seq(1..Len(calls')) /\ Len(buffer') = Len(buffer) - 1
        /\ \A i \in DOMAIN buffer' : i + 1 \in DOMAIN buffer /\ buffer'[i] = buffer[i + 1]
        /\ Head(buffer) = buffer[1] /\ 1 \in DOMAIN buffer /\ Len(buffer) \in Nat
        /\ \A i \in DOMAIN buffer' : i \in Nat
    BY <1>0, <2>3 DEF TypeOK
  <2>5. Written' = Written + 1 /\ Head(buffer) = Written + 1
    BY <1>0, <2>3, <2>4 DEF Written, Queue
  <2>6. Shape' /\ InOrder'
    BY <1>0, <2>1, <2>2, <2>5, LaysInOrder
  <2>7. Queue'
    <3>1. ASSUME NEW i \in DOMAIN buffer' PROVE buffer'[i] = Written' + i
      <4>1. buffer'[i] = Written + (i + 1)
        BY <1>0, <2>4 DEF Queue
      <4> QED  BY <1>0, <2>4, <2>5, <4>1
    <3> QED  BY <1>0, <2>3, <2>4, <3>1 DEF Queue
  <2>8. TypeOK'
    BY <1>0, <2>2, <2>3, <2>4 DEF TypeOK
  <2>9. ~buffered' => LineByLine'
    <3> SUFFICES ASSUME ~buffered PROVE LineByLine'
      BY <2>3
    <3>1. k = Len(file) /\ Whole(l) /\ l.call = Head(buffer) /\ file \in Seq(Line)
      BY <1>0, <2>1 DEF TypeOK
    <3>2. /\ Len(file') = k + 1 /\ file'[k + 1] = l
          /\ \A i \in 1..k : file'[i] = file[i]
      BY <2>1 DEF Lays
    <3>3. ASSUME NEW i \in DOMAIN file' PROVE Whole(file'[i])
      <4>1. i \in 1..(k + 1)
        BY <2>2, <3>2
      <4>2. CASE i = k + 1
        BY <3>1, <3>2, <4>2
      <4>3. CASE i \in 1..k
        <5>1. i \in DOMAIN file
          BY <3>1, <4>3
        <5> QED  BY <1>0, <3>2, <4>3, <5>1 DEF LineByLine
      <4> QED  BY <4>1, <4>2, <4>3
    <3>4. Stored \subseteq Stored'
      <4> SUFFICES ASSUME NEW i \in DOMAIN file PROVE file[i].call \in Stored'
        BY DEF Stored
      <4>1. i \in 1..k /\ i \in 1..(k + 1)
        BY <3>1
      <4>2. i \in DOMAIN file' /\ file'[i] = file[i]
        BY <2>2, <3>2, <4>1
      <4> QED  BY <4>2 DEF Stored
    <3>5. Head(buffer) \in Stored'
      <4>1. k + 1 \in 1..(k + 1)
        OBVIOUS
      <4>2. k + 1 \in DOMAIN file'
        BY <2>2, <3>2, <4>1
      <4> QED  BY <3>1, <3>2, <4>2 DEF Stored
    <3>6. pc = "appending" /\ Len(buffer) = 1 /\ Head(buffer) = Len(calls)
      <4>1. pc = "appending" /\ Len(buffer) = 1
        BY <1>0, <2>3 DEF LineByLine
      <4> QED  BY <1>0, <2>5, <4>1 DEF Written
    <3>7. buffer' = <<>>
      BY <2>4, <3>6
    <3> QED  BY <1>0, <2>3, <3>3, <3>4, <3>5, <3>6, <3>7 DEF LineByLine
  <2> QED  BY <1>0, <2>3, <2>6, <2>7, <2>8, <2>9 DEF IInv, CutTail
<1>5. CASE WritePart
  <2>1. PICK k \in Nat, l \in Line : Lays(file, file', k, l) /\ ~l.ended
    BY <1>5, WritePartLays
  <2>2. file' \in Seq(Line)
    BY <1>5, WritePartLays
  <2>3. /\ buffered /\ buffer # <<>> /\ cut' = TRUE
        /\ UNCHANGED <<buffered, buffer, pc, calls, accepted, life, crashes>>
    BY <1>5 DEF WritePart
  <2>4. Written' = Written
    BY <2>3 DEF Written
  <2>5. Shape' /\ InOrder'
    <3>1. ~Whole(l)
      BY <2>1 DEF Whole
    <3> QED  BY <1>0, <2>1, <2>2, <2>4, <3>1, LaysInOrder
  <2>6. CutTail'
    <3>1. Len(file') = k + 1 /\ file'[k + 1] = l
      BY <2>1 DEF Lays
    <3>2. file' # <<>>
      BY <2>2, <3>1
    <3> QED  BY <2>1, <2>3, <3>1, <3>2 DEF CutTail
  <2>7. TypeOK'
    BY <1>0, <2>2, <2>3 DEF TypeOK
  <2>8. Queue'
    BY <1>0, <2>3, <2>4 DEF Queue
  <2> QED  BY <1>0, <2>3, <2>5, <2>6, <2>7, <2>8 DEF IInv
<1>6. CASE Return
  <2>1. /\ buffer = <<>> /\ pc' = "idle" /\ pc \in {"appending", "syncing"}
        /\ accepted' = IF pc = "appending" THEN accepted \cup {Len(calls)} ELSE accepted
        /\ UNCHANGED <<buffered, file, buffer, cut, calls, life, crashes>>
    BY <1>6 DEF Return
  <2>2. Queue' /\ Shape' /\ InOrder' /\ CutTail'
    BY <1>0, <2>1 DEF Queue, Shape, InOrder, CutTail, Written
  <2>3. ~buffered' => LineByLine'
    BY <1>0, <2>1 DEF LineByLine, Stored
  <2>4. TypeOK'
    <3>1. accepted' \subseteq 1..Len(calls')
      <4>1. pc = "appending" => Len(calls) \in 1..Len(calls)
        BY <1>0
      <4> QED  BY <1>0, <2>1, <4>1 DEF TypeOK
    <3> QED  BY <1>0, <2>1, <3>1 DEF TypeOK
  <2> QED  BY <1>0, <2>1, <2>2, <2>3, <2>4 DEF IInv
<1> QED  BY <1>1, <1>2, <1>3, <1>4, <1>5, <1>6 DEF Next, Start, Sync, vars

(* The invariant holds of every behaviour of the log.                      *)
THEOREM LogInvariant == Spec => []IInv
BY InitIInv, StepIInv, PTL DEF Spec

(* Whatever is killed when, an unbuffered log can be read and holds every  *)
(* record whose append returned.                                           *)
THEOREM AcceptedSurvives == Spec => []NothingAcceptedIsLost
<1>1. IInv => NothingAcceptedIsLost
  BY DEF IInv, LineByLine, Whole, NothingAcceptedIsLost, Readable
<1> QED  BY <1>1, LogInvariant, PTL

(* A step adds one complete record, of a later call, or none.              *)
LEMMA StepImplements ==
  ASSUME IInv, [Next]_vars
  PROVE  [Promised!Next]_(Durable(file))
<1>1. CASE WriteRecord
  <2>1. PICK k \in Nat, l \in Line :
            /\ Lays(file, file', k, l)
            /\ Whole(l) => l.call = Head(buffer)
    BY <1>1, WriteRecordLays
  <2>2. file' \in Seq(Line) /\ file \in Seq(Line)
    BY <1>1, WriteRecordLays DEF IInv, TypeOK
  <2>3. CASE ~Complete(file', k + 1)
    BY <2>1, <2>2, <2>3, LaysDurable
  <2>4. CASE Complete(file', k + 1)
    <3>1. Whole(l)
      <4>1. k + 1 \in 1..(k + 1)
        OBVIOUS
      <4> QED  BY <2>1, <2>4, <4>1 DEF Lays, Complete, Whole
    <3>2. l.call = Written + 1 /\ l.call \in 1..MaxAppends
      <4>1. buffer # <<>> /\ buffer \in Seq(1..Len(calls)) /\ calls \in Seq([event : Events, life : Nat])
        BY <1>1 DEF WriteRecord, IInv, TypeOK
      <4>2. 1 \in DOMAIN buffer /\ Head(buffer) = buffer[1] /\ buffer[1] \in 1..Len(calls)
        BY <4>1
      <4>3. buffer[1] = Written + 1
        BY <4>2 DEF IInv, Queue
      <4>4. Len(calls) \in Nat /\ Len(calls) <= MaxAppends /\ MaxAppends \in Nat
        BY <4>1, EventLogAssumption DEF IInv
      <4> QED  BY <2>1, <3>1, <4>2, <4>3, <4>4
    <3>3. Durable(file') = Append(Durable(file), l.call)
      BY <2>1, <2>2, <2>4, LaysDurable
    <3>4. ASSUME NEW i \in DOMAIN Durable(file) PROVE Durable(file)[i] < l.call
      <4>1. i \in DOMAIN file /\ Complete(file, i) /\ Durable(file)[i] = file[i].call
        BY DEF Durable
      <4>2. i \in 1..i
        BY <2>2, <4>1
      <4>3. file[i].call \in 1..Written
        BY <4>1, <4>2 DEF IInv, InOrder, Complete, Whole
      <4> QED  BY <3>2, <4>1, <4>3 DEF Written, IInv, TypeOK, Queue
    <3> QED  BY <3>2, <3>3, <3>4 DEF Promised!Next
  <2> QED  BY <2>3, <2>4
<1>2. CASE WritePart
  <2>1. PICK k \in Nat, l \in Line : Lays(file, file', k, l) /\ ~l.ended
    BY <1>2, WritePartLays
  <2>2. file' \in Seq(Line) /\ file \in Seq(Line)
    BY <1>2, WritePartLays DEF IInv, TypeOK
  <2>3. ~Complete(file', k + 1)
    <3>1. k + 1 \in 1..(k + 1)
      OBVIOUS
    <3> QED  BY <2>1, <3>1 DEF Lays, Complete
  <2> QED  BY <2>1, <2>2, <2>3, LaysDurable
<1>3. CASE UNCHANGED file
  BY <1>3
<1> QED
  BY <1>1, <1>2, <1>3 DEF Next, vars, Start, Crash, AppendCall, Sync, Return

(* In either buffering mode, kills and restarts included, the complete     *)
(* records of the log are an append-only log.                              *)
THEOREM CompleteRecordsAreAppendOnly == Spec => ImplementsLog
<1>1. Init => Promised!Init
  <2> SUFFICES ASSUME Init PROVE Durable(file) = <<>>
    BY DEF Promised!Init
  <2>1. file = <<>>
    BY DEF Init
  <2> QED  BY <2>1 DEF Durable
<1>2. IInv /\ [Next]_vars => [Promised!Next]_(Durable(file))
  BY StepImplements
<1> QED  BY <1>1, <1>2, LogInvariant, PTL DEF Spec, ImplementsLog, Promised!Spec

-----------------------------------------------------------------------------
(* The reader.  A file that can be read, or could once the record that is  *)
(* being written is, holds the calls begun, in order, and of each life a   *)
(* first part of its calls; of the running one, all that were written.     *)

Fine ==
    \A i \in DOMAIN file :
        file[i].kind = "whole" \/ (cut /\ i = Len(file) /\ file[i].kind = "part")

Begun == IF cut THEN Written + 1 ELSE Written

Told ==
    /\ \A i \in DOMAIN file : file[i].call \in 1..Begun
    /\ \A i, j \in DOMAIN file : i < j => file[i].call < file[j].call
    /\ cut => file[Len(file)].call = Written + 1
    /\ \A i \in DOMAIN file : \A n \in 1..file[i].call :
          calls[n].life = calls[file[i].call].life => n \in Stored
    /\ pc # "down" => \A n \in 1..Written : calls[n].life = life => n \in Stored

(* What is in the buffer was appended by the process that runs.            *)
OfThisLife ==
    /\ \A n \in DOMAIN calls : calls[n].life <= life
    /\ \A i \in DOMAIN buffer : calls[buffer[i]].life = life
    /\ pc = "down" => buffer = <<>> /\ ~cut

ReaderInv == OfThisLife /\ (Fine => Told)

(* A writing step that leaves the file fine keeps the calls of its lines,  *)
(* and adds the next call's line unless that was cut before.               *)
Tells(n) ==
    /\ Len(file') = IF cut THEN Len(file) ELSE Len(file) + 1
    /\ \A i \in DOMAIN file : file'[i].call = file[i].call
    /\ ~cut => file'[Len(file) + 1].call = n

LEMMA TellingIsTold ==
  ASSUME IInv, OfThisLife, Told, pc # "down", pc' = pc, UNCHANGED <<calls, life>>,
         file' \in Seq(Line), NEW n \in DOMAIN calls, n = Written + 1, calls[n].life = life,
         Tells(n), Begun' = n, cut' => Written' = Written /\ file'[Len(file')].call = n,
         Written' \in {Written, n}
  PROVE  Told'
<1>1. /\ Written \in Nat /\ Len(file) \in Nat /\ DOMAIN file = 1..Len(file)
      /\ DOMAIN file' = 1..Len(file')
  BY DEF IInv, TypeOK, Queue, Written
<1>2. ASSUME NEW i \in DOMAIN file'
      PROVE  \/ i \in DOMAIN file /\ file'[i].call = file[i].call
             \/ ~cut /\ i = Len(file) + 1 /\ file'[i].call = n
  BY <1>1 DEF Tells
<1>3. \A i \in DOMAIN file : i \in DOMAIN file'
  BY <1>1 DEF Tells
<1>4. Stored \subseteq Stored'
  BY <1>3 DEF Stored, Tells
<1>5. n \in Stored'
  <2>1. CASE cut
    <3>1. Len(file) \in DOMAIN file /\ file[Len(file)].call = n
      BY <1>1, <2>1 DEF Told, IInv, CutTail
    <3> QED  BY <1>3, <3>1 DEF Stored, Tells
  <2>2. CASE ~cut
    <3>1. Len(file) + 1 \in DOMAIN file' /\ file'[Len(file) + 1].call = n
      BY <1>1, <2>2 DEF Tells
    <3> QED  BY <3>1 DEF Stored
  <2> QED  BY <2>1, <2>2
<1>6. \A m \in 1..n : calls[m].life = life => m \in Stored'
  <2>1. \A m \in 1..n : m \in 1..Written \/ m = n
    BY <1>1
  <2> QED  BY <1>4, <1>5, <2>1 DEF Told
<1>7. (\A i \in DOMAIN file : file[i].call \in 1..Begun)'
  <2>1. \A i \in DOMAIN file : file[i].call \in 1..n
    BY <1>1 DEF Told, Begun
  <2> QED  BY <1>1, <1>2, <2>1
<1>8. (\A i, j \in DOMAIN file : i < j => file[i].call < file[j].call)'
  <2> SUFFICES ASSUME NEW i \in DOMAIN file', NEW j \in DOMAIN file', i < j
               PROVE  file'[i].call < file'[j].call
    OBVIOUS
  <2>1. CASE j \in DOMAIN file
    <3>1. i \in DOMAIN file
      BY <1>1, <2>1
    <3> QED  BY <2>1, <3>1 DEF Told, Tells
  <2>2. CASE j \notin DOMAIN file
    <3>1. ~cut /\ j = Len(file) + 1 /\ file'[j].call = n
      BY <1>2, <2>2
    <3>2. i \in DOMAIN file
      BY <1>1, <1>2, <3>1
    <3>3. file[i].call \in 1..Written /\ file'[i].call = file[i].call
      BY <3>1, <3>2 DEF Told, Begun, Tells
    <3> QED  BY <1>1, <3>1, <3>3
  <2> QED  BY <2>1, <2>2
<1>9. (cut => file[Len(file)].call = Written + 1)'
  OBVIOUS
<1>10. (\A i \in DOMAIN file : \A m \in 1..file[i].call :
          calls[m].life = calls[file[i].call].life => m \in Stored)'
  <2> SUFFICES ASSUME NEW i \in DOMAIN file', NEW m \in 1..file'[i].call,
                      calls[m].life = calls[file'[i].call].life
               PROVE  m \in Stored'
    OBVIOUS
  <2>1. CASE i \in DOMAIN file /\ file'[i].call = file[i].call
    BY <1>4, <2>1 DEF Told
  <2>2. CASE file'[i].call = n
    BY <1>6, <2>2
  <2> QED  BY <1>2, <2>1, <2>2
<1>11. (pc # "down" => \A m \in 1..Written : calls[m].life = life => m \in Stored)'
  <2>1. \A m \in 1..Written' : m \in 1..n
    BY <1>1
  <2> QED  BY <1>6, <2>1
<1> QED  BY <1>7, <1>8, <1>9, <1>10, <1>11 DEF Told

(* What a sequence over a set holds is in the set.                         *)
LEMMA HeldInSet ==
  ASSUME NEW S, NEW s \in Seq(S), NEW n \in DOMAIN s PROVE s[n] \in S
OBVIOUS

(* The record being written is of the call after those written, and of the *)
(* process that runs.                                                      *)
LEMMA HeadIsNext ==
  ASSUME IInv, OfThisLife, buffer # <<>>
  PROVE  /\ Head(buffer) = Written + 1 /\ Head(buffer) \in DOMAIN calls
         /\ calls[Head(buffer)].life = life /\ pc # "down"
<1>1. /\ buffer \in Seq(1..Len(calls)) /\ 1 \in DOMAIN buffer /\ Head(buffer) = buffer[1]
      /\ DOMAIN calls = 1..Len(calls)
  BY DEF IInv, TypeOK
<1> QED  BY <1>1 DEF IInv, Queue, OfThisLife

(* A whole record written leaves the file fine only if it was, and if      *)
(* nothing unended stood there but its own beginning.                      *)
LEMMA WriteRecordTells ==
  ASSUME IInv, OfThisLife, WriteRecord, Fine', Fine => Told
  PROVE  Fine /\ Tells(Head(buffer))
<1> DEFINE n == Head(buffer)
           whole == [kind |-> "whole", call |-> n, ended |-> TRUE]
<1>5. file \in Seq(Line) /\ file' \in Seq(Line)
  BY WriteRecordLays DEF IInv, TypeOK
<1>6. ~cut'
  BY DEF WriteRecord
<1>0. Len(file) \in Nat /\ DOMAIN file = 1..Len(file)
  BY <1>5
<1>1. \A i \in DOMAIN file' : file'[i].kind = "whole"
  BY <1>6 DEF Fine
<1>2. ASSUME OpenTail(file) PROVE Len(file) \in DOMAIN file
  BY <1>0, <1>2 DEF OpenTail
<1>3. CASE ~cut
  <2>1. ~OpenTail(file)
    <3> SUFFICES ASSUME OpenTail(file) PROVE FALSE
      OBVIOUS
    <3>1. file' = [file EXCEPT ![Len(file)] = [kind |-> "junk", call |-> 0, ended |-> TRUE]]
      BY <1>3 DEF WriteRecord, Lay, GlueTo
    <3>2. file'[Len(file)].kind = "junk" /\ Len(file) \in DOMAIN file'
      BY <1>0, <1>2, <3>1
    <3> QED  BY <1>1, <3>2
  <2>2. file' = Append(file, whole)
    BY <1>3, <2>1 DEF WriteRecord, Lay
  <2>3. /\ Len(file') = Len(file) + 1 /\ DOMAIN file' = 1..(Len(file) + 1)
        /\ \A i \in 1..Len(file) : file'[i] = file[i]
        /\ file'[Len(file) + 1] = whole
    BY <1>0, <1>5, <2>2
  <2>4. Fine
    BY <1>0, <1>1, <2>3 DEF Fine
  <2> QED  BY <1>0, <1>3, <2>3, <2>4 DEF Tells
<1>4. CASE cut
  <2>1. OpenTail(file)
    BY <1>4 DEF IInv, CutTail, OpenTail
  <2>2. file[Len(file)].kind # "junk"
    <3> SUFFICES ASSUME file[Len(file)].kind = "junk" PROVE FALSE
      OBVIOUS
    <3>1. file' = [file EXCEPT ![Len(file)] = [kind |-> "junk", call |-> 0, ended |-> TRUE]]
      BY <1>4 DEF WriteRecord, LayRest, GlueTo
    <3>2. file'[Len(file)].kind = "junk" /\ Len(file) \in DOMAIN file'
      BY <1>0, <1>2, <2>1, <3>1
    <3> QED  BY <1>1, <3>2
  <2>3. file' = [file EXCEPT ![Len(file)] = whole]
    BY <1>4, <2>2 DEF WriteRecord, LayRest
  <2>4. /\ Len(file') = Len(file) /\ DOMAIN file' = 1..Len(file)
        /\ \A i \in 1..Len(file) : i # Len(file) => file'[i] = file[i]
        /\ file'[Len(file)] = whole
    <3>1. Len(file) \in DOMAIN file
      BY <1>2, <2>1
    <3>2. DOMAIN file' = DOMAIN file
      BY <2>3
    <3>3. file'[Len(file)] = whole /\ \A i \in DOMAIN file : i # Len(file) => file'[i] = file[i]
      BY <2>3, <3>1
    <3>4. Len(file') = Len(file)
      BY <1>5, <3>2
    <3> QED  BY <1>0, <3>2, <3>3, <3>4
  <2>5. file[Len(file)].kind \in {"whole", "part"}
    <3>1. file[Len(file)] \in Line
      BY <1>2, <1>5, <2>1
    <3> QED  BY <2>2, <3>1 DEF Line
  <2>6. Fine
    BY <1>0, <1>1, <1>4, <2>4, <2>5 DEF Fine
  <2>7. file[Len(file)].call = n
    BY <1>4, <2>6, HeadIsNext DEF Told, WriteRecord
  <2>8. \A i \in DOMAIN file : file'[i].call = file[i].call
    <3>1. ASSUME NEW i \in DOMAIN file PROVE file'[i].call = file[i].call
      <4>1. CASE i = Len(file)
        <5>1. whole.call = n
          OBVIOUS
        <5>2. file'[i] = whole
          BY <2>4, <4>1
        <5> HIDE DEF whole
        <5> QED  BY <2>7, <4>1, <5>1, <5>2
      <4>2. CASE i # Len(file)
        BY <1>0, <2>4, <4>2
      <4> QED  BY <4>1, <4>2
    <3> QED  BY <3>1
  <2> QED  BY <1>4, <2>4, <2>6, <2>8 DEF Tells
<1> QED  BY <1>3, <1>4

(* So does a part of one.                                                  *)
LEMMA WritePartTells ==
  ASSUME IInv, OfThisLife, WritePart, Fine'
  PROVE  Fine /\ Tells(Head(buffer)) /\ file'[Len(file')].call = Head(buffer)
<1>0. /\ file \in Seq(Line) /\ Len(file) \in Nat /\ DOMAIN file = 1..Len(file)
      /\ file' \in Seq(Line) /\ ~cut
  BY WritePartLays DEF IInv, TypeOK, WritePart
<1>1. PICK kind \in {"part", "whole"} : file' = LayStart(file, Head(buffer), kind)
  BY DEF WritePart
<1>2. ~OpenTail(file)
  <2> SUFFICES ASSUME OpenTail(file) PROVE FALSE
    OBVIOUS
  <2>1. file' = [file EXCEPT ![Len(file)] = [kind |-> "junk", call |-> 0, ended |-> FALSE]]
    BY <1>1 DEF LayStart, GlueTo
  <2>2. Len(file) \in DOMAIN file
    BY <1>0 DEF OpenTail
  <2>3. file'[Len(file)].kind = "junk" /\ Len(file) \in DOMAIN file'
    BY <1>0, <2>1, <2>2
  <2> QED  BY <2>3 DEF Fine
<1> DEFINE start == [kind |-> kind, call |-> Head(buffer), ended |-> FALSE]
<1>3. file' = Append(file, start)
  BY <1>1, <1>2 DEF LayStart
<1>4. /\ Len(file') = Len(file) + 1 /\ DOMAIN file' = 1..(Len(file) + 1)
      /\ \A i \in 1..Len(file) : file'[i] = file[i]
      /\ file'[Len(file) + 1] = start
  BY <1>0, <1>3
<1>5. \A i \in DOMAIN file : i # Len(file')
  BY <1>0, <1>4
<1>6. Fine
  BY <1>0, <1>4, <1>5 DEF Fine
<1> QED  BY <1>0, <1>4, <1>6 DEF Tells

LEMMA StepReader == IInv /\ ReaderInv /\ [Next]_vars => ReaderInv'
<1> SUFFICES ASSUME IInv, ReaderInv, [Next]_vars PROVE OfThisLife' /\ (Fine' => Told')
  BY DEF ReaderInv
<1>0. /\ OfThisLife /\ (Fine => Told) /\ IInv'
      /\ Written \in Nat /\ Len(calls) \in Nat /\ Len(buffer) \in Nat
      /\ DOMAIN calls = 1..Len(calls) /\ life \in Nat
      /\ calls \in Seq([event : Events, life : Nat])
      /\ DOMAIN buffer = 1..Len(buffer) /\ buffer \in Seq(1..Len(calls))
  BY StepIInv DEF ReaderInv, IInv, TypeOK, Queue, Written
<1>1. CASE WriteRecord
  <2>1. /\ buffer # <<>> /\ cut' = FALSE /\ buffer' = Tail(buffer)
        /\ UNCHANGED <<pc, calls, life>>
    BY <1>1 DEF WriteRecord
  <2>2. /\ Head(buffer) = Written + 1 /\ Head(buffer) \in DOMAIN calls
        /\ calls[Head(buffer)].life = life /\ pc # "down"
    BY <1>0, <2>1, HeadIsNext
  <2>3. Written' = Written + 1 /\ Begun' = Written + 1
    BY <1>0, <2>1 DEF Written, Begun
  <2>4. OfThisLife'
    <3>1. \A i \in DOMAIN buffer' : i + 1 \in DOMAIN buffer /\ buffer'[i] = buffer[i + 1]
      BY <1>0, <2>1
    <3> QED  BY <1>0, <2>1, <2>2, <3>1 DEF OfThisLife
  <2>5. ASSUME Fine' PROVE Told'
    <3>1. Fine /\ Tells(Head(buffer))
      BY <1>0, <1>1, <2>5, WriteRecordTells
    <3>2. file' \in Seq(Line)
      BY <1>1, WriteRecordLays
    <3> QED  BY <1>0, <2>1, <2>2, <2>3, <3>1, <3>2, TellingIsTold
  <2> QED  BY <2>4, <2>5
<1>2. CASE WritePart
  <2>1. /\ buffer # <<>> /\ cut' = TRUE
        /\ UNCHANGED <<buffer, pc, calls, life>>
    BY <1>2 DEF WritePart
  <2>2. /\ Head(buffer) = Written + 1 /\ Head(buffer) \in DOMAIN calls
        /\ calls[Head(buffer)].life = life /\ pc # "down"
    BY <1>0, <2>1, HeadIsNext
  <2>3. Written' = Written /\ Begun' = Written + 1
    BY <1>0, <2>1 DEF Written, Begun
  <2>4. OfThisLife'
    BY <1>0, <2>1, <2>2 DEF OfThisLife
  <2>5. ASSUME Fine' PROVE Told'
    <3>1. Fine /\ Tells(Head(buffer)) /\ file'[Len(file')].call = Head(buffer)
      BY <1>0, <1>2, <2>5, WritePartTells
    <3>2. file' \in Seq(Line)
      BY <1>2, WritePartLays
    <3> QED  BY <1>0, <2>1, <2>2, <2>3, <3>1, <3>2, TellingIsTold
  <2> QED  BY <2>4, <2>5
<1>3. CASE Crash
  <2>1. /\ pc' = "down" /\ buffer' = <<>> /\ cut' = FALSE
        /\ UNCHANGED <<file, calls, life>>
    BY <1>3 DEF Crash
  <2>2. OfThisLife'
    BY <1>0, <2>1 DEF OfThisLife
  <2>3. ASSUME Fine' PROVE Told'
    <3>1. Fine
      BY <2>1, <2>3 DEF Fine
    <3>2. Begun' = Len(calls) /\ Begun <= Len(calls) /\ Begun \in Nat
      <4>1. Written' = Len(calls)
        BY <1>0, <2>1 DEF Written
      <4>2. cut => Len(buffer) # 0
        BY <1>0 DEF IInv, CutTail
      <4> QED  BY <1>0, <2>1, <4>1, <4>2 DEF Begun, Written
    <3>3. Stored' = Stored
      BY <2>1 DEF Stored
    <3> QED  BY <1>0, <2>1, <3>1, <3>2, <3>3 DEF Told
  <2> QED  BY <2>2, <2>3
<1>4. CASE Start
  <2>1. /\ pc = "down" /\ life' = life + 1
        /\ UNCHANGED <<file, calls, buffer, cut>>
    BY <1>4 DEF Start
  <2>2. buffer = <<>> /\ Len(buffer) = 0
    BY <1>0, <2>1 DEF OfThisLife
  <2>3. \A n \in DOMAIN calls : calls[n].life \in Nat /\ calls[n].life <= life
    <3>1. calls \in Seq([event : Events, life : Nat])
      BY <1>0
    <3>2. ASSUME NEW n \in DOMAIN calls PROVE calls[n] \in [event : Events, life : Nat]
      BY <3>1, HeldInSet, Zenon
    <3>3. \A n \in DOMAIN calls : calls[n].life \in Nat
      BY <3>2
    <3> QED  BY <1>0, <3>3 DEF OfThisLife
  <2>4. OfThisLife'
    BY <1>0, <1>4, <2>1, <2>2, <2>3 DEF OfThisLife, Start
  <2>5. Begun' = Begun /\ Written' = Written /\ Stored' = Stored /\ (Fine' => Fine)
    BY <2>1 DEF Begun, Written, Stored, Fine
  <2>6. \A n \in 1..Written : calls[n].life # life'
    BY <1>0, <2>1, <2>2, <2>3 DEF Written
  <2> QED  BY <1>0, <2>1, <2>4, <2>5, <2>6 DEF Told
<1>5. ASSUME NEW e \in Events, AppendCall(e) PROVE OfThisLife' /\ (Fine' => Told')
  <2> DEFINE n == Len(calls) + 1
  <2>1. /\ pc = "idle" /\ pc' # "down" /\ calls' = Append(calls, [event |-> e, life |-> life])
        /\ buffer' = Append(buffer, n)
        /\ UNCHANGED <<file, cut, life>>
    BY <1>5 DEF AppendCall
  <2>2. /\ DOMAIN calls' = 1..n /\ \A m \in 1..Len(calls) : calls'[m] = calls[m]
        /\ calls'[n].life = life /\ Len(calls') = n
    BY <1>0, <2>1
  <2>3. /\ DOMAIN buffer' = 1..(Len(buffer) + 1) /\ Len(buffer') = Len(buffer) + 1
        /\ \A i \in 1..Len(buffer) : buffer'[i] = buffer[i] /\ buffer[i] \in 1..Len(calls)
        /\ buffer'[Len(buffer) + 1] = n
    <3>1. buffer \in Seq(1..n) /\ n \in 1..n
      BY <1>0
    <3> QED  BY <1>0, <2>1, <3>1
  <2>4. OfThisLife'
    <3>1. \A m \in 1..n : m \in 1..Len(calls) \/ m = n
      BY <1>0
    <3>2. (\A m \in DOMAIN calls : calls[m].life <= life)'
      BY <1>0, <2>1, <2>2, <3>1 DEF OfThisLife
    <3>3. \A i \in 1..(Len(buffer) + 1) : i \in 1..Len(buffer) \/ i = Len(buffer) + 1
      BY <1>0
    <3>4. (\A i \in DOMAIN buffer : calls[buffer[i]].life = life)'
      BY <1>0, <2>1, <2>2, <2>3, <3>3 DEF OfThisLife
    <3> QED  BY <2>1, <3>2, <3>4 DEF OfThisLife
  <2>5. Written' = Written
    BY <1>0, <2>2, <2>3 DEF Written
  <2>6. Begun' = Begun /\ Stored' = Stored /\ (Fine' => Fine)
    BY <2>1, <2>5 DEF Begun, Stored, Fine
  <2>7. \A m \in 1..Begun : calls'[m] = calls[m]
    <3>1. cut => Len(buffer) # 0
      BY <1>0 DEF IInv, CutTail
    <3>2. Begun \in Nat /\ Begun <= Len(calls)
      BY <1>0, <3>1 DEF Begun, Written
    <3> QED  BY <1>0, <2>2, <3>2
  <2>8. Written <= Begun /\ Begun \in Nat
    BY <1>0 DEF Begun
  <2>9. ASSUME Told PROVE Told'
    <3>1. \A i \in DOMAIN file : file[i].call \in 1..Begun /\ \A m \in 1..file[i].call : m \in 1..Begun
      BY <2>8, <2>9 DEF Told
    <3>2. \A m \in 1..Written : m \in 1..Begun
      BY <1>0, <2>8
    <3> QED  BY <2>1, <2>5, <2>6, <2>7, <2>9, <3>1, <3>2 DEF Told
  <2> QED  BY <1>0, <2>4, <2>6, <2>9
<1>6. CASE Sync \/ Return \/ UNCHANGED vars
  <2>1. UNCHANGED <<file, calls, buffer, cut, life>> /\ (pc' = "down" <=> pc = "down")
    BY <1>6 DEF Sync, Return, vars
  <2>2. Begun' = Begun /\ Written' = Written /\ Stored' = Stored /\ (Fine' => Fine)
    BY <2>1 DEF Begun, Written, Stored, Fine
  <2>3. OfThisLife'
    BY <1>0, <2>1 DEF OfThisLife
  <2> QED  BY <1>0, <2>1, <2>2, <2>3 DEF Told
<1> QED  BY <1>1, <1>2, <1>3, <1>4, <1>5, <1>6 DEF Next

LEMMA ReaderInvariance == Spec => [](IInv /\ ReaderInv)
<1>1. Init => ReaderInv
  <2> SUFFICES ASSUME Init PROVE ReaderInv
    OBVIOUS
  <2>1. /\ file = <<>> /\ DOMAIN file = {} /\ DOMAIN calls = {} /\ DOMAIN buffer = {}
        /\ buffer = <<>> /\ cut = FALSE /\ pc = "down"
    BY DEF Init
  <2> QED  BY <2>1 DEF ReaderInv, OfThisLife, Told
<1> QED  BY <1>1, LogInvariant, StepReader, PTL DEF Spec

(* In either mode, whatever is killed when: a log that can be read has no  *)
(* record missing between those of one process, and what a process flushed *)
(* is in it (event_store.py).                                              *)
THEOREM WhatIsReadIsWhole == Spec => []ReaderIsNotMisled
<1>1. IInv /\ ReaderInv => ReaderIsNotMisled
  <2> SUFFICES ASSUME IInv, ReaderInv PROVE NoSilentGap /\ FlushedMeansStored
    BY DEF ReaderIsNotMisled
  <2>1. Readable(file) => Told
    BY DEF ReaderInv, Fine, Readable
  <2>2. NoSilentGap
    BY <2>1 DEF NoSilentGap, Told
  <2>3. buffer = <<>> => Written = Len(calls)
    BY DEF Written, IInv, TypeOK
  <2>4. FlushedMeansStored
    <3>1. DOMAIN calls = 1..Len(calls)
      BY DEF IInv, TypeOK
    <3> QED  BY <2>1, <2>3, <3>1 DEF FlushedMeansStored, Told
  <2> QED  BY <2>2, <2>4
<1> QED  BY <1>1, ReaderInvariance, PTL
-----------------------------------------------------------------------------
(* Replaying.  The lines of a file, by the moments and numbers of their    *)
(* events, are in one order.                                               *)
At(f, i) == TsEvent[EventOf(f[i].call)]
Nth(f, i) == SeqNo[EventOf(f[i].call)]
Dated(f) ==
    /\ Len(f) \in Nat /\ DOMAIN f = 1..Len(f)
    /\ \A i \in DOMAIN f : f[i].call \in Nat /\ At(f, i) \in Nat /\ Nth(f, i) \in Nat

LEMMA OneOrder ==
  ASSUME NEW f, Dated(f), NEW i \in DOMAIN f, NEW j \in DOMAIN f
  PROVE  /\ ~ComesFirst(f, i, i)
         /\ i # j => ComesFirst(f, i, j) \/ ComesFirst(f, j, i)
         /\ ~(ComesFirst(f, i, j) /\ ComesFirst(f, j, i))
         /\ ComesFirst(f, i, j) => At(f, i) <= At(f, j)
         /\ At(f, i) < At(f, j) => ComesFirst(f, i, j)
         /\ i < j /\ ~SortsBefore(f[j].call, f[i].call) => ComesFirst(f, i, j)
BY DEF ComesFirst, SortsBefore, At, Nth, Dated

LEMMA OrderCarries ==
  ASSUME NEW f, Dated(f), NEW i \in DOMAIN f, NEW j \in DOMAIN f, NEW k \in DOMAIN f,
         ComesFirst(f, i, j), ComesFirst(f, j, k)
  PROVE  ComesFirst(f, i, k)
BY DEF ComesFirst, SortsBefore, At, Nth, Dated

LEMMA SomeLines ==
  ASSUME NEW f, Dated(f), NEW lines \in SUBSET DOMAIN f
  PROVE  IsFiniteSet(lines) /\ Cardinality(lines) \in Nat /\ \A i \in lines : i \in Nat
<1>1. IsFiniteSet(DOMAIN f)
  BY FS_Interval DEF Dated
<1> QED
  BY <1>1, FS_Subset, FS_CardinalityType DEF Dated

LEMMA Ranks ==
  ASSUME NEW f, Dated(f), NEW lines \in SUBSET DOMAIN f, NEW i \in lines
  PROVE  /\ Rank(f, lines, i) \in 0..Cardinality(lines) - 1
         /\ \A j \in lines : ComesFirst(f, j, i) => Rank(f, lines, j) < Rank(f, lines, i)
<1> DEFINE ahead(k) == {j \in lines : ComesFirst(f, j, k)}
<1>1. IsFiniteSet(lines) /\ Cardinality(lines) \in Nat
  BY SomeLines
<1>2. \A k \in lines : IsFiniteSet(ahead(k)) /\ Cardinality(ahead(k)) \in Nat
                       /\ Rank(f, lines, k) = Cardinality(ahead(k))
  BY <1>1, FS_Subset, FS_CardinalityType DEF Rank
<1>3. Cardinality(ahead(i)) < Cardinality(lines)
  <2>1. ahead(i) \subseteq lines /\ i \in lines /\ i \notin ahead(i)
    BY OneOrder
  <2>2. ahead(i) # lines
    BY <2>1
  <2> QED
    BY <1>1, <1>2, <2>1, <2>2, FS_Subset
<1>4. ASSUME NEW j \in lines, ComesFirst(f, j, i)
      PROVE  Rank(f, lines, j) < Rank(f, lines, i)
  <2>1. ahead(j) \subseteq ahead(i)
    BY <1>4, OrderCarries
  <2>2. j \in ahead(i) /\ j \notin ahead(j)
    BY <1>4, OneOrder
  <2>3. ahead(j) # ahead(i)
    BY <2>2
  <2>4. Cardinality(ahead(j)) < Cardinality(ahead(i))
    BY <1>2, <2>1, <2>3, FS_Subset
  <2> QED
    BY <1>2, <2>4
<1> QED
  BY <1>1, <1>2, <1>3, <1>4

LEMMA RanksDiffer ==
  ASSUME NEW f, Dated(f), NEW lines \in SUBSET DOMAIN f, NEW i \in lines, NEW j \in lines,
         Rank(f, lines, i) = Rank(f, lines, j)
  PROVE  i = j
<1>1. Rank(f, lines, i) \in Int /\ Rank(f, lines, j) \in Int
  <2>1. Cardinality(lines) \in Nat
    BY SomeLines
  <2>2. \A k \in lines : Rank(f, lines, k) \in 0..Cardinality(lines) - 1
    BY Ranks
  <2> QED
    BY <2>1, <2>2
<1>2. ~ComesFirst(f, i, j) /\ ~ComesFirst(f, j, i)
  BY <1>1, Ranks
<1> QED
  BY <1>2, OneOrder

(* Each line has its place, and each place its line. *)
LEMMA EveryRankIsTaken ==
  ASSUME NEW f, Dated(f), NEW lines \in SUBSET DOMAIN f, NEW k \in 1..Cardinality(lines)
  PROVE  Sorted(f, lines)[k] \in lines /\ Rank(f, lines, Sorted(f, lines)[k]) = k - 1
<1> DEFINE rank == [i \in lines |-> Rank(f, lines, i)]
           taken == {rank[i] : i \in lines}
           n == Cardinality(lines)
<1>1. IsFiniteSet(lines) /\ n \in Nat
  BY SomeLines
<1>2. taken \subseteq 0..n - 1
  BY Ranks
<1>3. IsFiniteSet(taken) /\ Cardinality(taken) = n
  <2>1. /\ rank \in [lines -> taken] /\ \A i, j \in lines : rank[i] = rank[j] => i = j
        /\ \A r \in taken : \E i \in lines : rank[i] = r
    BY RanksDiffer
  <2> HIDE DEF rank, taken
  <2>2. rank \in Bijection(lines, taken)
    BY <2>1 DEF Bijection, Injection, Surjection, IsInjective
  <2>3. ExistsBijection(lines, taken)
    BY <2>2 DEF ExistsBijection
  <2> QED
    BY <1>1, <2>3, FS_Bijection
<1>4. IsFiniteSet(0..n - 1) /\ Cardinality(0..n - 1) = n
  <2> HIDE DEF n
  <2>1. 0 \in Int /\ n - 1 \in Int /\ (IF 0 > n - 1 THEN 0 ELSE (n - 1) - 0 + 1) = n
    BY <1>1
  <2> QED
    BY <2>1, FS_Interval
<1>5. taken = 0..n - 1
  BY <1>2, <1>3, <1>4, FS_Subset
<1>6. \E i \in lines : Rank(f, lines, i) = k - 1
  BY <1>1, <1>5
<1> QED
  BY <1>6 DEF Sorted

LEMMA PlaceOfALine ==
  ASSUME NEW f, Dated(f), NEW lines \in SUBSET DOMAIN f, NEW k \in 1..Cardinality(lines),
         NEW i \in lines, Rank(f, lines, i) = k - 1
  PROVE  Sorted(f, lines)[k] = i
BY EveryRankIsTaken, RanksDiffer

LEMMA SortedInOrder ==
  ASSUME NEW f, Dated(f), NEW lines \in SUBSET DOMAIN f,
         NEW k \in 1..Cardinality(lines), NEW l \in 1..Cardinality(lines), k <= l
  PROVE  At(f, Sorted(f, lines)[k]) <= At(f, Sorted(f, lines)[l])
<1> DEFINE i == Sorted(f, lines)[k]
           j == Sorted(f, lines)[l]
<1>1. i \in lines /\ j \in lines /\ Rank(f, lines, i) = k - 1 /\ Rank(f, lines, j) = l - 1
  BY EveryRankIsTaken
<1> HIDE DEF i, j
<1>2. ~ComesFirst(f, j, i)
  BY <1>1, Ranks, SomeLines
<1>3. At(f, i) \in Nat /\ At(f, j) \in Nat
  BY <1>1 DEF Dated
<1>4. ~(At(f, j) < At(f, i))
  BY <1>1, <1>2, OneOrder
<1> QED
  BY <1>3, <1>4 DEF i, j

LEMMA ApartAddsUp ==
  ASSUME NEW s, NEW t, IsFiniteSet(s), IsFiniteSet(t), s \cap t = {}
  PROVE  Cardinality(s \cup t) = Cardinality(s) + Cardinality(t)
<1>1. Cardinality(s \cap t) = 0
  BY FS_EmptySet
<1>2. Cardinality(s) \in Nat /\ Cardinality(t) \in Nat
  BY FS_CardinalityType
<1>3. Cardinality(s \cup t) = Cardinality(s) + Cardinality(t) - Cardinality(s \cap t)
  BY FS_Union, Zenon
<1> QED
  BY <1>1, <1>2, <1>3

(* Lines of which some all come before the others are sorted one part      *)
(* after the other.                                                        *)
LEMMA TwoParts ==
  ASSUME NEW f, Dated(f), NEW a \in SUBSET DOMAIN f, NEW b \in SUBSET DOMAIN f,
         \A i \in a, j \in b : ComesFirst(f, i, j)
  PROVE  /\ Cardinality(a \cup b) = Cardinality(a) + Cardinality(b)
         /\ \A i \in a : Rank(f, a \cup b, i) = Rank(f, a, i)
         /\ \A j \in b : Rank(f, a \cup b, j) = Cardinality(a) + Rank(f, b, j)
<1>1. IsFiniteSet(a) /\ IsFiniteSet(b) /\ Cardinality(a) \in Nat /\ Cardinality(b) \in Nat
  BY SomeLines
<1>2. \A i \in a, j \in b : ~ComesFirst(f, j, i)
  BY OneOrder
<1>3. a \cap b = {}
  BY <1>2
<1>4. \A i \in a : {k \in a \cup b : ComesFirst(f, k, i)} = {k \in a : ComesFirst(f, k, i)}
  BY <1>2
<1>5. ASSUME NEW j \in b
      PROVE  Cardinality({k \in a \cup b : ComesFirst(f, k, j)})
               = Cardinality(a) + Cardinality({k \in b : ComesFirst(f, k, j)})
  <2> DEFINE rest == {k \in b : ComesFirst(f, k, j)}
  <2>1. {k \in a \cup b : ComesFirst(f, k, j)} = a \cup rest
    OBVIOUS
  <2>2. IsFiniteSet(rest) /\ Cardinality(rest) \in Nat /\ a \cap rest = {}
    BY <1>1, <1>3, FS_Subset, FS_CardinalityType
  <2> HIDE DEF rest
  <2>3. Cardinality(a \cup rest) = Cardinality(a) + Cardinality(rest)
    BY <1>1, <2>2, ApartAddsUp
  <2> QED
    BY <2>1, <2>3 DEF rest
<1>6. Cardinality(a \cup b) = Cardinality(a) + Cardinality(b)
  BY <1>1, <1>3, ApartAddsUp
<1> QED
  BY <1>4, <1>5, <1>6 DEF Rank

LEMMA SortedInTwoParts ==
  ASSUME NEW f, Dated(f), NEW a \in SUBSET DOMAIN f, NEW b \in SUBSET DOMAIN f,
         \A i \in a, j \in b : ComesFirst(f, i, j), NEW k \in 1..Cardinality(a \cup b)
  PROVE  Sorted(f, a \cup b)[k] = IF k <= Cardinality(a) THEN Sorted(f, a)[k]
                                  ELSE Sorted(f, b)[k - Cardinality(a)]
<1> DEFINE both == a \cup b
<1>1. Cardinality(a) \in Nat /\ Cardinality(b) \in Nat /\ both \in SUBSET DOMAIN f
  BY SomeLines
<1>2. Cardinality(both) = Cardinality(a) + Cardinality(b)
  BY TwoParts
<1>3. CASE k <= Cardinality(a)
  <2> DEFINE i == Sorted(f, a)[k]
  <2>1. k \in 1..Cardinality(a)
    BY <1>1, <1>2, <1>3
  <2>2. i \in a /\ Rank(f, a, i) = k - 1
    BY <2>1, EveryRankIsTaken
  <2> HIDE DEF i
  <2>3. i \in both /\ Rank(f, both, i) = k - 1
    BY <2>2, TwoParts
  <2>4. Sorted(f, both)[k] = i
    BY <1>1, <2>3, PlaceOfALine
  <2> QED
    BY <1>3, <2>4 DEF i
<1>4. CASE k > Cardinality(a)
  <2> DEFINE l == k - Cardinality(a)
             j == Sorted(f, b)[l]
  <2>1. l \in 1..Cardinality(b)
    BY <1>1, <1>2, <1>4
  <2>2. j \in b /\ Rank(f, b, j) = l - 1
    BY <2>1, EveryRankIsTaken
  <2> HIDE DEF j
  <2>3. j \in both /\ Rank(f, both, j) = Cardinality(a) + (l - 1)
    BY <2>2, TwoParts
  <2>4. Cardinality(a) + (l - 1) = k - 1
    BY <1>1, <1>2
  <2>5. Sorted(f, both)[k] = j
    BY <1>1, <2>3, <2>4, PlaceOfALine
  <2> QED
    BY <1>1, <1>2, <1>4, <2>5 DEF j
<1> QED
  BY <1>1, <1>2, <1>3, <1>4

(* A file written in order is sorted already, ties as they were written. *)
LEMMA SortedAlready ==
  ASSUME NEW f, Dated(f), \A i, j \in DOMAIN f : i < j => ~SortsBefore(f[j].call, f[i].call),
         NEW k \in DOMAIN f
  PROVE  Cardinality(DOMAIN f) = Len(f) /\ Sorted(f, DOMAIN f)[k] = k
<1> DEFINE lines == DOMAIN f
<1>1. Len(f) \in Nat /\ lines = 1..Len(f) /\ k \in 1..Len(f)
  BY DEF Dated
<1>2. Cardinality(lines) = Len(f)
  <2>1. 1 \in Int /\ Len(f) \in Int /\ ~(1 > Len(f)) /\ Len(f) - 1 + 1 = Len(f)
    BY <1>1
  <2>2. Cardinality(1..Len(f)) = IF 1 > Len(f) THEN 0 ELSE Len(f) - 1 + 1
    BY <2>1, FS_Interval
  <2> QED
    BY <1>1, <2>1, <2>2
<1>3. \A j \in lines : ComesFirst(f, j, k) <=> j < k
  <2> SUFFICES ASSUME NEW j \in lines PROVE ComesFirst(f, j, k) <=> j < k
    OBVIOUS
  <2>1. j < k => ComesFirst(f, j, k)
    BY OneOrder
  <2>2. j > k => ComesFirst(f, k, j)
    BY <1>1, OneOrder
  <2>3. ~ComesFirst(f, k, k) /\ ~(ComesFirst(f, j, k) /\ ComesFirst(f, k, j))
    BY OneOrder
  <2> QED
    BY <1>1, <2>1, <2>2, <2>3
<1>4. {j \in lines : ComesFirst(f, j, k)} = 1..k - 1
  BY <1>1, <1>3
<1>5. Rank(f, lines, k) = k - 1
  <2>1. Cardinality(1..k - 1) = k - 1
    BY <1>1, FS_Interval
  <2> QED
    BY <1>4, <2>1 DEF Rank
<1> QED
  BY <1>1, <1>2, <1>5, PlaceOfALine

(* Of some numbers there is a least: intervals are the smaller finite sets  *)
(* the earlier they end.                                                    *)
LEMMA LeastOne ==
  ASSUME NEW S \in SUBSET Nat, S # {}
  PROVE  \E d \in S : \A e \in S : d <= e
<1> DEFINE Below == {1..d : d \in S}
<1>1. Below \in SUBSET FiniteSubsetsOf(Nat) /\ Below # {}
  <2>1. \A d \in S : IsFiniteSet(1..d) /\ 1..d \in SUBSET Nat
    BY FS_Interval
  <2> QED
    BY <2>1 DEF FiniteSubsetsOf
<1>2. PICK D \in Below : \A E \in Below : ~(<<E, D>> \in StrictSubsetOrdering(Nat))
  BY <1>1, WFMin, FS_StrictSubsetOrderingWellFounded
<1>3. PICK d \in S : D = 1..d
  OBVIOUS
<1>4. \A e \in S : d <= e
  <2> SUFFICES ASSUME NEW e \in S, e < d PROVE FALSE
    OBVIOUS
  <2>1. 1..e \subseteq 1..d /\ d \in 1..d /\ d \notin 1..e
    OBVIOUS
  <2>2. <<1..e, D>> \in StrictSubsetOrdering(Nat)
    BY <1>3, <2>1 DEF StrictSubsetOrdering
  <2> QED
    BY <1>2, <2>2
<1> QED
  BY <1>4

(* What a run has published after k events of a session read in order, by  *)
(* a clock that stands no later than the first.                            *)
When(n) == TsEvent[EventOf(n)]
Timely(read, clock) ==
    /\ read \in Seq(Nat) /\ clock \in Nat
    /\ \A k \in DOMAIN read : When(read[k]) \in Nat /\ clock <= When(read[k])
    /\ \A k, l \in DOMAIN read : k <= l => When(read[k]) <= When(read[l])
After(read, clock, k) ==
    [raised |-> FALSE, clock |-> IF k = 0 THEN clock ELSE When(read[k]), digest |-> SubSeq(read, 1, k),
     first_ts |-> IF k = 0 THEN 0 ELSE When(read[1]), last_ts |-> IF k = 0 THEN 0 ELSE When(read[k])]

LEMMA NothingPublished ==
  ASSUME NEW read, NEW clock
  PROVE  After(read, clock, 0)
           = [raised |-> FALSE, clock |-> clock, digest |-> <<>>, first_ts |-> 0, last_ts |-> 0]
<1>1. SubSeq(read, 1, 0) = <<>>
  BY SubSeqEmpty
<1> QED
  BY <1>1 DEF After

LEMMA OnePublished ==
  ASSUME NEW read, NEW clock, Timely(read, clock), NEW k \in 1..Len(read)
  PROVE  Published(After(read, clock, k - 1), read[k]) = After(read, clock, k)
<1> DEFINE run == After(read, clock, k - 1)
           next == Published(run, read[k])
           ts == When(read[k])
<1>1. read \in Seq(Nat) /\ Len(read) \in Nat /\ DOMAIN read = 1..Len(read) /\ clock \in Nat /\ k - 1 \in 0..Len(read)
  BY DEF Timely
<1>2. /\ run.raised = FALSE /\ run.clock = (IF k - 1 = 0 THEN clock ELSE When(read[k - 1]))
      /\ run.digest = SubSeq(read, 1, k - 1)
      /\ run.first_ts = (IF k - 1 = 0 THEN 0 ELSE When(read[1]))
  BY DEF After
<1>3. SubSeq(read, 1, k) = Append(SubSeq(read, 1, k - 1), read[k])
  <2>1. \A i \in 1..k : read[i] \in Nat
    BY <1>1, ElementOfSeq
  <2>2. SubSeq(read, 1, k - 1) \in Seq(Nat) /\ SubSeq(read, 1, k) \in Seq(Nat)
    BY <1>1, <2>1, SubSeqProperties
  <2>3. SubSeq(read, 1, k) = SubSeq(read, 1, k - 1) \o <<read[k]>>
    BY <1>1, SubSeqRecursiveSecond
  <2> QED
    BY <2>1, <2>2, <2>3, AppendIsConcat
<1>4. (run.digest = <<>>) <=> k = 1
  <2>1. \A i \in 1..k - 1 : read[i] \in Nat
    BY <1>1, ElementOfSeq
  <2>2. SubSeq(read, 1, k - 1) \in Seq(Nat) /\ Len(SubSeq(read, 1, k - 1)) = k - 1
    BY <1>1, <2>1, SubSeqProperties
  <2> QED
    BY <1>2, <2>2, EmptySeq
<1>5. ~(run.raised \/ ts < run.clock)
  <2>1. When(read[k]) \in Nat /\ clock <= When(read[k])
    BY <1>1 DEF Timely
  <2>2. k - 1 # 0 => When(read[k - 1]) \in Nat /\ When(read[k - 1]) <= When(read[k])
    <3>1. k - 1 # 0 => k - 1 \in DOMAIN read /\ k \in DOMAIN read /\ k - 1 <= k
      BY <1>1
    <3> QED
      BY <3>1 DEF Timely
  <2>3. run.clock \in Nat /\ run.clock <= ts
    <3> HIDE DEF run
    <3> QED
      BY <1>1, <1>2, <2>1, <2>2
  <2> QED
    BY <1>2, <2>1, <2>3
<1> HIDE DEF run
<1>6. next = [raised |-> FALSE, clock |-> ts, digest |-> Append(run.digest, read[k]),
              first_ts |-> IF run.digest = <<>> THEN ts ELSE run.first_ts, last_ts |-> ts]
  BY <1>5 DEF Published, When
<1>7. Append(run.digest, read[k]) = SubSeq(read, 1, k)
  BY <1>2, <1>3
<1>8. (IF run.digest = <<>> THEN ts ELSE run.first_ts) = When(read[1])
  <2>1. CASE k = 1
    BY <1>4, <2>1
  <2>2. CASE k # 1
    BY <1>1, <1>2, <1>4, <2>2
  <2> QED
    BY <2>1, <2>2
<1>9. After(read, clock, k) = [raised |-> FALSE, clock |-> ts, digest |-> SubSeq(read, 1, k),
                               first_ts |-> When(read[1]), last_ts |-> ts]
  <2>1. k # 0
    BY <1>1
  <2> QED
    BY <2>1, Zenon DEF After
<1> HIDE DEF next, ts
<1> QED
  BY <1>6, <1>7, <1>8, <1>9 DEF next, run

LEMMA RunsToTheEnd ==
  ASSUME NEW read, NEW clock, Timely(read, clock)
  PROVE  Runs(read, clock)[Len(read)] = After(read, clock, Len(read))
<1> DEFINE start == [raised |-> FALSE, clock |-> clock, digest |-> <<>>, first_ts |-> 0, last_ts |-> 0]
           Obeys(h) == h = [k \in 0..Len(read) |-> IF k = 0 THEN start ELSE Published(h[k - 1], read[k])]
           closed == [k \in 0..Len(read) |-> After(read, clock, k)]
           run == Runs(read, clock)
<1>1. Len(read) \in Nat
  BY DEF Timely
<1>2. run = CHOOSE h : Obeys(h)
  BY DEF Runs
<1>3. Obeys(closed)
  <2>1. ASSUME NEW k \in 0..Len(read)
        PROVE  closed[k] = IF k = 0 THEN start ELSE Published(closed[k - 1], read[k])
    <3>1. CASE k = 0
      BY <3>1, NothingPublished
    <3>2. CASE k # 0
      <4>1. k \in 1..Len(read) /\ k - 1 \in 0..Len(read)
        BY <1>1, <3>2
      <4> QED
        BY <3>2, <4>1, OnePublished
    <3> QED
      BY <3>1, <3>2
  <2> HIDE DEF start
  <2> QED
    BY <2>1
<1>4. Obeys(run)
  BY <1>2, <1>3
<1>5. ASSUME NEW k \in 0..Len(read)
      PROVE  run[k] = IF k = 0 THEN start ELSE Published(run[k - 1], read[k])
  <2> HIDE DEF run, start
  <2> QED
    BY <1>4
<1>6. ASSUME NEW k \in 0..Len(read)
      PROVE  closed[k] = IF k = 0 THEN start ELSE Published(closed[k - 1], read[k])
  <2> HIDE DEF closed, start
  <2> QED
    BY <1>3
<1> HIDE DEF run, closed, start
<1>7. \A k \in 0..Len(read) : run[k] = closed[k]
  <2> DEFINE differ == {k \in 0..Len(read) : run[k] # closed[k]}
  <2> SUFFICES ASSUME differ # {} PROVE FALSE
    OBVIOUS
  <2>0. differ \in SUBSET Nat
    BY <1>1
  <2>1. PICK k \in differ : \A e \in differ : k <= e
    BY <2>0, LeastOne
  <2>2. k # 0 => k - 1 \in 0..Len(read) /\ k - 1 \notin differ
    BY <1>1, <2>1
  <2> QED
    BY <1>5, <1>6, <2>1, <2>2
<1> QED
  BY <1>1, <1>7 DEF closed, run

(* What is read of a range: a call per line of it, in order of time. *)
ReadOff(read, f, lines) ==
  /\ read \in Seq(Nat) /\ Len(read) = Cardinality(lines) /\ lines \in SUBSET DOMAIN f
  /\ \A k \in 1..Cardinality(lines) :
       /\ Sorted(f, lines)[k] \in lines
       /\ read[k] = f[Sorted(f, lines)[k]].call
       /\ When(read[k]) = At(f, Sorted(f, lines)[k])

LEMMA Streamed ==
  ASSUME NEW f, Dated(f), NEW a \in Nat, NEW b \in Nat
  PROVE  ReadOff(Stream(f, a, b), f, Lines(f, a, b))
<1> DEFINE lines == Lines(f, a, b)
           order == Sorted(f, lines)
           n == Cardinality(lines)
           read == [k \in 1..n |-> f[order[k]].call]
<1>1. lines \in SUBSET DOMAIN f
  BY DEF Lines
<1>2. n \in Nat
  BY <1>1, SomeLines
<1>3. \A k \in 1..n : order[k] \in lines
  BY <1>1, EveryRankIsTaken
<1>4. DOMAIN order = 1..n
  BY DEF Sorted
<1>5. Stream(f, a, b) = read
  BY <1>4 DEF Stream
<1> HIDE DEF lines, order, n
<1>6. \A k \in 1..n : f[order[k]].call \in Nat
  BY <1>1, <1>3 DEF Dated
<1>7. read \in Seq(Nat) /\ Len(read) = n
  BY <1>2, <1>6, SeqDef
<1>8. \A k \in 1..n : read[k] = f[order[k]].call
  OBVIOUS
<1> HIDE DEF read
<1>9. \A k \in 1..n : When(read[k]) = At(f, order[k])
  BY <1>8 DEF When, At
<1>10. ReadOff(read, f, lines)
  BY <1>1, <1>3, <1>7, <1>8, <1>9 DEF ReadOff, order, n
<1> QED
  BY <1>5, <1>10 DEF lines

LEMMA StreamIsTimely ==
  ASSUME NEW f, Dated(f), NEW a \in Nat, NEW b \in Nat, NEW clock \in Nat, clock <= a
  PROVE  /\ Timely(Stream(f, a, b), clock)
         /\ \A k \in 1..Len(Stream(f, a, b)) : a <= When(Stream(f, a, b)[k]) /\ When(Stream(f, a, b)[k]) < b
<1> DEFINE read == Stream(f, a, b)
           lines == Lines(f, a, b)
           n == Cardinality(lines)
           order == Sorted(f, lines)
<1>1. /\ read \in Seq(Nat) /\ Len(read) = n /\ lines \in SUBSET DOMAIN f
      /\ \A k \in 1..n : order[k] \in lines /\ When(read[k]) = At(f, order[k])
  <2>1. ReadOff(read, f, lines)
    BY Streamed
  <2> QED
    BY <2>1 DEF ReadOff
<1>2. \A i \in lines : At(f, i) \in Nat /\ a <= At(f, i) /\ At(f, i) < b
  BY DEF Lines, InRange, At, Dated
<1>3. DOMAIN read = 1..n
  BY <1>1
<1>4. \A k, l \in 1..n : k <= l => At(f, order[k]) <= At(f, order[l])
  BY <1>1, SortedInOrder
<1> HIDE DEF read, lines, n, order
<1>5. \A k \in 1..n : When(read[k]) \in Nat /\ a <= When(read[k]) /\ When(read[k]) < b
  BY <1>1, <1>2
<1>6. \A k \in 1..n : clock <= When(read[k])
  BY <1>5
<1>7. \A k, l \in 1..n : k <= l => When(read[k]) <= When(read[l])
  BY <1>1, <1>4
<1>8. Timely(read, clock)
  BY <1>1, <1>3, <1>5, <1>6, <1>7 DEF Timely
<1> QED
  BY <1>1, <1>5, <1>8 DEF read

LEMMA StreamsCompose ==
  ASSUME NEW f, Dated(f), NEW a \in Nat, NEW b \in Nat, NEW c \in Nat, a <= b, b <= c
  PROVE  Stream(f, a, b) \o Stream(f, b, c) = Stream(f, a, c)
<1> DEFINE first == Stream(f, a, b)
           second == Stream(f, b, c)
           whole == Stream(f, a, c)
           early == Lines(f, a, b)
           late == Lines(f, b, c)
           m == Cardinality(early)
<1>1. /\ first \in Seq(Nat) /\ Len(first) = m /\ early \in SUBSET DOMAIN f
      /\ \A k \in 1..m : first[k] = f[Sorted(f, early)[k]].call
  <2>1. ReadOff(first, f, early)
    BY Streamed
  <2> HIDE DEF first, early
  <2> QED
    BY <2>1 DEF ReadOff
<1>2. /\ second \in Seq(Nat) /\ Len(second) = Cardinality(late) /\ late \in SUBSET DOMAIN f
      /\ \A k \in 1..Cardinality(late) : second[k] = f[Sorted(f, late)[k]].call
  <2>1. ReadOff(second, f, late)
    BY Streamed
  <2> HIDE DEF second, late
  <2> QED
    BY <2>1 DEF ReadOff
<1>3. Lines(f, a, c) = early \cup late
  <2>1. \A i \in DOMAIN f : At(f, i) \in Nat
    BY DEF Dated
  <2> QED
    BY <2>1 DEF Lines, InRange, At
<1>4. /\ whole \in Seq(Nat) /\ Len(whole) = Cardinality(early \cup late)
      /\ \A k \in 1..Cardinality(early \cup late) : whole[k] = f[Sorted(f, early \cup late)[k]].call
  <2> DEFINE all == Lines(f, a, c)
  <2>1. ReadOff(whole, f, all)
    BY Streamed
  <2>2. all = early \cup late
    BY <1>3
  <2> HIDE DEF all, whole, early, late
  <2> QED
    BY <2>1, <2>2 DEF ReadOff
<1>5. \A i \in early, j \in late : ComesFirst(f, i, j)
  <2> SUFFICES ASSUME NEW i \in early, NEW j \in late PROVE ComesFirst(f, i, j)
    OBVIOUS
  <2>1. i \in DOMAIN f /\ j \in DOMAIN f /\ At(f, i) < b /\ b <= At(f, j)
    BY DEF Lines, InRange, At
  <2>2. At(f, i) \in Nat /\ At(f, j) \in Nat
    BY <2>1 DEF Dated
  <2>3. At(f, i) < At(f, j)
    BY <2>1, <2>2
  <2> QED
    BY <2>1, <2>3, OneOrder
<1>6. Cardinality(early \cup late) = m + Cardinality(late)
  <2>1. early \in SUBSET DOMAIN f /\ late \in SUBSET DOMAIN f
    BY <1>1, <1>2
  <2> HIDE DEF early, late
  <2>2. Cardinality(early \cup late) = Cardinality(early) + Cardinality(late)
    BY <1>5, <2>1, TwoParts
  <2> QED
    BY <2>2
<1>7. m \in Nat /\ Cardinality(late) \in Nat
  BY <1>1, <1>2, SomeLines
<1>8. \A k \in 1..m + Cardinality(late) :
        Sorted(f, early \cup late)[k] = IF k <= m THEN Sorted(f, early)[k] ELSE Sorted(f, late)[k - m]
  <2>1. ASSUME NEW k \in 1..Cardinality(early \cup late)
        PROVE  Sorted(f, early \cup late)[k] = IF k <= Cardinality(early) THEN Sorted(f, early)[k]
                                                ELSE Sorted(f, late)[k - Cardinality(early)]
    <3>1. early \in SUBSET DOMAIN f /\ late \in SUBSET DOMAIN f
      BY <1>1, <1>2
    <3> HIDE DEF early, late
    <3> QED
      BY <3>1, <1>5, SortedInTwoParts
  <2> HIDE DEF early, late
  <2> QED
    BY <1>6, <2>1
<1> HIDE DEF first, second, whole, early, late, m
<1>9. /\ first \o second \in Seq(Nat) /\ Len(first \o second) = m + Cardinality(late)
      /\ \A k \in 1..m + Cardinality(late) : (first \o second)[k] = IF k <= m THEN first[k] ELSE second[k - m]
  <2>1. /\ first \o second \in Seq(Nat) /\ Len(first \o second) = Len(first) + Len(second)
        /\ \A k \in 1..Len(first) + Len(second) :
             (first \o second)[k] = IF k <= Len(first) THEN first[k] ELSE second[k - Len(first)]
    BY <1>1, <1>2, ConcatProperties
  <2> QED
    BY <1>1, <1>2, <2>1
<1>10. ASSUME NEW k \in 1..m + Cardinality(late)
       PROVE  (first \o second)[k] = whole[k]
  <2>0. /\ whole[k] = f[Sorted(f, early \cup late)[k]].call
        /\ Sorted(f, early \cup late)[k] = IF k <= m THEN Sorted(f, early)[k] ELSE Sorted(f, late)[k - m]
        /\ (first \o second)[k] = IF k <= m THEN first[k] ELSE second[k - m]
    BY <1>4, <1>6, <1>8, <1>9
  <2>1. CASE k <= m
    <3>1. first[k] = f[Sorted(f, early)[k]].call
      BY <1>1, <1>7, <2>1
    <3> QED
      BY <2>0, <2>1, <3>1
  <2>2. CASE k > m
    <3>1. k - m \in 1..Cardinality(late) /\ ~(k <= m)
      BY <1>7, <2>2
    <3>2. second[k - m] = f[Sorted(f, late)[k - m]].call
      BY <1>2, <3>1
    <3>3. (first \o second)[k] = second[k - m] /\ Sorted(f, early \cup late)[k] = Sorted(f, late)[k - m]
      BY <2>0, <3>1
    <3> QED
      BY <2>0, <3>2, <3>3
  <2>3. k \in Int /\ m \in Int
    BY <1>7
  <2>4. k <= m \/ k > m
    BY <2>3
  <2> QED
    BY <2>1, <2>2, <2>4
<1> QED
  BY <1>4, <1>6, <1>9, <1>10, SeqEqual DEF first, second, whole

(* Read whole, a file written in order is read as it was written. *)
LEMMA StreamIsTheFile ==
  ASSUME NEW f, Dated(f), NEW a \in Nat, NEW b \in Nat, Lines(f, a, b) = DOMAIN f,
         \A i, j \in DOMAIN f : i < j => ~SortsBefore(f[j].call, f[i].call)
  PROVE  Stream(f, a, b) = Contents(f)
<1>1. Cardinality(DOMAIN f) = Len(f) /\ \A k \in DOMAIN f : Sorted(f, DOMAIN f)[k] = k
  <2>1. ASSUME DOMAIN f = {} PROVE Cardinality(DOMAIN f) = Len(f)
    BY <2>1, FS_EmptySet DEF Dated
  <2> QED
    BY <2>1, SortedAlready
<1>2. Stream(f, a, b) = [k \in 1..Len(f) |-> f[k].call]
  <2>1. DOMAIN Sorted(f, DOMAIN f) = 1..Len(f) /\ DOMAIN f = 1..Len(f)
    BY <1>1 DEF Sorted, Dated
  <2> QED
    BY <1>1, <2>1 DEF Stream
<1> QED
  BY <1>2 DEF Contents, Dated

LEMMA ReplayedInOrder ==
  ASSUME NEW f, Dated(f), NEW a \in Nat, NEW b \in Nat, NEW clock \in Nat, clock <= a
  PROVE  Replay(f, a, b, clock) = After(Stream(f, a, b), clock, Len(Stream(f, a, b)))
<1> DEFINE read == Stream(f, a, b)
<1>1. Timely(read, clock)
  BY StreamIsTimely
<1> HIDE DEF read
<1>2. Runs(read, clock)[Len(read)] = After(read, clock, Len(read))
  BY <1>1, RunsToTheEnd
<1> QED
  BY <1>2 DEF read, Replay

LEMMA WholeDigest ==
  ASSUME NEW read, NEW clock, Timely(read, clock)
  PROVE  /\ After(read, clock, Len(read)).digest = read
         /\ After(read, clock, Len(read)).raised = FALSE
<1>1. SubSeq(read, 1, Len(read)) = read
  BY SubSeqFull DEF Timely
<1> QED
  BY <1>1 DEF After

(* The two halves of a range, and the whole of it.                         *)
LEMMA HalvesMakeTheWhole ==
  ASSUME NEW f, Dated(f), NEW a \in Nat, NEW b \in Nat, NEW c \in Nat, a <= b, b <= c,
         NEW whole, whole = Replay(f, a, c, 0), NEW first, first = Replay(f, a, b, 0),
         NEW second, second = Replay(f, b, c, first.clock)
  PROVE  /\ ~whole.raised /\ ~second.raised
         /\ first.digest \o second.digest = whole.digest
         /\ whole.digest # <<>> =>
               /\ a <= whole.first_ts /\ whole.last_ts < c
               /\ whole.first_ts \in {first.first_ts, second.first_ts}
<1> DEFINE all == Stream(f, a, c)
           early == Stream(f, a, b)
           late == Stream(f, b, c)
<1>1. /\ Timely(all, 0) /\ Timely(early, 0)
      /\ \A k \in 1..Len(all) : a <= When(all[k]) /\ When(all[k]) < c
      /\ \A k \in 1..Len(early) : a <= When(early[k]) /\ When(early[k]) < b
  <2>1. 0 \in Nat /\ 0 <= a
    OBVIOUS
  <2> QED
    BY <2>1, StreamIsTimely
<1>2. early \o late = all
  BY StreamsCompose
<1>3. /\ all \in Seq(Nat) /\ Len(all) \in Nat /\ DOMAIN all = 1..Len(all)
      /\ early \in Seq(Nat) /\ Len(early) \in Nat /\ DOMAIN early = 1..Len(early)
  BY <1>1 DEF Timely
<1>4. whole = After(all, 0, Len(all)) /\ first = After(early, 0, Len(early))
  BY ReplayedInOrder
<1>5. first.clock \in Nat /\ first.clock <= b
  <2>1. first.clock = (IF Len(early) = 0 THEN 0 ELSE When(early[Len(early)]))
    BY <1>4 DEF After
  <2>2. CASE Len(early) = 0
    BY <2>1, <2>2
  <2>3. CASE Len(early) # 0
    <3> HIDE DEF early
    <3>1. Len(early) \in 1..Len(early)
      BY <1>3, <2>3
    <3>2. When(early[Len(early)]) \in Nat /\ When(early[Len(early)]) < b
      BY <1>1, <1>3, <3>1 DEF Timely
    <3> QED
      BY <2>1, <2>3, <3>2
  <2> QED
    BY <2>2, <2>3
<1>6. second = After(late, first.clock, Len(late)) /\ Timely(late, first.clock)
  BY <1>5, ReplayedInOrder, StreamIsTimely
<1>7. late \in Seq(Nat) /\ Len(late) \in Nat
  BY <1>6 DEF Timely
<1> HIDE DEF all, early, late
<1>8. ~whole.raised /\ ~second.raised /\ whole.digest = all /\ first.digest = early /\ second.digest = late
  <2>1. ~whole.raised /\ whole.digest = all
    BY <1>1, <1>4, WholeDigest
  <2>2. first.digest = early
    BY <1>1, <1>4, WholeDigest
  <2>3. ~second.raised /\ second.digest = late
    BY <1>5, <1>6, WholeDigest
  <2> QED
    BY <2>1, <2>2, <2>3
<1>9. ASSUME all # <<>>
      PROVE  /\ a <= whole.first_ts /\ whole.last_ts < c
             /\ whole.first_ts \in {first.first_ts, second.first_ts}
  <2>1. Len(all) # 0 /\ 1 \in 1..Len(all) /\ Len(all) \in 1..Len(all)
    <3>1. Len(all) \in Nat \ {0}
      BY <1>3, <1>9, EmptySeq
    <3> QED
      BY <3>1
  <2>2. whole.first_ts = When(all[1]) /\ whole.last_ts = When(all[Len(all)])
    BY <1>4, <2>1 DEF After
  <2>3. a <= whole.first_ts /\ whole.last_ts < c
    BY <1>1, <2>1, <2>2
  <2>4. CASE Len(early) # 0
    <3>1. 1 \in 1..Len(early) + Len(late) /\ 1 <= Len(early)
      BY <1>3, <1>7, <2>4
    <3>2. all[1] = early[1]
      BY <1>2, <1>3, <1>7, <3>1, ConcatProperties
    <3>3. first.first_ts = When(early[1])
      BY <1>4, <2>4 DEF After
    <3> QED
      BY <2>2, <2>3, <3>2, <3>3
  <2>5. CASE Len(early) = 0
    <3>1. early = <<>>
      BY <1>3, <2>5, EmptySeq
    <3>2. all = late
      BY <1>2, <1>7, <3>1, ConcatEmptySeq
    <3>3. second.first_ts = When(late[1])
      BY <1>6, <2>1, <3>2 DEF After
    <3> QED
      BY <2>2, <2>3, <3>2, <3>3
  <2> QED
    BY <2>4, <2>5
<1> QED
  BY <1>2, <1>8, <1>9

LEMMA ReadableIsDated == IInv /\ ReaderInv /\ Readable(file) => Dated(file)
<1> SUFFICES ASSUME IInv, ReaderInv, Readable(file) PROVE Dated(file)
  OBVIOUS
<1>1. Told
  BY DEF ReaderInv, Fine, Readable
<1>2. Len(file) \in Nat /\ DOMAIN file = 1..Len(file) /\ Len(calls) \in Nat /\ DOMAIN calls = 1..Len(calls)
  BY DEF IInv, TypeOK
<1>3. Begun \in Int /\ Begun <= Len(calls)
  <2>1. Len(buffer) \in Nat /\ (cut => Len(buffer) # 0)
    BY EmptySeq DEF IInv, TypeOK, CutTail
  <2> QED
    BY <1>2, <2>1 DEF Begun, Written
<1>4. ASSUME NEW i \in DOMAIN file
      PROVE  file[i].call \in Nat /\ At(file, i) \in Nat /\ Nth(file, i) \in Nat
  <2>1. file[i].call \in 1..Begun
    BY <1>1 DEF Told
  <2>2. file[i].call \in DOMAIN calls /\ file[i].call \in Nat
    BY <1>2, <1>3, <2>1
  <2>3. EventOf(file[i].call) \in Events
    <3>1. calls \in Seq([event : Events, life : Nat])
      BY DEF IInv, TypeOK
    <3>2. calls[file[i].call] \in [event : Events, life : Nat]
      BY <1>2, <2>2, <3>1, ElementOfSeq
    <3> QED
      BY <3>2 DEF EventOf
  <2> QED
    BY <2>2, <2>3, EventLogAssumption DEF At, Nth
<1> QED
  BY <1>2, <1>4 DEF Dated

(* For every order of events, every range and every way a log was cut      *)
(* short: one that can be read replays in time, word for word if it was    *)
(* written in order, and by two adjoining ranges as by the whole            *)
(* (EventStore.stream, ReplayEngine.run).                                  *)
THEOREM ReplayIsAlwaysVerbatim == Spec => []ReplayIsVerbatim
<1>1. IInv /\ ReaderInv => ReplayIsVerbatim
  <2> SUFFICES ASSUME IInv, ReaderInv, Readable(file) PROVE ReplayIsVerbatim
    BY DEF ReplayIsVerbatim, OrderedWriterReplaysVerbatim, RangesCompose
  <2>1. Dated(file)
    BY ReadableIsDated
  <2>2. \A a \in Moments : a \in Nat
    BY EventLogAssumption
  <2>3. ASSUME \A i, j \in DOMAIN file : i < j => ~SortsBefore(file[j].call, file[i].call),
               NEW a \in Moments, NEW b \in Moments, Lines(file, a, b) = DOMAIN file
        PROVE  Replay(file, a, b, 0).digest = Contents(file)
    <3>1. a \in Nat /\ b \in Nat /\ 0 \in Nat /\ 0 <= a
      BY <2>2
    <3>2. Stream(file, a, b) = Contents(file)
      BY <2>1, <2>3, <3>1, StreamIsTheFile
    <3>3. Timely(Stream(file, a, b), 0)
      BY <2>1, <3>1, StreamIsTimely
    <3>4. Replay(file, a, b, 0) = After(Stream(file, a, b), 0, Len(Stream(file, a, b)))
      BY <2>1, <3>1, ReplayedInOrder
    <3> QED
      BY <3>2, <3>3, <3>4, WholeDigest
  <2>4. OrderedWriterReplaysVerbatim
    BY <2>3 DEF OrderedWriterReplaysVerbatim
  <2>5. RangesCompose
    BY ZenonT(60), <2>1, <2>2, HalvesMakeTheWhole DEF RangesCompose
  <2> QED
    BY <2>4, <2>5 DEF ReplayIsVerbatim
<1> QED
  BY <1>1, ReaderInvariance, PTL
=============================================================================
