------------------------------ MODULE LineFile ------------------------------
(***************************************************************************)
(* A file of JSON lines that is only ever appended to: the trial ledger and *)
(* the trade journal.  An append opens, writes one line and its newline,   *)
(* and closes; one that is cut short may leave any prefix of that.         *)
(***************************************************************************)
EXTENDS Naturals, Sequences, FiniteSets

EmptyFile == [lines |-> <<>>, ended |-> TRUE]
Garbled == [readable |-> FALSE]
Line(row) == [readable |-> TRUE, row |-> row]

(* What follows an unended line becomes part of it, and neither decodes. *)
Written(file, row) ==
  [lines |-> IF file.ended THEN Append(file.lines, Line(row))
             ELSE [file.lines EXCEPT ![Len(file.lines)] = Garbled],
   ended |-> TRUE]

CutShort(file, row) ==
  LET joined == [file.lines EXCEPT ![Len(file.lines)] = Garbled]
      partly == IF file.ended THEN Append(file.lines, Garbled) ELSE joined
  IN {file, [lines |-> partly, ended |-> FALSE], [Written(file, row) EXCEPT !.ended = FALSE]}

(* A bad line is fatal: a reader that meets one raises. *)
SomeLineReads(file) == file.lines = <<>> \/ \E i \in DOMAIN file.lines : file.lines[i].readable
Legible(file) == \A i \in DOMAIN file.lines : file.lines[i].readable

RowsOf(file) ==
  LET read == {i \in DOMAIN file.lines : file.lines[i].readable}
      nth(k) == CHOOSE i \in read : Cardinality({j \in read : j < i}) = k - 1
  IN [k \in 1 .. Cardinality(read) |-> file.lines[nth(k)].row]
=============================================================================
