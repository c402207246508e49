---------------------------- MODULE AppendOnlyLog ---------------------------
(***************************************************************************)
(* What the event log promises (EventStorePort in core/ports.py): records  *)
(* are only ever added at the end, one at a time and each once, later      *)
(* appends behind earlier ones; none is changed, removed or moved.         *)
(***************************************************************************)
EXTENDS Naturals, Sequences

CONSTANT Records    \* the append calls, numbered in the order they are made

VARIABLE log

Init == log = <<>>

Next ==
    \E r \in Records :
        /\ \A i \in DOMAIN log : log[i] < r
        /\ log' = Append(log, r)

Spec == Init /\ [][Next]_log

=============================================================================
