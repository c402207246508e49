----------------------------- MODULE MCEventLog -----------------------------
(* An order, its fill stamped with the same tick, and a later bar whose    *)
(* sort_key is the order's own.                                            *)
EXTENDS EventLog

CONSTANTS anOrder, itsFill, laterBar

MCTsEvent == [e \in Events |-> IF e = laterBar THEN 2 ELSE 1]
MCSeqNo == [e \in Events |-> IF e = itsFill THEN 1 ELSE 0]
=============================================================================
