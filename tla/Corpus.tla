------------------------------- MODULE Corpus -------------------------------
(***************************************************************************)
(* What the bar corpus promises its readers, whoever fills it and however  *)
(* often the filling is interrupted: bars are only ever added, one per     *)
(* timestamp, each under the session it belongs to, and a bar once seen is *)
(* never replaced.  (StoragePort.write_bars in core/ports.py: "writing the *)
(* same bars twice must not duplicate them".)                              *)
(***************************************************************************)
EXTENDS Integers

CONSTANTS
    Symbols,
    Days,
    Bars,             \* bars are records with a field ts
    Belongs(_, _)     \* Belongs(d, ts): ts is inside the session of day d

VARIABLE corpus       \* corpus[s][d]: the bars filed under s on day d

OnePerTimestamp(bars) == \A a, b \in bars : a.ts = b.ts => a = b

Init == corpus = [s \in Symbols |-> [d \in Days |-> {}]]

Grow(s, d) ==
    LET held == corpus[s][d]
        next == corpus'[s][d]
    IN  /\ next \in SUBSET Bars
        /\ held \subseteq next
        /\ \A b \in next \ held : Belongs(d, b.ts)
        /\ OnePerTimestamp(next)
        /\ corpus' = [corpus EXCEPT ![s][d] = next]

Next == \E s \in Symbols, d \in Days : Grow(s, d)

Spec == Init /\ [][Next]_corpus

=============================================================================
