-------------------------- MODULE BackfillPlanning --------------------------
(***************************************************************************)
(* The plan of a pass over every corpus it can meet.  The only state is    *)
(* the catalog's answer, `held': the bars counted per instrument-session.  *)
(* Sessions gain bars one batch at a time, in any order and from any       *)
(* source, up to one more than a session expects (extended hours), which   *)
(* is the bound of the model.                                              *)
(***************************************************************************)
EXTENDS BackfillPlan

VARIABLE held   \* held[s][d]: what bar_counts answers, 0 when d is absent

Counts(d) == 0..(ExpectedBars(d) + 1)

PlanningInit == held = [s \in Symbols |-> [d \in Days |-> 0]]

Gain(s, d) ==
    /\ d \in Trades[s]
    /\ \E n \in Counts(d) :
          /\ n > held[s][d]
          /\ held' = [held EXCEPT ![s][d] = n]

PlanningNext == \E s \in Symbols, d \in Days : Gain(s, d)

PlanningSpec == PlanningInit /\ [][PlanningNext]_held

-----------------------------------------------------------------------------
(* Every short instrument-session is covered by exactly one request, and   *)
(* no request covers a session that is complete: nothing is fetched twice  *)
(* in a pass and nothing is forgotten (plan_windows).                      *)
EachShortSessionInOneWindow ==
    LET windows == PlanWindows(held)
        Covers(w, s, d) == w.symbol = s /\ d \in w.days
    IN  \A s \in Symbols, d \in Days :
            IF d \in Trades[s] /\ held[s][d] < ExpectedBars(d)
            THEN \E w \in windows : \A v \in windows : Covers(v, s, d) <=> v = w
            ELSE \A w \in windows : ~Covers(w, s, d)

(* No request spans more calendar days than the feed answers for, whatever *)
(* holes the half-filled corpus has.                                       *)
WindowsFitTheFeed ==
    \A w \in PlanWindows(held) : Newest(w.days) - Oldest(w.days) + 1 <= WindowDays

(* The offering order is a strict total order on the windows of a plan, so *)
(* what an interrupted pass leaves behind is reproducible: the same corpus *)
(* always yields the same queue.                                           *)
QueueIsReproducible ==
    LET windows == PlanWindows(held)
    IN  \A v, w \in windows :
          /\ v # w => OfferedBefore(held, v, w) \/ OfferedBefore(held, w, v)
          /\ ~(OfferedBefore(held, v, w) /\ OfferedBefore(held, w, v))
          /\ \A x \in windows :
                OfferedBefore(held, v, w) /\ OfferedBefore(held, w, x) => OfferedBefore(held, v, x)

(* Recency-major across the whole universe: of two never-fetched sessions  *)
(* at least a window apart, of any instruments, the recent one is always   *)
(* asked for first (plan_windows, order_windows).                          *)
RecentSessionsFirst ==
    \A v, w \in PlanWindows(held) :
       \A d \in v.days, e \in w.days :
          d - e >= WindowDays /\ held[v.symbol][d] = 0 => OfferedBefore(held, v, w)

(* A pass with a limit is a prefix of the pass without one: it offers as   *)
(* many windows as it may, and none while an earlier one is left out.      *)
LimitTakesAPrefix ==
    LET windows == PlanWindows(held)
        offered == Offered(held)
    IN  /\ \A w \in offered, v \in windows : OfferedBefore(held, v, w) => v \in offered
        /\ Limit # NoLimit =>
              \/ Cardinality(offered) = Limit
              \/ offered = windows /\ Cardinality(offered) < Limit

(* What an interrupted pass leaves behind depends on the corpus alone, is   *)
(* the recent end of it, and took no request the feed would not answer.     *)
QueueIsInOrder ==
    WindowsFitTheFeed /\ QueueIsReproducible /\ RecentSessionsFirst /\ LimitTakesAPrefix

=============================================================================
