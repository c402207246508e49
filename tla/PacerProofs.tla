----------------------------- MODULE PacerProofs ----------------------------
(***************************************************************************)
(* The limiter keeps to the rate for every limit, window and timeout.      *)
(***************************************************************************)
EXTENDS Pacer, TLAPS

(* The history is in order and not in the future; what the deque dropped   *)
(* is a window old; and the deque holds no more than the limit, except     *)
(* that a request sent after a sleep briefly sits beside the one it waited *)
(* for.  A sleeper waits for exactly the head of a full deque.             *)
InOrder ==
    /\ \A i \in 1..Len(log) : log[i] <= now
    /\ \A i, j \in 1..Len(log) : i <= j => log[i] <= log[j]

DroppedAreOld == \A i \in 1..head : log[i] + Window <= now

DequeBounded ==
    /\ Len(log) - head <= MaxRequests + 1
    /\ Len(log) - head = MaxRequests + 1 => log[head + 1] + Window <= now

SleeperWaitsForHead ==
    pc = "sleeping" =>
        /\ Len(log) - head = MaxRequests
        /\ until = log[head + 1] + Window

IndInv ==
    /\ TypeOK
    /\ InOrder
    /\ DroppedAreOld
    /\ DequeBounded
    /\ SleeperWaitsForHead
    /\ PacingRespected

-----------------------------------------------------------------------------
(* Sending is safe when the request MaxRequests before it is a window old. *)
LEMMA SendKeepsPacing ==
    ASSUME TypeOK, InOrder, PacingRespected, Send, head' \in 0..Len(log), until' \in Nat,
           Len(log) >= MaxRequests => log[Len(log) - MaxRequests + 1] + Window <= now
    PROVE  TypeOK' /\ InOrder' /\ PacingRespected'
<1> USE PacerAssumption
<1>1. /\ log' \in Seq(Nat)
      /\ Len(log') = Len(log) + 1
      /\ \A i \in 1..Len(log) : log'[i] = log[i]
      /\ log'[Len(log) + 1] = now
  BY DEF TypeOK, Send
<1>2. TypeOK'
  BY <1>1 DEF TypeOK, Send
<1>3. InOrder'
  BY <1>1 DEF TypeOK, InOrder, Send
<1>4. PacingRespected'
  <2> SUFFICES ASSUME NEW i \in 1..(Len(log') - MaxRequests)
               PROVE  log'[i + MaxRequests] - log'[i] >= Window
    BY DEF PacingRespected
  <2>a. /\ Len(log) \in Nat /\ MaxRequests \in Nat \ {0} /\ now \in Nat
        /\ i \in 1..((Len(log) + 1) - MaxRequests)
    BY <1>1 DEF TypeOK
  <2>0. /\ Len(log) \in Nat /\ MaxRequests \in Nat \ {0} /\ now \in Nat
        /\ i \in Nat \ {0} /\ i + MaxRequests <= Len(log) + 1
        /\ i \in 1..Len(log)
    BY <2>a
  <2>1. CASE i + MaxRequests <= Len(log)
    <3>1. i \in 1..(Len(log) - MaxRequests) /\ i + MaxRequests \in 1..Len(log)
      BY <2>0, <2>1
    <3>2. log[i + MaxRequests] - log[i] >= Window
      BY <3>1 DEF PacingRespected
    <3> QED
      BY <1>1, <2>0, <3>1, <3>2
  <2>2. CASE i + MaxRequests = Len(log) + 1
    <3>1. i = Len(log) - MaxRequests + 1 /\ Len(log) >= MaxRequests
      BY <2>0, <2>2
    <3>2. log[i] + Window <= now /\ log[i] \in Nat
      BY SMTT(20), <2>0, <3>1 DEF TypeOK
    <3>3. log'[i] = log[i] /\ log'[i + MaxRequests] = now
      BY <1>1, <2>0, <2>2
    <3> QED
      BY <2>0, <3>2, <3>3
  <2> QED
    BY <2>0, <2>1, <2>2
<1> QED
  BY <1>2, <1>3, <1>4

LEMMA InitIndInv == Init => IndInv
<1> SUFFICES ASSUME Init PROVE IndInv
  OBVIOUS
<1>1. TypeOK
  <2>1. log \in Seq(Nat) /\ Len(log) = 0
    BY DEF Init
  <2>2. answered \in BOOLEAN
    BY Zenon DEF Init
  <2> QED
    BY <2>1, <2>2 DEF Init, TypeOK
<1>2. InOrder /\ DroppedAreOld /\ DequeBounded /\ SleeperWaitsForHead /\ PacingRespected
  BY PacerAssumption DEF Init, InOrder, DroppedAreOld, DequeBounded, SleeperWaitsForHead,
     PacingRespected
<1> QED
  BY <1>1, <1>2 DEF IndInv

(* Expiring, then sending at once or going to sleep.                       *)
LEMMA PaceKeepsIndInv ==
    ASSUME IndInv, NEW h \in head..Len(log), Pace(h)
    PROVE  IndInv'
<1> USE PacerAssumption DEF IndInv
<1>1. /\ head' = h /\ now' = now /\ h \in 0..Len(log)
      /\ now \in Nat /\ Len(log) \in Nat /\ log \in Seq(Nat)
  BY DEF Pace, TypeOK, Send
<1>2. \A i \in 1..h : log[i] + Window <= now
  BY <1>1 DEF Pace, Expires, DroppedAreOld, TypeOK
<1>3. h < Len(log) => log[h + 1] + Window > now
  BY <1>1 DEF Pace, Expires, TypeOK
<1>4. Len(log) - h <= MaxRequests
  BY <1>1, <1>3 DEF DequeBounded, TypeOK
<1>5. CASE Room(h)
  <2>1. Send /\ UNCHANGED until
    BY <1>5 DEF Pace
  <2>2. Len(log) >= MaxRequests => log[Len(log) - MaxRequests + 1] + Window <= now
    BY <1>1, <1>2, <1>5 DEF Room
  <2>3. TypeOK' /\ InOrder' /\ PacingRespected'
    BY <1>1, <2>1, <2>2, SendKeepsPacing DEF TypeOK
  <2>4. Len(log') = Len(log) + 1 /\ \A i \in 1..Len(log) : log'[i] = log[i]
    BY <1>1, <2>1 DEF Send
  <2>5. DroppedAreOld'
    <3> SUFFICES ASSUME NEW i \in 1..h PROVE log'[i] + Window <= now
      BY <1>1 DEF DroppedAreOld
    <3>1. i \in 1..Len(log)
      BY <1>1
    <3> QED
      BY <1>2, <2>4, <3>1
  <2>6. DequeBounded'
    BY <1>1, <1>5, <2>4 DEF DequeBounded, Room
  <2>7. SleeperWaitsForHead'
    BY <2>1 DEF SleeperWaitsForHead, Send
  <2> QED
    BY <2>3, <2>5, <2>6, <2>7
<1>6. CASE ~Room(h)
  <2>1. /\ pc' = "sleeping" /\ until' = log[h + 1] + Window
        /\ UNCHANGED <<now, log, sentAt, answered, result>>
    BY <1>6 DEF Pace
  <2>2. Len(log) - h = MaxRequests
    BY <1>1, <1>4, <1>6 DEF Room
  <2>3. until' \in Nat
    BY <1>1, <2>1, <2>2
  <2>4. TypeOK' /\ InOrder' /\ PacingRespected'
    BY <1>1, <2>1, <2>3 DEF TypeOK, InOrder, PacingRespected
  <2>5. DroppedAreOld' /\ DequeBounded' /\ SleeperWaitsForHead'
    BY <1>1, <1>2, <2>1, <2>2 DEF DroppedAreOld, DequeBounded, SleeperWaitsForHead
  <2> QED
    BY <2>4, <2>5
<1> QED
  BY <1>5, <1>6

LEMMA WakeKeepsIndInv ==
    ASSUME IndInv, Wake
    PROVE  IndInv'
<1> USE PacerAssumption DEF IndInv
<1>1. /\ Send /\ head' = head /\ until' = until /\ now' = now
      /\ Len(log) - head = MaxRequests
      /\ log[head + 1] + Window <= now
      /\ now \in Nat /\ Len(log) \in Nat /\ log \in Seq(Nat) /\ head \in 0..Len(log)
  BY DEF Wake, Send, SleeperWaitsForHead, TypeOK
<1>2. Len(log) >= MaxRequests => log[Len(log) - MaxRequests + 1] + Window <= now
  BY <1>1
<1>3. TypeOK' /\ InOrder' /\ PacingRespected'
  BY <1>1, <1>2, SendKeepsPacing DEF TypeOK
<1>4. Len(log') = Len(log) + 1 /\ \A i \in 1..Len(log) : log'[i] = log[i]
  BY <1>1 DEF Send
<1>5. DroppedAreOld'
  <2> SUFFICES ASSUME NEW i \in 1..head PROVE log'[i] + Window <= now
    BY <1>1 DEF DroppedAreOld
  <2>1. i \in 1..Len(log)
    BY <1>1
  <2> QED
    BY <1>4, <2>1 DEF DroppedAreOld
<1>6. DequeBounded'
  <2>1. head + 1 \in 1..Len(log)
    BY <1>1
  <2> QED
    BY <1>1, <1>4, <2>1 DEF DequeBounded
<1>7. SleeperWaitsForHead'
  BY <1>1 DEF SleeperWaitsForHead, Send
<1> QED
  BY <1>3, <1>5, <1>6, <1>7

(* The steps that leave the history and the deque alone.                   *)
LEMMA QuietStepKeepsIndInv ==
    ASSUME IndInv, UNCHANGED <<log, head>>, now' \in Nat, now' >= now,
           pc' \in {"idle", "qualifying", "sleeping", "awaiting"},
           pc' = "sleeping" => pc = "sleeping", UNCHANGED <<until, sentAt>>,
           answered' \in BOOLEAN, result' \in {"none", "bars", "empty", "error"}
    PROVE  IndInv'
<1> USE PacerAssumption DEF IndInv
<1>1. TypeOK'
  BY DEF TypeOK
<1>2. InOrder' /\ PacingRespected'
  BY DEF TypeOK, InOrder, PacingRespected
<1>3. DroppedAreOld'
  BY DEF TypeOK, DroppedAreOld
<1>4. DequeBounded' /\ SleeperWaitsForHead'
  BY DEF TypeOK, DequeBounded, SleeperWaitsForHead
<1> QED
  BY <1>1, <1>2, <1>3, <1>4

LEMMA NextIndInv == IndInv /\ [Next]_vars => IndInv'
<1> SUFFICES ASSUME IndInv, [Next]_vars PROVE IndInv'
  OBVIOUS
<1> USE DEF IndInv
<1>1. CASE Tick
  BY <1>1, QuietStepKeepsIndInv DEF Tick, TypeOK
<1>2. CASE Begin
  <2>1. answered' \in BOOLEAN
    BY <1>2, Zenon DEF Begin
  <2> QED
    BY <1>2, <2>1, QuietStepKeepsIndInv DEF Begin, TypeOK
<1>3. CASE Refuse
  BY <1>3, QuietStepKeepsIndInv DEF Refuse, TypeOK
<1>4. ASSUME NEW h \in head..Len(log), Pace(h) PROVE IndInv'
  BY <1>4, PaceKeepsIndInv
<1>5. CASE Wake
  BY <1>5, WakeKeepsIndInv
<1>6. CASE AnswerBars
  BY <1>6, QuietStepKeepsIndInv DEF AnswerBars, Deliver, TypeOK
<1>7. CASE AnswerEmpty
  BY <1>7, QuietStepKeepsIndInv DEF AnswerEmpty, Deliver, TypeOK
<1>8. CASE RequestFails
  BY <1>8, QuietStepKeepsIndInv DEF RequestFails, Deliver, TypeOK
<1>9. CASE GoesUnanswered
  BY <1>9, QuietStepKeepsIndInv DEF GoesUnanswered, Deliver, TypeOK
<1>10. CASE UNCHANGED vars
  BY <1>10, QuietStepKeepsIndInv DEF vars, TypeOK
<1> QED
  BY <1>1, <1>2, <1>3, <1>4, <1>5, <1>6, <1>7, <1>8, <1>9, <1>10 DEF Next, Fetch, Gateway

(* The limiter's variables keep their types.                               *)
THEOREM PacerTypeOK == Spec => []TypeOK
<1>1. IndInv => TypeOK
  BY DEF IndInv
<1> QED
  BY <1>1, InitIndInv, NextIndInv, PTL DEF Spec

(* However the requests and the sleeps fall, MaxRequests + 1 requests in a *)
(* row always span a window.                                               *)
THEOREM RateIsKept == Spec => []PacingRespected
<1>1. IndInv => PacingRespected
  BY DEF IndInv
<1> QED
  BY <1>1, InitIndInv, NextIndInv, PTL DEF Spec

(* A caller sleeps only behind a full window and until the first instant a *)
(* request is allowed.                                                     *)
THEOREM SleepIsMinimal == Spec => []SleepsNoLongerThanNeeded
<1>1. IndInv => SleepsNoLongerThanNeeded
  BY PacerAssumption DEF IndInv, SleeperWaitsForHead, SleepsNoLongerThanNeeded, TypeOK
<1> QED
  BY <1>1, InitIndInv, NextIndInv, PTL DEF Spec

(* The rate is kept, and nobody waits longer than that takes (pacing.py).  *)
THEOREM PacingHolds == Spec => []PacingIsTight
  BY RateIsKept, SleepIsMinimal, PTL DEF PacingIsTight

(* A fetch reports "no bars" only of a request that the Gateway answered:   *)
(* the timeout that empties the answer is told apart (fetch_bars).          *)
THEOREM TimeoutIsNotAnEmptyDay == Spec => []EmptyMeansAnswered
<1>1. Init => EmptyMeansAnswered
  BY DEF Init, EmptyMeansAnswered
<1>2. EmptyMeansAnswered /\ [Next]_vars => EmptyMeansAnswered'
  <2> SUFFICES ASSUME EmptyMeansAnswered, [Next]_vars PROVE EmptyMeansAnswered'
    OBVIOUS
  <2>1. CASE UNCHANGED <<answered, result>>
    BY <2>1 DEF EmptyMeansAnswered
  <2>2. CASE Begin
    BY <2>2 DEF Begin, EmptyMeansAnswered
  <2>3. CASE Refuse
    BY <2>3 DEF Refuse, EmptyMeansAnswered
  <2>4. CASE AnswerBars \/ AnswerEmpty
    BY <2>4, Zenon DEF AnswerBars, AnswerEmpty, EmptyMeansAnswered
  <2>5. CASE RequestFails \/ GoesUnanswered
    BY <2>5 DEF RequestFails, GoesUnanswered, Deliver, EmptyMeansAnswered
  <2>6. (\E h \in head..Len(log) : Pace(h)) => UNCHANGED <<answered, result>>
    BY DEF Pace, Send
  <2>7. Tick \/ Wake \/ UNCHANGED vars => UNCHANGED <<answered, result>>
    BY DEF Tick, Wake, Send, vars
  <2> QED
    BY <2>1, <2>2, <2>3, <2>4, <2>5, <2>6, <2>7 DEF Next, Fetch, Gateway
<1> QED
  BY <1>1, <1>2, PTL DEF Spec

=============================================================================
