------------------------------- MODULE Pacer --------------------------------
(***************************************************************************)
(* Historical requests to IBKR: the sliding-window limiter HistoricalPacer *)
(* (adapters/ibkr/pacing.py) and the one caller that consults it,          *)
(* IbkrMarketData.fetch_bars (adapters/ibkr/market_data.py).  The crawler  *)
(* awaits each request before it makes the next, so one fetch is in flight *)
(* at a time.                                                              *)
(*                                                                         *)
(* The deque _sent is the tail of `log', the history of all requests sent: *)
(* entries are appended to it and dropped from its head, so it is          *)
(* SubSeq(log, head + 1, Len(log)).  Time is in ticks of a steady clock.   *)
(***************************************************************************)
EXTENDS Integers, Sequences

CONSTANTS
    MaxRequests,    \* requests permitted per window
    Window,         \* length of the sliding window
    Timeout,        \* request_timeout_seconds
    Horizon         \* bound: the clock stops here

ASSUME PacerAssumption ==
    /\ MaxRequests \in Nat \ {0}
    /\ Window \in Nat \ {0}
    /\ Timeout \in Nat \ {0}
    /\ Horizon \in Nat

VARIABLES
    now,        \* the clock
    log,        \* times of all requests ever sent, in order
    head,       \* how many of them _expire has dropped from the deque
    pc,         \* where fetch_bars is
    until,      \* when the sleep ends
    sentAt,     \* sent_at of the request in flight
    answered,   \* whether the Gateway answered that request
    result      \* what the last fetch gave its caller

vars == <<now, log, head, pc, until, sentAt, answered, result>>

Room(h) == Len(log) - h < MaxRequests

Init ==
    /\ now = 0 /\ log = <<>> /\ head = 0
    /\ pc = "idle" /\ until = 0 /\ sentAt = 0
    /\ answered = FALSE /\ result = "none"

(* The longest a fetch may still need: the bound on the clock leaves it so *)
(* much time, so that no fetch is left half-way because the clock stopped. *)
TimeNeeded ==
    CASE pc = "qualifying" -> Window + Timeout + 1
      [] pc = "sleeping"   -> Timeout + 1
      [] OTHER             -> 1

(* Time passes.                                                            *)
Tick ==
    /\ now + TimeNeeded <= Horizon
    /\ now' = now + 1
    /\ UNCHANGED <<log, head, pc, until, sentAt, answered, result>>

(* A fetch begins: connect, then look the contract up.  None begins too    *)
(* late to end before the clock stops.                                     *)
Begin ==
    /\ pc = "idle" /\ now + Window + Timeout < Horizon
    /\ pc' = "qualifying" /\ result' = "none" /\ answered' = FALSE
    /\ UNCHANGED <<now, log, head, until, sentAt>>

(* The listing does not resolve, or the range is more than one request may *)
(* cover: the caller gets an error and no quota is spent.                  *)
Refuse ==
    /\ pc = "qualifying"
    /\ pc' = "idle" /\ result' = "error"
    /\ UNCHANGED <<now, log, head, until, sentAt, answered>>

(* record() and the request itself. *)
Send ==
    /\ log' = Append(log, now)
    /\ sentAt' = now
    /\ pc' = "awaiting"
    /\ UNCHANGED <<now, answered, result>>

(* Likely mistake: an entry leaves one tick early.                         *)
ExpiresEarly(h) ==
    /\ h \in head..Len(log)
    /\ \A i \in (head + 1)..h : log[i] <= now - Window + 1
    /\ h < Len(log) => log[h + 1] > now - Window + 1

(* _expire: entries leave the deque from the front while they are a window *)
(* old; h of them have left when it returns.                               *)
Expires(h) ==
    /\ h \in head..Len(log)
    /\ \A i \in (head + 1)..h : log[i] <= now - Window
    /\ h < Len(log) => log[h + 1] > now - Window

(* wait_seconds() of a window with room is zero and the request is sent;   *)
(* otherwise the caller sleeps until the oldest request ages out.          *)
Pace(h) ==
    /\ pc = "qualifying" /\ Expires(h)
    /\ head' = h
    /\ IF Room(h)
       THEN Send /\ UNCHANGED until
       ELSE /\ pc' = "sleeping"
            /\ until' = log[h + 1] + Window
            /\ UNCHANGED <<now, log, sentAt, answered, result>>

(* The sleep is over, perhaps late.  The window is not looked at again.    *)
Wake ==
    /\ pc = "sleeping" /\ now >= until
    /\ Send
    /\ UNCHANGED <<head, until>>

-----------------------------------------------------------------------------
(* The Gateway's side.  An answer that comes empty after the timeout       *)
(* cannot be told from none and is treated as one.                         *)

Deliver(outcome) ==
    /\ pc' = "idle" /\ result' = outcome
    /\ UNCHANGED <<now, log, head, until, sentAt>>

AnswerBars ==
    /\ pc = "awaiting"
    /\ answered' = TRUE
    /\ Deliver("bars")

AnswerEmpty ==
    /\ pc = "awaiting"
    /\ answered' = TRUE
    /\ Deliver(IF now - sentAt >= Timeout THEN "error" ELSE "empty")

RequestFails ==
    /\ pc = "awaiting"
    /\ UNCHANGED answered
    /\ Deliver("error")

(* Likely mistake: the boundary of the timeout itself is not a timeout.    *)
GoesUnansweredStrict ==
    /\ pc = "awaiting" /\ now - sentAt >= Timeout
    /\ UNCHANGED answered
    /\ Deliver(IF now - sentAt > Timeout THEN "error" ELSE "empty")

(* Likely mistake: no timeout is passed and the request waits forever.     *)
GoesUnansweredForever ==
    /\ pc = "awaiting" /\ now - sentAt > Horizon
    /\ UNCHANGED answered
    /\ Deliver("error")

(* ib_async gives up after the timeout and returns an empty list.          *)
GoesUnanswered ==
    /\ pc = "awaiting" /\ now - sentAt >= Timeout
    /\ UNCHANGED answered
    /\ Deliver(IF now - sentAt >= Timeout THEN "error" ELSE "empty")

-----------------------------------------------------------------------------
(* What the process does by itself, and what the Gateway may do.           *)
Fetch ==
    \/ Refuse
    \/ \E h \in head..Len(log) : Pace(h)
    \/ Wake
    \/ GoesUnanswered

Gateway == AnswerBars \/ AnswerEmpty \/ RequestFails

Next == Tick \/ Begin \/ Fetch \/ Gateway

Spec == Init /\ [][Next]_vars

(* The clock runs and the event loop runs what is due, the request's own   *)
(* timeout included.  The Gateway owes nothing.                            *)
FairSpec == Spec /\ WF_vars(Tick) /\ WF_vars(Fetch)

-----------------------------------------------------------------------------
TypeOK ==
    /\ now \in Nat
    /\ log \in Seq(Nat)
    /\ head \in 0..Len(log)
    /\ pc \in {"idle", "qualifying", "sleeping", "awaiting"}
    /\ until \in Nat /\ sentAt \in Nat
    /\ answered \in BOOLEAN
    /\ result \in {"none", "bars", "empty", "error"}

(* Any MaxRequests + 1 consecutive requests span at least a window, so no  *)
(* window of that length, wherever it is placed, holds more than           *)
(* MaxRequests of them: IBKR counts continuously (pacing.py).              *)
PacingRespected ==
    \A i \in 1..(Len(log) - MaxRequests) : log[i + MaxRequests] - log[i] >= Window

(* A caller is made to wait only when the window is full, and no longer    *)
(* than until the first instant a request is allowed.                      *)
SleepsNoLongerThanNeeded ==
    pc = "sleeping" =>
        /\ Len(log) >= MaxRequests
        /\ until = log[Len(log) - MaxRequests + 1] + Window

(* The limiter keeps the rate it must and costs no more than it has to.     *)
PacingIsTight == PacingRespected /\ SleepsNoLongerThanNeeded

(* "No bars" is only ever reported of a request the Gateway answered: a    *)
(* timeout is never taken for a day without trades (fetch_bars).           *)
EmptyMeansAnswered == result = "empty" => answered

(* Every fetch ends, whatever the Gateway does.                            *)
FetchEnds == pc = "qualifying" ~> pc = "idle"

=============================================================================
