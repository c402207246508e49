----------------------------- MODULE Execution -----------------------------
(***************************************************************************)
(* Orders on their way to the venue and executions on their way back:      *)
(* adapters/ibkr/broker.py over adapters/ibkr/connection.py, driven by a   *)
(* session that records what it does the way `ibkr paper-smoke` does       *)
(* (cli.py): an order when submit returns, a fill when on_fill is called.  *)
(* One asyncio loop runs the session, so a step here runs from one await   *)
(* to the next.  Gateway and the venue are not in the repository: they     *)
(* accept, refuse, execute, drop the link and, on every new connection,    *)
(* re-send the executions they know of (broker.py:20).                     *)
(***************************************************************************)
EXTENDS Integers, Sequences, FiniteSets, Position

CONSTANTS
  Orders,       \* the orders of the session
  Buys,         \* those that buy; the others sell
  Size,         \* executions, of one share each, that complete an order
  MaxTries,     \* bound: calls of submit for one order
  MaxDrops      \* bound: lost connections

ASSUME BuysAreOrders == Buys \subseteq Orders
ASSUME SizeIsPositive == Size \in Nat \ {0}
ASSUME BoundsAreNatural == MaxTries \in Nat /\ MaxDrops \in Nat

VARIABLES
  settings,     \* what load_settings resolved: profile, live port, allow_live_orders
  connected,    \* ib.isConnected()
  drops,        \* connections lost so far
  call,         \* call[o]: where the latest submit of o stands
  tries,        \* tries[o]: how often submit was called for o
  working,      \* the keys of _working: orders whose fillEvent we listen to
  venue,        \* venue[o]: "none", "live" or "dead"
  executed,     \* executed[o]: executions the venue made of o
  wire,         \* reports sent over the present connection, not yet delivered
  log           \* what the session recorded

vars == <<settings, connected, drops, call, tries, working, venue, executed, wire, log>>

Profiles == {"research", "paper", "live"}

(* load_settings: the environment is ranked above the profile's file. *)
FromFile(profile) == [profile |-> profile, live_port |-> profile = "live",
                      allow |-> profile = "live"]

Resolved(profile, env) ==
  [name \in DOMAIN FromFile(profile) |->
     IF name \in DOMAIN env THEN env[name] ELSE FromFile(profile)[name]]

Environments ==
  UNION {[names -> BOOLEAN] : names \in SUBSET {"live_port", "allow"}}

Report == [order : Orders, exec : 1 .. Size]

(* FillId.derive: a digest of the order's id and the venue's execId. *)
FillIdOfOrder(report) == <<report.order>>
FillId(report) == <<report.order, report.exec>>

OrderRecord(o) == [kind |-> "order", order |-> o]
FillRecord(report) == [kind |-> "fill", order |-> report.order, id |-> FillId(report)]

Records ==
  [kind : {"order"}, order : Orders]
  \cup [kind : {"fill"}, order : Orders, id : {FillId(report) : report \in Report}]

Known == {report \in Report : report.exec <= executed[report.order]}

Init ==
  /\ \E profile \in Profiles, env \in Environments : settings = Resolved(profile, env)
  /\ connected = FALSE /\ drops = 0
  /\ call = [o \in Orders |-> "idle"]
  /\ tries = [o \in Orders |-> 0]
  /\ working = {}
  /\ venue = [o \in Orders |-> "none"]
  /\ executed = [o \in Orders |-> 0]
  /\ wire = {} /\ log = <<>>
-----------------------------------------------------------------------------
(* _guard_live: the port decides, not the profile's name. *)
GuardByProfile == settings.profile # "live" \/ settings.allow
GuardPasses == ~settings.live_port \/ settings.allow

(* placeOrder, _working[id] = trade, fillEvent += handler, return, and the  *)
(* caller's store.append(order), with no await among them.                  *)
PlaceUnrecorded(o) ==
  /\ call' = [call EXCEPT ![o] = "accepted"]
  /\ venue' = [venue EXCEPT ![o] = "live"]
  /\ working' = working \cup {o}
  /\ UNCHANGED log

Place(o) ==
  /\ call' = [call EXCEPT ![o] = "accepted"]
  /\ venue' = [venue EXCEPT ![o] = "live"]
  /\ working' = working \cup {o}
  /\ log' = Append(log, OrderRecord(o))

Refuse(o, outcome) ==
  /\ call' = [call EXCEPT ![o] = outcome]
  /\ UNCHANGED <<venue, working, log>>

(* placeOrder goes through only on a connection; Gateway may refuse anyway. *)
PlaceOrReject(o) ==
  \/ connected /\ Place(o)
  \/ Refuse(o, "rejected")

(* submit up to its first await: connect returns at once when connected. *)
Submit(o) ==
  /\ call[o] \in {"idle", "rejected", "unreachable"}
  /\ tries[o] < MaxTries
  /\ tries' = [tries EXCEPT ![o] = @ + 1]
  /\ \/ ~GuardPasses /\ Refuse(o, "refused")
     \/ GuardPasses /\ connected /\ PlaceOrReject(o)
     \/ GuardPasses /\ ~connected /\ Refuse(o, "connecting")
  /\ UNCHANGED <<settings, connected, drops, executed, wire>>

(* connectAsync succeeds, and Gateway re-sends every execution it knows of. *)
LinkUp(o) ==
  /\ call[o] = "connecting"
  /\ connected' = TRUE
  /\ wire' = wire \cup Known
  /\ call' = [call EXCEPT ![o] = "connected"]
  /\ UNCHANGED <<settings, drops, tries, working, venue, executed, log>>

(* wait_for times out or connectAsync raises: IbkrConnectionError. *)
LinkFails(o) ==
  /\ call[o] = "connecting"
  /\ Refuse(o, "unreachable")
  /\ UNCHANGED <<settings, connected, drops, tries, executed, wire>>

(* submit resumes after connect, which does not look at the link again. *)
Resume(o) ==
  /\ call[o] = "connected"
  /\ PlaceOrReject(o)
  /\ UNCHANGED <<settings, connected, drops, tries, executed, wire>>

(* _handle_fill, called by the order's fillEvent: on_fill appends. *)
HandleFill(report) ==
  /\ report \in wire
  /\ wire' = wire \ {report}
  /\ log' = IF report.order \in working THEN Append(log, FillRecord(report)) ELSE log
  /\ UNCHANGED <<settings, connected, drops, call, tries, working, venue, executed>>

(* cancel: an id that is not in _working is ignored.  The request asks for a *)
(* cancellation; whether and when the venue heeds it is the venue's affair.  *)
Cancel(o) ==
  /\ o \in working /\ connected
  /\ venue' \in {venue, [venue EXCEPT ![o] = "dead"]}
  /\ UNCHANGED <<settings, connected, drops, call, tries, working, executed, wire, log>>
-----------------------------------------------------------------------------
(* The venue executes a share; the report goes out if there is a link. *)
Execute(o) ==
  /\ venue[o] = "live"
  /\ executed' = [executed EXCEPT ![o] = @ + 1]
  /\ venue' = IF executed'[o] = Size THEN [venue EXCEPT ![o] = "dead"] ELSE venue
  /\ wire' = IF connected THEN wire \cup {[order |-> o, exec |-> executed'[o]]} ELSE wire
  /\ UNCHANGED <<settings, connected, drops, call, tries, working, log>>

(* Gateway restarts or the socket dies; what was on the wire is lost. *)
Drop ==
  /\ connected /\ drops < MaxDrops
  /\ connected' = FALSE /\ drops' = drops + 1 /\ wire' = {}
  /\ UNCHANGED <<settings, call, tries, working, venue, executed, log>>

Next ==
  \/ \E o \in Orders : \/ Submit(o) \/ LinkUp(o) \/ LinkFails(o) \/ Resume(o)
                       \/ Cancel(o) \/ Execute(o)
  \/ \E report \in Report : HandleFill(report)
  \/ Drop

Spec == Init /\ [][Next]_vars
-----------------------------------------------------------------------------
TypeOK ==
  /\ settings \in [profile : Profiles, live_port : BOOLEAN, allow : BOOLEAN]
  /\ connected \in BOOLEAN /\ drops \in 0 .. MaxDrops
  /\ call \in [Orders -> {"idle", "connecting", "connected", "accepted", "refused",
                          "rejected", "unreachable"}]
  /\ tries \in [Orders -> 0 .. MaxTries]
  /\ working \subseteq Orders
  /\ venue \in [Orders -> {"none", "live", "dead"}]
  /\ executed \in [Orders -> 0 .. Size]
  /\ wire \subseteq Report
  /\ log \in Seq(Records)

(* Where the log first shows each fill id, and the fills as they stand there. *)
Firsts ==
  {i \in DOMAIN log :
     /\ log[i].kind = "fill"
     /\ \A j \in 1 .. i - 1 : log[j].kind = "fill" => log[j].id # log[i].id}

DistinctFills ==
  [k \in 1 .. Cardinality(Firsts) |->
     log[CHOOSE i \in Firsts : Cardinality({j \in Firsts : j <= i}) = k]]

AsFill(record) == [side |-> IF record.order \in Buys THEN "BUY" ELSE "SELL",
                   quantity |-> 1, price |-> 1, commission |-> 0]

Folded(fills) ==
  LET held[k \in 0 .. Len(fills)] ==
        IF k = 0 THEN Flat ELSE Apply(held[k - 1], AsFill(fills[k]))
  IN  held[Len(fills)]

Traded(set) == Cardinality({report \in Known : report.order \in set})

(* Whenever the link is up and nothing is on its way, the fills of the log, *)
(* each id counted once, fold to exactly what the venue traded: no drop,    *)
(* cancel, retry or refusal costs an execution, and no two executions share *)
(* an id (broker.py:202-203, 290-324, ids.py:200-225).                      *)
LogAccountsForTheVenue ==
  connected /\ wire = {} =>
    SignedQuantity(Folded(DistinctFills)) = Traded(Buys) - Traded(Orders \ Buys)

(* The log never shows an execution of an order it has not shown: between    *)
(* placeOrder and the record of the order there is no await for a fill to    *)
(* come in at (broker.py:198-203, cli.py:403-404).                           *)
OrderIsRecordedBeforeItsFills ==
  \A i \in DOMAIN log :
    log[i].kind = "fill" => \E j \in 1 .. i - 1 : log[j] = OrderRecord(log[i].order)

(* No order reaches a venue behind a live port from a process that was not  *)
(* given allow_live_orders, however its profile is called (broker.py:230).  *)
LiveVenueNeedsPermission ==
  settings.live_port /\ ~settings.allow => \A o \in Orders : venue[o] = "none"
=============================================================================
