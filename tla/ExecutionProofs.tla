-------------------------- MODULE ExecutionProofs --------------------------
(***************************************************************************)
(* What Execution promises for any set of orders, any number of executions *)
(* that complete one, and any number of retries and lost connections; and  *)
(* what the fold of core/position.py promises of the fills that come of    *)
(* them, for any prices, sizes, fees and marks, and histories of any       *)
(* length.                                                                 *)
(***************************************************************************)
EXTENDS Execution, PositionFold, FiniteSetTheorems, SequenceTheorems, WellFoundedInduction, TLAPS

Outcomes == {"idle", "connecting", "connected", "accepted", "refused", "rejected", "unreachable"}

(* Only an accepted order is at the venue, we listen to it, and one that may *)
(* still trade is not complete.                                            *)
Lives(o) ==
  /\ call[o] = "accepted" => o \in working
  /\ call[o] # "accepted" => o \notin working /\ venue[o] = "none"
  /\ venue[o] = "none" => executed[o] = 0
  /\ venue[o] = "live" => executed[o] < Size

(* Whoever listens to an order has recorded it. *)
ListenersAreRecorded ==
  \A o \in working : \E j \in DOMAIN log : log[j] = OrderRecord(o)

(* Without the permission no submit gets past the guard. *)
StopsAtTheGuard ==
  settings.live_port /\ ~settings.allow => \A o \in Orders : call[o] \in {"idle", "refused"}

IndInv ==
  /\ TypeOK
  /\ \A o \in Orders : Lives(o)
  /\ ListenersAreRecorded
  /\ OrderIsRecordedBeforeItsFills
  /\ StopsAtTheGuard
-----------------------------------------------------------------------------
(* What load_settings resolves has a profile, a port and a permission,      *)
(* whatever the environment overrides (config.py).                         *)
LEMMA SettingsResolve ==
  ASSUME NEW profile \in Profiles, NEW env \in Environments
  PROVE  Resolved(profile, env) \in [profile : Profiles, live_port : BOOLEAN, allow : BOOLEAN]
<1>1. PICK names \in SUBSET {"live_port", "allow"} : env \in [names -> BOOLEAN]
  BY DEF Environments
<1>2. DOMAIN FromFile(profile) = {"profile", "live_port", "allow"}
  BY DEF FromFile
<1>3. "profile" \notin DOMAIN env
  BY <1>1
<1>4. Resolved(profile, env).profile \in Profiles
  BY <1>2, <1>3 DEF Resolved, FromFile
<1>5. Resolved(profile, env).live_port \in BOOLEAN
  BY <1>1, <1>2 DEF Resolved, FromFile
<1>6. Resolved(profile, env).allow \in BOOLEAN
  BY <1>1, <1>2 DEF Resolved, FromFile
<1>7. Resolved(profile, env)
        = [profile |-> Resolved(profile, env).profile, live_port |-> Resolved(profile, env).live_port,
           allow |-> Resolved(profile, env).allow]
  BY <1>2 DEF Resolved
<1> QED
  BY <1>4, <1>5, <1>6, <1>7

LEMMA InitEstablishes ==
  Init => IndInv
<1> SUFFICES ASSUME Init PROVE IndInv
  OBVIOUS
<1> USE SizeIsPositive, BoundsAreNatural DEF Init
<1>1. settings \in [profile : Profiles, live_port : BOOLEAN, allow : BOOLEAN]
  BY SettingsResolve
<1>2. TypeOK
  <2>1. log \in Seq(Records) /\ wire \subseteq Report /\ working \subseteq Orders
    OBVIOUS
  <2>2. connected \in BOOLEAN
    OBVIOUS
  <2>5. drops \in 0 .. MaxDrops
    OBVIOUS
  <2>3. tries \in [Orders -> 0 .. MaxTries] /\ executed \in [Orders -> 0 .. Size]
    OBVIOUS
  <2>4. call \in [Orders -> Outcomes] /\ venue \in [Orders -> {"none", "live", "dead"}]
    BY DEF Outcomes
  <2> QED
    BY <1>1, <2>1, <2>2, <2>3, <2>4, <2>5 DEF TypeOK, Outcomes
<1>3. \A o \in Orders : Lives(o)
  BY DEF Lives
<1>4. ListenersAreRecorded /\ OrderIsRecordedBeforeItsFills
  BY DEF ListenersAreRecorded, OrderIsRecordedBeforeItsFills
<1>5. StopsAtTheGuard
  BY DEF StopsAtTheGuard
<1> QED
  BY <1>2, <1>3, <1>4, <1>5 DEF IndInv

(* A record appended behind the others leaves every order recorded that was, *)
(* and every earlier fill behind its order.                                 *)
LEMMA AppendingKeepsTheOrder ==
  ASSUME log \in Seq(Records), NEW record \in Records, log' = Append(log, record),
         OrderIsRecordedBeforeItsFills, ListenersAreRecorded,
         record.kind = "fill" => record.order \in working
  PROVE  /\ OrderIsRecordedBeforeItsFills'
         /\ \A o \in working : \E j \in DOMAIN log' : log'[j] = OrderRecord(o)
         /\ \E j \in DOMAIN log' : log'[j] = record
<1>1. /\ Len(log') = Len(log) + 1
      /\ DOMAIN log = 1 .. Len(log) /\ DOMAIN log' = 1 .. Len(log) + 1
      /\ Len(log) \in Nat
      /\ \A i \in 1 .. Len(log) : log'[i] = log[i]
      /\ log'[Len(log) + 1] = record
  OBVIOUS
<1>2. ASSUME NEW i \in DOMAIN log', log'[i].kind = "fill"
      PROVE  \E j \in 1 .. i - 1 : log'[j] = OrderRecord(log'[i].order)
  <2>1. CASE i = Len(log) + 1
    <3>1. PICK j \in DOMAIN log : log[j] = OrderRecord(record.order)
      BY <1>1, <1>2, <2>1 DEF ListenersAreRecorded
    <3> QED
      BY <1>1, <2>1, <3>1
  <2>2. CASE i \in 1 .. Len(log)
    <3>1. PICK j \in 1 .. i - 1 : log[j] = OrderRecord(log[i].order)
      BY <1>1, <1>2, <2>2 DEF OrderIsRecordedBeforeItsFills
    <3> QED
      BY <1>1, <2>2, <3>1
  <2> QED
    BY <1>1, <2>1, <2>2
<1>3. OrderIsRecordedBeforeItsFills'
  BY <1>2 DEF OrderIsRecordedBeforeItsFills, OrderRecord
<1>4. \A o \in working : \E j \in DOMAIN log' : log'[j] = OrderRecord(o)
  BY <1>1 DEF ListenersAreRecorded
<1> QED
  BY <1>1, <1>3, <1>4

(* A step that leaves log, working and the venue alone and only moves where *)
(* one submit stands, short of acceptance.                                 *)
LEMMA RefusingKeeps ==
  ASSUME IndInv, NEW o \in Orders, NEW outcome \in Outcomes \ {"accepted"},
         call[o] # "accepted", Refuse(o, outcome),
         UNCHANGED <<settings, executed>>,
         settings.live_port /\ ~settings.allow => outcome = "refused",
         connected' \in BOOLEAN, drops' \in 0 .. MaxDrops, wire' \subseteq Report,
         tries' \in [Orders -> 0 .. MaxTries]
  PROVE  IndInv'
<1> USE DEF IndInv, Refuse
<1>1. TypeOK'
  BY DEF TypeOK, Outcomes
<1>2. (\A p \in Orders : Lives(p))'
  BY DEF Lives, TypeOK
<1>3. ListenersAreRecorded' /\ OrderIsRecordedBeforeItsFills'
  BY DEF ListenersAreRecorded, OrderIsRecordedBeforeItsFills, OrderRecord
<1>4. StopsAtTheGuard'
  BY DEF StopsAtTheGuard, TypeOK
<1> QED
  BY <1>1, <1>2, <1>3, <1>4

(* placeOrder and the record of the order. *)
LEMMA PlacingKeeps ==
  ASSUME IndInv, NEW o \in Orders, call[o] # "accepted", Place(o), GuardPasses,
         UNCHANGED <<settings, connected, drops, executed, wire>>,
         tries' \in [Orders -> 0 .. MaxTries]
  PROVE  IndInv'
<1> USE DEF IndInv, Place
<1>1. OrderRecord(o) \in Records
  BY DEF OrderRecord, Records
<1>2. log \in Seq(Records)
  BY DEF TypeOK
<1>3. log' \in Seq(Records)
  BY <1>1, <1>2
<1>4. TypeOK'
  BY <1>3 DEF TypeOK
<1>5. (\A p \in Orders : Lives(p))'
  BY SizeIsPositive DEF Lives, TypeOK
<1>6. OrderRecord(o).kind = "order"
  BY DEF OrderRecord
<1>7. /\ OrderIsRecordedBeforeItsFills'
      /\ \A p \in working : \E j \in DOMAIN log' : log'[j] = OrderRecord(p)
      /\ \E j \in DOMAIN log' : log'[j] = OrderRecord(o)
  BY <1>1, <1>2, <1>6, AppendingKeepsTheOrder
<1>8. ListenersAreRecorded'
  BY <1>7 DEF ListenersAreRecorded, OrderRecord
<1>9. StopsAtTheGuard'
  BY DEF StopsAtTheGuard, GuardPasses
<1> QED
  BY <1>4, <1>5, <1>7, <1>8, <1>9

LEMMA StepKeeps ==
  IndInv /\ [Next]_vars => IndInv'
<1> SUFFICES ASSUME IndInv, [Next]_vars PROVE IndInv'
  OBVIOUS
<1> USE SizeIsPositive, BoundsAreNatural
<1>1. ASSUME NEW o \in Orders, Submit(o) PROVE IndInv'
  <2>1. call[o] # "accepted" /\ UNCHANGED <<settings, executed, connected, drops, wire>>
    BY <1>1 DEF Submit
  <2>2. /\ tries' \in [Orders -> 0 .. MaxTries]
        /\ connected' \in BOOLEAN /\ drops' \in 0 .. MaxDrops /\ wire' \subseteq Report
    BY <1>1 DEF Submit, IndInv, TypeOK
  <2>3. CASE ~GuardPasses /\ Refuse(o, "refused")
    BY <2>1, <2>2, <2>3, RefusingKeeps DEF Outcomes
  <2>4. CASE GuardPasses /\ ~connected /\ Refuse(o, "connecting")
    BY <2>1, <2>2, <2>4, RefusingKeeps DEF Outcomes, GuardPasses
  <2>5. CASE GuardPasses /\ Refuse(o, "rejected")
    BY <2>1, <2>2, <2>5, RefusingKeeps DEF Outcomes, GuardPasses
  <2>6. CASE GuardPasses /\ Place(o)
    BY <2>1, <2>2, <2>6, PlacingKeeps
  <2> QED
    BY <1>1, <2>3, <2>4, <2>5, <2>6 DEF Submit, PlaceOrReject
<1>2. ASSUME NEW o \in Orders, LinkUp(o) PROVE IndInv'
  <2>1. wire' \subseteq Report
    BY <1>2 DEF LinkUp, Known, IndInv, TypeOK
  <2>2. Refuse(o, "connected") /\ UNCHANGED <<settings, executed>>
    BY <1>2 DEF LinkUp, Refuse
  <2>3. ~(settings.live_port /\ ~settings.allow)
    BY <1>2 DEF LinkUp, IndInv, StopsAtTheGuard
  <2>4. /\ call[o] # "accepted" /\ connected' \in BOOLEAN
        /\ drops' \in 0 .. MaxDrops /\ tries' \in [Orders -> 0 .. MaxTries]
    BY <1>2 DEF LinkUp, IndInv, TypeOK
  <2> QED
    BY <2>1, <2>2, <2>3, <2>4, RefusingKeeps DEF Outcomes
<1>3. ASSUME NEW o \in Orders, LinkFails(o) PROVE IndInv'
  <2>1. ~(settings.live_port /\ ~settings.allow)
    BY <1>3 DEF LinkFails, IndInv, StopsAtTheGuard
  <2>2. /\ call[o] # "accepted" /\ Refuse(o, "unreachable") /\ UNCHANGED <<settings, executed>>
        /\ connected' \in BOOLEAN /\ drops' \in 0 .. MaxDrops /\ wire' \subseteq Report
        /\ tries' \in [Orders -> 0 .. MaxTries]
    BY <1>3 DEF LinkFails, IndInv, TypeOK
  <2> QED
    BY <2>1, <2>2, RefusingKeeps DEF Outcomes
<1>4. ASSUME NEW o \in Orders, Resume(o) PROVE IndInv'
  <2>1. ~(settings.live_port /\ ~settings.allow)
    BY <1>4 DEF Resume, IndInv, StopsAtTheGuard
  <2>2. GuardPasses
    BY <2>1 DEF GuardPasses
  <2>3. /\ call[o] # "accepted" /\ UNCHANGED <<settings, connected, drops, executed, wire>>
        /\ connected' \in BOOLEAN /\ drops' \in 0 .. MaxDrops /\ wire' \subseteq Report
        /\ tries' \in [Orders -> 0 .. MaxTries]
    BY <1>4 DEF Resume, IndInv, TypeOK
  <2>4. CASE Place(o)
    BY <2>2, <2>3, <2>4, PlacingKeeps
  <2>5. CASE Refuse(o, "rejected")
    BY <2>1, <2>3, <2>5, RefusingKeeps DEF Outcomes
  <2> QED
    BY <1>4, <2>4, <2>5 DEF Resume, PlaceOrReject
<1>5. ASSUME NEW o \in Orders, Cancel(o) PROVE IndInv'
  <2> USE <1>5 DEF IndInv, Cancel
  <2>1. call[o] = "accepted"
    BY DEF Lives
  <2>2. TypeOK'
    BY SMTT(30) DEF TypeOK
  <2>3. (\A p \in Orders : Lives(p))'
    BY <2>1 DEF Lives, TypeOK
  <2>4. ListenersAreRecorded' /\ OrderIsRecordedBeforeItsFills'
    BY DEF ListenersAreRecorded, OrderIsRecordedBeforeItsFills, OrderRecord
  <2>5. StopsAtTheGuard'
    BY DEF StopsAtTheGuard
  <2> QED
    BY <2>2, <2>3, <2>4, <2>5
<1>6. ASSUME NEW o \in Orders, Execute(o) PROVE IndInv'
  <2> USE <1>6 DEF IndInv, Execute
  <2>1. executed[o] \in 0 .. Size - 1 /\ executed'[o] = executed[o] + 1
    BY DEF Lives, TypeOK
  <2>2. executed' \in [Orders -> 0 .. Size]
    BY <2>1 DEF TypeOK
  <2>3. [order |-> o, exec |-> executed'[o]] \in Report
    BY <2>1 DEF Report
  <2>4. TypeOK'
    <3>1. venue' \in [Orders -> {"none", "live", "dead"}]
      BY DEF TypeOK
    <3>2. wire' \subseteq Report
      BY <2>3 DEF TypeOK
    <3> QED
      BY <2>2, <3>1, <3>2 DEF TypeOK
  <2>5. ASSUME NEW p \in Orders PROVE Lives(p)'
    <3>1. CASE p = o
      <4>1. call[o] = "accepted"
        BY DEF Lives
      <4>2. venue' = IF executed'[o] = Size THEN [venue EXCEPT ![o] = "dead"] ELSE venue
        OBVIOUS
      <4>3. venue'[o] \in {"live", "dead"} /\ (venue'[o] = "live" => executed'[o] # Size)
        BY <4>2 DEF TypeOK
      <4> QED
        BY <2>1, <3>1, <4>1, <4>3 DEF Lives
    <3>2. CASE p # o
      BY <3>2 DEF Lives, TypeOK
    <3> QED
      BY <3>1, <3>2
  <2>6. ListenersAreRecorded' /\ OrderIsRecordedBeforeItsFills'
    BY DEF ListenersAreRecorded, OrderIsRecordedBeforeItsFills, OrderRecord
  <2>7. StopsAtTheGuard'
    BY DEF StopsAtTheGuard
  <2> QED
    BY <2>4, <2>5, <2>6, <2>7
<1>7. ASSUME NEW report \in Report, HandleFill(report) PROVE IndInv'
  <2> USE <1>7 DEF IndInv, HandleFill
  <2>1. report.order \in Orders
    BY DEF Report
  <2>2. FillRecord(report) \in Records
    BY <2>1 DEF FillRecord, Records
  <2>3. log \in Seq(Records)
    BY DEF TypeOK
  <2>4. log' \in Seq(Records)
    BY <2>2, <2>3
  <2>5. TypeOK'
    BY <2>4 DEF TypeOK
  <2>6. (\A p \in Orders : Lives(p))'
    BY DEF Lives
  <2>7. ListenersAreRecorded' /\ OrderIsRecordedBeforeItsFills'
    <3>1. CASE report.order \in working
      <4>1. FillRecord(report).kind = "fill" => FillRecord(report).order \in working
        BY <3>1 DEF FillRecord
      <4>2. /\ OrderIsRecordedBeforeItsFills'
            /\ \A o \in working : \E j \in DOMAIN log' : log'[j] = OrderRecord(o)
        BY <2>2, <2>3, <3>1, <4>1, AppendingKeepsTheOrder
      <4> QED
        BY <4>2 DEF ListenersAreRecorded, OrderRecord
    <3>2. CASE report.order \notin working
      BY <3>2 DEF ListenersAreRecorded, OrderIsRecordedBeforeItsFills, OrderRecord
    <3> QED
      BY <3>1, <3>2
  <2>8. StopsAtTheGuard'
    BY DEF StopsAtTheGuard
  <2> QED
    BY <2>5, <2>6, <2>7, <2>8
<1>8. ASSUME Drop PROVE IndInv'
  <2> USE <1>8 DEF IndInv, Drop
  <2>1. TypeOK'
    <3>1. connected' \in BOOLEAN
      OBVIOUS
    <3>2. drops' \in 0 .. MaxDrops
      BY DEF TypeOK
    <3> QED
      BY <3>1, <3>2 DEF TypeOK
  <2>2. (\A o \in Orders : Lives(o))'
    BY DEF Lives
  <2>3. ListenersAreRecorded' /\ OrderIsRecordedBeforeItsFills' /\ StopsAtTheGuard'
    BY DEF ListenersAreRecorded, OrderIsRecordedBeforeItsFills, OrderRecord, StopsAtTheGuard
  <2> QED
    BY <2>1, <2>2, <2>3
<1>9. CASE UNCHANGED vars
  BY <1>9 DEF vars, IndInv, TypeOK, Lives, ListenersAreRecorded, OrderIsRecordedBeforeItsFills,
              OrderRecord, StopsAtTheGuard
<1> QED
  BY <1>1, <1>2, <1>3, <1>4, <1>5, <1>6, <1>7, <1>8, <1>9 DEF Next
-----------------------------------------------------------------------------
(* The strengthened invariant holds in every reachable state of the session *)
(* (adapters/ibkr/broker.py, connection.py).                               *)
THEOREM ExecutionInvariant ==
  Spec => []IndInv
<1> QED
  BY InitEstablishes, StepKeeps, PTL DEF Spec

(* The session's variables keep their types: no order is executed past its  *)
(* size, and the wire and the log hold only reports of its orders.         *)
THEOREM ExecutionTypeOK ==
  Spec => []TypeOK
<1>1. IndInv => TypeOK
  BY DEF IndInv
<1> QED
  BY <1>1, ExecutionInvariant, PTL

(* Whatever drops, retries and re-sent reports come between, every fill of   *)
(* the log stands behind the record of its order (broker.py:198-203).      *)
THEOREM OrdersAreRecordedFirst ==
  Spec => []OrderIsRecordedBeforeItsFills
<1>1. IndInv => OrderIsRecordedBeforeItsFills
  BY DEF IndInv
<1> QED
  BY <1>1, ExecutionInvariant, PTL

(* Whatever the environment and the profile's file say of the port, nothing *)
(* is at a venue behind a live one without the permission (broker.py:230). *)
THEOREM NoLiveOrderWithoutPermission ==
  Spec => []LiveVenueNeedsPermission
<1>1. IndInv => LiveVenueNeedsPermission
  BY DEF IndInv, LiveVenueNeedsPermission, StopsAtTheGuard, Lives
<1> QED
  BY <1>1, ExecutionInvariant, PTL
-----------------------------------------------------------------------------
(* What came over the wire was executed, what was executed and is not on a  *)
(* wire is in the log, and nothing else is.                                *)
Recorded(report) == \E i \in DOMAIN log : log[i] = FillRecord(report)
NothingInvented ==
  /\ wire \subseteq Known
  /\ \A i \in DOMAIN log : log[i].kind = "fill" => \E report \in Known : log[i] = FillRecord(report)
NothingMissed == connected => \A report \in Known : report \in wire \/ Recorded(report)

FillsOfTheLog == {log[i] : i \in {j \in DOMAIN log : log[j].kind = "fill"}}
LogHoldsTheExecutions ==
  connected /\ wire = {} => FillsOfTheLog = {FillRecord(report) : report \in Known}

(* Executions only ever add to what is known, and a step that does not      *)
(* execute leaves it.                                                      *)
LEMMA KnownGrows ==
  ASSUME IndInv, \/ UNCHANGED executed
                 \/ \E o \in Orders : Execute(o)
  PROVE  Known \subseteq Known'
<1>1. CASE UNCHANGED executed
  BY <1>1 DEF Known
<1>2. ASSUME NEW o \in Orders, Execute(o) PROVE Known \subseteq Known'
  <2>1. ASSUME NEW p \in Orders PROVE executed[p] \in Nat /\ executed'[p] \in Nat /\ executed[p] <= executed'[p]
    BY <1>2, SizeIsPositive DEF Execute, IndInv, TypeOK
  <2> QED
    BY <2>1 DEF Known, Report
<1> QED
  BY <1>1, <1>2

(* A record appended to the log keeps both, if a fill it is of is known. *)
LEMMA AppendingAccounts ==
  ASSUME log \in Seq(Records), NEW record \in Records, log' = Append(log, record),
         NothingInvented, UNCHANGED executed,
         record.kind = "fill" => \E report \in Known : record = FillRecord(report)
  PROVE  /\ \A i \in DOMAIN log' : log'[i].kind = "fill" =>
              \E report \in Known' : log'[i] = FillRecord(report)
         /\ \A report \in Known : Recorded(report) => Recorded(report)'
         /\ \E i \in DOMAIN log' : log'[i] = record
<1>1. /\ DOMAIN log = 1 .. Len(log) /\ DOMAIN log' = 1 .. Len(log) + 1
      /\ Len(log) \in Nat
      /\ \A i \in 1 .. Len(log) : log'[i] = log[i]
      /\ log'[Len(log) + 1] = record
  OBVIOUS
<1>2. Known' = Known
  BY DEF Known
<1>3. ASSUME NEW i \in DOMAIN log', log'[i].kind = "fill"
      PROVE  \E report \in Known' : log'[i] = FillRecord(report)
  <2>1. CASE i = Len(log) + 1
    BY <1>1, <1>2, <1>3, <2>1
  <2>2. CASE i \in 1 .. Len(log)
    BY <1>1, <1>2, <1>3, <2>2 DEF NothingInvented
  <2> QED
    BY <1>1, <2>1, <2>2
<1>4. ASSUME NEW report \in Known, Recorded(report) PROVE Recorded(report)'
  <2>1. PICK i \in DOMAIN log : log[i] = FillRecord(report)
    BY <1>4 DEF Recorded
  <2>2. i \in DOMAIN log' /\ log'[i] = FillRecord(report)
    BY <1>1, <2>1
  <2> QED
    BY <2>2 DEF Recorded, FillRecord, FillId
<1> QED
  BY <1>1, <1>3, <1>4

LEMMA StepAccounts ==
  IndInv /\ NothingInvented /\ NothingMissed /\ [Next]_vars => (NothingInvented /\ NothingMissed)'
<1> SUFFICES ASSUME IndInv, NothingInvented, NothingMissed, [Next]_vars
             PROVE  NothingInvented' /\ NothingMissed'
  OBVIOUS
<1> USE DEF NothingInvented, NothingMissed
<1>1. ASSUME NEW o \in Orders, Place(o), UNCHANGED <<connected, executed, wire>>
      PROVE  NothingInvented' /\ NothingMissed'
  <2>1. /\ OrderRecord(o) \in Records /\ OrderRecord(o).kind # "fill"
        /\ log \in Seq(Records) /\ log' = Append(log, OrderRecord(o))
    BY <1>1 DEF OrderRecord, Records, IndInv, TypeOK, Place
  <2>2. /\ \A i \in DOMAIN log' : log'[i].kind = "fill" =>
             \E report \in Known' : log'[i] = FillRecord(report)
        /\ \A report \in Known : Recorded(report) => Recorded(report)'
    BY <1>1, <2>1, AppendingAccounts
  <2>3. Known' = Known
    BY <1>1 DEF Known
  <2> QED
    BY <1>1, <2>2, <2>3 DEF FillRecord, FillId
<1>2. ASSUME UNCHANGED <<log, executed, wire, connected>>
      PROVE  NothingInvented' /\ NothingMissed'
  BY <1>2 DEF Known, Recorded, FillRecord, FillId
<1>3. ASSUME NEW o \in Orders, Submit(o) \/ Resume(o) \/ LinkFails(o) \/ Cancel(o)
      PROVE  NothingInvented' /\ NothingMissed'
  <2>1. UNCHANGED <<connected, executed, wire>> /\ (Place(o) \/ UNCHANGED log)
    BY <1>3 DEF Submit, Resume, LinkFails, Cancel, PlaceOrReject, Refuse
  <2> QED
    BY <1>1, <1>2, <2>1
<1>4. ASSUME NEW o \in Orders, LinkUp(o) PROVE NothingInvented' /\ NothingMissed'
  <2>1. Known' = Known /\ log' = log /\ wire' = wire \cup Known
    BY <1>4 DEF LinkUp, Known
  <2> QED
    BY <2>1 DEF FillRecord, FillId
<1>5. ASSUME NEW report \in Report, HandleFill(report) PROVE NothingInvented' /\ NothingMissed'
  <2>1. report \in Known /\ Known' = Known
    BY <1>5 DEF HandleFill, Known
  <2>2. report.order \in Orders /\ report.exec \in 1 .. Size /\ report.exec <= executed[report.order]
    BY <2>1 DEF Known, Report
  <2>3. executed[report.order] # 0
    BY <2>2
  <2>4. report.order \in working
    BY <2>2, <2>3 DEF IndInv, Lives
  <2>5. /\ FillRecord(report) \in Records
        /\ log \in Seq(Records) /\ log' = Append(log, FillRecord(report))
    BY <1>5, <2>2, <2>4 DEF FillRecord, Records, IndInv, TypeOK, HandleFill
  <2>6. UNCHANGED executed
    BY <1>5 DEF HandleFill
  <2>7. /\ \A i \in DOMAIN log' : log'[i].kind = "fill" =>
             \E r \in Known' : log'[i] = FillRecord(r)
        /\ \A r \in Known : Recorded(r) => Recorded(r)'
        /\ \E i \in DOMAIN log' : log'[i] = FillRecord(report)
    BY <2>1, <2>5, <2>6, AppendingAccounts
  <2>8. Recorded(report)'
    BY <2>7 DEF Recorded, FillRecord, FillId
  <2>9. wire' = wire \ {report} /\ connected' = connected
    BY <1>5 DEF HandleFill
  <2>10. NothingInvented'
    BY <2>1, <2>7, <2>9 DEF FillRecord, FillId
  <2>11. NothingMissed'
    BY <2>1, <2>7, <2>8, <2>9
  <2> QED
    BY <2>10, <2>11
<1>6. ASSUME NEW o \in Orders, Execute(o) PROVE NothingInvented' /\ NothingMissed'
  <2>1. Known \subseteq Known'
    BY <1>6, KnownGrows
  <2>2. executed[o] \in 0 .. Size - 1 /\ executed'[o] = executed[o] + 1
    BY <1>6, SizeIsPositive DEF Execute, IndInv, Lives, TypeOK
  <2>3. [order |-> o, exec |-> executed'[o]] \in Known'
    BY <2>2, SizeIsPositive DEF Known, Report
  <2>4. ASSUME NEW report \in Known' PROVE report \in Known \/ report = [order |-> o, exec |-> executed'[o]]
    <3>1. CASE report.order = o
      BY <2>2, <3>1, SizeIsPositive DEF Known, Report
    <3>2. CASE report.order # o
      BY <1>6, <3>2 DEF Known, Report, Execute, IndInv, TypeOK
    <3> QED
      BY <3>1, <3>2
  <2>5. log' = log /\ connected' = connected
    BY <1>6 DEF Execute
  <2>6. wire' = IF connected THEN wire \cup {[order |-> o, exec |-> executed'[o]]} ELSE wire
    BY <1>6 DEF Execute
  <2>7. NothingInvented'
    BY <2>1, <2>3, <2>5, <2>6 DEF FillRecord, FillId
  <2>8. NothingMissed'
    BY <2>4, <2>5, <2>6 DEF Recorded, FillRecord, FillId
  <2> QED
    BY <2>7, <2>8
<1>7. ASSUME Drop PROVE NothingInvented' /\ NothingMissed'
  BY <1>7 DEF Drop, Known, FillRecord, FillId
<1>8. CASE UNCHANGED vars
  BY <1>2, <1>8 DEF vars
<1> QED
  BY <1>3, <1>4, <1>5, <1>6, <1>7, <1>8 DEF Next

(* Whenever the link is up and nothing is on its way, the fills of the log  *)
(* are the executions the venue made, every one and no other, whatever was  *)
(* dropped, refused, cancelled, retried or re-sent (broker.py:290-324).    *)
THEOREM EveryExecutionIsRecorded ==
  Spec => []LogHoldsTheExecutions
<1>1. Init => NothingInvented /\ NothingMissed
  BY DEF Init, NothingInvented, NothingMissed
<1>2. IndInv /\ NothingInvented /\ NothingMissed => LogHoldsTheExecutions
  <2> SUFFICES ASSUME IndInv, NothingInvented, NothingMissed, connected, wire = {}
               PROVE  FillsOfTheLog = {FillRecord(report) : report \in Known}
    BY DEF LogHoldsTheExecutions
  <2>1. FillsOfTheLog \subseteq {FillRecord(report) : report \in Known}
    BY DEF FillsOfTheLog, NothingInvented
  <2>2. \A report \in Known : FillRecord(report).kind = "fill"
    BY DEF FillRecord
  <2>3. {FillRecord(report) : report \in Known} \subseteq FillsOfTheLog
    BY <2>2 DEF FillsOfTheLog, NothingMissed, Recorded
  <2> QED
    BY <2>1, <2>3
<1> QED
  BY <1>1, <1>2, ExecutionInvariant, StepAccounts, PTL DEF Spec

-----------------------------------------------------------------------------
(* The fold in closed form: after k executions of one share at one price the *)
(* position is their net, at that price.                                    *)
HowMany(fills, set, k) == Cardinality({j \in 1..k : fills[j].order \in set})

NetPosition(net, k) ==
  [side     |-> IF net > 0 THEN "BUY" ELSE IF net < 0 THEN "SELL" ELSE "NONE",
   quantity |-> IF net < 0 THEN -net ELSE net,
   average  |-> IF net = 0 THEN 0 ELSE 1,
   realised |-> 0, fees |-> 0, fills |-> k]

Net(fills, k) == HowMany(fills, Buys, k) - HowMany(fills, Orders \ Buys, k)

(* At the one price, what is left of an average is the price. *)
LEMMA EvenQuotient ==
  ASSUME NEW n \in Nat \ {0}
  PROVE  Quotient(n, n) = 1
<1>1. n \div n = 1 /\ n % n = 0
  BY SMT
<1> QED
  BY <1>1 DEF Quotient

LEMMA OneBought ==
  ASSUME NEW net \in Int, NEW k \in Nat, NEW record, record.order \in Buys
  PROVE  Apply(NetPosition(net, k), AsFill(record)) = NetPosition(net + 1, k + 1)
<1> DEFINE p == NetPosition(net, k)
           f == AsFill(record)
<1>1. f = [side |-> "BUY", quantity |-> 1, price |-> 1, commission |-> 0]
  BY DEF AsFill
<1>2. CASE net > 0
  <2>1. p = [side |-> "BUY", quantity |-> net, average |-> 1, realised |-> 0, fees |-> 0, fills |-> k]
    BY <1>2 DEF NetPosition
  <2>2. Weighted(p, f) = net + 1 /\ p.quantity + f.quantity = net + 1
    BY <1>1, <2>1 DEF Weighted
  <2>3. Quotient(net + 1, net + 1) = 1
    BY <1>2, EvenQuotient
  <2>4. Apply(p, f) = [side |-> "BUY", quantity |-> net + 1, average |-> 1, realised |-> 0,
                       fees |-> 0, fills |-> k + 1]
    BY <1>1, <2>1, <2>2, <2>3 DEF Apply, Increased, After
  <2> QED
    BY <1>2, <2>4 DEF NetPosition
<1>3. CASE net = 0
  <2>1. p = [side |-> "NONE", quantity |-> 0, average |-> 0, realised |-> 0, fees |-> 0, fills |-> k]
    BY <1>3 DEF NetPosition
  <2> QED
    BY <1>1, <1>3, <2>1 DEF NetPosition, Apply, Opened, After
<1>4. CASE net < 0
  <2>1. p = [side |-> "SELL", quantity |-> -net, average |-> 1, realised |-> 0, fees |-> 0, fills |-> k]
    BY <1>4 DEF NetPosition
  <2>2. Closing(p, f) = 1 /\ Sign(p.side) = -1
    BY <1>1, <1>4, <2>1 DEF Closing, Sign
  <2>3. Realised(p, f) = 0
    BY <1>1, <2>1, <2>2 DEF Realised
  <2>4. CASE net = -1
    <3>1. Apply(p, f) = Closed(p, f)
      BY <1>1, <2>1, <2>2, <2>4 DEF Apply, ReducedOrReversed
    <3> QED
      BY <1>1, <2>1, <2>3, <2>4, <3>1 DEF Closed, After, NetPosition, NoPrice
  <2>5. CASE net < -1
    <3>1. Apply(p, f) = Reduced(p, f)
      BY <1>1, <2>1, <2>2, <2>5 DEF Apply, ReducedOrReversed
    <3>2. Reduced(p, f) = [side |-> "SELL", quantity |-> -net - 1, average |-> 1, realised |-> 0,
                           fees |-> 0, fills |-> k + 1]
      BY <1>1, <2>1, <2>2, <2>3 DEF Reduced, After
    <3>3. -net - 1 = -(net + 1)
      OBVIOUS
    <3> QED
      BY <2>5, <3>1, <3>2, <3>3 DEF NetPosition
  <2> QED
    BY <1>4, <2>4, <2>5
<1> QED
  BY <1>2, <1>3, <1>4

LEMMA OneSold ==
  ASSUME NEW net \in Int, NEW k \in Nat, NEW record, record.order \notin Buys
  PROVE  Apply(NetPosition(net, k), AsFill(record)) = NetPosition(net - 1, k + 1)
<1> DEFINE p == NetPosition(net, k)
           f == AsFill(record)
<1>1. f = [side |-> "SELL", quantity |-> 1, price |-> 1, commission |-> 0]
  BY DEF AsFill
<1>2. CASE net < 0
  <2>1. p = [side |-> "SELL", quantity |-> -net, average |-> 1, realised |-> 0, fees |-> 0, fills |-> k]
    BY <1>2 DEF NetPosition
  <2>2. Weighted(p, f) = -net + 1 /\ p.quantity + f.quantity = -net + 1
    BY <1>1, <2>1 DEF Weighted
  <2>3. Quotient(-net + 1, -net + 1) = 1
    BY <1>2, EvenQuotient
  <2>4. Apply(p, f) = [side |-> "SELL", quantity |-> -net + 1, average |-> 1, realised |-> 0,
                       fees |-> 0, fills |-> k + 1]
    BY <1>1, <2>1, <2>2, <2>3 DEF Apply, Increased, After
  <2>5. -net + 1 = -(net - 1)
    OBVIOUS
  <2> QED
    BY <1>2, <2>4, <2>5 DEF NetPosition
<1>3. CASE net = 0
  <2>1. p = [side |-> "NONE", quantity |-> 0, average |-> 0, realised |-> 0, fees |-> 0, fills |-> k]
    BY <1>3 DEF NetPosition
  <2> QED
    BY <1>1, <1>3, <2>1 DEF NetPosition, Apply, Opened, After
<1>4. CASE net > 0
  <2>1. p = [side |-> "BUY", quantity |-> net, average |-> 1, realised |-> 0, fees |-> 0, fills |-> k]
    BY <1>4 DEF NetPosition
  <2>2. Closing(p, f) = 1 /\ Sign(p.side) = 1
    BY <1>1, <1>4, <2>1 DEF Closing, Sign
  <2>3. Realised(p, f) = 0
    BY <1>1, <2>1, <2>2 DEF Realised
  <2>4. CASE net = 1
    <3>1. Apply(p, f) = Closed(p, f)
      BY <1>1, <2>1, <2>2, <2>4 DEF Apply, ReducedOrReversed
    <3> QED
      BY <1>1, <2>1, <2>3, <2>4, <3>1 DEF Closed, After, NetPosition, NoPrice
  <2>5. CASE net > 1
    <3>1. Apply(p, f) = Reduced(p, f)
      BY <1>1, <2>1, <2>2, <2>5 DEF Apply, ReducedOrReversed
    <3>2. Reduced(p, f) = [side |-> "BUY", quantity |-> net - 1, average |-> 1, realised |-> 0,
                           fees |-> 0, fills |-> k + 1]
      BY <1>1, <2>1, <2>2, <2>3 DEF Reduced, After
    <3> QED
      BY <2>5, <3>1, <3>2 DEF NetPosition
  <2> QED
    BY <1>4, <2>4, <2>5
<1> QED
  BY <1>2, <1>3, <1>4

(* One more of a sequence is one more of those it is counted among. *)
LEMMA OneMore ==
  ASSUME NEW fills, NEW set, NEW k \in Nat
  PROVE  /\ HowMany(fills, set, k) \in Nat
         /\ HowMany(fills, set, 0) = 0
         /\ HowMany(fills, set, k + 1) = IF fills[k + 1].order \in set
                                         THEN HowMany(fills, set, k) + 1
                                         ELSE HowMany(fills, set, k)
<1> DEFINE among(n) == {j \in 1..n : fills[j].order \in set}
<1>0. /\ HowMany(fills, set, 0) = Cardinality(among(0))
      /\ HowMany(fills, set, k) = Cardinality(among(k))
      /\ HowMany(fills, set, k + 1) = Cardinality(among(k + 1))
  BY DEF HowMany
<1>1. IsFiniteSet(among(k)) /\ Cardinality(among(k)) \in Nat /\ k + 1 \notin among(k)
  <2>1. IsFiniteSet(1..k) /\ among(k) \subseteq 1..k /\ k + 1 \notin 1..k
    BY FS_Interval
  <2> QED
    BY <2>1, FS_Subset, FS_CardinalityType
<1>2. fills[k + 1].order \in set => among(k + 1) = among(k) \cup {k + 1}
  OBVIOUS
<1>3. fills[k + 1].order \notin set => among(k + 1) = among(k)
  OBVIOUS
<1>4. HowMany(fills, set, 0) = 0
  <2>1. among(0) = {}
    OBVIOUS
  <2> QED
    BY <1>0, <2>1, FS_EmptySet
<1> HIDE DEF among
<1>5. Cardinality(among(k) \cup {k + 1}) = Cardinality(among(k)) + 1
  BY <1>1, FS_AddElement
<1>6. CASE fills[k + 1].order \in set
  BY <1>0, <1>1, <1>2, <1>4, <1>5, <1>6
<1>7. CASE fills[k + 1].order \notin set
  BY <1>0, <1>1, <1>3, <1>4, <1>7
<1> QED
  BY <1>6, <1>7

LEMMA NetMoves ==
  ASSUME NEW fills, NEW k \in Nat
  PROVE  /\ Net(fills, k) \in Int
         /\ Net(fills, 0) = 0
         /\ fills[k + 1].order \in Orders =>
              Net(fills, k + 1) = IF fills[k + 1].order \in Buys THEN Net(fills, k) + 1
                                  ELSE Net(fills, k) - 1
BY OneMore DEF Net

(* The natural numbers are well ordered. *)
LEMMA LeastOne ==
  ASSUME NEW S \in SUBSET Nat, S # {}
  PROVE  \E d \in S : \A e \in S : d <= e
<1> DEFINE Below == {1..d : d \in S}
<1>1. Below \in SUBSET FiniteSubsetsOf(Nat) /\ Below # {}
  <2>1. \A d \in S : IsFiniteSet(1..d) /\ 1..d \in SUBSET Nat
    BY FS_Interval
  <2> QED
    BY <2>1 DEF FiniteSubsetsOf
<1>2. PICK D \in Below : \A E \in Below : ~(<<E, D>> \in StrictSubsetOrdering(Nat))
  BY <1>1, WFMin, FS_StrictSubsetOrderingWellFounded
<1>3. PICK d \in S : D = 1..d
  OBVIOUS
<1>4. \A e \in S : d <= e
  <2> SUFFICES ASSUME NEW e \in S, e < d PROVE FALSE
    OBVIOUS
  <2>1. 1..e \subseteq 1..d /\ d \in 1..d /\ d \notin 1..e
    OBVIOUS
  <2>2. <<1..e, D>> \in StrictSubsetOrdering(Nat)
    BY <1>3, <2>1 DEF StrictSubsetOrdering
  <2> QED
    BY <1>2, <2>2
<1> QED
  BY <1>4

(* Folding executions of one share nets what was bought against what was sold. *)
LEMMA FoldedIsTheNet ==
  ASSUME NEW fills, Len(fills) \in Nat, \A k \in 1..Len(fills) : fills[k].order \in Orders
  PROVE  Folded(fills) = NetPosition(Net(fills, Len(fills)), Len(fills))
<1> DEFINE Obeys(h) == h = [k \in 0..Len(fills) |->
                              IF k = 0 THEN Flat ELSE Apply(h[k - 1], AsFill(fills[k]))]
           net == [k \in 0..Len(fills) |-> NetPosition(Net(fills, k), k)]
           fold == CHOOSE h : Obeys(h)
<1>1. Folded(fills) = fold[Len(fills)]
  BY DEF Folded
<1>2. ASSUME NEW k \in 0..Len(fills)
      PROVE  net[k] = IF k = 0 THEN Flat ELSE Apply(net[k - 1], AsFill(fills[k]))
  <2>1. CASE k = 0
    BY <2>1, NetMoves DEF NetPosition, Flat, NoPrice
  <2>2. CASE k # 0
    <3> DEFINE j == k - 1
    <3>1. j \in Nat /\ j \in 0..Len(fills) /\ j + 1 = k /\ fills[k].order \in Orders
      BY <2>2
    <3>2. net[j] = NetPosition(Net(fills, j), j) /\ net[k] = NetPosition(Net(fills, j + 1), j + 1)
      BY <3>1
    <3>3. Net(fills, j) \in Int
      BY <3>1, NetMoves
    <3> HIDE DEF j, net
    <3>4. CASE fills[k].order \in Buys
      <4>1. Net(fills, j + 1) = Net(fills, j) + 1
        BY <3>1, <3>4, NetMoves
      <4>2. Apply(NetPosition(Net(fills, j), j), AsFill(fills[k])) = NetPosition(Net(fills, j) + 1, j + 1)
        BY <3>1, <3>3, <3>4, OneBought
      <4> QED
        BY <2>2, <3>2, <4>1, <4>2 DEF j
    <3>5. CASE fills[k].order \notin Buys
      <4>1. Net(fills, j + 1) = Net(fills, j) - 1
        BY <3>1, <3>5, NetMoves
      <4>2. Apply(NetPosition(Net(fills, j), j), AsFill(fills[k])) = NetPosition(Net(fills, j) - 1, j + 1)
        BY <3>1, <3>3, <3>5, OneSold
      <4> QED
        BY <2>2, <3>2, <4>1, <4>2 DEF j
    <3> QED
      BY <3>4, <3>5
  <2> QED
    BY <2>1, <2>2
<1>3. Obeys(net)
  <2> QED
    BY <1>2
<1>4. Obeys(fold)
  BY <1>3
<1>5. ASSUME NEW k \in 0..Len(fills)
      PROVE  fold[k] = IF k = 0 THEN Flat ELSE Apply(fold[k - 1], AsFill(fills[k]))
  <2> HIDE DEF fold
  <2> QED
    BY <1>4
<1> HIDE DEF fold, net
<1>6. \A k \in 0..Len(fills) : fold[k] = net[k]
  <2> DEFINE differ == {k \in 0..Len(fills) : fold[k] # net[k]}
  <2> SUFFICES ASSUME differ # {} PROVE FALSE
    OBVIOUS
  <2>1. PICK k \in differ : \A e \in differ : k <= e
    <3>1. differ \in SUBSET Nat
      OBVIOUS
    <3> QED
      BY <3>1, LeastOne
  <2>2. k # 0 => k - 1 \in 0..Len(fills) /\ k - 1 \notin differ
    BY <2>1
  <2> QED
    BY <1>2, <1>5, <2>1, <2>2
<1> QED
  BY <1>1, <1>6 DEF net

LEMMA FoldedQuantity ==
  ASSUME NEW fills, Len(fills) \in Nat, \A k \in 1..Len(fills) : fills[k].order \in Orders
  PROVE  SignedQuantity(Folded(fills)) = Net(fills, Len(fills))
<1>1. Net(fills, Len(fills)) \in Int
  BY NetMoves
<1>2. \A net \in Int, k \in Nat : SignedQuantity(NetPosition(net, k)) = net
  BY DEF SignedQuantity, NetPosition, Sign
<1> QED
  BY <1>1, <1>2, FoldedIsTheNet

(* Where a number stands among those of a set. *)
Standing(set, i) == Cardinality({j \in set : j <= i})

LEMMA StandingsRise ==
  ASSUME NEW set \in SUBSET Nat, IsFiniteSet(set), NEW i \in set
  PROVE  /\ Cardinality(set) \in Nat /\ Standing(set, i) \in 1..Cardinality(set)
         /\ \A j \in set : j < i => Standing(set, j) < Standing(set, i)
<1> DEFINE upto(k) == {j \in set : j <= k}
<1>1. Cardinality(set) \in Nat
  BY FS_CardinalityType
<1>2. \A k \in set : /\ upto(k) \subseteq set /\ k \in upto(k) /\ IsFiniteSet(upto(k))
                     /\ Cardinality(upto(k)) \in Nat /\ Cardinality(upto(k)) <= Cardinality(set)
                     /\ Standing(set, k) = Cardinality(upto(k))
  <2> SUFFICES ASSUME NEW k \in set
               PROVE  /\ upto(k) \subseteq set /\ k \in upto(k) /\ IsFiniteSet(upto(k))
                      /\ Cardinality(upto(k)) \in Nat /\ Cardinality(upto(k)) <= Cardinality(set)
                      /\ Standing(set, k) = Cardinality(upto(k))
    OBVIOUS
  <2>1. upto(k) \subseteq set /\ k \in upto(k) /\ Standing(set, k) = Cardinality(upto(k))
    BY DEF Standing
  <2> HIDE DEF upto
  <2>2. IsFiniteSet(upto(k)) /\ Cardinality(upto(k)) <= Cardinality(set)
    BY <2>1, FS_Subset
  <2> QED
    BY <2>1, <2>2, FS_CardinalityType
<1>3. Cardinality(upto(i)) # 0
  <2>1. upto(i) # {} /\ IsFiniteSet(upto(i))
    BY <1>2
  <2> HIDE DEF upto
  <2> QED
    BY <2>1, FS_EmptySet
<1>4. ASSUME NEW j \in set, j < i
      PROVE  Standing(set, j) < Standing(set, i)
  <2>1. upto(j) \subseteq upto(i) /\ i \notin upto(j)
    <3>1. i \in Int /\ j \in Int /\ \A m \in set : m \in Int
      OBVIOUS
    <3>2. ~(i <= j) /\ \A m \in set : m <= j => m <= i
      BY <1>4, <3>1
    <3> QED
      BY <3>2
  <2>2. upto(j) # upto(i)
    BY <1>2, <2>1
  <2>3. IsFiniteSet(upto(i))
    BY <1>2
  <2>4. Cardinality(upto(j)) < Cardinality(upto(i))
    <3>1. Cardinality(upto(j)) \in Nat /\ Cardinality(upto(i)) \in Nat
      BY <1>2
    <3> HIDE DEF upto
    <3> QED
      BY <2>1, <2>2, <2>3, <3>1, FS_Subset
  <2> QED
    BY <1>2, <2>4
<1> QED
  <2>1. Standing(set, i) \in 1..Cardinality(set)
    BY <1>1, <1>2, <1>3
  <2> QED
    BY <1>1, <1>4, <2>1

LEMMA StandingsDiffer ==
  ASSUME NEW set \in SUBSET Nat, IsFiniteSet(set), NEW i \in set, NEW j \in set,
         Standing(set, i) = Standing(set, j)
  PROVE  i = j
<1>1. Standing(set, i) \in Int /\ Standing(set, j) \in Int
  BY StandingsRise
<1>2. ~(i < j) /\ ~(j < i)
  BY <1>1, StandingsRise
<1> QED
  BY <1>2

LEMMA EveryStandingIsTaken ==
  ASSUME NEW set \in SUBSET Nat, IsFiniteSet(set), NEW k \in 1..Cardinality(set)
  PROVE  \E i \in set : Standing(set, i) = k
<1> DEFINE standing == [i \in set |-> Standing(set, i)]
           taken == {standing[i] : i \in set}
           n == Cardinality(set)
<1>1. n \in Nat
  BY FS_CardinalityType
<1>2. taken \subseteq 1..n
  BY StandingsRise
<1>3. IsFiniteSet(taken) /\ Cardinality(taken) = n
  <2>1. /\ standing \in [set -> taken] /\ \A i, j \in set : standing[i] = standing[j] => i = j
        /\ \A r \in taken : \E i \in set : standing[i] = r
    BY StandingsDiffer
  <2> HIDE DEF standing, taken
  <2>2. standing \in Bijection(set, taken)
    BY <2>1 DEF Bijection, Injection, Surjection, IsInjective
  <2>3. ExistsBijection(set, taken)
    BY <2>2 DEF ExistsBijection
  <2> QED
    BY <2>3, FS_Bijection
<1>4. IsFiniteSet(1..n) /\ Cardinality(1..n) = n
  <2> HIDE DEF n
  <2>1. 1 \in Int /\ n \in Int /\ (IF 1 > n THEN 0 ELSE n - 1 + 1) = n
    BY <1>1
  <2> QED
    BY <2>1, FS_Interval
<1>5. taken = 1..n
  <2> HIDE DEF taken, n
  <2> QED
    BY <1>2, <1>3, <1>4, FS_Subset
<1>6. k \in taken
  BY <1>5
<1> QED
  BY <1>6

(* The fills of the log, each once. *)
LEMMA FillsStandOnce ==
  ASSUME log \in Seq(Records)
  PROVE  /\ Firsts \in SUBSET Nat /\ Firsts \subseteq DOMAIN log /\ IsFiniteSet(Firsts)
         /\ Len(DistinctFills) = Cardinality(Firsts) /\ Cardinality(Firsts) \in Nat
         /\ \A k \in 1..Cardinality(Firsts) : \E i \in Firsts :
              Standing(Firsts, i) = k /\ DistinctFills[k] = log[i]
         /\ \A i \in Firsts : \E k \in 1..Cardinality(Firsts) :
              Standing(Firsts, i) = k /\ DistinctFills[k] = log[i]
<1>1. Firsts \subseteq DOMAIN log /\ Firsts \in SUBSET Nat
  BY DEF Firsts
<1>2. IsFiniteSet(Firsts) /\ Cardinality(Firsts) \in Nat
  <2>1. IsFiniteSet(1..Len(log)) /\ DOMAIN log = 1..Len(log)
    BY FS_Interval
  <2> QED
    BY <1>1, <2>1, FS_Subset, FS_CardinalityType
<1> DEFINE n == Cardinality(Firsts)
           chosen(k) == CHOOSE i \in Firsts : Standing(Firsts, i) = k
<1>3. DistinctFills = [k \in 1..n |-> log[chosen(k)]]
  BY DEF DistinctFills, Standing
<1>4. \A k \in 1..n : chosen(k) \in Firsts /\ Standing(Firsts, chosen(k)) = k
  <2>1. \A k \in 1..n : \E i \in Firsts : Standing(Firsts, i) = k
    BY <1>1, <1>2, EveryStandingIsTaken
  <2> QED
    BY <2>1
<1>5. \A i \in Firsts : Standing(Firsts, i) \in 1..n /\ chosen(Standing(Firsts, i)) = i
  <2>1. \A i \in Firsts : Standing(Firsts, i) \in 1..n
    BY <1>1, <1>2, StandingsRise
  <2> QED
    BY <1>1, <1>2, <1>4, <2>1, StandingsDiffer
<1> HIDE DEF chosen
<1>6. Len(DistinctFills) = n
  BY <1>2, <1>3
<1>7. \A k \in 1..n : DistinctFills[k] = log[chosen(k)]
  BY <1>3
<1> QED
  BY <1>1, <1>2, <1>4, <1>5, <1>6, <1>7

(* No two of them have the same id, and every fill is of the id of one. *)
LEMMA IdsStandOnce ==
  ASSUME log \in Seq(Records)
  PROVE  /\ \A i, j \in Firsts : log[i].id = log[j].id => i = j
         /\ \A i \in DOMAIN log : log[i].kind = "fill" => \E j \in Firsts : log[j].id = log[i].id
<1>1. DOMAIN log = 1..Len(log) /\ Len(log) \in Nat
  OBVIOUS
<1>2. ASSUME NEW i \in Firsts, NEW j \in Firsts, log[i].id = log[j].id
      PROVE  i = j
  <2>1. i \in Nat /\ j \in Nat /\ ~(i \in 1..j - 1) /\ ~(j \in 1..i - 1) /\ i # 0 /\ j # 0
    BY <1>1, <1>2 DEF Firsts
  <2> QED
    BY <2>1
<1>3. ASSUME NEW i \in DOMAIN log, log[i].kind = "fill"
      PROVE  \E j \in Firsts : log[j].id = log[i].id
  <2> DEFINE same == {j \in DOMAIN log : log[j].kind = "fill" /\ log[j].id = log[i].id}
  <2>1. same \in SUBSET Nat /\ i \in same
    BY <1>1, <1>3
  <2>2. PICK j \in same : \A e \in same : j <= e
    <3> HIDE DEF same
    <3> QED
      BY <2>1, LeastOne
  <2>3. \A e \in 1..j - 1 : e \notin same /\ e \in DOMAIN log
    BY <1>1, <2>2
  <2>4. j \in Firsts
    BY <2>2, <2>3 DEF Firsts
  <2> QED
    BY <2>2, <2>4
<1> QED
  BY <1>2, <1>3

(* Fills of any set of orders are counted as the venue executed them. *)
LEMMA FillsAreTrades ==
  ASSUME log \in Seq(Records), NEW set,
         FillsOfTheLog = {FillRecord(report) : report \in Known}
  PROVE  HowMany(DistinctFills, set, Cardinality(Firsts)) = Traded(set)
<1> DEFINE n == Cardinality(Firsts)
           fills == DistinctFills
           these == {k \in 1..n : fills[k].order \in set}
           those == {report \in Known : report.order \in set}
           Of(record) == [order |-> record.order, exec |-> record.id[2]]
           report == [k \in these |-> Of(fills[k])]
<1>1. n \in Nat /\ IsFiniteSet(1..n)
  BY FillsStandOnce, FS_Interval
<1>2. ASSUME NEW r \in Known
      PROVE  /\ Of(FillRecord(r)) = r /\ FillRecord(r).order = r.order
             /\ FillRecord(r).kind = "fill" /\ FillRecord(r).id = <<r.order, r.exec>>
  BY DEF Known, Report, FillRecord, FillId
<1>3. ASSUME NEW i \in Firsts
      PROVE  \E r \in Known : log[i] = FillRecord(r)
  <2>1. i \in {j \in DOMAIN log : log[j].kind = "fill"}
    BY DEF Firsts
  <2>2. log[i] \in FillsOfTheLog
    BY <2>1 DEF FillsOfTheLog
  <2> QED
    BY <2>2
<1>4. \A k \in 1..n : \E r \in Known : fills[k] = FillRecord(r) /\ Of(fills[k]) = r
  <2> SUFFICES ASSUME NEW k \in 1..n
               PROVE  \E r \in Known : fills[k] = FillRecord(r) /\ Of(fills[k]) = r
    OBVIOUS
  <2>1. PICK i \in Firsts : fills[k] = log[i]
    BY FillsStandOnce
  <2>2. PICK r \in Known : log[i] = FillRecord(r)
    BY <1>3
  <2> QED
    BY <1>2, <2>1, <2>2
<1>5. report \in [these -> those]
  <2> SUFFICES ASSUME NEW k \in these PROVE Of(fills[k]) \in those
    OBVIOUS
  <2>1. PICK r \in Known : fills[k] = FillRecord(r) /\ Of(fills[k]) = r
    BY <1>4
  <2> QED
    BY <1>2, <2>1
<1>6. ASSUME NEW k \in these, NEW l \in these, report[k] = report[l]
      PROVE  k = l
  <2>1. fills[k] = fills[l]
    <3>1. PICK r \in Known : fills[k] = FillRecord(r) /\ Of(fills[k]) = r
      BY <1>4
    <3>2. PICK s \in Known : fills[l] = FillRecord(s) /\ Of(fills[l]) = s
      BY <1>4
    <3> QED
      BY <1>6, <3>1, <3>2
  <2>2. PICK i \in Firsts : Standing(Firsts, i) = k /\ fills[k] = log[i]
    BY FillsStandOnce
  <2>3. PICK j \in Firsts : Standing(Firsts, j) = l /\ fills[l] = log[j]
    BY FillsStandOnce
  <2>4. i = j
    BY <2>1, <2>2, <2>3, IdsStandOnce
  <2> QED
    BY <2>2, <2>3, <2>4
<1>7. ASSUME NEW r \in those
      PROVE  \E k \in these : report[k] = r
  <2>1. r \in Known /\ FillRecord(r) \in FillsOfTheLog
    OBVIOUS
  <2>2. PICK i \in DOMAIN log : log[i].kind = "fill" /\ log[i] = FillRecord(r)
    BY <2>1 DEF FillsOfTheLog
  <2>3. PICK j \in Firsts : log[j].id = FillRecord(r).id
    BY <2>2, IdsStandOnce
  <2>4. PICK s \in Known : log[j] = FillRecord(s)
    BY <1>3
  <2>5. s = r
    <3>1. <<s.order, s.exec>> = <<r.order, r.exec>>
      BY <1>2, <2>1, <2>3, <2>4
    <3>2. s.order = r.order /\ s.exec = r.exec
      BY <3>1
    <3> QED
      BY <2>1, <3>2 DEF Known, Report
  <2>6. PICK k \in 1..n : fills[k] = log[j]
    BY FillsStandOnce
  <2>7. fills[k] = FillRecord(r) /\ Of(fills[k]) = r
    BY <1>2, <2>1, <2>4, <2>5, <2>6
  <2>8. fills[k].order = r.order
    BY <1>2, <2>1, <2>7
  <2> QED
    BY <2>7, <2>8
<1>8. IsFiniteSet(these)
  BY <1>1, FS_Subset
<1>9. Cardinality(these) = Cardinality(those)
  <2> HIDE DEF report, these, those
  <2>1. report \in Bijection(these, those)
    BY <1>5, <1>6, <1>7 DEF Bijection, Injection, Surjection, IsInjective
  <2>2. ExistsBijection(these, those)
    BY <2>1 DEF ExistsBijection
  <2> QED
    BY <1>8, <2>2, FS_Bijection
<1> QED
  BY <1>9 DEF HowMany, Traded

(* Whenever the link is up and nothing is on its way, the fills of the log, *)
(* each id counted once, fold to exactly what the venue traded, whatever    *)
(* was dropped, refused, cancelled, retried or re-sent before: none is lost *)
(* and none counts twice (broker.py:202-203, 290-324, core/position.py).    *)
THEOREM LogAlwaysAccountsForTheVenue ==
  Spec => []LogAccountsForTheVenue
<1>1. IndInv /\ LogHoldsTheExecutions => LogAccountsForTheVenue
  <2> SUFFICES ASSUME IndInv, LogHoldsTheExecutions, connected, wire = {}
               PROVE  SignedQuantity(Folded(DistinctFills)) = Traded(Buys) - Traded(Orders \ Buys)
    BY DEF LogAccountsForTheVenue
  <2>1. log \in Seq(Records) /\ FillsOfTheLog = {FillRecord(report) : report \in Known}
    BY DEF IndInv, TypeOK, LogHoldsTheExecutions
  <2> DEFINE n == Cardinality(Firsts)
  <2>2. Len(DistinctFills) = n /\ n \in Nat
    BY <2>1, FillsStandOnce
  <2>3. ASSUME NEW k \in 1..n PROVE DistinctFills[k].order \in Orders
    <3>1. PICK i \in Firsts : DistinctFills[k] = log[i]
      BY <2>1, FillsStandOnce
    <3>2. log[i] \in Records
      BY <2>1, ElementOfSeq DEF Firsts
    <3> QED
      BY <3>1, <3>2 DEF Records
  <2>4. SignedQuantity(Folded(DistinctFills)) = Net(DistinctFills, n)
    BY <2>2, <2>3, FoldedQuantity
  <2>5. /\ HowMany(DistinctFills, Buys, n) = Traded(Buys)
        /\ HowMany(DistinctFills, Orders \ Buys, n) = Traded(Orders \ Buys)
    BY <2>1, FillsAreTrades
  <2> QED
    BY <2>4, <2>5 DEF Net
<1> QED
  BY <1>1, ExecutionInvariant, EveryExecutionIsRecorded, PTL

-----------------------------------------------------------------------------
(* The fold of core/position.py. *)

(* The rounded quotient misses the exact one by at most half a unit, and by *)
(* nothing when the division comes out even.                                *)
LEMMA QuotientIsNearest ==
  ASSUME NEW n \in Nat, NEW d \in Nat \ {0}
  PROVE  /\ Quotient(n, d) \in Nat
         /\ 2 * (Quotient(n, d) * d) - 2 * n <= d
         /\ 2 * n - 2 * (Quotient(n, d) * d) <= d
         /\ n % d = 0 => Quotient(n, d) * d = n
<1> DEFINE whole == n \div d
           left  == n % d
<1>1. whole \in Nat /\ left \in 0 .. d - 1 /\ n = d * whole + left
  BY SMT
<1>2. /\ (whole + 1) * d = d * whole + d
      /\ whole * d = d * whole
  BY <1>1
<1>3. Quotient(n, d) = IF 2 * left < d \/ (2 * left = d /\ whole % 2 = 0)
                       THEN whole ELSE whole + 1
  BY DEF Quotient
<1> HIDE DEF whole, left
<1>4. left = 0 => Quotient(n, d) = whole
  BY <1>1, <1>3
<1>5. /\ Quotient(n, d) \in Nat
      /\ 2 * (Quotient(n, d) * d) - 2 * n <= d
      /\ 2 * n - 2 * (Quotient(n, d) * d) <= d
      /\ left = 0 => Quotient(n, d) * d = n
  BY <1>1, <1>2, <1>3, <1>4
<1> QED
  BY <1>5 DEF left

(* A quotient of a weighted sum lies between the values it weighs. *)
LEMMA AverageLiesBetween ==
  ASSUME NEW n \in Nat, NEW d \in Nat \ {0}, NEW low \in Nat, NEW high \in Nat,
         low * d <= n, n <= high * d
  PROVE  Quotient(n, d) \in low .. high
<1> DEFINE q == Quotient(n, d)
<1>1. q \in Nat /\ 2 * (q * d) - 2 * n <= d /\ 2 * n - 2 * (q * d) <= d
  BY QuotientIsNearest
<1> HIDE DEF q
<1>2. CASE q < low
  <2>1. q * d + d <= low * d
    <3>1. q + 1 <= low
      BY <1>1, <1>2
    <3>2. (q + 1) * d <= low * d
      BY <3>1, <1>1, SMT
    <3> QED
      BY <3>2, <1>1
  <2> QED
    BY <2>1, <1>1
<1>3. CASE q > high
  <2>1. high * d + d <= q * d
    <3>1. high + 1 <= q
      BY <1>1, <1>3
    <3>2. (high + 1) * d <= q * d
      BY <3>1, <1>1, SMT
    <3> QED
      BY <3>2, <1>1
  <2> QED
    BY <2>1, <1>1
<1> QED
  BY <1>1, <1>2, <1>3 DEF q
-----------------------------------------------------------------------------
(* What rounding has cost so far: the position's value less its shares at *)
(* cost, against the cash that changed hands.                             *)
Drift == position.realised - position.average * SignedQuantity(position) - cash

BooksAgree ==
  /\ SignedQuantity(position) = held
  /\ position.fees = paid
  /\ 2 * Drift <= slack
  /\ -2 * Drift <= slack

BookInv ==
  /\ BookTypeOK
  /\ Consistent(position)
  /\ BooksAgree
  /\ CostBasisWithinEntries
  /\ position.side # "NONE" => entries.low > 0

PositionRecord == [side : {"BUY", "SELL", "NONE"}, quantity : Nat, average : Nat,
                   realised : Int, fees : Int, fills : Nat]

AnyFill == [side : {"BUY", "SELL"}, quantity : Nat \ {0}, price : Nat \ {0},
               commission : Int]

(* Which of the five cases a fill is, with the minimum worked out. *)
LEMMA ApplyCases ==
  ASSUME NEW p \in PositionRecord, NEW f \in AnyFill
  PROVE  LET gain(shares) == (f.price - p.average) * Sign(p.side) * shares
         IN  /\ p.side = "NONE" => Apply(p, f) = Opened(p, f)
             /\ p.side = f.side => Apply(p, f) = Increased(p, f)
             /\ p.side \notin {"NONE", f.side} /\ f.quantity < p.quantity =>
                  Apply(p, f) = After(p, f, p.side, p.quantity - f.quantity, p.average,
                                      p.realised + gain(f.quantity))
             /\ p.side \notin {"NONE", f.side} /\ f.quantity = p.quantity =>
                  Apply(p, f) = After(p, f, "NONE", 0, 0, p.realised + gain(p.quantity))
             /\ p.side \notin {"NONE", f.side} /\ f.quantity > p.quantity =>
                  Apply(p, f) = After(p, f, f.side, f.quantity - p.quantity, f.price,
                                      p.realised + gain(p.quantity))
<1>1. p.quantity \in Nat /\ f.quantity \in Nat \ {0} /\ f.side \in {"BUY", "SELL"}
  BY DEF PositionRecord, AnyFill
<1>2. f.quantity < p.quantity => Closing(p, f) = f.quantity
  BY <1>1 DEF Closing
<1>3. f.quantity >= p.quantity => Closing(p, f) = p.quantity
  BY <1>1 DEF Closing
<1>4. p.side \notin {"NONE", f.side} => Apply(p, f) = ReducedOrReversed(p, f)
  BY DEF Apply
<1> QED
  BY <1>1, <1>2, <1>3, <1>4
     DEF Apply, ReducedOrReversed, Reduced, Closed, Reversed, Realised, NoPrice

(* The weighted sum is what the old average and the new price are worth, and *)
(* is no less and no more than the shares are at the lowest and the highest. *)
LEMMA WeightedBounds ==
  ASSUME NEW a \in Nat, NEW q \in Nat, NEW x \in Nat, NEW n \in Nat,
         NEW low \in Nat, NEW high \in Nat,
         low <= a, a <= high, low <= x, x <= high
  PROVE  /\ a * q + x * n \in Nat
         /\ low * (q + n) <= a * q + x * n
         /\ a * q + x * n <= high * (q + n)
<1>1. low * q <= a * q /\ a * q <= high * q /\ a * q \in Nat
  BY SMT
<1>2. low * n <= x * n /\ x * n <= high * n /\ x * n \in Nat
  BY SMT
<1>3. low * (q + n) = low * q + low * n /\ high * (q + n) = high * q + high * n
  BY SMT
<1> QED
  BY <1>1, <1>2, <1>3

LEMMA FillsAreRecords ==
  ASSUME BookTypeOK
  PROVE  /\ position \in PositionRecord
         /\ Fill \subseteq AnyFill
<1>1. position \in PositionRecord
  BY MaxFillsIsNatural DEF BookTypeOK, PositionRecord
<1>2. ASSUME NEW f \in Fill PROVE f \in AnyFill
  BY PricesArePositive, SizesArePositive, FeesAreNumbers DEF Fill, AnyFill
<1> QED
  BY <1>1, <1>2

LEMMA BooksStartRight == BookInit => BookInv
<1> SUFFICES ASSUME BookInit PROVE BookInv
  OBVIOUS
<1>1. Sign("NONE") = 0
  BY DEF Sign
<1> QED
  BY <1>1, MaxFillsIsNatural
     DEF BookInit, Flat, BookInv, BookTypeOK, Consistent, NoPrice, BooksAgree, Drift, SignedQuantity,
         CostBasisWithinEntries

LEMMA SignMovesOut ==
  ASSUME NEW s \in {1, -1}, NEW i \in Int, NEW j \in Int
  PROVE  i * (s * j) = s * (i * j) /\ s * j * i = s * (i * j)
<1>1. CASE s = 1
  BY <1>1
<1>2. CASE s = -1
  BY <1>2
<1> QED
  BY <1>1, <1>2

(* One fill keeps the books, whichever of the five cases it is. *)
LEMMA BookKeepsTheBooks ==
  ASSUME BookInv, NEW f \in Fill, Book(f)
  PROVE  BookInv'
<1> DEFINE p == position
           q == p.quantity
           a == p.average
           n == f.quantity
           x == f.price
           s == Sign(f.side)
<1>1. /\ p \in PositionRecord /\ f \in AnyFill
      /\ p.side \in {"BUY", "SELL", "NONE"} /\ q \in Nat /\ a \in Nat
      /\ p.realised \in Int /\ p.fees \in Int /\ p.fills \in 0 .. MaxFills
      /\ f.side \in {"BUY", "SELL"} /\ n \in Nat \ {0} /\ x \in Nat \ {0}
      /\ f.commission \in Int /\ p.fills < MaxFills
      /\ held \in Int /\ cash \in Int /\ paid \in Int /\ slack \in Nat
      /\ entries.low \in Nat /\ entries.high \in Nat
  BY FillsAreRecords DEF BookInv, BookTypeOK, PositionRecord, AnyFill, Book
<1>2. /\ s \in {1, -1}
      /\ p.side = "NONE" => Sign(p.side) = 0
      /\ p.side = f.side => Sign(p.side) = s
      /\ p.side \notin {"NONE", f.side} => Sign(p.side) = -s
      /\ Sign("NONE") = 0
  BY <1>1 DEF Sign
<1>3. /\ q = 0 <=> p.side = "NONE"
      /\ q = 0 <=> a = 0
      /\ Sign(p.side) * q = held
      /\ p.fees = paid
  BY DEF BookInv, Consistent, NoPrice, BooksAgree, SignedQuantity
<1>4. /\ 2 * (p.realised - a * held - cash) <= slack
      /\ -2 * (p.realised - a * held - cash) <= slack
  BY <1>3 DEF BookInv, BooksAgree, Drift, SignedQuantity
<1>5. p.side # "NONE" => entries.low <= a /\ a <= entries.high /\ entries.low > 0
  BY <1>1 DEF BookInv, CostBasisWithinEntries
<1>6. /\ position' = Apply(p, f)
      /\ held' = held + s * n
      /\ cash' = cash - s * n * x
      /\ paid' = paid + f.commission
      /\ slack' = slack + RoundingLoss(f)
  BY DEF Book
<1>7. /\ s * n \in Int /\ s * n * x \in Int /\ a * held \in Int
      /\ held' \in Int /\ cash' \in Int /\ paid' \in Int
  BY <1>1, <1>2, <1>6
<1>8. RoundingLoss(f) \in Nat
  BY <1>1 DEF RoundingLoss
<1>9. slack' \in Nat /\ slack <= slack'
  BY <1>1, <1>6, <1>8
<1> DEFINE side == position'.side
           size == position'.quantity
           mean == position'.average
           gain == position'.realised
           Goal == /\ side \in {"BUY", "SELL", "NONE"} /\ size \in Nat /\ mean \in Nat
                   /\ gain \in Int
                   /\ size = 0 <=> side = "NONE"
                   /\ size = 0 <=> mean = 0
                   /\ Sign(side) * size = held'
                   /\ 2 * (gain - mean * held' - cash') <= slack'
                   /\ -2 * (gain - mean * held' - cash') <= slack'
                   /\ entries' \in [low : Nat, high : Nat]
                   /\ side # "NONE" => mean \in entries'.low .. entries'.high /\ entries'.low > 0
<1>10. /\ position' = [side |-> side, quantity |-> size, average |-> mean,
                       realised |-> gain, fees |-> p.fees + f.commission,
                       fills |-> p.fills + 1]
  BY <1>6 DEF Apply, Opened, Increased, ReducedOrReversed, Reduced, Closed, Reversed, After
<1>20. /\ entries \in [low : Nat, high : Nat]
       /\ (x - a) * (-s) * n \in Int /\ (x - a) * (-s) * q \in Int
  BY <1>1, <1>2 DEF BookInv, BookTypeOK
<1>21. ASSUME gain - mean * held' - cash' = p.realised - a * held - cash
       PROVE  /\ 2 * (gain - mean * held' - cash') <= slack'
              /\ -2 * (gain - mean * held' - cash') <= slack'
  <2> HIDE DEF gain, mean
  <2> DEFINE d == p.realised - a * held - cash
  <2>1. d \in Int /\ 2 * d <= slack /\ -2 * d <= slack
    BY <1>1, <1>4, <1>7
  <2> HIDE DEF d
  <2>2. gain - mean * held' - cash' = d
    BY <1>21 DEF d
  <2> QED
    BY <2>1, <2>2, <1>1, <1>9
<1> HIDE DEF side, size, mean, gain, Goal
<1>11. ASSUME p.side = "NONE"
       PROVE  Goal
  <2>1. /\ side = f.side /\ size = n /\ mean = x /\ gain = p.realised
        /\ held' = s * n /\ held = 0
        /\ entries' = [low |-> x, high |-> x]
    <3>1. position' = After(p, f, f.side, n, x, p.realised)
      BY <1>1, <1>6, <1>11, ApplyCases DEF Opened
    <3>2. held = 0 /\ s * n \in Int
      BY <1>1, <1>2, <1>3, <1>11
    <3>3. entries' = [low |-> x, high |-> x]
      BY <1>11 DEF Book, StartsAfresh
    <3> QED
      BY <3>1, <3>2, <3>3, <1>6 DEF After, side, size, mean, gain
  <2>2. mean * held' = s * n * x /\ a * held = 0
    BY <2>1, <1>1, <1>2
  <2>3. gain - mean * held' - cash' = p.realised - a * held - cash
    BY <2>1, <2>2, <1>1, <1>6, <1>7
  <2> QED
    BY <2>1, <2>3, <1>1, <1>2, <1>21 DEF Goal
<1>12. ASSUME p.side = f.side
       PROVE  Goal
  <2> DEFINE w == a * q + x * n
             total == q + n
             low == entries'.low
             high == entries'.high
  <2>1. total \in Nat \ {0} /\ q > 0
    BY <1>1, <1>3, <1>12
  <2>2. /\ side = f.side /\ size = total /\ mean = Quotient(w, total)
        /\ gain = p.realised
    BY <1>1, <1>6, <1>12, ApplyCases DEF Increased, After, Weighted, side, size, mean, gain
  <2>3. /\ entries' = [low  |-> IF x < entries.low THEN x ELSE entries.low,
                       high |-> IF x > entries.high THEN x ELSE entries.high]
        /\ RoundingLoss(f) = IF w % total # 0 THEN total ELSE 0
    BY <1>1, <1>12 DEF Book, StartsAfresh, Adding, RoundingLoss, Weighted
  <2>4. /\ entries' \in [low : Nat, high : Nat] /\ low \in Nat /\ high \in Nat
        /\ low <= a /\ a <= high /\ low <= x /\ x <= high /\ low > 0
    <3>1. p.side # "NONE"
      BY <1>1, <1>12
    <3> QED
      BY <2>3, <3>1, <1>1, <1>5
  <2>5. w \in Nat /\ low * total <= w /\ w <= high * total
    <3> HIDE DEF low, high
    <3> QED
      BY ZenonT(60), <2>4, <1>1, WeightedBounds
  <2>6. mean \in low .. high
    <3>1. Quotient(w, total) \in low .. high
      <4> HIDE DEF low, high, w, total
      <4> QED
        BY <2>1, <2>4, <2>5, AverageLiesBetween
    <3> QED
      BY <3>1, <2>2
  <2>7. /\ mean \in Nat
        /\ 2 * (mean * total) - 2 * w <= RoundingLoss(f)
        /\ 2 * w - 2 * (mean * total) <= RoundingLoss(f)
    <3>1. /\ mean \in Nat
          /\ 2 * (mean * total) - 2 * w <= total
          /\ 2 * w - 2 * (mean * total) <= total
          /\ w % total = 0 => mean * total = w
      <4> HIDE DEF w, total
      <4> QED
        BY <2>1, <2>2, <2>5, QuotientIsNearest
    <3> HIDE DEF w, total
    <3> QED
      BY <3>1, <2>1, <2>3, <2>5
  <2>8. held = s * q /\ held' = s * total
    BY <1>1, <1>2, <1>3, <1>6, <1>12
  <2>9. /\ a * held = s * (a * q)
        /\ mean * held' = s * (mean * total)
        /\ s * n * x = s * (x * n)
    <3> HIDE DEF s
    <3>2. a * held = s * (a * q)
      <4>1. a \in Int /\ q \in Int /\ s \in {1, -1}
        BY <1>1, <1>2
      <4> HIDE DEF a, q
      <4> QED
        BY <4>1, <2>8, SignMovesOut
    <3>3. s * n * x = s * (x * n)
      <4>1. x \in Int /\ n \in Int /\ s \in {1, -1}
        BY <1>1, <1>2
      <4> HIDE DEF x, n
      <4> QED
        BY <4>1, SignMovesOut
    <3>4. mean * held' = s * (mean * total)
      <4>1. mean \in Int /\ total \in Int /\ s \in {1, -1}
        BY <2>1, <2>7, <1>2
      <4> HIDE DEF total
      <4> QED
        BY <4>1, <2>8, SignMovesOut
    <3> QED
      BY <3>2, <3>3, <3>4
  <2>10. gain - mean * held' - cash' = (p.realised - a * held - cash) + s * (w - mean * total)
    <3>1. mean * total \in Int /\ a * q \in Int /\ x * n \in Int
      BY <2>7, <2>1, <1>1
    <3>2. s * (w - mean * total) = s * (a * q) + s * (x * n) - s * (mean * total)
      BY <3>1, <1>2
    <3> QED
      BY <3>1, <3>2, <2>2, <2>9, <1>1, <1>2, <1>6
  <2>11. /\ 2 * (s * (w - mean * total)) <= RoundingLoss(f)
         /\ -2 * (s * (w - mean * total)) <= RoundingLoss(f)
    <3>1. mean * total \in Int
      BY <2>7, <2>1
    <3> HIDE DEF w, total
    <3> QED
      BY <3>1, <2>5, <2>7, <1>2, <1>8
  <2>12. /\ 2 * (gain - mean * held' - cash') <= slack'
         /\ -2 * (gain - mean * held' - cash') <= slack'
    <3> DEFINE d == p.realised - a * held - cash
               e == s * (w - mean * total)
    <3>1. d \in Int
      BY <1>1, <1>7
    <3>2. e \in Int
      BY <2>1, <2>5, <2>7, <1>2
    <3>3. /\ 2 * d <= slack /\ -2 * d <= slack
          /\ 2 * e <= RoundingLoss(f) /\ -2 * e <= RoundingLoss(f)
          /\ gain - mean * held' - cash' = d + e
      BY <1>4, <2>10, <2>11
    <3> HIDE DEF d, e
    <3> QED
      BY <3>1, <3>2, <3>3, <1>1, <1>6, <1>8
  <2>13. Sign(side) * size = held' /\ side # "NONE" /\ size # 0 /\ mean # 0
    <3> HIDE DEF low, high
    <3> QED
      BY <2>1, <2>2, <2>4, <2>6, <2>8, <1>1
  <2>14. gain \in Int
    BY <2>2, <1>1
  <2> QED
    BY <2>1, <2>2, <2>4, <2>6, <2>7, <2>12, <2>13, <2>14, <1>1 DEF Goal
<1>13. ASSUME p.side \notin {"NONE", f.side} /\ n < q
       PROVE  Goal
  <2>1. /\ side = p.side /\ size = q - n /\ mean = a
        /\ gain = p.realised + (x - a) * (-s) * n
        /\ entries' = entries
    <3>1. position' = After(p, f, p.side, q - n, a, p.realised + (x - a) * Sign(p.side) * n)
      BY <1>1, <1>6, <1>13, ApplyCases
    <3>2. entries' = entries
      BY <1>1, <1>13 DEF Book, StartsAfresh, Adding
    <3> QED
      BY <3>1, <3>2, <1>2, <1>13 DEF After, side, size, mean, gain
  <2>2. /\ held = -s * q /\ held' = -s * (q - n)
        /\ held' = held + s * n
    BY <1>1, <1>2, <1>3, <1>6, <1>13
  <2>3. /\ a * held' = a * held + a * (s * n)
        /\ (x - a) * (-s) * n = a * (s * n) - s * n * x
    BY <2>2, <1>1, <1>2
  <2>4. gain - mean * held' - cash' = p.realised - a * held - cash
    BY <2>1, <2>3, <1>1, <1>2, <1>6, <1>7
  <2> QED
    BY <2>1, <2>2, <2>4, <1>1, <1>2, <1>3, <1>5, <1>13, <1>20, <1>21 DEF Goal
<1>14. ASSUME p.side \notin {"NONE", f.side} /\ n = q
       PROVE  Goal
  <2>1. /\ side = "NONE" /\ size = 0 /\ mean = 0
        /\ gain = p.realised + (x - a) * (-s) * q
        /\ entries' = entries
    <3>1. position' = After(p, f, "NONE", 0, 0, p.realised + (x - a) * Sign(p.side) * q)
      BY <1>1, <1>6, <1>14, ApplyCases
    <3>2. entries' = entries
      BY <1>1, <1>14 DEF Book, StartsAfresh, Adding
    <3> QED
      BY <3>1, <3>2, <1>2, <1>14 DEF After, side, size, mean, gain
  <2>2. held = -s * q /\ held' = 0
    BY <1>1, <1>2, <1>3, <1>6, <1>14
  <2>3. /\ a * held = -(a * (s * q))
        /\ (x - a) * (-s) * q = a * (s * q) - s * n * x
    BY <2>2, <1>1, <1>2, <1>14
  <2>4. gain - mean * held' - cash' = p.realised - a * held - cash
    <3> DEFINE k == a * (s * q)
               z == s * n * x
    <3>1. mean * held' = 0 /\ k \in Int /\ z \in Int
      BY <2>1, <2>2, <1>1, <1>2, <1>7
    <3>2. gain = p.realised + (k - z) /\ a * held = -k /\ cash' = cash - z
      BY <2>1, <2>3, <1>6
    <3> HIDE DEF k, z
    <3> QED
      BY <3>1, <3>2, <1>1
  <2> QED
    BY <2>1, <2>2, <2>4, <1>1, <1>2, <1>20, <1>21 DEF Goal
<1>15. ASSUME p.side \notin {"NONE", f.side} /\ n > q
       PROVE  Goal
  <2>1. /\ side = f.side /\ size = n - q /\ mean = x
        /\ gain = p.realised + (x - a) * (-s) * q
        /\ entries' = [low |-> x, high |-> x]
    <3>1. position' = After(p, f, f.side, n - q, x, p.realised + (x - a) * Sign(p.side) * q)
      BY <1>1, <1>6, <1>15, ApplyCases
    <3>2. entries' = [low |-> x, high |-> x]
      BY <1>1, <1>15 DEF Book, StartsAfresh
    <3> QED
      BY <3>1, <3>2, <1>2, <1>15 DEF After, side, size, mean, gain
  <2>2. held = -s * q /\ held' = s * (n - q)
    BY <1>1, <1>2, <1>3, <1>6, <1>15
  <2>3. /\ a * held = -(a * (s * q))
        /\ x * held' = s * n * x - x * (s * q)
        /\ (x - a) * (-s) * q = a * (s * q) - x * (s * q)
    BY <2>2, <1>1, <1>2, <1>15
  <2>4. gain - mean * held' - cash' = p.realised - a * held - cash
    BY <2>1, <2>3, <1>1, <1>2, <1>6, <1>7
  <2> QED
    <3>1. /\ side \in {"BUY", "SELL"} /\ size \in Nat \ {0} /\ mean \in Nat \ {0}
          /\ gain \in Int /\ Sign(side) * size = held'
      BY <2>1, <2>2, <1>1, <1>2, <1>15, <1>20
    <3>2. /\ entries' \in [low : Nat, high : Nat]
          /\ mean \in entries'.low .. entries'.high /\ entries'.low > 0
      BY <2>1, <1>1
    <3> QED
      BY <3>1, <3>2, <2>4, <1>21 DEF Goal
<1>16. Goal
  BY <1>1, <1>11, <1>12, <1>13, <1>14, <1>15
<1>17. BookTypeOK'
  <2>1. p.fees + f.commission \in Int /\ p.fills + 1 \in 0 .. MaxFills
    BY <1>1, MaxFillsIsNatural
  <2>2. position' \in [side : {"BUY", "SELL", "NONE"}, quantity : Nat, average : Nat,
                       realised : Int, fees : Int, fills : 0 .. MaxFills]
    BY <1>10, <1>16, <2>1 DEF Goal
  <2> QED
    BY <2>2, <1>7, <1>9, <1>16 DEF BookTypeOK, Goal
<1>18. Consistent(position)'
  BY <1>16 DEF Goal, side, size, mean, Consistent, NoPrice
<1>19. BooksAgree'
  BY <1>3, <1>6, <1>10, <1>16 DEF Goal, side, size, mean, gain, BooksAgree, Drift, SignedQuantity
<1> QED
  BY <1>16, <1>17, <1>18, <1>19 DEF Goal, side, mean, BookInv, CostBasisWithinEntries
-----------------------------------------------------------------------------
(* The invariant holds of every history of fills. *)
THEOREM BooksAreKept == BookSpec => []BookInv
<1>1. BookInv /\ [BookNext]_bookVars => BookInv'
  <2> SUFFICES ASSUME BookInv, [BookNext]_bookVars PROVE BookInv'
    OBVIOUS
  <2>1. CASE BookNext
    BY <2>1, BookKeepsTheBooks DEF BookNext
  <2>2. CASE UNCHANGED bookVars
    BY <2>2 DEF bookVars, BookInv, BookTypeOK, BooksAgree, Drift, CostBasisWithinEntries
  <2> QED
    BY <2>1, <2>2
<1> QED
  BY <1>1, BooksStartRight, PTL DEF BookSpec

(* A position is the net of the shares traded, and one that __post_init__ *)
(* accepts (core/position.py:64-86).                                      *)
THEOREM PositionIsNetOfFills == BookSpec => []HeldIsWhatWasTraded
<1>1. BookInv => HeldIsWhatWasTraded
  BY DEF BookInv, BooksAgree, HeldIsWhatWasTraded
<1> QED
  BY <1>1, BooksAreKept, PTL

(* The average stays within the prices paid for what is held *)
(* (core/position.py:182-198, 237-248).                      *)
THEOREM AverageIsWithinEntries == BookSpec => []CostBasisWithinEntries
<1>1. BookInv => CostBasisWithinEntries
  BY DEF BookInv
<1> QED
  BY <1>1, BooksAreKept, PTL

(* At any mark, profit is the cash exchanged plus the worth of the shares *)
(* held, to within the rounding of the averages (core/position.py:200-305). *)
THEOREM ProfitAddsUp == BookSpec => []ProfitIsConserved
<1>1. BookInv => ProfitIsConserved
  <2> SUFFICES ASSUME BookInv, NEW mark \in Marks
               PROVE  LET error == TotalPnl(position, mark) - (cash - paid + held * mark)
                      IN  2 * error <= slack /\ -2 * error <= slack
    BY DEF ProfitIsConserved
  <2> DEFINE error == TotalPnl(position, mark) - (cash - paid + held * mark)
             q == position.quantity
             a == position.average
             s == Sign(position.side)
  <2>1. /\ position.realised \in Int /\ position.fees \in Int /\ q \in Nat /\ a \in Nat
        /\ position.side \in {"BUY", "SELL", "NONE"}
        /\ cash \in Int /\ paid \in Int /\ held \in Int /\ slack \in Nat /\ mark \in Int
    BY MarksArePositive DEF BookInv, BookTypeOK
  <2>2. s \in Int /\ (position.side = "NONE" => s = 0)
    BY <2>1 DEF Sign
  <2>3. /\ held = s * q /\ position.fees = paid
        /\ 2 * (position.realised - a * (s * q) - cash) <= slack
        /\ -2 * (position.realised - a * (s * q) - cash) <= slack
    BY DEF BookInv, BooksAgree, Drift, SignedQuantity
  <2>4. UnrealisedPnl(position, mark) = (mark - a) * s * q
    BY <2>1, <2>2 DEF UnrealisedPnl
  <2>5. (mark - a) * s * q = mark * (s * q) - a * (s * q)
    BY <2>1, <2>2
  <2>6. held * mark = mark * (s * q)
    BY <2>1, <2>2, <2>3
  <2>7. error = position.realised - a * (s * q) - cash
    <3> DEFINE k == mark * (s * q)
               z == a * (s * q)
    <3>1. k \in Int /\ z \in Int
      BY <2>1, <2>2
    <3>2. error = position.realised - position.fees + (k - z) - (cash - paid + k)
      <4>1. UnrealisedPnl(position, mark) = k - z /\ held * mark = k
        BY <2>4, <2>5, <2>6
      <4> HIDE DEF k, z
      <4> QED
        BY <4>1, <3>1, <2>1 DEF TotalPnl
    <3> HIDE DEF k, z, error
    <3> QED
      BY <3>1, <3>2, <2>1, <2>3 DEF z
  <2> QED
    BY <2>3, <2>7
<1> QED
  BY <1>1, BooksAreKept, PTL

(* The books balance after any fills at any prices: shares and cash are    *)
(* what changed hands (core/position.py:182-305).                          *)
THEOREM BooksAlwaysBalance == BookSpec => []BooksBalance
  BY PositionIsNetOfFills, ProfitAddsUp, PTL DEF BooksBalance
=============================================================================
