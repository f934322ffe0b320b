-------------------------- MODULE ChargePointState --------------------------
(***************************************************************************)
(* ChargePointState::apply of src/state/charge_point_state.rs: the single  *)
(* owner of the charge point's state, driven one event at a time by the    *)
(* actor.  Apply is a pure function from a state and an event to a state   *)
(* and the effects it emits, exactly as in the code; the specification at  *)
(* the end lets the environment send any event of the sets it is given, in *)
(* any order, because nothing in this module relies on a well-behaved      *)
(* hardware binding or CSMS.                                               *)
(***************************************************************************)
EXTENDS ConnectorSlot, FiniteSets

CONSTANTS Connectors,         \* every connector of the charge point
          Evses,              \* the EVSEs that own them
          EvseOf,             \* which EVSE owns which connector
          ConnectorEvents,    \* the connector events the environment sends
          StationEvents,      \* the other events it sends
          Policies,           \* the device-model settings it may choose
          MaxTransactions,    \* bound: transactions ever started
          MaxSeqNo            \* bound: TransactionEvents per transaction

ASSUME TopologyAssumption == EvseOf \in [Connectors -> Evses]

VARIABLES cp,    \* the ChargePointState struct
          out,   \* the effects of the last event applied: per connector, and
                 \* the EVSEs told to reboot
          last   \* history: the last TransactionEvent reported per connector

vars == <<cp, out, last>>

-----------------------------------------------------------------------------
(* The state and its scopes. *)

LifecycleStates == {"Booting", "Available", "Unavailable", "Faulted"}
EvseStatuses    == {"Available", "Unavailable", "Faulted"}
Registrations   == {"Accepted", "Pending", "Rejected"}

\* A reset addresses the whole charge point (None) or one EVSE.
PendingResets == [target : Option(Evses), kind : {"Immediate", "OnIdle"}]

ChargePoints ==
    [lifecycle    : LifecycleStates,
     registration : Option(Registrations),
     evse         : [Evses -> EvseStatuses],
     conn         : [Connectors -> Slots],
     nextId       : Nat,
     pendingReset : Option(PendingResets),
     policy       : ConnectorPolicies]

\* The payload of the events addressed to the charge point or to an EVSE.
WellFormedStation(e) ==
    /\ e.type = "RegistrationStatusReceived" => e.status \in Registrations
    /\ e.type = "ResetRequested" =>
          e.target \in Option(Evses) /\ e.kind \in {"Immediate", "OnIdle"}
    /\ e.type = "PriorityChargingSet" =>
          e.id \in Nat /\ e.activated \in BOOLEAN
    /\ e.type = "EvseStatusSet" =>
          e.evse \in Evses /\ e.status \in {"Available", "Unavailable"}
    /\ e.type \in {"EvseFaultDetected", "EvseFaultCleared"} => e.evse \in Evses

ASSUME PolicyAssumption   == Policies \subseteq ConnectorPolicies
ASSUME EventAssumption    == \A e \in ConnectorEvents : WellFormed(e)
ASSUME StationAssumption  == \A e \in StationEvents : WellFormedStation(e)
ASSUME BoundAssumption    == MaxTransactions \in Nat /\ MaxSeqNo \in Nat
ASSUME ResetAssumption    == None \notin Evses \cup PendingResets \cup Registrations

NewChargePoint(policy) ==
    [lifecycle    |-> "Booting",
     registration |-> None,
     evse         |-> [v \in Evses |-> "Available"],
     conn         |-> [c \in Connectors |-> NewSlot],
     nextId       |-> 0,
     pendingReset |-> None,
     policy       |-> policy]

TargetEvses(target)      == IF target = None THEN Evses ELSE {target}
TargetConnectors(target) == {c \in Connectors : EvseOf[c] \in TargetEvses(target)}

-----------------------------------------------------------------------------
(* Results: the new state and the effects, per connector, of one event.     *)

Quiet == [c \in Connectors |-> NoEffects]

Result(state, effects) ==
    [cp |-> state, out |-> [conn |-> effects, reboots |-> {}]]

\* Writes back the outcomes of the connectors that took part.
WriteAll(state, outcomes) ==
    Result([state EXCEPT !.conn = [c \in Connectors |->
              IF c \in DOMAIN outcomes THEN outcomes[c].slot
              ELSE state.conn[c]]],
           [c \in Connectors |->
              IF c \in DOMAIN outcomes THEN outcomes[c].effects
              ELSE NoEffects])

\* Runs one connector event on every connector of a scope.  None of the events
\* sent to a whole scope starts a transaction, so the id counter stays put and
\* the connectors do not see one another.
Cascade(state, scope, e) ==
    WriteAll(state, [c \in scope |->
        ApplyConnectorEvent(state.conn[c], state.nextId, e, state.policy)])

\* Mutant: the id counter is not written back.
WriteBackSameId(state, c, o) ==
    Result([state EXCEPT !.conn[c] = o.slot], [Quiet EXCEPT ![c] = o.effects])

WriteBack(state, c, o) ==
    Result([state EXCEPT !.conn[c] = o.slot, !.nextId = o.nextId],
           [Quiet EXCEPT ![c] = o.effects])

OnConnector(state, c, e) ==
    WriteBack(state, c,
        ApplyConnectorEvent(state.conn[c], state.nextId, e, state.policy))

\* A fault takes an EVSE's connectors with it, and so does its clearing; a
\* cleared fault leaves the EVSE Unavailable until it is set available again.
CascadeFault(state, target, detected) ==
    Cascade([state EXCEPT !.evse = [v \in Evses |->
                IF v \notin TargetEvses(target) THEN state.evse[v]
                ELSE IF detected THEN "Faulted" ELSE "Unavailable"]],
            TargetConnectors(target),
            [type |-> IF detected THEN "FaultDetected" ELSE "FaultCleared"])

-----------------------------------------------------------------------------
(* The pending reset. *)

\* Mutant: only the way down is waited for, whatever the kind.
ReadyWhenNotStopping(state, reset) ==
    \A c \in TargetConnectors(reset.target) :
        state.conn[c].state \notin {"Stopping", "Finishing"}

\* Immediate: nothing in scope is still on the way down.  OnIdle: nothing in
\* scope has a transaction.
PendingResetReady(state, reset) ==
    \A c \in TargetConnectors(reset.target) :
        IF reset.kind = "Immediate"
          THEN state.conn[c].state \notin {"Stopping", "Finishing"}
          ELSE state.conn[c].tx = None

\* The tail of every apply: reboot as soon as the target has settled.
CheckPendingReset(r) ==
    LET reset == r.cp.pendingReset IN
    IF reset = None THEN r
    ELSE IF ~PendingResetReady(r.cp, reset) THEN r
    ELSE [r EXCEPT !.cp.pendingReset = None,
                   !.out.reboots = TargetEvses(reset.target)]

-----------------------------------------------------------------------------
(* apply, one operator per event (or family of events).                     *)

SetLifecycle(state, lifecycle) ==
    Result([state EXCEPT !.lifecycle = lifecycle], Quiet)

ApplyRegistration(state, status) ==
    Result([state EXCEPT
              !.registration = status,
              !.lifecycle = IF status = "Accepted" THEN "Available" ELSE @],
           Quiet)

ApplyReset(state, target, kind) ==
    LET requested == [state EXCEPT
                        !.pendingReset = [target |-> target, kind |-> kind]]
    IN IF kind = "Immediate"
         THEN Cascade(requested, TargetConnectors(target),
                      [type |-> "ResetRequested"])
         ELSE Result(requested, Quiet)

\* A grant belongs to the transaction that was asked for, wherever it runs.
ApplyPriorityCharging(state, id, activated) ==
    Result([state EXCEPT !.conn = [c \in Connectors |->
              IF state.conn[c].tx # None /\ state.conn[c].tx.id = id
                THEN [state.conn[c] EXCEPT !.tx.priority = activated]
                ELSE state.conn[c]]],
           Quiet)

Dispatch(state, e) ==
    CASE e.type \in {"BootCompleted", "SetAvailable"} ->
            SetLifecycle(state, "Available")
      [] e.type = "SetUnavailable" ->
            SetLifecycle(state, "Unavailable")
      [] e.type = "HardwareFault" ->
            CascadeFault([state EXCEPT !.lifecycle = "Faulted"], None, TRUE)
      [] e.type = "FaultCleared" ->
            CascadeFault([state EXCEPT !.lifecycle = "Unavailable"], None, FALSE)
      [] e.type = "RegistrationStatusReceived" ->
            ApplyRegistration(state, e.status)
      [] e.type = "ResetRequested" ->
            ApplyReset(state, e.target, e.kind)
      [] e.type = "PriorityChargingSet" ->
            ApplyPriorityCharging(state, e.id, e.activated)
      [] e.type = "PolicySet" ->
            Result([state EXCEPT !.policy = e.policy], Quiet)
      [] e.type = "EvseStatusSet" ->
            Result([state EXCEPT !.evse[e.evse] = e.status], Quiet)
      [] e.type = "EvseFaultDetected" ->
            CascadeFault(state, e.evse, TRUE)
      [] e.type = "EvseFaultCleared" ->
            CascadeFault(state, e.evse, FALSE)
      [] OTHER -> OnConnector(state, e.connector, e.event)

Apply(state, e) == CheckPendingReset(Dispatch(state, e))

-----------------------------------------------------------------------------
(* The specification. *)

Init ==
    /\ cp \in {NewChargePoint(p) : p \in Policies}
    /\ out = [conn |-> Quiet, reboots |-> {}]
    /\ last = [c \in Connectors |-> None]

WithinBounds(state) ==
    /\ state.nextId <= MaxTransactions
    /\ \A c \in Connectors : state.conn[c].tx # None =>
          state.conn[c].tx.seqNo <= MaxSeqNo

LastOf(previous, reports) ==
    IF reports = <<>> THEN previous ELSE reports[Len(reports)]

\* The actor moves to the result r of apply and performs its effects.
MoveOn(r) ==
    /\ WithinBounds(r.cp)
    /\ cp' = r.cp
    /\ out' = r.out
    /\ last' = [c \in Connectors |-> LastOf(last[c], r.out.conn[c].reports)]

Step(e) == MoveOn(Apply(cp, e))

\* The events addressed to the charge point or to one EVSE, and their sources:
\* the hardware (faults), the CSMS (availability, resets, registration,
\* priority charging) and the device model (policy).
LifecycleEvent ==
    \E e \in StationEvents :
        /\ e.type \in {"BootCompleted", "SetAvailable", "SetUnavailable",
                       "RegistrationStatusReceived", "EvseStatusSet"}
        /\ Step(e)

FaultEvent ==
    \E e \in StationEvents :
        /\ e.type \in {"HardwareFault", "FaultCleared", "EvseFaultDetected",
                       "EvseFaultCleared"}
        /\ Step(e)

ResetEvent ==
    \E e \in StationEvents : e.type = "ResetRequested" /\ Step(e)

PriorityChargingEvent ==
    \E e \in StationEvents : e.type = "PriorityChargingSet" /\ Step(e)

PolicyEvent ==
    \E p \in Policies : Step([type |-> "PolicySet", policy |-> p])

ConnectorEvent ==
    \E c \in Connectors, e \in ConnectorEvents :
        Step([type |-> "Connector", connector |-> c, event |-> e])

Next ==
    \/ ConnectorEvent
    \/ LifecycleEvent
    \/ FaultEvent
    \/ ResetEvent
    \/ PriorityChargingEvent
    \/ PolicyEvent

Spec == Init /\ [][Next]_vars

-----------------------------------------------------------------------------
(* Properties. *)

\* Every component of the state keeps its type: in particular a connector is
\* always in one of the sixteen states of connector_state.rs and a slot of
\* EvseState holds a whole record or nothing.
TypeOK ==
    /\ cp \in ChargePoints
    /\ out \in [conn : [Connectors -> Effects], reboots : SUBSET Evses]
    /\ last \in [Connectors -> Option(Reports)]

\* A report may follow the previous report of its connector.
Follows(a, b) ==
    IF b.kind = "Started"
      THEN b.seqNo = 0 /\ (a = None \/ a.kind = "Ended")
      ELSE /\ a # None /\ a.kind # "Ended"
           /\ b.id = a.id /\ b.seqNo = a.seqNo + 1

Chained(previous, reports) ==
    \A i \in 1..Len(reports) :
        Follows(IF i = 1 THEN previous ELSE reports[i - 1], reports[i])

\* transaction.rs: seq_no is "Monotonically increasing per transaction".  The
\* TransactionEvents of a connector form, whatever events interleave, a chain
\* of Started (seqNo 0), Updated and Ended reports whose seqNo grows by exactly
\* one, each transaction's Ended before the next one's Started.
ReportsAreChained ==
    [][\A c \in Connectors : Chained(last[c], out'.conn[c].reports)]_vars

\* What the slot holds and what the CSMS was last told are the same.
Agrees(tx, report) ==
    IF tx = None
      THEN report # None => report.kind = "Ended"
      ELSE /\ report # None /\ report.kind # "Ended"
           /\ report.id = tx.id /\ report.seqNo = tx.seqNo

\* A transaction only ever leaves its slot through an Ended report, and the
\* CSMS has been told every seqNo the slot has used: a slot overwritten, taken
\* silently, or bumped without a report breaks it.
SlotAgreesWithReports ==
    \A c \in Connectors : Agrees(cp.conn[c].tx, last[c])

\* advance_transaction hands out next_transaction_id: no two connectors ever
\* report the same transaction id, and the counter is ahead of all of them.
IdsNeverReused ==
    /\ \A c \in Connectors : last[c] # None => last[c].id < cp.nextId
    /\ \A c, d \in Connectors :
          c # d /\ last[c] # None /\ last[d] # None => last[c].id # last[d].id

\* A connector is Reserved exactly while its reservations slot names for whom:
\* otherwise a reserved bay reads as free, or a free one as reserved.
ReservedIffHeld ==
    \A c \in Connectors :
        cp.conn[c].state = "Reserved" <=> cp.conn[c].reservation # None

\* A fault ends the transaction whatever TxStopPoint says, and nothing opens
\* one on a faulted connector.
FaultEndsTransaction ==
    \A c \in Connectors :
        cp.conn[c].state \in {"Faulted", "FaultedSafe"} => cp.conn[c].tx = None

\* transaction.rs, limit_reached: a transaction is marked as being at a ceiling
\* exactly when one of its figures is at one, whichever of meter, cost, clock or
\* ceiling moved last (E16.FR.05, .14).  The reading that spends an E05 allowance
\* stops the session instead of weighing its ceilings.
LimitVerdictCurrent ==
    \A c \in Connectors :
        LET slot == cp.conn[c]
            tx   == slot.tx
        IN tx # None /\ tx.limit # None /\ ~AllowanceSpent(tx) =>
             (tx.limitReached # None <=>
                ReachedLimit(tx, slot.runningTotal, slot.cost) # None)

\* E05: the event that brings the meter reading at which a revoked identifier's
\* allowance is spent leaves the connector de-energised.
AllowanceIsFinal ==
    \A c \in Connectors :
        /\ \E i \in 1..Len(out.conn[c].reports) :
              out.conn[c].reports[i].reason = "MeterValuePeriodic"
        /\ AllowanceSpent(cp.conn[c].tx)
        => cp.conn[c].state \notin Powered

\* No energy without a transaction: with a start point of Authorized or
\* PowerPathClosed, a closed contactor always belongs to an open transaction.
EnergyHasTransaction ==
    \A c \in Connectors :
        cp.conn[c].state \in Powered => cp.conn[c].tx # None

\* hardware/evse.rs, reboot: "By the time this is called, any transaction that
\* was in progress on this EVSE's connectors has already been stopped
\* fail-safely (contactor opened, then unlocked)".
RebootsAreSettled ==
    \A c \in Connectors : EvseOf[c] \in out.reboots =>
        /\ cp.conn[c].tx = None
        /\ cp.conn[c].state \notin {"Starting"} \cup Powered

\* What a reservation was honoured for is forgotten by the time the connector
\* is free again: it "must not leak into whoever plugs in next"
\* (apply_connector_event).
HonouredEndsWithSession ==
    \A c \in Connectors :
        cp.conn[c].state \in {"Available", "Reserved"} =>
            cp.conn[c].honoured = None

\* E16.FR.04: a locally set ceiling never rises above the CSMS's own, in any
\* kind the CSMS limited.
CsmsLimitPrevails ==
    \A c \in Connectors :
        LET tx == cp.conn[c].tx IN
        tx # None /\ tx.csmsLimit # None =>
            /\ tx.limit # None
            /\ \A k \in LimitKinds : tx.csmsLimit[k] # None =>
                  tx.limit[k] # None /\ tx.limit[k] <= tx.csmsLimit[k]

-----------------------------------------------------------------------------
(* Statements of the repository that the code does not keep. *)

\* evse_state.rs: "a new session on this connector must start unpriced, not
\* inherit a total from whoever charged here last".
NewTransactionUnpriced ==
    \A c \in Connectors :
        (\E i \in 1..Len(out.conn[c].reports) :
            out.conn[c].reports[i].kind = "Started") =>
        cp.conn[c].runningTotal = None

\* transaction.rs, limit_reached: "Some means energy transfer is suspended by
\* the station, for this reason", so the station asks for no current.
LimitSuspendsEnergy ==
    \A c \in Connectors :
        LET tx == cp.conn[c].tx IN
        cp.conn[c].state \in Powered /\ tx # None /\ tx.limitReached # None =>
            cp.conn[c].requested = 0

\* Reservations: a connector is Reserved exactly while it holds one, and the
\* one a session honoured ends with that session (charge_point_state.rs).
ReservationsAreSettled == ReservedIffHeld /\ HonouredEndsWithSession

\* Ceilings: the CSMS's prevails over the driver's, the verdict on each is the
\* one today's figures give, and the reading that spends a revoked identifier's
\* allowance cuts it off (transaction.rs, charge_point_state.rs).
CeilingsAreHeld == CsmsLimitPrevails /\ LimitVerdictCurrent /\ AllowanceIsFinal

=============================================================================
