---------------------------- MODULE MCOperations ----------------------------
(***************************************************************************)
(* Small instances of ChargePointState: which events the environment may   *)
(* send, which policies it may configure, and how large the topology is.   *)
(*                                                                         *)
(* One run has five scenarios: the first state picks one, and its events,  *)
(* policies, connectors and bounds hold for the rest of the behaviour.     *)
(* Every step is a step of ChargePointState's Next over that scenario's    *)
(* sets.                                                                   *)
(***************************************************************************)
EXTENDS ChargePointState

Plain(types) == {[type |-> t] : t \in types}

\* Everything the hardware binding reports about cable, lock and contactor.
HardwareReports ==
    Plain({"CableConnected", "CableDisconnected", "LockConfirmed",
           "UnlockConfirmed", "ContactorClosed", "ContactorOpened"})

LockReports == Plain({"LockFailed"})

FlowReports ==
    Plain({"ChargingSuspendedByEv", "ChargingSuspendedByEvse",
           "ChargingResumed"})
    \cup {[type |-> "ChargingStopped", reason |-> "Local"]}

\* Presenting identifiers and deciding on them.
Authorizations ==
    [type : {"IdTokenPresented", "ChargingAuthorized"}, token : IdTokens]
    \cup Plain({"AuthorizationDenied"})

PlugAndCharge == [type : {"ContractCertificatePresented"}, token : IdTokens]

RemoteStarts ==
    [type : {"RemoteStartRequested"}, token : IdTokens,
     remoteStartId : Option(RemoteStartIds)]
    \cup [type : {"RemoteStartPending"}, pending : PendingStarts]
    \cup Plain({"RemoteStartPendingCleared", "RemoteUnlockRequested"})

ReservationEvents ==
    [type : {"Reserved"}, reservation : Reservations]
    \cup Plain({"ReservationCancelled", "ReservationExpired"})

AvailabilityEvents == Plain({"SetAvailable", "SetUnavailable"})

Revocations == Plain({"AuthorizationRevoked"})

MeterEvents(readings) ==
    {[type |-> "MeterValueSampled", sample |-> [energy |-> n, soc |-> None]] :
        n \in readings}

CostEvents ==
    [type : {"CostUpdated"}, cost : Prices]
    \cup [type : {"RunningCostAdvanced"}, total : Prices]

Ceiling(kind, n) == [[k \in LimitKinds |-> None] EXCEPT ![kind] = n]

CurrentEvents ==
    [type : {"CurrentLimitComputed"}, limit : Option(Currents),
     externallyCaused : BOOLEAN]
    \cup [type : {"CurrentLimitConfirmed"}, limit : Option(Currents)]

Resets(targets) ==
    [type : {"ResetRequested"}, target : targets, kind : {"Immediate", "OnIdle"}]

-----------------------------------------------------------------------------
(* Topologies. *)

OneEvse == [c \in Connectors |-> CHOOSE v \in Evses : TRUE]

\* Connector n belongs to EVSE n.
OwnEvse == [c \in Connectors |-> c]

-----------------------------------------------------------------------------
(* sessions: every way to start, run, suspend and stop on one connector, with *)
(* four settings that differ wherever a policy is consulted; the environment  *)
(* switches between them mid-session.                                         *)

SessionEvents ==
    HardwareReports \cup FlowReports \cup Authorizations \cup RemoteStarts
    \cup AvailabilityEvents \cup LockReports

SessionPolicies ==
    {DefaultPolicy,
     [DefaultPolicy EXCEPT !.txStartPoint = {"EVConnected"},
                           !.txStopPoint = {"Authorized", "EVConnected"},
                           !.authorizeRemoteStart = TRUE],
     [DefaultPolicy EXCEPT !.txStartPoint = TxPoints,
                           !.txStopPoint = {"EVConnected"},
                           !.unlockOnEvSideDisconnect = FALSE],
     [DefaultPolicy EXCEPT !.txStartPoint = {}, !.txStopPoint = {},
                           !.stopTxOnEvSideDisconnect = FALSE]}

NoStationEvents == {}

-----------------------------------------------------------------------------
(* reservations: two reservations, Plug & Charge, held starts, while the        *)
(* charge point faults, registers and changes its availability.               *)

ReservationRunEvents ==
    HardwareReports \cup ReservationEvents \cup AvailabilityEvents
    \cup PlugAndCharge \cup Plain({"AuthorizationDenied"})
    \cup [type : {"ChargingAuthorized"}, token : IdTokens]
    \cup {[type |-> "ChargingStopped", reason |-> "Remote"]}

OnePolicy == {DefaultPolicy}

-----------------------------------------------------------------------------
(* limits: ceilings, costs, currents and a revoked identifier.                *)

\* One way through a session.
ShortSession ==
    Plain({"CableConnected", "LockConfirmed", "ContactorClosed",
           "ContactorOpened", "UnlockConfirmed", "CableDisconnected"})
    \cup {[type |-> "ChargingStopped", reason |-> "Local"],
          [type |-> "RemoteStartRequested",
           token |-> CHOOSE t \in IdTokens : TRUE, remoteStartId |-> None]}

\* The session runs once, so the reports about its ceilings are what counts.
LimitEvents ==
    Plain({"CableConnected", "LockConfirmed", "ContactorClosed",
           "ChargingResumed"})
    \cup Revocations
    \cup {[type |-> "RemoteStartRequested",
           token |-> CHOOSE t \in IdTokens : TRUE, remoteStartId |-> None],
          [type |-> "TransactionElapsed", secs |-> 1]}
    \cup MeterEvents(0..1)
    \cup CostEvents
    \cup {[type |-> "CurrentLimitComputed", limit |-> None,
           externallyCaused |-> FALSE]}
    \cup {[type |-> "TransactionLimitSet", limit |-> l, fromCsms |-> TRUE] :
            l \in {Ceiling("Energy", 1), Ceiling("Cost", 1), Ceiling("Soc", 1)}}
    \cup {[type |-> "TransactionLimitSet", limit |-> l, fromCsms |-> FALSE] :
            l \in {Ceiling("Energy", 2), Ceiling("Time", 1)}}

\* A connector taken out of service and back, or stopped at the allowance of a
\* revoked identifier, energised again within the same transaction.
RevokedEvents ==
    Plain({"CableConnected", "LockConfirmed", "ContactorClosed",
           "ContactorOpened", "UnlockConfirmed"})
    \cup AvailabilityEvents \cup Revocations
    \cup {[type |-> "RemoteStartRequested",
           token |-> CHOOSE t \in IdTokens : TRUE, remoteStartId |-> None],
          [type |-> "TransactionLimitSet", limit |-> Ceiling("Energy", 1),
           fromCsms |-> TRUE]}
    \cup MeterEvents(0..2)

RevokedPolicies ==
    {[DefaultPolicy EXCEPT !.txStopPoint = {"EVConnected"},
                           !.stopTxOnInvalidId = FALSE,
                           !.maxEnergyOnInvalidId = 1]}

\* A revoked identifier may still draw one unit of energy.
LimitPolicies ==
    {[DefaultPolicy EXCEPT !.supportedLimits = {"Energy", "Cost", "Time"},
                           !.stopTxOnInvalidId = FALSE,
                           !.maxEnergyOnInvalidId = 1]}

\* Smart charging recomputes a connector's current while a ceiling holds it.
CurrentRunEvents ==
    ShortSession \cup MeterEvents(0..1) \cup CurrentEvents
    \cup {[type |-> "TransactionLimitSet", limit |-> Ceiling("Energy", 1),
           fromCsms |-> TRUE]}

CostRunEvents == ShortSession \cup CostEvents

-----------------------------------------------------------------------------
(* resets: two EVSEs of one connector each.                                   *)

\* Faults of one EVSE of two, beside the resets.
EvseFaults ==
    [type : {"EvseFaultDetected", "EvseFaultCleared"}, evse : {1}]

ResetEvents ==
    EvseFaults \cup Resets(Evses)
    \cup {[type |-> "ResetRequested", target |-> None, kind |-> "OnIdle"]}

\* Immediate resets of the whole scope.
WideResetEvents == Resets({None})

-----------------------------------------------------------------------------
(* What happens to the whole charge point meanwhile: faults, registration,     *)
(* availability and a grant of priority charging.                             *)

StationRunEvents ==
    Plain({"SetUnavailable", "HardwareFault", "FaultCleared"})
    \cup [type : {"RegistrationStatusReceived"}, status : {"Accepted"}]
    \cup [type : {"PriorityChargingSet"}, id : {0}, activated : {TRUE}]

-----------------------------------------------------------------------------
(* The scenarios.                                                            *)

VARIABLE scenario

Scenarios == {"sessions", "reservations", "limits", "revoked", "resets"}

EventsOf == [sessions |-> SessionEvents, reservations |-> ReservationRunEvents,
             limits |-> LimitEvents, revoked |-> RevokedEvents,
             resets |-> ShortSession]

StationEventsOf ==
    [sessions |-> NoStationEvents, reservations |-> StationRunEvents,
     limits |-> NoStationEvents, revoked |-> NoStationEvents,
     resets |-> ResetEvents]

PoliciesOf == [sessions |-> SessionPolicies, reservations |-> OnePolicy,
               limits |-> LimitPolicies, revoked |-> RevokedPolicies,
               resets |-> OnePolicy]

ConnectorsOf == [s \in Scenarios |-> IF s = "resets" THEN Connectors ELSE {1}]

TransactionsOf ==
    [s \in Scenarios |-> IF s \in {"limits", "revoked"} THEN 1 ELSE 2]

ReportsOf ==
    [s \in Scenarios |-> IF s \in {"limits", "revoked"} THEN 5 ELSE 2]

ScenarioPolicies == UNION {PoliciesOf[s] : s \in Scenarios}

ScenarioInit ==
    /\ Init
    /\ scenario \in Scenarios
    /\ cp.policy \in PoliciesOf[scenario]

Bounded ==
    /\ UNCHANGED scenario
    /\ cp'.nextId <= TransactionsOf[scenario]
    /\ \A c \in Connectors : cp'.conn[c].tx # None =>
          cp'.conn[c].tx.seqNo <= ReportsOf[scenario]

ScenarioNext ==
    \/ /\ \E c \in ConnectorsOf[scenario], e \in EventsOf[scenario] :
            Step([type |-> "Connector", connector |-> c, event |-> e])
       /\ Bounded
    \/ /\ \E e \in StationEventsOf[scenario] : Step(e)
       /\ Bounded
    \/ /\ \E p \in PoliciesOf[scenario] :
            Step([type |-> "PolicySet", policy |-> p])
       /\ Bounded

ScenarioSpec == ScenarioInit /\ [][ScenarioNext]_<<vars, scenario>>

\* ChargePointState's own Next, over the sets the constants name.
LoneSpec ==
    Init /\ scenario = "sessions" /\ [][Next /\ UNCHANGED scenario]_<<vars, scenario>>

\* EnergyHasTransaction wherever TxStartPoint is not switched mid-session: a
\* session that passed Authorized under one setting and PowerPathClosed under
\* the other has passed neither's start point.
SteadyEnergyHasTransaction ==
    scenario # "sessions" => EnergyHasTransaction

=============================================================================
