--------------------------- MODULE ConnectorState ---------------------------
(***************************************************************************)
(* The connector state machine of src/state/connector_state.rs: a pure     *)
(* function of (state, event, policy), plus the policy record it reads and *)
(* the OCPP status it projects to.                                         *)
(*                                                                         *)
(* An event is a record whose field "type" is the Rust variant; variants   *)
(* with a payload carry it in further fields ("token", "limit", ...).      *)
(***************************************************************************)
EXTENDS Integers

CONSTANTS IdTokens,        \* identifiers a driver or the CSMS can name
          ExemptTokens,    \* those whose kind needs no authorization
          None             \* Rust's Option::None

ASSUME TokenAssumption == ExemptTokens \subseteq IdTokens

-----------------------------------------------------------------------------
(* States and commands. *)

Suspended == {"SuspendedEv", "SuspendedEvse"}

\* The states in which the contactor is confirmed closed.
Powered == {"Charging"} \cup Suspended

\* The two states that wait for the contactor to confirm open after a stop.
Settling == {"Stopping", "StoppingLocked"}

ConnectorStates ==
    {"Available", "Connected", "Locked", "Authorizing", "Starting",
     "Finishing", "Unavailable", "Faulted", "FaultedSafe", "Unlocking",
     "Reserved"} \cup Powered \cup Settling

ConnectorCommands == {"Lock", "Unlock", "CloseContactor", "OpenContactor"}

\* Several states share one OCPP-visible status.
AvailabilityStatus(state) ==
    CASE state = "Available"                  -> "Available"
      [] state = "Unavailable"                -> "Unavailable"
      [] state \in {"Faulted", "FaultedSafe"} -> "Faulted"
      [] state = "Reserved"                   -> "Reserved"
      [] OTHER                                -> "Occupied"

-----------------------------------------------------------------------------
(* TxCtrlr.TxStartPoint and TxCtrlr.TxStopPoint are member lists over the   *)
(* same three points.  A transaction starts once every start point holds,  *)
(* so a list resolves to its latest member; it ends as soon as one stop     *)
(* point lapses, so a list resolves to its earliest one.  Unrecognised      *)
(* members are skipped, and a list with none left means the default.       *)

TxPoints == {"EVConnected", "Authorized", "PowerPathClosed"}

TxStartPoint(members) ==
    IF "PowerPathClosed" \in members THEN "PowerPathClosed"
    ELSE IF "Authorized" \in members THEN "Authorized"
    ELSE IF "EVConnected" \in members THEN "EVConnected"
    ELSE "Authorized"

TxStopPoint(members) ==
    IF "Authorized" \in members THEN "Authorized"
    ELSE IF "PowerPathClosed" \in members THEN "PowerPathClosed"
    ELSE IF "EVConnected" \in members THEN "EVConnected"
    ELSE "PowerPathClosed"

\* The device-model variables a connector event reads, re-read on every event.
\* SupportedLimits (of TxCtrlr) is read beside them and filters E16's ceilings.
LimitKinds == {"Cost", "Energy", "Soc", "Time"}

ConnectorPolicies ==
    [stopTxOnEvSideDisconnect : BOOLEAN,
     unlockOnEvSideDisconnect : BOOLEAN,
     txStartPoint             : SUBSET TxPoints,
     txStopPoint              : SUBSET TxPoints,
     stopTxOnInvalidId        : BOOLEAN,
     maxEnergyOnInvalidId     : Nat,        \* 0 also stands for an absent value
     authorizeRemoteStart     : BOOLEAN,
     supportedLimits          : SUBSET LimitKinds]

DefaultPolicy ==
    [stopTxOnEvSideDisconnect |-> TRUE,
     unlockOnEvSideDisconnect |-> TRUE,
     txStartPoint             |-> {"Authorized"},
     txStopPoint              |-> {"PowerPathClosed"},
     stopTxOnInvalidId        |-> TRUE,
     maxEnergyOnInvalidId     |-> 0,
     authorizeRemoteStart     |-> FALSE,
     supportedLimits          |-> LimitKinds]

-----------------------------------------------------------------------------
(* The transition function.  Its arms are pairwise exclusive; an event no   *)
(* arm names leaves the connector where it is and commands nothing.        *)

\* E05: a revoked identifier stops the session unless a last allowance is
\* configured for it.
RevocationStopsAtOnce(policy) ==
    policy.stopTxOnInvalidId \/ policy.maxEnergyOnInvalidId <= 0

\* F01.FR.01: the operator wants remote starts authorized, and the kind of the
\* identifier is not exempt.
MustAuthorize(token, policy) ==
    policy.authorizeRemoteStart /\ token \notin ExemptTokens

Go(next, command) == [next |-> next, command |-> command]

\* What the driver, the hardware and the CSMS's decisions do to a session.
SessionStep(state, e, policy) ==
    CASE e.type = "CableConnected" /\ state \in {"Available", "Reserved"} ->
            Go("Connected", "Lock")
      [] e.type = "LockConfirmed" /\ state = "Connected" ->
            Go("Locked", None)
      [] e.type \in {"IdTokenPresented", "ContractCertificatePresented"}
         /\ state = "Locked" ->
            Go("Authorizing", None)
      [] e.type = "RemoteStartRequested" /\ state = "Locked" ->
            IF MustAuthorize(e.token, policy)
              THEN Go("Authorizing", None)
              ELSE Go("Starting", "CloseContactor")
      [] e.type = "ChargingAuthorized" /\ state = "Authorizing" ->
            Go("Starting", "CloseContactor")
      [] e.type = "AuthorizationDenied" /\ state = "Authorizing" ->
            Go("Locked", None)
      [] e.type = "ContactorClosed" /\ state = "Starting" ->
            Go("Charging", None)
      [] e.type = "ChargingSuspendedByEv"
         /\ state \in {"Charging", "SuspendedEvse"} ->
            Go("SuspendedEv", None)
      [] e.type = "ChargingSuspendedByEvse"
         /\ state \in {"Charging", "SuspendedEv"} ->
            Go("SuspendedEvse", None)
      [] e.type = "ChargingResumed" /\ state \in Suspended ->
            Go("Charging", None)
      [] e.type = "ChargingStopped" /\ state \in Powered ->
            Go("Stopping", "OpenContactor")
      [] e.type = "AuthorizationRevoked" /\ state \in Powered
         /\ RevocationStopsAtOnce(policy) ->
            Go("Stopping", "OpenContactor")
      [] e.type = "CableDisconnected" /\ state \in Powered
         /\ policy.stopTxOnEvSideDisconnect ->
            Go(IF policy.unlockOnEvSideDisconnect THEN "Stopping"
               ELSE "StoppingLocked", "OpenContactor")
      [] e.type = "CableDisconnected" /\ state \in {"Charging", "SuspendedEvse"}
         /\ ~policy.stopTxOnEvSideDisconnect ->
            Go("SuspendedEv", None)
      [] e.type = "ContactorOpened" /\ state = "Stopping" ->
            Go("Finishing", "Unlock")
      [] e.type = "ContactorOpened" /\ state = "StoppingLocked" ->
            Go("Locked", None)
      [] e.type = "UnlockConfirmed" /\ state = "Finishing" ->
            Go("Connected", None)
      [] e.type = "CableDisconnected" /\ state = "Connected" ->
            Go("Available", None)
      [] e.type = "ContactorOpened" /\ state = "Faulted" ->
            Go("FaultedSafe", None)
      [] e.type = "UnlockConfirmed" /\ state = "Unlocking" ->
            Go("Available", None)
      [] OTHER -> Go(state, None)

\* What reservations, remote unlocks, resets, availability changes and faults
\* do, whatever session is running.
SupervisoryEvents ==
    {"Reserved", "ReservationCancelled", "ReservationExpired",
     "RemoteUnlockRequested", "ResetRequested", "SetUnavailable",
     "SetAvailable", "FaultDetected", "LockFailed", "FaultCleared"}

SupervisoryStep(state, e) ==
    CASE e.type = "Reserved" /\ state = "Available" ->
            Go("Reserved", None)
      [] e.type \in {"ReservationCancelled", "ReservationExpired"}
         /\ state = "Reserved" ->
            Go("Available", None)
      [] e.type = "RemoteUnlockRequested" /\ state = "Locked" ->
            Go("Unlocking", "Unlock")
      [] e.type = "ResetRequested"
         /\ state \in {"Connected", "Locked", "Authorizing", "Starting"}
                        \cup Powered ->
            Go("Stopping", "OpenContactor")
      [] e.type = "SetUnavailable" ->
            Go("Unavailable", None)
      [] e.type = "SetAvailable" /\ state \notin {"Faulted", "FaultedSafe"} ->
            Go("Available", None)
      [] e.type \in {"FaultDetected", "LockFailed"} ->
            Go("Faulted", "OpenContactor")
      [] e.type = "FaultCleared" /\ state = "FaultedSafe" ->
            Go("Unlocking", "Unlock")
      [] OTHER -> Go(state, None)

ConnectorApply(state, e, policy) ==
    IF e.type \in SupervisoryEvents
      THEN SupervisoryStep(state, e)
      ELSE SessionStep(state, e, policy)

=============================================================================
