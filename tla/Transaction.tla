---------------------------- MODULE Transaction ----------------------------
(***************************************************************************)
(* The transaction bookkeeping of src/state/transaction.rs and of the      *)
(* functions below apply_connector_event in charge_point_state.rs: which   *)
(* transition starts a transaction, which ends it, what a meter sample     *)
(* does to it, and the E16 ceilings it runs under.                         *)
(*                                                                         *)
(* Every operator that touches a transaction returns the new slot and the  *)
(* TransactionEvents it reports, in order.                                 *)
(***************************************************************************)
EXTENDS ConnectorState, Sequences

CONSTANTS RemoteStartIds, ReservationIds

ChargingStates == {"EvConnected", "Charging", "SuspendedEV", "SuspendedEVSE",
                   "Idle"}

\* PowerLoss is only produced for transactions recovered from storage.
StopReasons == {"Local", "Remote", "EVDisconnected", "EmergencyStop", "Reset",
                "PowerLoss", "DeAuthorized"}

\* A ceiling per kind, None where that kind is not limited.
TransactionLimits == [LimitKinds -> Nat \cup {None}]

Option(S) == S \cup {None}

\* A meter reading: the energy register and, if the EV reports one, its state
\* of charge.
Samples == [energy : Nat, soc : Option(Nat)]

Transactions ==
    [id            : Nat,
     token         : Option(IdTokens),
     chargingState : ChargingStates,
     stopReason    : Option(StopReasons),
     seqNo         : Nat,
     lastSample    : Option(Samples),
     priority      : BOOLEAN,
     remoteStartId : Option(RemoteStartIds),
     reservationId : Option(ReservationIds),
     stopAtEnergy  : Option(Nat),
     limit         : Option(TransactionLimits),
     csmsLimit     : Option(TransactionLimits),
     limitReached  : Option(LimitKinds),
     energyStart   : Option(Nat),
     elapsed       : Option(Nat)]

\* A TransactionEvent as the CSMS will read it.
UpdateReasons == {"ChargingStateChanged", "MeterValuePeriodic", "LimitSet",
                  "LimitReached", "ChargingRateChanged"}

Reports == [kind : {"Started", "Updated", "Ended"},
            reason : {"Started", "Ended"} \cup UpdateReasons,
            id : Nat, seqNo : Nat]

\* Option::None is not a value of any type it is optional over.
ASSUME NoneAssumption ==
    /\ None \notin Nat \cup IdTokens \cup RemoteStartIds \cup ReservationIds
    /\ None \notin Samples \cup Transactions \cup TransactionLimits
    /\ None \notin LimitKinds \cup StopReasons \cup Reports

Report(kind, reason, t) ==
    [kind |-> kind, reason |-> reason, id |-> t.id, seqNo |-> t.seqNo]

-----------------------------------------------------------------------------
(* Start and stop points: each is exactly one transition. *)

\* Mutant: a start from Locked is forgotten, only one through Authorizing counts.
StartsOnlyAuthorizing(prev, next, policy) ==
    prev = "Authorizing" /\ next = "Starting"

StartsTransaction(prev, next, policy) ==
    CASE TxStartPoint(policy.txStartPoint) = "EVConnected" ->
            prev = "Connected" /\ next = "Locked"
      [] TxStartPoint(policy.txStartPoint) = "Authorized" ->
            prev \in {"Authorizing", "Locked"} /\ next = "Starting"
      [] OTHER ->
            prev = "Starting" /\ next = "Charging"

\* Entering a stop while a session is energised or about to be.
EntersStop(prev, next) ==
    prev \in {"Starting"} \cup Powered /\ next \in Settling

EndsTransaction(prev, next, policy) ==
    CASE TxStopPoint(policy.txStopPoint) = "Authorized" ->
            EntersStop(prev, next)
      [] TxStopPoint(policy.txStopPoint) = "PowerPathClosed" ->
            \/ prev = "Stopping" /\ next = "Finishing"
            \/ prev = "StoppingLocked" /\ next = "Locked"
      [] OTHER ->
            prev = "Connected" /\ next = "Available"

ChargingStateFor(state) ==
    CASE state = "Charging"      -> "Charging"
      [] state = "SuspendedEv"   -> "SuspendedEV"
      [] state = "SuspendedEvse" -> "SuspendedEVSE"
      [] OTHER                   -> "EvConnected"

-----------------------------------------------------------------------------
(* advance_transaction: start, end, or update the slot of a connector       *)
(* moving from prev to next.  The origin (identifier, remoteStartId,       *)
(* honoured reservation) is only used if this is the starting transition.  *)

NewTransaction(id, next, origin) ==
    [id            |-> id,
     token         |-> origin.token,
     chargingState |-> ChargingStateFor(next),
     stopReason    |-> None,
     seqNo         |-> 0,
     lastSample    |-> None,
     priority      |-> FALSE,
     remoteStartId |-> origin.remoteStartId,
     reservationId |-> origin.reservationId,
     stopAtEnergy  |-> None,
     limit         |-> None,
     csmsLimit     |-> None,
     limitReached  |-> None,
     energyStart   |-> None,
     elapsed       |-> None]

\* The stop reason is recorded when the stop begins: with a later stop point
\* the event that caused it is gone by the time the transaction ends.
WithStopReason(tx, prev, next, reason) ==
    IF tx # None /\ EntersStop(prev, next)
      THEN [tx EXCEPT !.stopReason = reason] ELSE tx

\* Mutants: the sequence number is reused, or counts down.
SameSeqNo(tx)  == tx
SeqNoDown(tx)  == [tx EXCEPT !.seqNo = @ - 1]

\* The result of one bookkeeping step: the slot afterwards and the report it
\* makes, None if it makes none.  Every report but the first takes the next
\* sequence number.
Bumped(tx) == [tx EXCEPT !.seqNo = @ + 1]

Keep(tx)        == [tx |-> tx, report |-> None]
Begin(tx)       == [tx |-> tx, report |-> Report("Started", "Started", tx)]
Update(tx, why) == [tx |-> Bumped(tx),
                    report |-> Report("Updated", why, Bumped(tx))]
\* Mutant: the slot is emptied without telling the CSMS.
CloseSilently(tx) == Keep(None)

Close(tx) == [tx |-> None, report |-> Report("Ended", "Ended", Bumped(tx))]

\* Mutant: a fault is left to the stop point.
AdvanceIgnoringFaults(tx, nextId, prev, next, reason, origin, policy) ==
    IF tx = None
      THEN IF StartsTransaction(prev, next, policy)
             THEN Begin(NewTransaction(nextId, next, origin))
             ELSE Keep(None)
    ELSE IF EndsTransaction(prev, next, policy) THEN Close(tx)
    ELSE Keep(WithStopReason(tx, prev, next, reason))

AdvanceTransaction(tx, nextId, prev, next, reason, origin, policy) ==
    LET stopping == WithStopReason(tx, prev, next, reason) IN
    IF tx = None
      THEN IF StartsTransaction(prev, next, policy)
             THEN Begin(NewTransaction(nextId, next, origin))
             ELSE Keep(None)
    ELSE IF EndsTransaction(prev, next, policy)
      THEN Close([stopping EXCEPT !.chargingState =
                     IF next = "Available" THEN "Idle" ELSE "EvConnected"])
    ELSE IF /\ prev \in {"Starting"} \cup Powered /\ next \in Powered
            /\ prev # next
      THEN Update([tx EXCEPT !.chargingState = ChargingStateFor(next)],
                  "ChargingStateChanged")
    ELSE IF next = "Faulted"
      THEN Close([tx EXCEPT !.stopReason = "EmergencyStop"])
    ELSE Keep(stopping)

\* apply_meter_sample: a reading counts only while energy is flowing, and the
\* first one is the baseline of the energy ceiling.
ApplyMeterSample(tx, sample) ==
    IF tx # None /\ tx.chargingState = "Charging"
      THEN Update([tx EXCEPT
                     !.energyStart = IF @ = None THEN sample.energy ELSE @,
                     !.lastSample  = sample], "MeterValuePeriodic")
      ELSE Keep(tx)

-----------------------------------------------------------------------------
(* E16 ceilings. *)

\* Drops the kinds this build does not enforce.
SupportedPart(limit, supported) ==
    [k \in LimitKinds |-> IF k \in supported THEN limit[k] ELSE None]

IsEmptyLimit(limit) == \A k \in LimitKinds : limit[k] = None

\* The CSMS's own figure caps a locally set one, kind by kind.
ClampedTo(limit, ceiling) ==
    [k \in LimitKinds |->
        IF limit[k] = None THEN ceiling[k]
        ELSE IF ceiling[k] # None /\ limit[k] > ceiling[k] THEN ceiling[k]
        ELSE limit[k]]

\* A ceiling arriving for the connector's transaction; it is confirmed with a
\* report of its own unless nothing of it is supported.
SetTransactionLimit(tx, limit, fromCsms, policy) ==
    LET supported == SupportedPart(limit, policy.supportedLimits)
        csms      == IF fromCsms THEN supported ELSE tx.csmsLimit
    IN IF tx = None \/ IsEmptyLimit(supported)
         THEN Keep(tx)
         ELSE Update([tx EXCEPT
                        !.csmsLimit = csms,
                        !.limit = IF ~fromCsms /\ csms # None
                                    THEN ClampedTo(supported, csms)
                                    ELSE supported], "LimitSet")

\* What each ceiling is measured against, None while nothing is known.  A cost
\* the station priced itself comes before what the CSMS reported.
Figure(tx, kind, runningTotal, csmsCost) ==
    CASE kind = "Cost"   -> IF runningTotal # None THEN runningTotal
                            ELSE csmsCost
      [] kind = "Energy" -> IF tx.energyStart # None /\ tx.lastSample # None
                              THEN tx.lastSample.energy - tx.energyStart
                              ELSE None
      [] kind = "Soc"    -> IF tx.lastSample # None THEN tx.lastSample.soc
                            ELSE None
      [] OTHER           -> tx.elapsed

Exceeds(tx, kind, runningTotal, csmsCost) ==
    LET figure == Figure(tx, kind, runningTotal, csmsCost) IN
    tx.limit # None /\ tx.limit[kind] # None /\ figure # None
        /\ figure >= tx.limit[kind]

\* The ceiling a transaction is at, the kinds being asked in a fixed order.
ReachedLimit(tx, runningTotal, csmsCost) ==
    LET at(kind) == Exceeds(tx, kind, runningTotal, csmsCost) IN
    IF at("Cost") THEN "Cost"
    ELSE IF at("Energy") THEN "Energy"
    ELSE IF at("Soc") THEN "Soc"
    ELSE IF at("Time") THEN "Time"
    ELSE None

\* E05: the meter reading a revoked session may still run to, granted once.
GrantAllowance(tx, policy) ==
    IF tx # None /\ tx.stopAtEnergy = None /\ ~RevocationStopsAtOnce(policy)
      THEN [tx EXCEPT !.stopAtEnergy =
              policy.maxEnergyOnInvalidId +
              (IF tx.lastSample = None THEN 0 ELSE tx.lastSample.energy)]
      ELSE tx

AllowanceSpent(tx) ==
    /\ tx # None
    /\ tx.stopAtEnergy # None /\ tx.lastSample # None
    /\ tx.lastSample.energy >= tx.stopAtEnergy

=============================================================================
