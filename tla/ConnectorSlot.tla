---------------------------- MODULE ConnectorSlot ----------------------------
(***************************************************************************)
(* apply_connector_event of src/state/charge_point_state.rs: what one      *)
(* event does to everything the charge point keeps for one connector (the  *)
(* parallel Vecs of EvseState, gathered here into one record) and which    *)
(* effects it emits.                                                       *)
(*                                                                         *)
(* The actor publishes each kind of effect on a channel of its own, so the *)
(* effects are kept as one sequence per kind; the order between kinds is   *)
(* not observable.                                                         *)
(***************************************************************************)
EXTENDS Transaction

CONSTANTS Prices,      \* costs and tariffs, as the numbers a ceiling compares
          Currents     \* current limits in force, 0 among them

ASSUME PriceAssumption == Prices \subseteq Nat /\ Currents \subseteq Nat

\* A start accepted before its cable arrived, or waiting for authorization.
PendingStarts == [token : IdTokens, remoteStartId : Option(RemoteStartIds)]

Reservations == [id : ReservationIds, token : IdTokens]

Slots ==
    [state        : ConnectorStates,
     tx           : Option(Transactions),
     reservation  : Option(Reservations),
     honoured     : Option(ReservationIds),
     pending      : Option(PendingStarts),
     cost         : Option(Nat),       \* running_costs, told by the CSMS
     tariff       : Option(Nat),       \* transaction_tariffs
     runningCost  : Option(Nat),       \* running_cost, priced locally
     runningTotal : Option(Nat),       \* running_cost_totals
     sample       : Option(Samples),   \* latest_meter_samples
     requested    : Option(Nat),       \* charging_limits
     applied      : Option(Nat),       \* applied_charging_limits
     lockProblem  : BOOLEAN]

ASSUME SlotAssumption ==
    None \notin Reservations \cup PendingStarts \cup ConnectorCommands

\* The payload of a connector event, for the variants that have one.
WellFormed(e) ==
    /\ e.type \in {"IdTokenPresented", "ContractCertificatePresented",
                  "ChargingAuthorized", "RemoteStartRequested"} =>
          e.token \in IdTokens
    /\ e.type = "RemoteStartRequested" =>
          e.remoteStartId \in Option(RemoteStartIds)
    /\ e.type = "RemoteStartPending" => e.pending \in PendingStarts
    /\ e.type = "ChargingStopped" => e.reason \in StopReasons
    /\ e.type = "Reserved" => e.reservation \in Reservations
    /\ e.type = "TransactionLimitSet" =>
          e.limit \in TransactionLimits /\ e.fromCsms \in BOOLEAN
    /\ e.type = "TransactionElapsed" => e.secs \in Nat
    /\ e.type = "MeterValueSampled" => e.sample \in Samples
    /\ e.type = "CostUpdated" => e.cost \in Prices
    /\ e.type = "TariffAssigned" => e.tariff \in Prices
    /\ e.type = "RunningCostAdvanced" => e.total \in Prices
    /\ e.type = "CurrentLimitComputed" =>
          e.limit \in Option(Currents) /\ e.externallyCaused \in BOOLEAN
    /\ e.type = "CurrentLimitConfirmed" => e.limit \in Option(Currents)

NewSlot ==
    [state |-> "Available", tx |-> None, reservation |-> None,
     honoured |-> None, pending |-> None, cost |-> None, tariff |-> None,
     runningCost |-> None, runningTotal |-> None, sample |-> None,
     requested |-> None, applied |-> None, lockProblem |-> FALSE]

HardwareCommands ==
    [type : ConnectorCommands \cup {"SetCurrentLimit"}, limit : Option(Nat)]

AuthorizationRequests == [token : IdTokens, contract : BOOLEAN]

ReservationEnds == [id : ReservationIds, reason : {"Expired", "Removed"}]

\* The hard-wired monitors that fire from a connector event.
MonitorProblems == {"PlugRetentionLock"}

\* What one event emits: hardware commands, TransactionEvents, requests for an
\* authorization decision, ends of reservations, the states reported to the
\* CSMS, and hard-wired monitor events.
Effects ==
    [commands        : Seq(HardwareCommands),
     reports         : Seq(Reports),
     asks            : Seq(AuthorizationRequests),
     reservationEnds : Seq(ReservationEnds),
     statuses        : Seq(ConnectorStates),
     problems        : Seq(MonitorProblems)]

NoEffects == [commands |-> <<>>, reports |-> <<>>, asks |-> <<>>,
              reservationEnds |-> <<>>, statuses |-> <<>>, problems |-> <<>>]

Then(a, b) ==
    [commands        |-> a.commands \o b.commands,
     reports         |-> a.reports \o b.reports,
     asks            |-> a.asks \o b.asks,
     reservationEnds |-> a.reservationEnds \o b.reservationEnds,
     statuses        |-> a.statuses \o b.statuses,
     problems        |-> a.problems \o b.problems]

\* The optional value x as a sequence of at most one element.
Maybe(x) == IF x = None THEN <<>> ELSE <<x>>
If(condition, x) == IF condition THEN <<x>> ELSE <<>>

-----------------------------------------------------------------------------
(* Reservations. *)

NextReservation(s, e, next) ==
    IF next = "Reserved"
      THEN IF e.type = "Reserved" THEN e.reservation ELSE s.reservation
      ELSE IF s.state = "Reserved" THEN None ELSE s.reservation

\* Leaving Reserved ends the reservation.  The cable arriving honours it; a
\* cancellation is the CSMS's own; only the rest is reported.
ReservationEnd(s, e, next) ==
    IF \/ s.state # "Reserved" \/ next = "Reserved" \/ s.reservation = None
       \/ e.type = "ReservationCancelled"
       \/ e.type # "ReservationExpired" /\ next = "Connected"
      THEN None
      ELSE [id |-> s.reservation.id,
            reason |-> IF e.type = "ReservationExpired" THEN "Expired"
                       ELSE "Removed"]

\* Mutant: what was honoured is never forgotten.
HonouredKept(s, e, next) ==
    IF s.state = "Reserved" /\ next = "Connected" /\ s.reservation # None
      THEN s.reservation.id ELSE s.honoured

\* The honoured reservation outlives itself until the connector is idle, so
\* that the transaction it leads to can quote it.
NextHonoured(s, e, next) ==
    IF s.state = "Reserved" /\ next = "Connected" /\ s.reservation # None
      THEN s.reservation.id
      ELSE IF next = "Available" THEN None ELSE s.honoured

-----------------------------------------------------------------------------
(* Held starts (F02, E03, F01.FR.01). *)

\* Mutant: a card is held as soon as it is presented.
HoldPresented(s, e, next) ==
    IF e.type \in {"ChargingAuthorized", "IdTokenPresented"}
         /\ s.state = "Available"
      THEN [token |-> e.token, remoteStartId |-> None]
    ELSE IF e.type = "RemoteStartRequested" /\ next = "Authorizing"
      THEN [token |-> e.token, remoteStartId |-> e.remoteStartId]
    ELSE None

\* E03: an accepted card on a connector with no cable is held, and so is a
\* remote start that the policy routes through authorization.
HeldByEvent(s, e, next) ==
    CASE e.type = "ChargingAuthorized" /\ s.state = "Available" ->
            [token |-> e.token, remoteStartId |-> None]
      [] e.type = "RemoteStartRequested" /\ next = "Authorizing" ->
            [token |-> e.token, remoteStartId |-> e.remoteStartId]
      [] OTHER -> None

\* The cable latched: what was held is dispatched rather than merely dropped.
Latches(s, next) == s.state = "Connected" /\ next = "Locked"

DropsHold(s, next) ==
    \/ next = "Locked" /\ s.state # "Locked"
    \/ next = "Starting" /\ s.state = "Authorizing"
    \/ next = "Available" /\ s.state # "Available"

NextPending(s, e, next) ==
    IF e.type = "RemoteStartPending" THEN e.pending
    ELSE IF e.type = "RemoteStartPendingCleared" THEN None
    ELSE IF HeldByEvent(s, e, next) # None THEN HeldByEvent(s, e, next)
    ELSE IF DropsHold(s, next) THEN None
    ELSE s.pending

-----------------------------------------------------------------------------
(* The requests an event makes for an authorization decision: one for the   *)
(* identifier presented, one for the start being held while Authorizing.   *)

Asks(e, next, pending) ==
    If(e.type \in {"IdTokenPresented", "ContractCertificatePresented"}
         /\ next \in {"Authorizing", "Available"},
       [token |-> e.token,
        contract |-> e.type = "ContractCertificatePresented"])
    \o If(next = "Authorizing" /\ pending # None,
          [token |-> pending.token, contract |-> FALSE])

-----------------------------------------------------------------------------
(* The transaction slot, in the order apply_connector_event touches it.     *)

Origin(s, e) ==
    [token |-> IF e.type \in {"ChargingAuthorized", "RemoteStartRequested"}
                 THEN e.token ELSE None,
     remoteStartId |->
        IF e.type = "RemoteStartRequested" /\ e.remoteStartId # None
          THEN e.remoteStartId
          ELSE IF s.pending # None THEN s.pending.remoteStartId ELSE None,
     reservationId |-> s.honoured]

EventStopReason(e) ==
    CASE e.type = "ChargingStopped" -> e.reason
      [] e.type = "ResetRequested"  -> "Reset"
      [] OTHER                      -> None

\* A computed limit reaches hardware only if it differs from the last request.
LimitMoves(s, e) ==
    e.type = "CurrentLimitComputed" /\ e.limit # s.requested

\* What the event itself does to the transaction, apart from any transition:
\* at most one of these applies to any one event.
OwnUpdate(s, e, policy) ==
    CASE e.type = "AuthorizationRevoked" -> Keep(GrantAllowance(s.tx, policy))
      [] e.type = "TransactionLimitSet" ->
            SetTransactionLimit(s.tx, e.limit, e.fromCsms, policy)
      [] e.type = "TransactionElapsed" /\ s.tx # None ->
            Keep([s.tx EXCEPT !.elapsed = e.secs])
      [] e.type = "MeterValueSampled" -> ApplyMeterSample(s.tx, e.sample)
      [] LimitMoves(s, e) /\ e.externallyCaused /\ s.tx # None ->
            Update(s.tx, "ChargingRateChanged")
      [] OTHER -> Keep(s.tx)

\* The transition's bookkeeping and the event's own never both act: none of
\* the events OwnUpdate names moves a connector while it touches the slot.
TransactionStep(s, nextId, e, next, policy) ==
    IF \/ e.type \in {"TransactionLimitSet", "TransactionElapsed",
                      "MeterValueSampled", "CurrentLimitComputed"}
       \/ e.type = "AuthorizationRevoked" /\ ~RevocationStopsAtOnce(policy)
      THEN OwnUpdate(s, e, policy)
      ELSE AdvanceTransaction(s.tx, nextId, s.state, next,
                              EventStopReason(e), Origin(s, e), policy)

-----------------------------------------------------------------------------
(* One event, without the follow-up event it may trigger.                   *)

\* Whether a recorded figure belongs to a running transaction.
Records(s, e, type) == e.type = type /\ s.tx # None

Starts(step) == step.report # None /\ step.report.kind = "Started"

\* A cost or tariff does not survive the transaction it was recorded for.
Clears(step) ==
    step.report # None /\ step.report.kind \in {"Started", "Ended"}

NextSlot(s, e, next, step) ==
    [state        |-> next,
     tx           |-> step.tx,
     reservation  |-> NextReservation(s, e, next),
     honoured     |-> NextHonoured(s, e, next),
     pending      |-> NextPending(s, e, next),
     cost         |-> IF Clears(step) THEN None
                      ELSE IF Records(s, e, "CostUpdated") THEN e.cost
                      ELSE s.cost,
     tariff       |-> IF Clears(step) THEN None
                      ELSE IF Records(s, e, "TariffAssigned") THEN e.tariff
                      ELSE s.tariff,
     runningCost  |-> IF Clears(step) THEN None
                      ELSE IF Records(s, e, "RunningCostAdvanced")
                        THEN e.total ELSE s.runningCost,
     runningTotal |-> IF Records(s, e, "RunningCostAdvanced") THEN e.total
                      ELSE s.runningTotal,
     sample       |-> IF e.type = "MeterValueSampled" THEN e.sample
                      ELSE s.sample,
     requested    |-> IF e.type = "CurrentLimitComputed" THEN e.limit
                      ELSE s.requested,
     applied      |-> IF e.type = "CurrentLimitConfirmed" THEN e.limit
                      ELSE s.applied,
     lockProblem  |-> IF e.type = "LockFailed" THEN TRUE
                      ELSE IF next = "Available" THEN FALSE
                      ELSE s.lockProblem]

SetCurrentLimit(limit) == [type |-> "SetCurrentLimit", limit |-> limit]
Command(type)          == [type |-> type, limit |-> None]

\* The outcome of a step: the slot, the id counter and the effects.
Outcome(slot, nextId, effects) ==
    [slot |-> slot, nextId |-> nextId, effects |-> effects]

\* The outcome once the move and the transaction's step are known.
Settle(s, nextId, e, move, step) ==
    Outcome(NextSlot(s, e, move.next, step),
            IF Starts(step) THEN nextId + 1 ELSE nextId,
            [commands |->
               If(move.command # None, Command(move.command))
               \o If(LimitMoves(s, e), SetCurrentLimit(e.limit)),
             reports         |-> Maybe(step.report),
             asks            |-> Asks(e, move.next,
                                      NextPending(s, e, move.next)),
             reservationEnds |-> Maybe(ReservationEnd(s, e, move.next)),
             statuses        |-> If(move.next # s.state, move.next),
             problems        |->
               If(e.type = "LockFailed" /\ ~s.lockProblem,
                  "PlugRetentionLock")])

MoveTo(s, nextId, e, move, policy) ==
    Settle(s, nextId, e, move,
           TransactionStep(s, nextId, e, move.next, policy))

Transit(s, nextId, e, policy) ==
    MoveTo(s, nextId, e, ConnectorApply(s.state, e, policy), policy)

-----------------------------------------------------------------------------
(* The follow-ups.  None of them triggers another one, so one level of      *)
(* nesting is all there is.                                                 *)

\* The outcome n of a follow-up, after the outcome o of the event.
After(o, n) == Outcome(n.slot, n.nextId, Then(o.effects, n.effects))

Followed(o, e, policy) == After(o, Transit(o.slot, o.nextId, e, policy))

\* request_current_limit: hardware is only told what it was not told before.
RequestCurrentLimit(o, limit) ==
    IF o.slot.requested = limit THEN o
    ELSE Outcome([o.slot EXCEPT !.requested = limit], o.nextId,
                 Then(o.effects, [NoEffects EXCEPT
                        !.commands = <<SetCurrentLimit(limit)>>]))

\* E16.FR.05: stop the energy, suspend, and only then report the ceiling.
ReportReached(n, u) ==
    Outcome([n.slot EXCEPT !.tx = u.tx], n.nextId,
            Then(n.effects, [NoEffects EXCEPT !.reports = <<u.report>>]))

MarkReached(n, kind) ==
    ReportReached(n, Update([n.slot.tx EXCEPT !.limitReached = kind],
                            "LimitReached"))

SuspendAtLimit(o, kind, policy) ==
    MarkReached(Followed(RequestCurrentLimit(o, 0),
                         [type |-> "ChargingSuspendedByEvse"], policy), kind)

\* E16.FR.14: the ceiling moved back above where the transaction stands.
ClearReached(n) ==
    Outcome([n.slot EXCEPT !.tx = [@ EXCEPT !.limitReached = None]],
            n.nextId, n.effects)

ResumeBelowLimit(o, policy) ==
    ClearReached(Followed(RequestCurrentLimit(o, None),
                          [type |-> "ChargingResumed"], policy))

Enforce(o, tx, reached, policy) ==
    IF reached # None /\ tx.limitReached = None
      THEN SuspendAtLimit(o, reached, policy)
    ELSE IF reached = None /\ tx.limitReached # None
      THEN ResumeBelowLimit(o, policy)
    ELSE o

EnforceTransactionLimit(o, policy) ==
    IF o.slot.tx = None THEN o
    ELSE IF o.slot.tx.limit = None THEN o
    ELSE Enforce(o, o.slot.tx,
                 ReachedLimit(o.slot.tx, o.slot.runningTotal, o.slot.cost),
                 policy)

\* The events after which a ceiling may have a different verdict.
MovesAFigure(s, e) ==
    \/ e.type \in {"MeterValueSampled", "TransactionLimitSet",
                   "TransactionElapsed"}
    \/ Records(s, e, "CostUpdated")
    \/ Records(s, e, "RunningCostAdvanced")

\* The held start the latching cable releases, None if there is none.
Dispatched(s, next) == IF Latches(s, next) THEN s.pending ELSE None

\* Mutant: a meter reading is held against the ceilings only.
FollowUpWithoutAllowance(s, e, o, policy) ==
    IF MovesAFigure(s, e) THEN EnforceTransactionLimit(o, policy) ELSE o

\* At most one follow-up: the end of an E05 allowance comes before the
\* ceilings, and a latching cable releases the start that was held for it.
FollowUp(s, e, o, policy) ==
    LET pending == Dispatched(s, o.slot.state)
    IN IF e.type = "MeterValueSampled" /\ AllowanceSpent(o.slot.tx)
         THEN Followed(o, [type |-> "ChargingStopped",
                           reason |-> "DeAuthorized"], policy)
       ELSE IF MovesAFigure(s, e)
         THEN EnforceTransactionLimit(o, policy)
       ELSE IF pending # None
         THEN Followed(o, [type |-> "RemoteStartRequested",
                           token |-> pending.token,
                           remoteStartId |-> pending.remoteStartId], policy)
       ELSE o

ApplyConnectorEvent(s, nextId, e, policy) ==
    FollowUp(s, e, Transit(s, nextId, e, policy), policy)

=============================================================================
