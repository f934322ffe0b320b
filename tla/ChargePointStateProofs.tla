----------------------- MODULE ChargePointStateProofs -----------------------
(***************************************************************************)
(* Theorems about ChargePointState, for every topology, every set of       *)
(* events and every policy: first the chain of reports, transactions and   *)
(* their ids; then what the charge point keeps for one connector beside    *)
(* them, its reservation (ReservationsAreSettled) and the ceilings its     *)
(* transaction runs under (CeilingsAreHeld).                               *)
(*                                                                         *)
(* Each is first proved of a slot through one event (transition, then at   *)
(* most one follow-up), and then carried to the charge point: whatever an  *)
(* event does to a connector it does through apply_connector_event, except *)
(* that a grant of priority charging marks the transaction.                *)
(***************************************************************************)
EXTENDS ChargePointState, TLAPS

-----------------------------------------------------------------------------
(* Types of the pure functions, from the inside out. *)

\* ConnectorState::apply only ever yields a state and at most one command.
LEMMA ConnectorApplyType ==
  ASSUME NEW s \in ConnectorStates, NEW e, NEW p
  PROVE  /\ ConnectorApply(s, e, p).next \in ConnectorStates
         /\ ConnectorApply(s, e, p).command \in Option(ConnectorCommands)
  BY DEF ConnectorApply, SupervisoryStep, SessionStep, Go, ConnectorStates,
         ConnectorCommands, Option, Powered, Suspended, Settling

Origins == [token : Option(IdTokens), remoteStartId : Option(RemoteStartIds),
            reservationId : Option(ReservationIds)]

\* A bookkeeping step: a slot and at most one report.
Steps == [tx : Option(Transactions), report : Option(Reports)]

\* A transaction record is whole from the moment it is opened.
LEMMA NewTransactionType ==
  ASSUME NEW id \in Nat, NEW next \in ConnectorStates, NEW o \in Origins
  PROVE  NewTransaction(id, next, o) \in Transactions
  BY DEF NewTransaction, Transactions, Origins, ChargingStateFor,
         ChargingStates, Option

\* A TransactionEvent about a transaction is a whole report.
LEMMA ReportType ==
  ASSUME NEW t \in Transactions, NEW k \in {"Started", "Updated", "Ended"},
         NEW why \in {"Started", "Ended"} \cup UpdateReasons
  PROVE  Report(k, why, t) \in Reports
  BY DEF Report, Reports, Transactions

\* The empty slot is told apart from everything a slot can hold.
LEMMA NoneIsNothing ==
  /\ None \notin Transactions
  /\ None \notin Reports
  /\ None \notin Nat
  BY NoneAssumption

\* Taking the next seqNo keeps a transaction well formed.
LEMMA BumpedType ==
  ASSUME NEW t \in Transactions
  PROVE  Bumped(t) \in Transactions
  BY DEF Bumped, Transactions

\* The four outcomes of a bookkeeping step are well formed.
LEMMA StepTypes ==
  /\ Keep(None) \in Steps
  /\ \A t \in Transactions :
        /\ Keep(t) \in Steps /\ Begin(t) \in Steps /\ Close(t) \in Steps
        /\ \A why \in UpdateReasons : Update(t, why) \in Steps
<1>1. Keep(None) \in Steps
  BY DEF Keep, Steps, Option
<1>2. ASSUME NEW t \in Transactions, NEW why \in UpdateReasons
      PROVE  /\ Keep(t) \in Steps /\ Begin(t) \in Steps /\ Close(t) \in Steps
             /\ Update(t, why) \in Steps
  <2>1. /\ Report("Started", "Started", t) \in Reports
        /\ Report("Updated", why, Bumped(t)) \in Reports
        /\ Report("Ended", "Ended", Bumped(t)) \in Reports
    BY BumpedType, ReportType
  <2> QED BY <2>1, BumpedType DEF Keep, Begin, Update, Close, Steps, Option
<1>3. "LimitSet" \in UpdateReasons
  BY DEF UpdateReasons
<1> QED BY <1>1, <1>2, <1>3

\* advance_transaction keeps the slot and the report well formed.
LEMMA AdvanceType ==
  ASSUME NEW tx \in Option(Transactions), NEW n \in Nat,
         NEW prev \in ConnectorStates, NEW next \in ConnectorStates,
         NEW reason \in Option(StopReasons), NEW o \in Origins, NEW p
  PROVE  AdvanceTransaction(tx, n, prev, next, reason, o, p) \in Steps
<1> DEFINE stopping == WithStopReason(tx, prev, next, reason)
           ended    == [stopping EXCEPT !.chargingState =
                          IF next = "Available" THEN "Idle" ELSE "EvConnected"]
           moved    == [tx EXCEPT !.chargingState = ChargingStateFor(next)]
           faulted  == [tx EXCEPT !.stopReason = "EmergencyStop"]
<1>1. NewTransaction(n, next, o) \in Transactions
  BY NewTransactionType
<1>2. ASSUME tx # None
      PROVE  stopping \in Transactions /\ ended \in Transactions
             /\ moved \in Transactions /\ faulted \in Transactions
  <2>0. tx \in Transactions
    BY <1>2 DEF Option
  <2>1. stopping \in Transactions
    BY <2>0 DEF WithStopReason, Transactions
  <2>2. ended \in Transactions
    BY <2>1 DEF Transactions, ChargingStates
  <2>3. moved \in Transactions
    BY <2>0 DEF Transactions, ChargingStates, ChargingStateFor
  <2>4. "EmergencyStop" \in Option(StopReasons)
    BY DEF StopReasons, Option
  <2>5. faulted \in Transactions
    BY <2>0, <2>4 DEF Transactions
  <2> QED BY <2>1, <2>2, <2>3, <2>5
<1>3. CASE tx = None
  <2>1. Begin(NewTransaction(n, next, o)) \in Steps /\ Keep(None) \in Steps
    BY <1>1, StepTypes
  <2> QED BY <1>3, <2>1 DEF AdvanceTransaction
<1>4. CASE tx # None
  <2>1. /\ Close(ended) \in Steps /\ Close(faulted) \in Steps
        /\ Update(moved, "ChargingStateChanged") \in Steps
        /\ Keep(stopping) \in Steps
    <3> "ChargingStateChanged" \in UpdateReasons
      BY DEF UpdateReasons
    <3> HIDE DEF stopping, ended, moved, faulted
    <3> QED BY <1>2, <1>4, StepTypes
  <2> HIDE DEF stopping, ended, moved, faulted
  <2> QED BY <1>4, <2>1 DEF AdvanceTransaction, stopping, ended, moved, faulted
<1> QED BY <1>3, <1>4

-----------------------------------------------------------------------------
(* Ceilings and allowances. *)

\* Narrowing a ceiling to the supported kinds, or under another one, yields
\* a ceiling.
LEMMA CeilingTypes ==
  ASSUME NEW l \in TransactionLimits, NEW c \in TransactionLimits, NEW k
  PROVE  /\ SupportedPart(l, k) \in TransactionLimits
         /\ ClampedTo(l, c) \in TransactionLimits
  BY DEF SupportedPart, ClampedTo, TransactionLimits

\* TransactionLimitSet leaves a transaction, or none, in the slot.
LEMMA SetTransactionLimitType ==
  ASSUME NEW tx \in Option(Transactions), NEW l \in TransactionLimits,
         NEW f \in BOOLEAN, NEW p \in ConnectorPolicies
  PROVE  SetTransactionLimit(tx, l, f, p) \in Steps
<1> DEFINE supported == SupportedPart(l, p.supportedLimits)
           csms      == IF f THEN supported ELSE tx.csmsLimit
           limit     == IF ~f /\ csms # None THEN ClampedTo(supported, csms)
                        ELSE supported
           t         == [tx EXCEPT !.csmsLimit = csms, !.limit = limit]
<1>1. supported \in TransactionLimits
  BY CeilingTypes
<1>2. ASSUME tx # None
      PROVE  t \in Transactions
  <2>1. tx \in Transactions
    BY <1>2 DEF Option
  <2>2. csms \in Option(TransactionLimits)
    BY <1>1, <2>1 DEF Transactions, Option
  <2>3. limit \in Option(TransactionLimits)
    BY <1>1, <2>2, CeilingTypes DEF Option
  <2> HIDE DEF supported, csms, limit
  <2>4. [tx EXCEPT !.csmsLimit = csms] \in Transactions
    BY <2>1, <2>2 DEF Transactions
  <2>5. [[tx EXCEPT !.csmsLimit = csms] EXCEPT !.limit = limit] \in Transactions
    BY <2>3, <2>4 DEF Transactions
  <2> QED BY <2>5
<1>3. "LimitSet" \in UpdateReasons
  BY DEF UpdateReasons
<1>4. Keep(tx) \in Steps
  BY StepTypes DEF Option
<1>5. tx # None => Update(t, "LimitSet") \in Steps
  <2> HIDE DEF t
  <2> QED BY <1>2, <1>3, StepTypes
<1> QED BY <1>4, <1>5 DEF SetTransactionLimit

\* The allowance of a revoked identifier is written into the transaction.
LEMMA GrantAllowanceType ==
  ASSUME NEW tx \in Option(Transactions), NEW p \in ConnectorPolicies
  PROVE  /\ tx # None => GrantAllowance(tx, p) \in Transactions
         /\ GrantAllowance(tx, p) \in Option(Transactions)
<1> DEFINE n == p.maxEnergyOnInvalidId +
                 (IF tx.lastSample = None THEN 0 ELSE tx.lastSample.energy)
<1>1. ASSUME tx # None
      PROVE  [tx EXCEPT !.stopAtEnergy = n] \in Transactions
  <2>1. tx \in Transactions
    BY <1>1 DEF Option
  <2>2. tx.lastSample # None => tx.lastSample.energy \in Nat
    BY <2>1 DEF Transactions, Samples, Option
  <2>3. n \in Nat
    BY <2>2 DEF ConnectorPolicies
  <2>4. n \in Option(Nat)
    BY <2>3 DEF Option
  <2> HIDE DEF n
  <2> QED BY <2>1, <2>4 DEF Transactions
<1> QED BY <1>1 DEF GrantAllowance, Option

\* apply_meter_sample leaves a transaction, or none, in the slot.
LEMMA ApplyMeterSampleType ==
  ASSUME NEW tx \in Option(Transactions), NEW m \in Samples
  PROVE  ApplyMeterSample(tx, m) \in Steps
<1> DEFINE start == IF tx.energyStart = None THEN m.energy ELSE tx.energyStart
           t     == [tx EXCEPT !.energyStart = IF @ = None THEN m.energy ELSE @,
                               !.lastSample = m]
<1>1. ASSUME tx # None
      PROVE  t \in Transactions
  <2>1. tx \in Transactions
    BY <1>1 DEF Option
  <2>2. start \in Option(Nat) /\ m \in Option(Samples)
    BY <2>1 DEF Transactions, Samples, Option
  <2> HIDE DEF start
  <2>3. [tx EXCEPT !.energyStart = start] \in Transactions
    BY <2>1, <2>2 DEF Transactions
  <2>4. [[tx EXCEPT !.energyStart = start] EXCEPT !.lastSample = m] \in Transactions
    BY <2>2, <2>3 DEF Transactions
  <2> QED BY <2>4 DEF start
<1>2. "MeterValuePeriodic" \in UpdateReasons
  BY DEF UpdateReasons
<1>3. Keep(tx) \in Steps
  BY StepTypes DEF Option
<1>4. tx # None => Update(t, "MeterValuePeriodic") \in Steps
  <2> HIDE DEF t
  <2> QED BY <1>1, <1>2, StepTypes
<1> QED BY <1>3, <1>4 DEF ApplyMeterSample

-----------------------------------------------------------------------------
(* One connector event. *)

\* What an event does to the transaction by itself is a bookkeeping step.
LEMMA OwnUpdateType ==
  ASSUME NEW s \in Slots, NEW e, WellFormed(e), NEW p \in ConnectorPolicies
  PROVE  OwnUpdate(s, e, p) \in Steps
<1>0. s.tx \in Option(Transactions)
  BY DEF Slots
<1>1. CASE e.type = "AuthorizationRevoked"
  <2>1. Keep(GrantAllowance(s.tx, p)) \in Steps
    BY <1>0, GrantAllowanceType, StepTypes DEF Option
  <2> QED BY <1>1, <2>1 DEF OwnUpdate, LimitMoves
<1>2. CASE e.type = "TransactionLimitSet"
  <2>1. SetTransactionLimit(s.tx, e.limit, e.fromCsms, p) \in Steps
    BY <1>0, <1>2, SetTransactionLimitType DEF WellFormed
  <2> QED BY <1>2, <2>1 DEF OwnUpdate, LimitMoves
<1>3. CASE e.type = "TransactionElapsed"
  <2>1. ASSUME s.tx # None
        PROVE  Keep([s.tx EXCEPT !.elapsed = e.secs]) \in Steps
    <3>1. e.secs \in Option(Nat) /\ s.tx \in Transactions
      BY <1>0, <1>3, <2>1 DEF WellFormed, Option
    <3>2. [s.tx EXCEPT !.elapsed = e.secs] \in Transactions
      BY <3>1 DEF Transactions
    <3> QED BY <3>2, StepTypes
  <2>2. Keep(s.tx) \in Steps
    BY <1>0, StepTypes DEF Option
  <2> QED BY <1>3, <2>1, <2>2 DEF OwnUpdate, LimitMoves
<1>4. CASE e.type = "MeterValueSampled"
  <2>1. ApplyMeterSample(s.tx, e.sample) \in Steps
    BY <1>0, <1>4, ApplyMeterSampleType DEF WellFormed
  <2> QED BY <1>4, <2>1 DEF OwnUpdate, LimitMoves
<1>5. CASE e.type \notin {"AuthorizationRevoked", "TransactionLimitSet",
                          "TransactionElapsed", "MeterValueSampled"}
  <2>1. s.tx # None => Update(s.tx, "ChargingRateChanged") \in Steps
    BY <1>0, StepTypes DEF Option, UpdateReasons
  <2>2. Keep(s.tx) \in Steps
    BY <1>0, StepTypes DEF Option
  <2> QED BY <1>5, <2>1, <2>2 DEF OwnUpdate
<1> QED BY <1>1, <1>2, <1>3, <1>4, <1>5

\* What a transaction records about how it was started.
LEMMA OriginType ==
  ASSUME NEW s \in Slots, NEW e, WellFormed(e)
  PROVE  Origin(s, e) \in Origins
<1>1. s.pending # None => s.pending \in PendingStarts
  BY DEF Slots, Option
<1>2. s.pending # None => s.pending.remoteStartId \in Option(RemoteStartIds)
  BY <1>1 DEF PendingStarts
<1>3. s.honoured \in Option(ReservationIds)
  BY DEF Slots
<1>4. e.type \in {"ChargingAuthorized", "RemoteStartRequested"} =>
        e.token \in IdTokens
  BY DEF WellFormed
<1>5. e.type = "RemoteStartRequested" =>
        e.remoteStartId \in Option(RemoteStartIds)
  BY DEF WellFormed
<1> QED BY <1>2, <1>3, <1>4, <1>5 DEF Origin, Origins, Option

\* Whatever the event, the transaction slot takes one bookkeeping step.
LEMMA TransactionStepType ==
  ASSUME NEW s \in Slots, NEW n \in Nat, NEW e, WellFormed(e),
         NEW next \in ConnectorStates, NEW p \in ConnectorPolicies
  PROVE  TransactionStep(s, n, e, next, p) \in Steps
<1>1. OwnUpdate(s, e, p) \in Steps
  BY OwnUpdateType
<1>2. EventStopReason(e) \in Option(StopReasons)
  BY DEF EventStopReason, Option, StopReasons, WellFormed
<1>3. s.tx \in Option(Transactions) /\ s.state \in ConnectorStates
  BY DEF Slots
<1>4. AdvanceTransaction(s.tx, n, s.state, next, EventStopReason(e),
                         Origin(s, e), p) \in Steps
  BY <1>2, <1>3, OriginType, AdvanceType
<1> QED BY <1>1, <1>4 DEF TransactionStep

\* The reservations slot holds a reservation or nothing.
LEMMA NextReservationType ==
  ASSUME NEW s \in Slots, NEW e, WellFormed(e), NEW next
  PROVE  NextReservation(s, e, next) \in Option(Reservations)
  BY DEF NextReservation, Slots, Option, WellFormed

\* The honoured_reservations slot holds a reservation id or nothing.
LEMMA NextHonouredType ==
  ASSUME NEW s \in Slots, NEW e, NEW next
  PROVE  NextHonoured(s, e, next) \in Option(ReservationIds)
<1>1. s.reservation # None => s.reservation.id \in ReservationIds
  BY DEF Slots, Option, Reservations
<1>2. s.honoured \in Option(ReservationIds)
  BY DEF Slots
<1> QED BY <1>1, <1>2 DEF NextHonoured, Option

\* The pending_remote_starts slot holds a held start or nothing.
LEMMA NextPendingType ==
  ASSUME NEW s \in Slots, NEW e, WellFormed(e), NEW next
  PROVE  NextPending(s, e, next) \in Option(PendingStarts)
<1>1. s.pending \in Option(PendingStarts)
  BY DEF Slots
<1>2. e.type = "RemoteStartPending" => e.pending \in PendingStarts
  BY DEF WellFormed
<1>3. CASE e.type = "ChargingAuthorized"
  <2>1. [token |-> e.token, remoteStartId |-> None] \in PendingStarts
    BY <1>3 DEF WellFormed, PendingStarts, Option
  <2>2. HeldByEvent(s, e, next) \in Option(PendingStarts)
    BY <1>3, <2>1 DEF HeldByEvent, Option
  <2> QED BY <1>1, <1>2, <2>2 DEF NextPending, Option
<1>4. CASE e.type = "RemoteStartRequested"
  <2>1. [token |-> e.token, remoteStartId |-> e.remoteStartId] \in PendingStarts
    BY <1>4 DEF WellFormed, PendingStarts
  <2>2. HeldByEvent(s, e, next) \in Option(PendingStarts)
    BY <1>4, <2>1 DEF HeldByEvent, Option
  <2> QED BY <1>1, <1>2, <2>2 DEF NextPending, Option
<1>5. CASE e.type \notin {"ChargingAuthorized", "RemoteStartRequested"}
  <2>1. HeldByEvent(s, e, next) = None
    BY <1>5 DEF HeldByEvent
  <2> QED BY <1>1, <1>2, <2>1 DEF NextPending, Option
<1> QED BY <1>3, <1>4, <1>5

\* Every parallel Vec of EvseState keeps its type across an event.
LEMMA NextSlotType ==
  ASSUME NEW s \in Slots, NEW e, WellFormed(e), NEW next \in ConnectorStates,
         NEW step \in Steps
  PROVE  NextSlot(s, e, next, step) \in Slots
<1> DEFINE r == NextSlot(s, e, next, step)
<1>1. /\ NextReservation(s, e, next) \in Option(Reservations)
      /\ NextHonoured(s, e, next) \in Option(ReservationIds)
      /\ NextPending(s, e, next) \in Option(PendingStarts)
  BY NextReservationType, NextHonouredType, NextPendingType
<1>2. step.tx \in Option(Transactions)
  BY DEF Steps
<1>3. /\ e.type = "CostUpdated" => e.cost \in Option(Nat)
      /\ e.type = "TariffAssigned" => e.tariff \in Option(Nat)
      /\ e.type = "RunningCostAdvanced" => e.total \in Option(Nat)
  BY PriceAssumption DEF WellFormed, Option
<1>4. /\ e.type = "MeterValueSampled" => e.sample \in Option(Samples)
      /\ e.type = "CurrentLimitComputed" => e.limit \in Option(Nat)
      /\ e.type = "CurrentLimitConfirmed" => e.limit \in Option(Nat)
  BY PriceAssumption DEF WellFormed, Option
<1>5. /\ s.cost \in Option(Nat) /\ s.tariff \in Option(Nat)
      /\ s.runningCost \in Option(Nat) /\ s.runningTotal \in Option(Nat)
      /\ s.sample \in Option(Samples) /\ s.requested \in Option(Nat)
      /\ s.applied \in Option(Nat) /\ s.lockProblem \in BOOLEAN
  BY DEF Slots
<1>6. None \in Option(Nat)
  BY DEF Option
<1>7. /\ r.cost \in Option(Nat) /\ r.tariff \in Option(Nat)
      /\ r.runningCost \in Option(Nat) /\ r.runningTotal \in Option(Nat)
  BY <1>3, <1>5, <1>6 DEF NextSlot, Records
<1>8. /\ r.sample \in Option(Samples) /\ r.requested \in Option(Nat)
      /\ r.applied \in Option(Nat) /\ r.lockProblem \in BOOLEAN
  BY <1>4, <1>5 DEF NextSlot
<1>9. r = [state |-> r.state, tx |-> r.tx, reservation |-> r.reservation,
           honoured |-> r.honoured, pending |-> r.pending, cost |-> r.cost,
           tariff |-> r.tariff, runningCost |-> r.runningCost,
           runningTotal |-> r.runningTotal, sample |-> r.sample,
           requested |-> r.requested, applied |-> r.applied,
           lockProblem |-> r.lockProblem]
  BY DEF NextSlot
<1>10. /\ r.state = next /\ r.tx = step.tx
       /\ r.reservation = NextReservation(s, e, next)
       /\ r.honoured = NextHonoured(s, e, next)
       /\ r.pending = NextPending(s, e, next)
  BY DEF NextSlot
<1> HIDE DEF r
<1>11. r \in Slots
  BY <1>1, <1>2, <1>7, <1>8, <1>9, <1>10 DEF Slots
<1> QED BY <1>11 DEF r

\* An optional effect is a sequence of effects.
LEMMA MaybeType ==
  ASSUME NEW S, NEW x
  PROVE  x \in Option(S) => Maybe(x) \in Seq(S)
  BY DEF Maybe, Option

\* The two shapes of hardware command.
LEMMA CommandTypes ==
  /\ \A c \in ConnectorCommands : Command(c) \in HardwareCommands
  /\ \A l \in Option(Nat) : SetCurrentLimit(l) \in HardwareCommands
  BY DEF Command, SetCurrentLimit, HardwareCommands, Option

\* The end of a reservation is whole, or there is none to report.
LEMMA ReservationEndType ==
  ASSUME NEW s \in Slots, NEW e, NEW next
  PROVE  ReservationEnd(s, e, next) \in Option(ReservationEnds)
<1>1. s.reservation # None => s.reservation.id \in ReservationIds
  BY DEF Slots, Option, Reservations
<1> QED BY <1>1 DEF ReservationEnd, ReservationEnds, Option

\* The authorization requests an event makes are whole.
LEMMA AsksType ==
  ASSUME NEW e, WellFormed(e), NEW next, NEW pending \in Option(PendingStarts)
  PROVE  Asks(e, next, pending) \in Seq(AuthorizationRequests)
<1>1. e.type \in {"IdTokenPresented", "ContractCertificatePresented"} =>
        [token |-> e.token, contract |-> e.type = "ContractCertificatePresented"]
          \in AuthorizationRequests
  BY DEF WellFormed, AuthorizationRequests
<1>2. pending # None =>
        [token |-> pending.token, contract |-> FALSE] \in AuthorizationRequests
  BY DEF PendingStarts, Option, AuthorizationRequests
<1> DEFINE A == If(e.type \in {"IdTokenPresented", "ContractCertificatePresented"}
                     /\ next \in {"Authorizing", "Available"},
                   [token |-> e.token,
                    contract |-> e.type = "ContractCertificatePresented"])
           B == If(next = "Authorizing" /\ pending # None,
                   [token |-> pending.token, contract |-> FALSE])
<1>3. A \in Seq(AuthorizationRequests)
  BY <1>1 DEF If
<1>4. B \in Seq(AuthorizationRequests)
  BY <1>2 DEF If
<1> HIDE DEF A, B
<1>5. A \o B \in Seq(AuthorizationRequests)
  BY <1>3, <1>4
<1> QED BY <1>5 DEF Asks, A, B

Outcomes == [slot : Slots, nextId : Nat, effects : Effects]

\* Effects of a follow-up event are appended to those of the event.
LEMMA ThenType ==
  ASSUME NEW a \in Effects, NEW b \in Effects
  PROVE  Then(a, b) \in Effects
<1>1. /\ a.commands \o b.commands \in Seq(HardwareCommands)
      /\ a.reports \o b.reports \in Seq(Reports)
      /\ a.asks \o b.asks \in Seq(AuthorizationRequests)
      /\ a.reservationEnds \o b.reservationEnds \in Seq(ReservationEnds)
      /\ a.statuses \o b.statuses \in Seq(ConnectorStates)
      /\ a.problems \o b.problems \in Seq(MonitorProblems)
  BY DEF Effects
<1> QED BY <1>1 DEF Then, Effects

\* In particular the reports are.
LEMMA ThenReports ==
  ASSUME NEW a, NEW b
  PROVE  Then(a, b).reports = a.reports \o b.reports
  BY DEF Then

\* The effects of asking hardware for a current, or of one more report.
LEMMA SingleEffects ==
  /\ \A c \in HardwareCommands :
        /\ [NoEffects EXCEPT !.commands = <<c>>] \in Effects
        /\ [NoEffects EXCEPT !.commands = <<c>>].reports = << >>
  /\ \A r \in Reports :
        /\ [NoEffects EXCEPT !.reports = <<r>>] \in Effects
        /\ [NoEffects EXCEPT !.reports = <<r>>].reports = <<r>>
<1>1. NoEffects \in Effects /\ NoEffects.reports = << >>
  BY DEF NoEffects, Effects
<1>2. ASSUME NEW c \in HardwareCommands
      PROVE  /\ [NoEffects EXCEPT !.commands = <<c>>] \in Effects
             /\ [NoEffects EXCEPT !.commands = <<c>>].reports = << >>
  <2>1. <<c>> \in Seq(HardwareCommands)
    OBVIOUS
  <2>2. \A q \in Seq(HardwareCommands) :
          /\ [NoEffects EXCEPT !.commands = q] \in Effects
          /\ [NoEffects EXCEPT !.commands = q].reports = NoEffects.reports
    BY <1>1 DEF Effects
  <2> QED BY <1>1, <2>1, <2>2
<1>3. ASSUME NEW r \in Reports
      PROVE  /\ [NoEffects EXCEPT !.reports = <<r>>] \in Effects
             /\ [NoEffects EXCEPT !.reports = <<r>>].reports = <<r>>
  <2>1. <<r>> \in Seq(Reports)
    OBVIOUS
  <2>2. \A q \in Seq(Reports) :
          /\ [NoEffects EXCEPT !.reports = q] \in Effects
          /\ [NoEffects EXCEPT !.reports = q].reports = q
    BY <1>1 DEF Effects
  <2> QED BY <2>1, <2>2
<1> QED BY <1>2, <1>3

\* One event, without its follow-up, yields a slot, a counter and effects.
LEMMA TransitType ==
  ASSUME NEW s \in Slots, NEW n \in Nat, NEW e, WellFormed(e),
         NEW p \in ConnectorPolicies
  PROVE  Transit(s, n, e, p) \in Outcomes
<1> DEFINE move == ConnectorApply(s.state, e, p)
           step == TransactionStep(s, n, e, move.next, p)
           slot == NextSlot(s, e, move.next, step)
           com  == If(move.command # None, Command(move.command))
           lim  == If(LimitMoves(s, e), SetCurrentLimit(e.limit))
           fx   == [commands        |-> com \o lim,
                    reports         |-> Maybe(step.report),
                    asks            |-> Asks(e, move.next,
                                             NextPending(s, e, move.next)),
                    reservationEnds |-> Maybe(ReservationEnd(s, e, move.next)),
                    statuses        |-> If(move.next # s.state, move.next),
                    problems        |->
                      If(e.type = "LockFailed" /\ ~s.lockProblem,
                         "PlugRetentionLock")]
<1>1. /\ move.next \in ConnectorStates
      /\ move.command \in Option(ConnectorCommands)
  BY ConnectorApplyType DEF Slots
<1> HIDE DEF move
<1>2. step \in Steps
  BY <1>1, TransactionStepType
<1> HIDE DEF step
<1>3. slot \in Slots
  BY <1>1, <1>2, NextSlotType
<1> HIDE DEF slot
<1>4. com \in Seq(HardwareCommands)
  BY <1>1, CommandTypes DEF If, Option
<1>5. lim \in Seq(HardwareCommands)
  <2>1. LimitMoves(s, e) => e.limit \in Option(Nat)
    BY PriceAssumption DEF LimitMoves, WellFormed, Option
  <2> QED BY <2>1, CommandTypes DEF If
<1>6. com \o lim \in Seq(HardwareCommands)
  <2> HIDE DEF com, lim
  <2> QED BY <1>4, <1>5
<1>7. Maybe(step.report) \in Seq(Reports)
  BY <1>2, MaybeType DEF Steps
<1>8. Asks(e, move.next, NextPending(s, e, move.next))
         \in Seq(AuthorizationRequests)
  <2>1. slot.pending = NextPending(s, e, move.next)
    BY DEF slot, NextSlot
  <2>2. NextPending(s, e, move.next) \in Option(PendingStarts)
    BY <1>3, <2>1 DEF Slots
  <2> QED BY <2>2, AsksType
<1>9. Maybe(ReservationEnd(s, e, move.next)) \in Seq(ReservationEnds)
  BY ReservationEndType, MaybeType
<1>10. If(move.next # s.state, move.next) \in Seq(ConnectorStates)
  BY <1>1 DEF If
<1>11. If(e.type = "LockFailed" /\ ~s.lockProblem, "PlugRetentionLock")
         \in Seq(MonitorProblems)
  <2>1. "PlugRetentionLock" \in MonitorProblems
    BY DEF MonitorProblems
  <2> QED BY <2>1 DEF If
<1> HIDE DEF com, lim
<1>12. fx \in Effects
  BY <1>6, <1>7, <1>8, <1>9, <1>10, <1>11 DEF Effects
<1>13. (IF Starts(step) THEN n + 1 ELSE n) \in Nat
  OBVIOUS
<1> HIDE DEF fx
<1>14. Outcome(slot, IF Starts(step) THEN n + 1 ELSE n, fx) \in Outcomes
  BY <1>3, <1>12, <1>13 DEF Outcome, Outcomes
<1> QED BY <1>14 DEF Transit, MoveTo, Settle, move, step, slot, com, lim, fx

-----------------------------------------------------------------------------
(* A faulted connector has no transaction, in terms of one slot.  The type   *)
(* of the follow-ups below rests on it: they edit a transaction that the     *)
(* transition before them must have left in place.                           *)

FaultSafe(s) == s.state \in {"Faulted", "FaultedSafe"} => s.tx = None

\* The events that touch a transaction without moving the connector.
LEMMA OwnEventsStay ==
  ASSUME NEW s, NEW e, NEW p,
         \/ e.type \in {"TransactionLimitSet", "TransactionElapsed",
                        "MeterValueSampled", "CurrentLimitComputed"}
         \/ e.type = "AuthorizationRevoked" /\ ~RevocationStopsAtOnce(p)
  PROVE  ConnectorApply(s, e, p).next = s
  BY DEF ConnectorApply, SupervisoryEvents, SessionStep, Go

\* FaultedSafe is only entered from Faulted.
LEMMA FaultedSafeFromFaulted ==
  ASSUME NEW s, NEW e, NEW p, ConnectorApply(s, e, p).next = "FaultedSafe"
  PROVE  s \in {"Faulted", "FaultedSafe"}
  BY DEF ConnectorApply, SupervisoryStep, SessionStep, Go

-----------------------------------------------------------------------------
(* What one bookkeeping step may do to a slot: nothing the CSMS could tell,   *)
(* or exactly one report that continues the slot's chain.                     *)

SameTransaction(a, b) ==
    /\ a = None <=> b = None
    /\ a # None => a.id = b.id /\ a.seqNo = b.seqNo

Continues(tx, report) ==
    /\ tx # None
    /\ report.id = tx.id /\ report.seqNo = tx.seqNo + 1

Links(tx, n, step) ==
    \/ /\ step.report = None
       /\ SameTransaction(tx, step.tx)
    \/ /\ tx = None /\ step.tx # None /\ step.report # None
       /\ step.tx.id = n /\ step.tx.seqNo = 0
       /\ step.report.kind = "Started" /\ step.report.id = n
       /\ step.report.seqNo = 0
    \/ /\ step.report # None /\ step.report.kind = "Updated"
       /\ Continues(tx, step.report)
       /\ step.tx # None
       /\ step.tx.id = tx.id /\ step.tx.seqNo = tx.seqNo + 1
    \/ /\ step.report # None /\ step.report.kind = "Ended"
       /\ Continues(tx, step.report)
       /\ step.tx = None

\* Bumped moves seqNo by one and nothing else.
LEMMA BumpedFields ==
  ASSUME NEW t \in Transactions
  PROVE  /\ Bumped(t) \in Transactions
         /\ Bumped(t).id = t.id
         /\ Bumped(t).seqNo = t.seqNo + 1
  BY DEF Bumped, Transactions

\* Keeping, updating and closing a transaction continue its chain.
LEMMA StepsLink ==
  ASSUME NEW n \in Nat
  PROVE  /\ Links(None, n, Keep(None))
         /\ \A t, u \in Transactions : t.id = u.id /\ t.seqNo = u.seqNo =>
               /\ Links(t, n, Keep(u))
               /\ Links(t, n, Close(u))
               /\ \A why \in UpdateReasons : Links(t, n, Update(u, why))
<1>1. Links(None, n, Keep(None))
  BY DEF Links, Keep, SameTransaction
<1>2. ASSUME NEW t \in Transactions, NEW u \in Transactions,
             t.id = u.id, t.seqNo = u.seqNo
      PROVE  Links(t, n, Keep(u))
  BY <1>2, NoneIsNothing DEF Links, Keep, SameTransaction
<1>3. ASSUME NEW t \in Transactions, NEW u \in Transactions,
             t.id = u.id, t.seqNo = u.seqNo, NEW k \in {"Updated", "Ended"},
             NEW why \in {"Started", "Ended"} \cup UpdateReasons
      PROVE  /\ Report(k, why, Bumped(u)) # None
             /\ Report(k, why, Bumped(u)).kind = k
             /\ Continues(t, Report(k, why, Bumped(u)))
  <2>1. Report(k, why, Bumped(u)) \in Reports
    BY BumpedFields, ReportType
  <2> QED BY <1>3, <2>1, BumpedFields, NoneIsNothing DEF Report, Continues
<1>4. ASSUME NEW t \in Transactions, NEW u \in Transactions,
             t.id = u.id, t.seqNo = u.seqNo
      PROVE  Links(t, n, Close(u))
  <2> DEFINE r == Report("Ended", "Ended", Bumped(u))
  <2>1. r # None /\ r.kind = "Ended" /\ Continues(t, r)
    BY <1>3, <1>4
  <2>2. Close(u) = [tx |-> None, report |-> r]
    BY DEF Close
  <2> HIDE DEF r
  <2> QED BY <2>1, <2>2 DEF Links
<1>5. ASSUME NEW t \in Transactions, NEW u \in Transactions,
             t.id = u.id, t.seqNo = u.seqNo, NEW why \in UpdateReasons
      PROVE  Links(t, n, Update(u, why))
  <2> DEFINE r == Report("Updated", why, Bumped(u))
             b == Bumped(u)
  <2>1. r # None /\ r.kind = "Updated" /\ Continues(t, r)
    BY <1>3, <1>5
  <2>2. Update(u, why) = [tx |-> b, report |-> r]
    BY DEF Update
  <2>3. b # None /\ b.id = t.id /\ b.seqNo = t.seqNo + 1
    BY <1>5, BumpedFields, NoneIsNothing
  <2> HIDE DEF r, b
  <2> QED BY <2>1, <2>2, <2>3 DEF Links
<1> QED BY <1>1, <1>2, <1>4, <1>5

\* Opening a transaction starts a chain with the id it was handed.
LEMMA BeginLinks ==
  ASSUME NEW n \in Nat, NEW next \in ConnectorStates, NEW o \in Origins
  PROVE  Links(None, n, Begin(NewTransaction(n, next, o)))
<1> DEFINE t == NewTransaction(n, next, o)
           r == Report("Started", "Started", t)
<1>1. t \in Transactions /\ t.id = n /\ t.seqNo = 0
  BY NewTransactionType DEF NewTransaction
<1>2. r \in Reports /\ r.kind = "Started" /\ r.id = t.id /\ r.seqNo = t.seqNo
  BY <1>1, ReportType DEF Report
<1>3. Begin(t) = [tx |-> t, report |-> r]
  BY DEF Begin
<1> HIDE DEF t, r
<1>4. Links(None, n, Begin(t))
  BY <1>1, <1>2, <1>3, NoneIsNothing DEF Links
<1> QED BY <1>4 DEF t

\* advance_transaction makes at most one report, and it continues the chain.
LEMMA AdvanceLinks ==
  ASSUME NEW tx \in Option(Transactions), NEW n \in Nat,
         NEW prev \in ConnectorStates, NEW next \in ConnectorStates,
         NEW reason \in Option(StopReasons), NEW o \in Origins, NEW p
  PROVE  Links(tx, n, AdvanceTransaction(tx, n, prev, next, reason, o, p))
<1> DEFINE stopping == WithStopReason(tx, prev, next, reason)
           ended    == [stopping EXCEPT !.chargingState =
                          IF next = "Available" THEN "Idle" ELSE "EvConnected"]
           moved    == [tx EXCEPT !.chargingState = ChargingStateFor(next)]
           faulted  == [tx EXCEPT !.stopReason = "EmergencyStop"]
<1>1. CASE tx = None
  <2>1. /\ Links(None, n, Begin(NewTransaction(n, next, o)))
        /\ Links(None, n, Keep(None))
    BY BeginLinks, StepsLink
  <2> QED BY <1>1, <2>1 DEF AdvanceTransaction
<1>2. CASE tx # None
  <2>0. tx \in Transactions
    BY <1>2 DEF Option
  <2>1. stopping \in Transactions /\ stopping.id = tx.id
        /\ stopping.seqNo = tx.seqNo
    BY <2>0 DEF WithStopReason, Transactions
  <2>2. ended \in Transactions /\ ended.id = tx.id /\ ended.seqNo = tx.seqNo
    <3> HIDE DEF stopping
    <3> DEFINE cs == IF next = "Available" THEN "Idle" ELSE "EvConnected"
    <3>1. cs \in ChargingStates
      BY DEF ChargingStates
    <3> HIDE DEF cs
    <3>2. [stopping EXCEPT !.chargingState = cs] \in Transactions
      BY <2>1, <3>1 DEF Transactions
    <3>3. /\ [stopping EXCEPT !.chargingState = cs].id = tx.id
          /\ [stopping EXCEPT !.chargingState = cs].seqNo = tx.seqNo
      BY <2>1 DEF Transactions
    <3> QED BY <3>2, <3>3 DEF cs
  <2>3. moved \in Transactions /\ moved.id = tx.id /\ moved.seqNo = tx.seqNo
    BY <2>0 DEF Transactions, ChargingStates, ChargingStateFor
  <2>4. "EmergencyStop" \in Option(StopReasons)
    BY DEF StopReasons, Option
  <2>5. faulted \in Transactions /\ faulted.id = tx.id
        /\ faulted.seqNo = tx.seqNo
    BY <2>0, <2>4 DEF Transactions
  <2>6. "ChargingStateChanged" \in UpdateReasons
    BY DEF UpdateReasons
  <2> HIDE DEF stopping, ended, moved, faulted
  <2>7. /\ Links(tx, n, Close(ended)) /\ Links(tx, n, Close(faulted))
        /\ Links(tx, n, Keep(stopping))
        /\ Links(tx, n, Update(moved, "ChargingStateChanged"))
    BY <2>0, <2>1, <2>2, <2>3, <2>5, <2>6, StepsLink
  <2> QED BY <1>2, <2>7 DEF AdvanceTransaction, stopping, ended, moved, faulted
<1> QED BY <1>1, <1>2

\* Nor does an event's own update break it.
LEMMA OwnUpdateLinks ==
  ASSUME NEW s \in Slots, NEW n \in Nat, NEW e, WellFormed(e),
         NEW p \in ConnectorPolicies
  PROVE  Links(s.tx, n, OwnUpdate(s, e, p))
<1>0. s.tx \in Option(Transactions)
  BY DEF Slots
<1>1. CASE s.tx = None
  <2>0. Links(None, n, Keep(None))
    BY StepsLink
  <2>1. /\ GrantAllowance(s.tx, p) = None
        /\ SetTransactionLimit(s.tx, e.limit, e.fromCsms, p) = Keep(None)
        /\ ApplyMeterSample(s.tx, e.sample) = Keep(None)
    BY <1>1 DEF GrantAllowance, SetTransactionLimit, ApplyMeterSample
  <2>2. OwnUpdate(s, e, p) = Keep(None)
    BY <1>1, <2>1 DEF OwnUpdate, LimitMoves
  <2> QED BY <1>1, <2>0, <2>2
<1>2. CASE s.tx # None
  <2>0. s.tx \in Transactions
    BY <1>0, <1>2 DEF Option
  <2>1. CASE e.type = "AuthorizationRevoked"
    <3> DEFINE g == GrantAllowance(s.tx, p)
    <3>1. g \in Transactions
      BY <1>0, <1>2, GrantAllowanceType
    <3>2. g.id = s.tx.id /\ g.seqNo = s.tx.seqNo
      BY <2>0 DEF GrantAllowance, Transactions
    <3> HIDE DEF g
    <3>3. Links(s.tx, n, Keep(g))
      BY <2>0, <3>1, <3>2, StepsLink
    <3> QED BY <2>1, <3>3 DEF OwnUpdate, LimitMoves, g
  <2>2. CASE e.type = "TransactionLimitSet"
    <3> DEFINE supported == SupportedPart(e.limit, p.supportedLimits)
               csms  == IF e.fromCsms THEN supported ELSE s.tx.csmsLimit
               limit == IF ~e.fromCsms /\ csms # None
                          THEN ClampedTo(supported, csms) ELSE supported
               t     == [s.tx EXCEPT !.csmsLimit = csms, !.limit = limit]
    <3>0. e.limit \in TransactionLimits /\ e.fromCsms \in BOOLEAN
      BY <2>2 DEF WellFormed
    <3>1. supported \in TransactionLimits
      BY <3>0, CeilingTypes
    <3>2. csms \in Option(TransactionLimits)
      BY <2>0, <3>1 DEF Transactions, Option
    <3>3. limit \in Option(TransactionLimits)
      BY <3>1, <3>2, CeilingTypes DEF Option
    <3> HIDE DEF supported, csms, limit
    <3>4. [s.tx EXCEPT !.csmsLimit = csms] \in Transactions
      BY <2>0, <3>2 DEF Transactions
    <3>5. [[s.tx EXCEPT !.csmsLimit = csms] EXCEPT !.limit = limit]
            \in Transactions
      BY <3>3, <3>4 DEF Transactions
    <3>6. t \in Transactions /\ t.id = s.tx.id /\ t.seqNo = s.tx.seqNo
      BY <2>0, <3>5 DEF Transactions
    <3>7. "LimitSet" \in UpdateReasons
      BY DEF UpdateReasons
    <3> HIDE DEF t
    <3>8. Links(s.tx, n, Update(t, "LimitSet")) /\ Links(s.tx, n, Keep(s.tx))
      BY <2>0, <3>6, <3>7, StepsLink
    <3>9. Links(s.tx, n, SetTransactionLimit(s.tx, e.limit, e.fromCsms, p))
      BY <3>8 DEF SetTransactionLimit, t, limit, csms, supported
    <3> QED BY <2>2, <3>9 DEF OwnUpdate, LimitMoves
  <2>3. CASE e.type = "TransactionElapsed"
    <3> DEFINE t == [s.tx EXCEPT !.elapsed = e.secs]
    <3>1. e.secs \in Option(Nat)
      BY <2>3 DEF WellFormed, Option
    <3>2. t \in Transactions /\ t.id = s.tx.id /\ t.seqNo = s.tx.seqNo
      BY <2>0, <3>1 DEF Transactions
    <3> HIDE DEF t
    <3>3. Links(s.tx, n, Keep(t))
      BY <2>0, <3>2, StepsLink
    <3> QED BY <1>2, <2>3, <3>3 DEF OwnUpdate, LimitMoves, t
  <2>4. CASE e.type = "MeterValueSampled"
    <3> DEFINE m     == e.sample
               start == IF s.tx.energyStart = None THEN m.energy
                        ELSE s.tx.energyStart
               t     == [s.tx EXCEPT
                           !.energyStart = IF @ = None THEN m.energy ELSE @,
                           !.lastSample = m]
    <3>1. m \in Samples
      BY <2>4 DEF WellFormed
    <3> HIDE DEF m
    <3>2. start \in Option(Nat) /\ m \in Option(Samples)
      BY <2>0, <3>1 DEF Transactions, Samples, Option
    <3> HIDE DEF start
    <3>3. [s.tx EXCEPT !.energyStart = start] \in Transactions
      BY <2>0, <3>2 DEF Transactions
    <3>4. [[s.tx EXCEPT !.energyStart = start] EXCEPT !.lastSample = m]
            \in Transactions
      BY <3>2, <3>3 DEF Transactions
    <3>5. t \in Transactions /\ t.id = s.tx.id /\ t.seqNo = s.tx.seqNo
      BY <2>0, <3>4 DEF start, Transactions
    <3>6. "MeterValuePeriodic" \in UpdateReasons
      BY DEF UpdateReasons
    <3> HIDE DEF t
    <3>7. /\ Links(s.tx, n, Update(t, "MeterValuePeriodic"))
          /\ Links(s.tx, n, Keep(s.tx))
      BY <2>0, <3>5, <3>6, StepsLink
    <3>8. Links(s.tx, n, ApplyMeterSample(s.tx, e.sample))
      BY <3>7 DEF ApplyMeterSample, t, m
    <3> QED BY <2>4, <3>8 DEF OwnUpdate, LimitMoves
  <2>5. CASE e.type \notin {"AuthorizationRevoked", "TransactionLimitSet",
                            "TransactionElapsed", "MeterValueSampled"}
    <3>1. "ChargingRateChanged" \in UpdateReasons
      BY DEF UpdateReasons
    <3>2. /\ Links(s.tx, n, Update(s.tx, "ChargingRateChanged"))
          /\ Links(s.tx, n, Keep(s.tx))
      BY <2>0, <3>1, StepsLink
    <3> QED BY <2>5, <3>2 DEF OwnUpdate
  <2> QED BY <2>1, <2>2, <2>3, <2>4, <2>5
<1> QED BY <1>1, <1>2

\* Whatever the event, the bookkeeping step continues the chain.
LEMMA TransactionStepLinks ==
  ASSUME NEW s \in Slots, NEW n \in Nat, NEW e, WellFormed(e),
         NEW next \in ConnectorStates, NEW p \in ConnectorPolicies
  PROVE  Links(s.tx, n, TransactionStep(s, n, e, next, p))
<1>1. Links(s.tx, n, OwnUpdate(s, e, p))
  BY OwnUpdateLinks
<1>2. EventStopReason(e) \in Option(StopReasons)
  BY DEF EventStopReason, Option, StopReasons, WellFormed
<1>3. s.tx \in Option(Transactions) /\ s.state \in ConnectorStates
  BY DEF Slots
<1>4. Links(s.tx, n, AdvanceTransaction(s.tx, n, s.state, next,
                       EventStopReason(e), Origin(s, e), p))
  BY <1>2, <1>3, OriginType, AdvanceLinks
<1> QED BY <1>1, <1>4 DEF TransactionStep

-----------------------------------------------------------------------------
(* From one step to a whole event: the reports of an event, in sequence.      *)

\* A step that continues the slot's chain continues the chain of reports, and
\* leaves slot and reports in agreement.
LEMMA LinkChains ==
  ASSUME NEW tx \in Option(Transactions), NEW n \in Nat, NEW step \in Steps,
         Links(tx, n, step), NEW l \in Option(Reports), Agrees(tx, l)
  PROVE  /\ Chained(l, Maybe(step.report))
         /\ LastOf(l, Maybe(step.report)) \in Option(Reports)
         /\ Agrees(step.tx, LastOf(l, Maybe(step.report)))
<1>1. CASE step.report = None
  <2>1. Maybe(step.report) = << >>
    BY <1>1 DEF Maybe
  <2>2. LastOf(l, Maybe(step.report)) = l
    BY <2>1 DEF LastOf
  <2>3. Chained(l, Maybe(step.report))
    BY <2>1 DEF Chained
  <2>4. SameTransaction(tx, step.tx)
    BY <1>1 DEF Links
  <2> QED BY <2>2, <2>3, <2>4 DEF Agrees, SameTransaction
<1>2. CASE step.report # None
  <2> DEFINE r == step.report
  <2>0. r \in Reports
    BY <1>2 DEF Steps, Option
  <2>1. Maybe(r) = <<r>>
    BY <1>2 DEF Maybe
  <2>2. LastOf(l, Maybe(r)) = r
    BY <2>1 DEF LastOf
  <2>3. Follows(l, r)
    BY <1>2 DEF Links, Continues, Agrees, Follows
  <2>4. Chained(l, Maybe(r))
    BY <2>1, <2>3 DEF Chained
  <2>5. Agrees(step.tx, r)
    BY <1>2 DEF Links, Continues, Agrees
  <2> QED BY <2>0, <2>2, <2>4, <2>5 DEF Option
<1> QED BY <1>1, <1>2

\* The last report after an event is a report, or none was ever made.
LEMMA LastOfType ==
  ASSUME NEW l \in Option(Reports), NEW a \in Seq(Reports)
  PROVE  LastOf(l, a) \in Option(Reports)
  BY DEF LastOf, Option

\* Two stretches of a chain that meet are one chain.
LEMMA ChainedConcat ==
  ASSUME NEW l, NEW a \in Seq(Reports), NEW b \in Seq(Reports),
         Chained(l, a), Chained(LastOf(l, a), b)
  PROVE  /\ Chained(l, a \o b)
         /\ LastOf(l, a \o b) = LastOf(LastOf(l, a), b)
<1> DEFINE s == a \o b
<1>1. /\ s \in Seq(Reports) /\ Len(s) = Len(a) + Len(b)
      /\ \A i \in 1..Len(a) : s[i] = a[i]
      /\ \A i \in 1..Len(b) : s[Len(a) + i] = b[i]
  OBVIOUS
<1>2. Len(a) \in Nat /\ Len(b) \in Nat
  OBVIOUS
<1>3. (a = << >> <=> Len(a) = 0) /\ (b = << >> <=> Len(b) = 0)
      /\ (s = << >> <=> Len(s) = 0)
  BY <1>1
<1> HIDE DEF s
<1>4. ASSUME NEW i \in 1..Len(s)
      PROVE  Follows(IF i = 1 THEN l ELSE s[i - 1], s[i])
  <2>1. CASE i <= Len(a)
    <3>1. i \in 1..Len(a) /\ s[i] = a[i]
      BY <1>1, <1>2, <2>1
    <3>2. i # 1 => s[i - 1] = a[i - 1]
      BY <1>1, <1>2, <2>1
    <3> QED BY <3>1, <3>2 DEF Chained
  <2>2. CASE i = Len(a) + 1
    <3>1. 1 \in 1..Len(b) /\ s[i] = b[1]
      BY <1>1, <1>2, <2>2
    <3>2. Follows(LastOf(l, a), b[1])
      BY <3>1 DEF Chained
    <3>3. LastOf(l, a) = IF i = 1 THEN l ELSE s[i - 1]
      <4>1. CASE a = << >>
        <5>1. i = 1
          BY <1>3, <2>2, <4>1
        <5> QED BY <4>1, <5>1 DEF LastOf
      <4>2. CASE a # << >>
        <5>1. i # 1 /\ i - 1 = Len(a) /\ Len(a) \in 1..Len(a)
          BY <1>2, <1>3, <2>2, <4>2
        <5>2. s[i - 1] = a[Len(a)]
          BY <1>1, <5>1
        <5> QED BY <4>2, <5>1, <5>2 DEF LastOf
      <4> QED BY <4>1, <4>2
    <3> QED BY <3>1, <3>2, <3>3
  <2>3. CASE i > Len(a) + 1
    <3> DEFINE j == i - Len(a)
    <3>1. j \in 1..Len(b) /\ j # 1 /\ j - 1 \in 1..Len(b)
      BY <1>1, <1>2, <2>3
    <3>2. s[Len(a) + j] = b[j] /\ s[Len(a) + (j - 1)] = b[j - 1]
      BY <1>1, <3>1
    <3>3. Len(a) + j = i /\ Len(a) + (j - 1) = i - 1 /\ i # 1
      BY <1>2, <2>3
    <3>4. Follows(b[j - 1], b[j])
      BY <3>1 DEF Chained
    <3> QED BY <3>2, <3>3, <3>4
  <2> QED BY <1>1, <1>2, <2>1, <2>2, <2>3
<1>5. Chained(l, s)
  BY <1>4 DEF Chained
<1>6. LastOf(l, s) = LastOf(LastOf(l, a), b)
  <2>1. CASE b = << >>
    <3>1. Len(s) = Len(a)
      BY <1>1, <1>2, <1>3, <2>1
    <3>2. CASE a = << >>
      <4>1. s = << >>
        BY <1>3, <3>1, <3>2
      <4> QED BY <2>1, <3>2, <4>1 DEF LastOf
    <3>3. CASE a # << >>
      <4>1. Len(a) \in 1..Len(a)
        BY <1>2, <1>3, <3>3
      <4> QED BY <1>1, <1>3, <2>1, <3>1, <3>3, <4>1 DEF LastOf
    <3> QED BY <3>2, <3>3
  <2>2. CASE b # << >>
    <3>1. Len(b) \in 1..Len(b)
      BY <1>2, <1>3, <2>2
    <3>2. s[Len(s)] = b[Len(b)] /\ s # << >>
      BY <1>1, <1>2, <1>3, <3>1
    <3> QED BY <2>2, <3>2 DEF LastOf
  <2> QED BY <2>1, <2>2
<1> QED BY <1>5, <1>6 DEF s

\* The ids an event may report: the connector's own, or new ones.
IdsFrom(l, n, l2, n2) ==
    /\ n2 \in Nat /\ n <= n2
    /\ l2 # None => \/ l # None /\ l2.id = l.id
                    \/ n <= l2.id /\ l2.id < n2

\* What is true of the outcome of an event on a slot whose last report was l.
Reported(l, n, o) ==
    /\ Chained(l, o.effects.reports)
    /\ Agrees(o.slot.tx, LastOf(l, o.effects.reports))
    /\ IdsFrom(l, n, LastOf(l, o.effects.reports), o.nextId)

\* Ids reported by an event and its follow-up are old ones or new ones.
LEMMA IdsFromTransitive ==
  ASSUME NEW a \in Option(Reports), NEW b \in Option(Reports),
         NEW c \in Option(Reports), NEW n1 \in Nat, NEW n2 \in Nat,
         NEW n3 \in Nat, IdsFrom(a, n1, b, n2), IdsFrom(b, n2, c, n3)
  PROVE  IdsFrom(a, n1, c, n3)
<1>1. c # None => c.id \in Nat
  BY DEF Option, Reports
<1>2. b # None => b.id \in Nat
  BY DEF Option, Reports
<1> QED BY <1>1, <1>2 DEF IdsFrom

\* The parts of a transition the following lemmas speak of.
LEMMA TransitParts ==
  ASSUME NEW s, NEW n, NEW e, NEW p
  PROVE  LET next == ConnectorApply(s.state, e, p).next
             step == TransactionStep(s, n, e, next, p)
             o    == Transit(s, n, e, p)
         IN /\ o.slot = NextSlot(s, e, next, step)
            /\ o.nextId = (IF Starts(step) THEN n + 1 ELSE n)
            /\ o.effects.reports = Maybe(step.report)
            /\ o.slot.state = next
            /\ o.slot.tx = step.tx
  BY DEF Transit, MoveTo, Settle, Outcome, NextSlot

\* A transition continues its connector's chain of reports.
LEMMA TransitReported ==
  ASSUME NEW s \in Slots, NEW n \in Nat, NEW e, WellFormed(e),
         NEW p \in ConnectorPolicies,
         NEW l \in Option(Reports), Agrees(s.tx, l)
  PROVE  Reported(l, n, Transit(s, n, e, p))
<1> DEFINE next == ConnectorApply(s.state, e, p).next
           step == TransactionStep(s, n, e, next, p)
           o    == Transit(s, n, e, p)
<1>1. next \in ConnectorStates
  BY ConnectorApplyType DEF Slots
<1> HIDE DEF next
<1>2. step \in Steps /\ Links(s.tx, n, step)
  BY <1>1, TransactionStepType, TransactionStepLinks
<1>3. /\ o.nextId = (IF Starts(step) THEN n + 1 ELSE n)
      /\ o.effects.reports = Maybe(step.report)
      /\ o.slot.tx = step.tx
  BY TransitParts DEF next
<1> HIDE DEF step, o
<1>4. s.tx \in Option(Transactions)
  BY DEF Slots
<1>5. /\ Chained(l, Maybe(step.report))
      /\ Agrees(step.tx, LastOf(l, Maybe(step.report)))
  BY <1>2, <1>4, LinkChains
<1>6. IdsFrom(l, n, LastOf(l, Maybe(step.report)), o.nextId)
  <2>1. CASE step.report = None
    <3>1. LastOf(l, Maybe(step.report)) = l /\ ~Starts(step)
      BY <2>1 DEF LastOf, Maybe, Starts
    <3> QED BY <1>3, <3>1 DEF IdsFrom
  <2>2. CASE step.report # None
    <3> DEFINE r == step.report
    <3>1. LastOf(l, Maybe(r)) = r
      BY <2>2 DEF LastOf, Maybe
    <3>2. CASE r.kind = "Started"
      <4>1. r.id = n /\ o.nextId = n + 1
        BY <1>2, <1>3, <2>2, <3>2 DEF Links, Starts
      <4> QED BY <3>1, <4>1 DEF IdsFrom
    <3>3. CASE r.kind # "Started"
      <4>1. o.nextId = n /\ l # None /\ r.id = l.id
        BY <1>2, <1>3, <2>2, <3>3 DEF Links, Starts, Continues, Agrees
      <4> QED BY <3>1, <4>1 DEF IdsFrom
    <3> QED BY <3>2, <3>3
  <2> QED BY <2>1, <2>2
<1> QED BY <1>3, <1>5, <1>6 DEF Reported, o

\* A transition keeps FaultSafe: entering Faulted closes the transaction, and a
\* faulted connector opens none.
LEMMA TransitFaultSafe ==
  ASSUME NEW s \in Slots, NEW n \in Nat, NEW e, WellFormed(e),
         NEW p \in ConnectorPolicies, FaultSafe(s)
  PROVE  FaultSafe(Transit(s, n, e, p).slot)
<1> DEFINE next == ConnectorApply(s.state, e, p).next
           step == TransactionStep(s, n, e, next, p)
<1>1. SUFFICES ASSUME next \in {"Faulted", "FaultedSafe"}
               PROVE  step.tx = None
  BY TransitParts DEF FaultSafe
<1>2. next \in ConnectorStates
  BY ConnectorApplyType DEF Slots
<1>3. CASE \/ e.type \in {"TransactionLimitSet", "TransactionElapsed",
                          "MeterValueSampled", "CurrentLimitComputed"}
           \/ e.type = "AuthorizationRevoked" /\ ~RevocationStopsAtOnce(p)
  <2>1. next = s.state
    BY <1>3, OwnEventsStay
  <2>2. s.tx = None
    BY <1>1, <2>1 DEF FaultSafe
  <2>3. step = OwnUpdate(s, e, p)
    BY <1>3 DEF TransactionStep
  <2>4. /\ GrantAllowance(s.tx, p) = None
        /\ SetTransactionLimit(s.tx, e.limit, e.fromCsms, p) = Keep(None)
        /\ ApplyMeterSample(s.tx, e.sample) = Keep(None)
    BY <2>2 DEF GrantAllowance, SetTransactionLimit, ApplyMeterSample
  <2>5. OwnUpdate(s, e, p) = Keep(None)
    BY <2>2, <2>4 DEF OwnUpdate, LimitMoves
  <2> QED BY <2>3, <2>5 DEF Keep
<1>4. CASE ~(\/ e.type \in {"TransactionLimitSet", "TransactionElapsed",
                            "MeterValueSampled", "CurrentLimitComputed"}
             \/ e.type = "AuthorizationRevoked" /\ ~RevocationStopsAtOnce(p))
  <2>1. step = AdvanceTransaction(s.tx, n, s.state, next,
                                  EventStopReason(e), Origin(s, e), p)
    BY <1>4 DEF TransactionStep
  <2>2. ~StartsTransaction(s.state, next, p)
    BY <1>1 DEF StartsTransaction
  <2>3. next = "FaultedSafe" => s.tx = None
    BY FaultedSafeFromFaulted DEF FaultSafe
  <2> HIDE DEF next
  <2>4. next = "Faulted" => next \notin Powered
    BY DEF Powered, Suspended
  <2> QED BY <1>1, <2>1, <2>2, <2>3, <2>4 DEF AdvanceTransaction, Keep, Close
<1> QED BY <1>3, <1>4

-----------------------------------------------------------------------------
(* The follow-ups. *)

\* Suspending or resuming neither opens nor closes a transaction.
LEMMA SuspensionKeepsTransaction ==
  ASSUME NEW s \in Slots, NEW n \in Nat, NEW e, WellFormed(e),
         NEW p \in ConnectorPolicies, FaultSafe(s), s.tx # None,
         e.type \in {"ChargingSuspendedByEvse", "ChargingResumed"}
  PROVE  Transit(s, n, e, p).slot.tx # None
<1> DEFINE next == ConnectorApply(s.state, e, p).next
           step == TransactionStep(s, n, e, next, p)
           stopping == WithStopReason(s.tx, s.state, next, EventStopReason(e))
           moved    == [s.tx EXCEPT !.chargingState = ChargingStateFor(next)]
<1>1. /\ next \in ConnectorStates
      /\ \/ next = s.state
         \/ s.state \in Powered /\ next \in Powered
  <2>1. next \in ConnectorStates
    BY ConnectorApplyType DEF Slots
  <2>2. next = s.state \/ (s.state \in Powered /\ next \in Powered)
    BY DEF ConnectorApply, SupervisoryEvents, SessionStep, Go, Powered,
           Suspended
  <2> QED BY <2>1, <2>2
<1>2. Transit(s, n, e, p).slot.tx = step.tx
  BY TransitParts
<1> HIDE DEF next
<1>3. step = AdvanceTransaction(s.tx, n, s.state, next,
                                EventStopReason(e), Origin(s, e), p)
  BY DEF TransactionStep
<1>4. ~EndsTransaction(s.state, next, p) /\ next # "Faulted"
  BY <1>1 DEF EndsTransaction, EntersStop, Settling, Powered, Suspended,
              FaultSafe
<1>5. s.tx \in Transactions
  BY DEF Slots, Option
<1>6. EventStopReason(e) \in Option(StopReasons)
  BY DEF EventStopReason, Option, StopReasons, WellFormed
<1>7. stopping \in Transactions
  <2> HIDE DEF next
  <2> QED BY <1>5, <1>6 DEF WithStopReason, Transactions
<1>8. moved \in Transactions
  BY <1>5 DEF Transactions, ChargingStates, ChargingStateFor
<1> HIDE DEF stopping, moved
<1>9. Keep(stopping).tx # None
      /\ Update(moved, "ChargingStateChanged").tx # None
  BY <1>7, <1>8, BumpedFields, NoneIsNothing DEF Keep, Update
<1>10. step = Keep(stopping) \/ step = Update(moved, "ChargingStateChanged")
  BY <1>3, <1>4 DEF AdvanceTransaction, stopping, moved
<1> QED BY <1>2, <1>9, <1>10

\* Everything the proofs need to know about an outcome.
Good(l, n, o) ==
    /\ o \in Outcomes
    /\ FaultSafe(o.slot)
    /\ Reported(l, n, o)

\* A transition is good.
LEMMA TransitGood ==
  ASSUME NEW s \in Slots, NEW n \in Nat, NEW e, WellFormed(e),
         NEW p \in ConnectorPolicies, FaultSafe(s),
         NEW l \in Option(Reports), Agrees(s.tx, l)
  PROVE  Good(l, n, Transit(s, n, e, p))
  BY TransitType, TransitFaultSafe, TransitReported DEF Good

\* So is a transition followed by another one.
LEMMA FollowedGood ==
  ASSUME NEW o, NEW n \in Nat, NEW e, WellFormed(e),
         NEW p \in ConnectorPolicies, NEW l \in Option(Reports), Good(l, n, o)
  PROVE  Good(l, n, Followed(o, e, p))
<1> DEFINE t  == Transit(o.slot, o.nextId, e, p)
           l2 == LastOf(l, o.effects.reports)
           f  == Followed(o, e, p)
           l3 == LastOf(l2, t.effects.reports)
<1>1. /\ o.slot \in Slots /\ o.nextId \in Nat /\ o.effects \in Effects
      /\ FaultSafe(o.slot) /\ Agrees(o.slot.tx, l2)
      /\ Chained(l, o.effects.reports) /\ IdsFrom(l, n, l2, o.nextId)
  BY DEF Good, Outcomes, Reported
<1>2. l2 \in Option(Reports) /\ o.effects.reports \in Seq(Reports)
  BY <1>1, LastOfType DEF Effects
<1> HIDE DEF l2
<1>3. Good(l2, o.nextId, t)
  BY <1>1, <1>2, TransitGood
<1> HIDE DEF t
<1>4. /\ t.slot \in Slots /\ t.nextId \in Nat /\ t.effects \in Effects
      /\ FaultSafe(t.slot) /\ Agrees(t.slot.tx, l3)
      /\ Chained(l2, t.effects.reports) /\ IdsFrom(l2, o.nextId, l3, t.nextId)
  BY <1>3 DEF Good, Outcomes, Reported
<1>5. l3 \in Option(Reports) /\ t.effects.reports \in Seq(Reports)
  BY <1>2, <1>4, LastOfType DEF Effects
<1> HIDE DEF l3
<1>6. /\ f.slot = t.slot /\ f.nextId = t.nextId
      /\ f.effects = Then(o.effects, t.effects)
      /\ f = [slot |-> f.slot, nextId |-> f.nextId, effects |-> f.effects]
  BY DEF Followed, After, Outcome, t
<1> HIDE DEF f
<1>7. f.effects.reports = o.effects.reports \o t.effects.reports
  BY <1>6, ThenReports
<1>8. f \in Outcomes
  <2>1. Then(o.effects, t.effects) \in Effects
    BY <1>1, <1>4, ThenType
  <2> QED BY <1>4, <1>6, <2>1 DEF Outcomes
<1>9. /\ Chained(l, f.effects.reports)
      /\ LastOf(l, f.effects.reports) = l3
  <2>1. Chained(LastOf(l, o.effects.reports), t.effects.reports)
    BY <1>4 DEF l2
  <2>2. /\ Chained(l, o.effects.reports \o t.effects.reports)
        /\ LastOf(l, o.effects.reports \o t.effects.reports) =
             LastOf(LastOf(l, o.effects.reports), t.effects.reports)
    BY <1>1, <1>2, <1>5, <2>1, ChainedConcat
  <2> QED BY <1>7, <2>2 DEF l2, l3
<1>10. IdsFrom(l, n, l3, f.nextId)
  BY <1>1, <1>2, <1>4, <1>5, <1>6, IdsFromTransitive
<1>11. Good(l, n, f)
  BY <1>4, <1>6, <1>8, <1>9, <1>10 DEF Good, Reported
<1> QED BY <1>11 DEF f

\* request_current_limit touches neither the transaction nor the state.
LEMMA RequestCurrentLimitGood ==
  ASSUME NEW o, NEW n \in Nat, NEW l \in Option(Reports), Good(l, n, o),
         NEW a \in Option(Nat)
  PROVE  /\ Good(l, n, RequestCurrentLimit(o, a))
         /\ RequestCurrentLimit(o, a).slot.tx = o.slot.tx
         /\ RequestCurrentLimit(o, a).slot.state = o.slot.state
<1>1. CASE o.slot.requested = a
  BY <1>1 DEF RequestCurrentLimit
<1>2. CASE o.slot.requested # a
  <2> DEFINE sl == [o.slot EXCEPT !.requested = a]
             fx == [NoEffects EXCEPT !.commands = <<SetCurrentLimit(a)>>]
             th == Then(o.effects, fx)
             r  == Outcome(sl, o.nextId, th)
  <2>1. o.slot \in Slots /\ o.nextId \in Nat /\ o.effects \in Effects
    BY DEF Good, Outcomes
  <2>2. sl \in Slots /\ sl.tx = o.slot.tx /\ sl.state = o.slot.state
    BY <2>1 DEF Slots
  <2>3. SetCurrentLimit(a) \in HardwareCommands
    BY CommandTypes
  <2>4. fx \in Effects /\ fx.reports = << >>
    BY <2>3, SingleEffects
  <2> HIDE DEF fx, sl
  <2>5. th \in Effects
    BY <2>1, <2>4, ThenType
  <2>6. o.effects.reports \in Seq(Reports)
    BY <2>1 DEF Effects
  <2>7. th.reports = o.effects.reports
    BY <2>4, <2>6 DEF Then
  <2> HIDE DEF th
  <2>8. r \in Outcomes /\ r.slot = sl /\ r.nextId = o.nextId /\ r.effects = th
    BY <2>1, <2>2, <2>5 DEF Outcome, Outcomes
  <2>9. RequestCurrentLimit(o, a) = r
    BY <1>2 DEF RequestCurrentLimit, sl, th, fx
  <2> HIDE DEF r
  <2> QED BY <2>2, <2>7, <2>8, <2>9 DEF Good, Reported, FaultSafe
<1> QED BY <1>1, <1>2

\* Reaching a ceiling: the suspension reports, then the ceiling does.
LEMMA SuspendAtLimitGood ==
  ASSUME NEW o, NEW n \in Nat, NEW l \in Option(Reports), Good(l, n, o),
         NEW k \in LimitKinds, NEW p \in ConnectorPolicies, o.slot.tx # None
  PROVE  Good(l, n, SuspendAtLimit(o, k, p))
<1> DEFINE e == [type |-> "ChargingSuspendedByEvse"]
           q == RequestCurrentLimit(o, 0)
           m == Followed(q, e, p)
           t == [m.slot.tx EXCEPT !.limitReached = k]
           u == Update(t, "LimitReached")
           l2 == LastOf(l, m.effects.reports)
           sl == [m.slot EXCEPT !.tx = u.tx]
           fx == [NoEffects EXCEPT !.reports = <<u.report>>]
           th == Then(m.effects, fx)
           r  == Outcome(sl, m.nextId, th)
<1>0. WellFormed(e)
  BY DEF WellFormed
<1>1. Good(l, n, q) /\ q.slot.tx # None
  <2>1. 0 \in Option(Nat)
    BY DEF Option
  <2> QED BY <2>1, RequestCurrentLimitGood
<1> HIDE DEF q
<1>2. Good(l, n, m)
  BY <1>0, <1>1, FollowedGood
<1>3. m.slot.tx # None
  <2>1. m.slot.tx = Transit(q.slot, q.nextId, e, p).slot.tx
    BY DEF Followed, After, Outcome
  <2>2. q.slot \in Slots /\ q.nextId \in Nat /\ FaultSafe(q.slot)
    BY <1>1 DEF Good, Outcomes
  <2>3. e.type = "ChargingSuspendedByEvse"
    OBVIOUS
  <2> HIDE DEF e
  <2> QED BY <1>0, <1>1, <2>1, <2>2, <2>3, SuspensionKeepsTransaction
<1> HIDE DEF m
<1>4. /\ m.slot \in Slots /\ m.nextId \in Nat /\ m.effects \in Effects
      /\ FaultSafe(m.slot) /\ Agrees(m.slot.tx, l2)
      /\ Chained(l, m.effects.reports) /\ IdsFrom(l, n, l2, m.nextId)
  BY <1>2 DEF Good, Outcomes, Reported
<1>5. m.slot.tx \in Transactions
  BY <1>3, <1>4 DEF Slots, Option
<1>6. k \in Option(LimitKinds)
  BY DEF Option
<1>7. t \in Transactions /\ t.id = m.slot.tx.id /\ t.seqNo = m.slot.tx.seqNo
  BY <1>5, <1>6 DEF Transactions
<1> HIDE DEF t
<1>8. "LimitReached" \in UpdateReasons
  BY DEF UpdateReasons
<1>9. u \in Steps /\ Links(m.slot.tx, m.nextId, u)
  BY <1>4, <1>5, <1>7, <1>8, StepTypes, StepsLink
<1>10. u.report # None /\ u.report.kind = "Updated" /\ u.tx # None
  <2>1. Report("Updated", "LimitReached", Bumped(t)) \in Reports
    BY <1>7, <1>8, BumpedFields, ReportType
  <2> QED BY <1>7, <2>1, BumpedFields, NoneIsNothing DEF Update, Report
<1> HIDE DEF u
<1>11. l2 \in Option(Reports) /\ m.effects.reports \in Seq(Reports)
  BY <1>4, LastOfType DEF Effects
<1> HIDE DEF l2
<1>12. /\ Maybe(u.report) = <<u.report>>
       /\ u.report \in Reports /\ u.tx \in Option(Transactions)
  BY <1>9, <1>10 DEF Maybe, Steps, Option
<1>13. /\ Chained(l2, <<u.report>>)
       /\ Agrees(u.tx, LastOf(l2, <<u.report>>))
  <2>1. m.slot.tx \in Option(Transactions)
    BY <1>4 DEF Slots
  <2> QED BY <1>4, <1>9, <1>11, <1>12, <2>1, LinkChains
<1>14. LastOf(l2, <<u.report>>) = u.report
  BY DEF LastOf
<1>15. fx \in Effects /\ fx.reports = <<u.report>>
  BY <1>12, SingleEffects
<1> HIDE DEF fx
<1>16. th \in Effects
  BY <1>4, <1>15, ThenType
<1>17. th.reports = m.effects.reports \o <<u.report>>
  BY <1>15, ThenReports
<1> HIDE DEF th
<1>18. Chained(l, th.reports) /\ LastOf(l, th.reports) = u.report
  <2>1. <<u.report>> \in Seq(Reports)
    BY <1>12
  <2>2. Chained(LastOf(l, m.effects.reports), <<u.report>>)
    BY <1>13 DEF l2
  <2>3. LastOf(LastOf(l, m.effects.reports), <<u.report>>) = u.report
    BY DEF LastOf
  <2>4. m.effects.reports \in Seq(Reports) /\ Chained(l, m.effects.reports)
    BY <1>4, <1>11
  <2> HIDE DEF sl, r, e
  <2>5. /\ Chained(l, m.effects.reports \o <<u.report>>)
        /\ LastOf(l, m.effects.reports \o <<u.report>>)
             = LastOf(LastOf(l, m.effects.reports), <<u.report>>)
    BY <2>1, <2>2, <2>4, ChainedConcat
  <2> QED BY <1>17, <2>3, <2>5
<1>19. IdsFrom(l, n, u.report, m.nextId)
  <2>1. l2 # None /\ u.report.id = l2.id
    BY <1>4, <1>9, <1>10 DEF Links, Continues, Agrees
  <2> QED BY <1>4, <2>1 DEF IdsFrom
<1>20. sl \in Slots /\ sl.tx = u.tx /\ sl.state = m.slot.state
  BY <1>4, <1>12 DEF Slots
<1> HIDE DEF sl
<1>21. FaultSafe(sl)
  BY <1>3, <1>4, <1>20 DEF FaultSafe
<1>22. r \in Outcomes /\ r.slot = sl /\ r.nextId = m.nextId /\ r.effects = th
  BY <1>4, <1>16, <1>20 DEF Outcome, Outcomes
<1>23. SuspendAtLimit(o, k, p) = r
  BY DEF SuspendAtLimit, MarkReached, ReportReached, r, sl, th, fx, u, t, m, q
<1> HIDE DEF r
<1>24. Good(l, n, r)
  BY <1>13, <1>14, <1>18, <1>19, <1>20, <1>21, <1>22 DEF Good, Reported
<1> QED BY <1>23, <1>24

\* Falling back under a ceiling: only the resumption reports.
LEMMA ResumeBelowLimitGood ==
  ASSUME NEW o, NEW n \in Nat, NEW l \in Option(Reports), Good(l, n, o),
         NEW p \in ConnectorPolicies, o.slot.tx # None
  PROVE  Good(l, n, ResumeBelowLimit(o, p))
<1> DEFINE e == [type |-> "ChargingResumed"]
           q == RequestCurrentLimit(o, None)
           m == Followed(q, e, p)
           t == [m.slot.tx EXCEPT !.limitReached = None]
           sl == [m.slot EXCEPT !.tx = t]
           r  == Outcome(sl, m.nextId, m.effects)
<1>0. WellFormed(e)
  BY DEF WellFormed
<1>1. Good(l, n, q) /\ q.slot.tx # None
  <2>1. None \in Option(Nat)
    BY DEF Option
  <2> QED BY <2>1, RequestCurrentLimitGood
<1> HIDE DEF q
<1>2. Good(l, n, m)
  BY <1>0, <1>1, FollowedGood
<1>3. m.slot.tx # None
  <2>1. m.slot.tx = Transit(q.slot, q.nextId, e, p).slot.tx
    BY DEF Followed, After, Outcome
  <2>2. q.slot \in Slots /\ q.nextId \in Nat /\ FaultSafe(q.slot)
    BY <1>1 DEF Good, Outcomes
  <2>3. e.type = "ChargingResumed"
    OBVIOUS
  <2> HIDE DEF e
  <2> QED BY <1>0, <1>1, <2>1, <2>2, <2>3, SuspensionKeepsTransaction
<1> HIDE DEF m
<1>4. /\ m.slot \in Slots /\ m.nextId \in Nat /\ m.effects \in Effects
      /\ FaultSafe(m.slot)
  BY <1>2 DEF Good, Outcomes
<1>5. m.slot.tx \in Transactions
  BY <1>3, <1>4 DEF Slots, Option
<1>6. None \in Option(LimitKinds)
  BY DEF Option
<1>7. t \in Transactions /\ t.id = m.slot.tx.id /\ t.seqNo = m.slot.tx.seqNo
  BY <1>5, <1>6 DEF Transactions
<1> HIDE DEF t
<1>8. t # None /\ t \in Option(Transactions)
  BY <1>7, NoneIsNothing DEF Option
<1>9. sl \in Slots /\ sl.tx = t /\ sl.state = m.slot.state
  BY <1>4, <1>8 DEF Slots
<1> HIDE DEF sl
<1>10. r \in Outcomes /\ r.slot = sl /\ r.nextId = m.nextId
       /\ r.effects = m.effects
  BY <1>4, <1>9 DEF Outcome, Outcomes
<1>11. ResumeBelowLimit(o, p) = r
  BY DEF ResumeBelowLimit, ClearReached, r, sl, t, m, q
<1> HIDE DEF r
<1>12. FaultSafe(sl)
  BY <1>3, <1>4, <1>9 DEF FaultSafe
<1>13. Reported(l, n, r)
  BY <1>2, <1>3, <1>7, <1>8, <1>9, <1>10 DEF Good, Reported, Agrees
<1> QED BY <1>10, <1>11, <1>12, <1>13 DEF Good

\* enforce_transaction_limit as a whole.
LEMMA EnforceGood ==
  ASSUME NEW o, NEW n \in Nat, NEW l \in Option(Reports), Good(l, n, o),
         NEW p \in ConnectorPolicies
  PROVE  Good(l, n, EnforceTransactionLimit(o, p))
<1> DEFINE tx == o.slot.tx
           reached == ReachedLimit(tx, o.slot.runningTotal, o.slot.cost)
<1>1. reached # None => reached \in LimitKinds
  BY DEF ReachedLimit, LimitKinds
<1> HIDE DEF reached
<1>2. tx # None /\ reached # None => Good(l, n, SuspendAtLimit(o, reached, p))
  BY <1>1, SuspendAtLimitGood
<1>3. tx # None => Good(l, n, ResumeBelowLimit(o, p))
  BY ResumeBelowLimitGood
<1> QED BY <1>2, <1>3 DEF EnforceTransactionLimit, Enforce, reached

\* apply_connector_event as a whole: a well-formed slot, an unfaulted
\* transaction, and reports that continue the connector's chain.
LEMMA ApplyConnectorEventGood ==
  ASSUME NEW s \in Slots, NEW n \in Nat, NEW e, WellFormed(e),
         NEW p \in ConnectorPolicies, FaultSafe(s),
         NEW l \in Option(Reports), Agrees(s.tx, l)
  PROVE  Good(l, n, ApplyConnectorEvent(s, n, e, p))
<1> DEFINE o  == Transit(s, n, e, p)
           pe == Dispatched(s, o.slot.state)
           e1 == [type |-> "ChargingStopped", reason |-> "DeAuthorized"]
           e2 == [type |-> "RemoteStartRequested", token |-> pe.token,
                  remoteStartId |-> pe.remoteStartId]
<1>1. Good(l, n, o)
  BY TransitGood
<1> HIDE DEF o
<1>2. WellFormed(e1)
  BY DEF WellFormed, StopReasons
<1>3. pe # None => WellFormed(e2)
  <2>1. s.pending \in Option(PendingStarts)
    BY DEF Slots
  <2>2. pe # None => pe \in PendingStarts
    BY <2>1 DEF Dispatched, Option
  <2> HIDE DEF pe
  <2>3. pe # None => /\ pe.token \in IdTokens
                     /\ pe.remoteStartId \in Option(RemoteStartIds)
    BY <2>2 DEF PendingStarts
  <2> QED BY <2>3 DEF WellFormed
<1> HIDE DEF pe
<1>4. Good(l, n, Followed(o, e1, p))
  <2> HIDE DEF e1
  <2> QED BY <1>1, <1>2, FollowedGood
<1>5. pe # None => Good(l, n, Followed(o, e2, p))
  <2> HIDE DEF e2
  <2> QED BY <1>1, <1>3, FollowedGood
<1>6. Good(l, n, EnforceTransactionLimit(o, p))
  BY <1>1, EnforceGood
<1> QED BY <1>1, <1>4, <1>5, <1>6 DEF ApplyConnectorEvent, FollowUp, o, pe, e1, e2

-----------------------------------------------------------------------------
(* Events addressed to the charge point: a result is sound, relative to the   *)
(* state st it was computed from and the last reports lst, when every         *)
(* connector's chain continues and at most one connector gets a new id.       *)

Outs    == [conn : [Connectors -> Effects], reboots : SUBSET Evses]
Results == [cp : ChargePoints, out : Outs]

KeepsId(l, l2) == l2 # None => l # None /\ l2.id = l.id

Sound(st, lst, r) ==
    /\ r \in Results
    /\ \A c \in Connectors :
          /\ FaultSafe(r.cp.conn[c])
          /\ Chained(lst[c], r.out.conn[c].reports)
          /\ Agrees(r.cp.conn[c].tx, LastOf(lst[c], r.out.conn[c].reports))
          /\ IdsFrom(lst[c], st.nextId,
                     LastOf(lst[c], r.out.conn[c].reports), r.cp.nextId)
    /\ \A c, d \in Connectors : c # d =>
          \/ KeepsId(lst[c], LastOf(lst[c], r.out.conn[c].reports))
          \/ KeepsId(lst[d], LastOf(lst[d], r.out.conn[d].reports))

\* The state before an event: what the invariants below say of it.
Settled(st, lst) ==
    /\ st \in ChargePoints
    /\ lst \in [Connectors -> Option(Reports)]
    /\ \A c \in Connectors :
          FaultSafe(st.conn[c]) /\ Agrees(st.conn[c].tx, lst[c])

\* No effects are effects, and report nothing.
LEMMA NoEffectsType ==
  /\ NoEffects \in Effects
  /\ NoEffects.reports = << >>
  BY DEF NoEffects, Effects

\* A connector that reports nothing keeps its chain and its id.
LEMMA NoReports ==
  ASSUME NEW l \in Option(Reports), NEW n \in Nat
  PROVE  /\ Chained(l, << >>)
         /\ LastOf(l, << >>) = l
         /\ IdsFrom(l, n, l, n)
         /\ KeepsId(l, l)
<1>1. Chained(l, << >>)
  BY DEF Chained
<1>2. LastOf(l, << >>) = l
  BY DEF LastOf
<1> QED BY <1>1, <1>2 DEF IdsFrom, KeepsId

\* An event without effects may rewrite anything that no report shows.
LEMMA QuietSound ==
  ASSUME NEW st, NEW lst, Settled(st, lst), NEW st2 \in ChargePoints,
         st2.nextId = st.nextId,
         \A c \in Connectors :
            /\ SameTransaction(st.conn[c].tx, st2.conn[c].tx)
            /\ FaultSafe(st2.conn[c])
  PROVE  Sound(st, lst, Result(st2, Quiet))
<1> DEFINE r == Result(st2, Quiet)
<1>0. st.nextId \in Nat
  BY DEF Settled, ChargePoints
<1>1. r.cp = st2 /\ r.out = [conn |-> Quiet, reboots |-> {}]
  BY DEF Result
<1>2. r \in Results /\ \A c \in Connectors : r.out.conn[c].reports = << >>
  BY <1>1, NoEffectsType DEF Results, Outs, Quiet, Result
<1> HIDE DEF r
<1>3. ASSUME NEW c \in Connectors
      PROVE  /\ Chained(lst[c], r.out.conn[c].reports)
             /\ LastOf(lst[c], r.out.conn[c].reports) = lst[c]
             /\ Agrees(r.cp.conn[c].tx, lst[c])
             /\ IdsFrom(lst[c], st.nextId, lst[c], r.cp.nextId)
             /\ KeepsId(lst[c], lst[c])
  <2>1. lst[c] \in Option(Reports) /\ Agrees(st.conn[c].tx, lst[c])
    BY DEF Settled
  <2>2. Agrees(st2.conn[c].tx, lst[c])
    BY <2>1 DEF Agrees, SameTransaction
  <2> QED BY <1>0, <1>1, <1>2, <2>1, <2>2, NoReports
<1>4. Sound(st, lst, r)
  BY <1>1, <1>2, <1>3 DEF Sound
<1> QED BY <1>4 DEF r

\* The events a whole scope receives start no transaction.
LEMMA CascadeStartsNothing ==
  ASSUME NEW s \in Slots, NEW n \in Nat, NEW e, WellFormed(e),
         NEW p \in ConnectorPolicies,
         e.type \in {"FaultDetected", "FaultCleared", "ResetRequested"}
  PROVE  ApplyConnectorEvent(s, n, e, p).nextId = n
<1> DEFINE next == ConnectorApply(s.state, e, p).next
           step == TransactionStep(s, n, e, next, p)
           o    == Transit(s, n, e, p)
<1>1. /\ next \in {s.state, "Faulted", "Unlocking", "Stopping"}
      /\ next \in ConnectorStates
  <2>1. next \in ConnectorStates
    BY ConnectorApplyType DEF Slots
  <2>2. next \in {s.state, "Faulted", "Unlocking", "Stopping"}
    BY DEF ConnectorApply, SupervisoryEvents, SupervisoryStep, Go
  <2> QED BY <2>1, <2>2
<1>2. o.slot.state = next /\ o.nextId = (IF Starts(step) THEN n + 1 ELSE n)
  BY TransitParts
<1> HIDE DEF next, o
<1>3. ~Latches(s, o.slot.state)
  BY <1>1, <1>2 DEF Latches
<1>4. ApplyConnectorEvent(s, n, e, p) = o
  <2>1. Dispatched(s, o.slot.state) = None
    BY <1>3 DEF Dispatched
  <2>2. ~MovesAFigure(s, e) /\ e.type # "MeterValueSampled"
    BY DEF MovesAFigure, Records
  <2> QED BY <2>1, <2>2 DEF ApplyConnectorEvent, FollowUp, o
<1>5. ~Starts(step)
  <2>1. CASE s.tx = None
    <3>1. ~StartsTransaction(s.state, next, p)
      BY <1>1 DEF StartsTransaction
    <3>2. step = AdvanceTransaction(s.tx, n, s.state, next,
                                    EventStopReason(e), Origin(s, e), p)
      BY DEF TransactionStep
    <3>3. step = Keep(None)
      BY <2>1, <3>1, <3>2 DEF AdvanceTransaction
    <3> QED BY <3>3 DEF Starts, Keep
  <2>2. CASE s.tx # None
    <3>1. Links(s.tx, n, step)
      BY <1>1, TransactionStepLinks
    <3> HIDE DEF step
    <3> QED BY <2>2, <3>1 DEF Links, Starts
  <2> QED BY <2>1, <2>2
<1> QED BY <1>2, <1>4, <1>5

\* CheckPendingReset only decides which EVSEs reboot.
LEMMA CheckPendingResetSound ==
  ASSUME NEW st, NEW lst, NEW r, Sound(st, lst, r)
  PROVE  Sound(st, lst, CheckPendingReset(r))
<1> DEFINE reset == r.cp.pendingReset
           q == CheckPendingReset(r)
<1>0. r \in Results /\ r.cp \in ChargePoints /\ r.out \in Outs
  BY DEF Sound, Results
<1>1. CASE reset = None \/ ~PendingResetReady(r.cp, reset)
  BY <1>1 DEF CheckPendingReset
<1>2. CASE ~(reset = None \/ ~PendingResetReady(r.cp, reset))
  <2> DEFINE c2 == [r.cp EXCEPT !.pendingReset = None]
             o2 == [r.out EXCEPT !.reboots = TargetEvses(reset.target)]
  <2>1. reset \in PendingResets
    BY <1>0, <1>2 DEF ChargePoints, Option
  <2>2. TargetEvses(reset.target) \in SUBSET Evses
    BY <2>1 DEF TargetEvses, PendingResets, Option
  <2>3. None \in Option(PendingResets)
    BY DEF Option
  <2>4. c2 \in ChargePoints /\ c2.conn = r.cp.conn /\ c2.nextId = r.cp.nextId
    BY <1>0, <2>3 DEF ChargePoints
  <2>5. o2 \in Outs /\ o2.conn = r.out.conn
    BY <1>0, <2>2 DEF Outs
  <2>6. q = [cp |-> c2, out |-> o2]
    BY <1>0, <1>2 DEF CheckPendingReset, Results
  <2> HIDE DEF c2, o2, q
  <2>7. q \in Results /\ q.cp.conn = r.cp.conn /\ q.cp.nextId = r.cp.nextId
        /\ q.out.conn = r.out.conn
    BY <2>4, <2>5, <2>6 DEF Results
  <2>8. Sound(st, lst, q)
    BY <2>7 DEF Sound
  <2> QED BY <2>8 DEF q
<1> QED BY <1>1, <1>2

\* An event run on a whole scope: every connector in it takes the event alone.
LEMMA CascadeSound ==
  ASSUME NEW st, NEW lst, Settled(st, lst), NEW scope, NEW e, WellFormed(e),
         e.type \in {"FaultDetected", "FaultCleared", "ResetRequested"}
  PROVE  Sound(st, lst, Cascade(st, scope, e))
<1> DEFINE o(c) == ApplyConnectorEvent(st.conn[c], st.nextId, e, st.policy)
           cn == [c \in Connectors |->
                    IF c \in scope THEN o(c).slot ELSE st.conn[c]]
           fx == [c \in Connectors |->
                    IF c \in scope THEN o(c).effects ELSE NoEffects]
           c2 == [st EXCEPT !.conn = cn]
           r  == Cascade(st, scope, e)
<1>0. /\ st \in ChargePoints /\ st.nextId \in Nat
      /\ st.policy \in ConnectorPolicies
  BY DEF Settled, ChargePoints
<1>1. ASSUME NEW c \in Connectors
      PROVE  /\ st.conn[c] \in Slots /\ FaultSafe(st.conn[c])
             /\ lst[c] \in Option(Reports) /\ Agrees(st.conn[c].tx, lst[c])
  BY <1>0 DEF Settled, ChargePoints
<1>2. ASSUME NEW c \in Connectors
      PROVE  Good(lst[c], st.nextId, o(c)) /\ o(c).nextId = st.nextId
  BY <1>0, <1>1, ApplyConnectorEventGood, CascadeStartsNothing
<1> HIDE DEF o
<1>3. ASSUME NEW c \in Connectors
      PROVE  /\ cn[c] \in Slots /\ fx[c] \in Effects
             /\ FaultSafe(cn[c])
             /\ Chained(lst[c], fx[c].reports)
             /\ Agrees(cn[c].tx, LastOf(lst[c], fx[c].reports))
             /\ IdsFrom(lst[c], st.nextId,
                        LastOf(lst[c], fx[c].reports), st.nextId)
  <2>1. CASE c \in scope
    <3>1. cn[c] = o(c).slot /\ fx[c] = o(c).effects
      BY <2>1
    <3>2. Good(lst[c], st.nextId, o(c)) /\ o(c).nextId = st.nextId
      BY <1>2
    <3> HIDE DEF cn, fx
    <3> QED BY <3>1, <3>2 DEF Good, Outcomes, Reported
  <2>2. CASE c \notin scope
    <3>1. cn[c] = st.conn[c] /\ fx[c] = NoEffects
      BY <2>2
    <3> HIDE DEF cn, fx
    <3> QED BY <1>0, <1>1, <3>1, NoEffectsType, NoReports
  <2> QED BY <2>1, <2>2
<1>4. cn \in [Connectors -> Slots] /\ fx \in [Connectors -> Effects]
  <2>1. cn = [c \in Connectors |-> cn[c]] /\ fx = [c \in Connectors |-> fx[c]]
    OBVIOUS
  <2> HIDE DEF cn, fx
  <2> QED BY <1>3, <2>1
<1>5. r = [cp |-> c2, out |-> [conn |-> fx, reboots |-> {}]]
  BY DEF Cascade, WriteAll, Result, o
<1> HIDE DEF cn, fx, r
<1>6. c2 \in ChargePoints /\ c2.conn = cn /\ c2.nextId = st.nextId
  BY <1>0, <1>4 DEF ChargePoints
<1> HIDE DEF c2
<1>7. /\ r \in Results /\ r.cp.conn = cn /\ r.cp.nextId = st.nextId
      /\ r.out.conn = fx
  BY <1>4, <1>5, <1>6 DEF Results, Outs
<1>8. ASSUME NEW c \in Connectors
      PROVE  KeepsId(lst[c], LastOf(lst[c], r.out.conn[c].reports))
  <2> DEFINE l2 == LastOf(lst[c], fx[c].reports)
  <2>1. IdsFrom(lst[c], st.nextId, l2, st.nextId)
    BY <1>3
  <2>2. fx[c].reports \in Seq(Reports)
    BY <1>3 DEF Effects
  <2>3. l2 \in Option(Reports)
    BY <1>1, <2>2, LastOfType
  <2>4. l2 # None => l2.id \in Nat
    BY <2>3 DEF Option, Reports
  <2> HIDE DEF l2
  <2>5. KeepsId(lst[c], l2)
    BY <1>0, <2>1, <2>4 DEF IdsFrom, KeepsId
  <2> QED BY <1>7, <2>5 DEF l2
<1>9. Sound(st, lst, r)
  BY <1>3, <1>7, <1>8 DEF Sound
<1> QED BY <1>9 DEF r

\* An event addressed to one connector: only that one may get a new id.
LEMMA OnConnectorSound ==
  ASSUME NEW st, NEW lst, Settled(st, lst), NEW k \in Connectors, NEW e,
         WellFormed(e)
  PROVE  Sound(st, lst, OnConnector(st, k, e))
<1> DEFINE o  == ApplyConnectorEvent(st.conn[k], st.nextId, e, st.policy)
           cn == [st.conn EXCEPT ![k] = o.slot]
           fx == [Quiet EXCEPT ![k] = o.effects]
           c1 == [st EXCEPT !.conn = cn]
           c2 == [c1 EXCEPT !.nextId = o.nextId]
           r  == OnConnector(st, k, e)
<1>0. /\ st \in ChargePoints /\ st.nextId \in Nat
      /\ st.policy \in ConnectorPolicies /\ st.conn \in [Connectors -> Slots]
  BY DEF Settled, ChargePoints
<1>1. ASSUME NEW c \in Connectors
      PROVE  /\ st.conn[c] \in Slots /\ FaultSafe(st.conn[c])
             /\ lst[c] \in Option(Reports) /\ Agrees(st.conn[c].tx, lst[c])
  BY <1>0 DEF Settled
<1>2. Good(lst[k], st.nextId, o)
  BY <1>0, <1>1, ApplyConnectorEventGood
<1> HIDE DEF o
<1>3. o.slot \in Slots /\ o.effects \in Effects /\ o.nextId \in Nat
      /\ st.nextId <= o.nextId
  BY <1>2 DEF Good, Outcomes, Reported, IdsFrom
<1>4. /\ cn \in [Connectors -> Slots] /\ cn[k] = o.slot
      /\ \A c \in Connectors : c # k => cn[c] = st.conn[c]
  BY <1>0, <1>3
<1>5. /\ fx \in [Connectors -> Effects] /\ fx[k] = o.effects
      /\ \A c \in Connectors : c # k => fx[c] = NoEffects
  BY <1>3, NoEffectsType DEF Quiet
<1> HIDE DEF cn, fx
<1>6. r = [cp |-> c2, out |-> [conn |-> fx, reboots |-> {}]]
  <2>1. [st EXCEPT !.conn[k] = o.slot, !.nextId = o.nextId] = c2
    BY <1>0 DEF ChargePoints, cn
  <2> QED BY <2>1 DEF OnConnector, WriteBack, Result, o, fx
<1>7. c1 \in ChargePoints /\ c1.conn = cn
  BY <1>0, <1>4 DEF ChargePoints
<1> HIDE DEF c1
<1>8. c2 \in ChargePoints /\ c2.conn = cn /\ c2.nextId = o.nextId
  BY <1>3, <1>7 DEF ChargePoints
<1> HIDE DEF c2, r
<1>9. /\ r \in Results /\ r.cp.conn = cn /\ r.cp.nextId = o.nextId
      /\ r.out.conn = fx
  BY <1>5, <1>6, <1>8 DEF Results, Outs
<1>10. ASSUME NEW c \in Connectors
       PROVE  /\ FaultSafe(cn[c])
              /\ Chained(lst[c], fx[c].reports)
              /\ Agrees(cn[c].tx, LastOf(lst[c], fx[c].reports))
              /\ IdsFrom(lst[c], st.nextId,
                         LastOf(lst[c], fx[c].reports), o.nextId)
              /\ c # k => KeepsId(lst[c], LastOf(lst[c], fx[c].reports))
  <2>1. CASE c = k
    BY <1>2, <1>4, <1>5, <2>1 DEF Good, Reported
  <2>2. CASE c # k
    <3>1. cn[c] = st.conn[c] /\ fx[c].reports = << >>
      BY <1>4, <1>5, <2>2, NoEffectsType
    <3>2. /\ Chained(lst[c], << >>) /\ LastOf(lst[c], << >>) = lst[c]
          /\ KeepsId(lst[c], lst[c])
      BY <1>0, <1>1, NoReports
    <3>3. IdsFrom(lst[c], st.nextId, lst[c], o.nextId)
      BY <1>3 DEF IdsFrom
    <3> QED BY <1>1, <3>1, <3>2, <3>3
  <2> QED BY <2>1, <2>2
<1>11. Sound(st, lst, r)
  BY <1>9, <1>10 DEF Sound
<1> QED BY <1>11 DEF r

\* A fault, or its clearing, on an EVSE or on the whole charge point.
LEMMA CascadeFaultSound ==
  ASSUME NEW st, NEW lst, Settled(st, lst), NEW target, NEW detected \in BOOLEAN
  PROVE  Sound(st, lst, CascadeFault(st, target, detected))
<1> DEFINE e  == [type |-> IF detected THEN "FaultDetected" ELSE "FaultCleared"]
           ev == [v \in Evses |->
                    IF v \notin TargetEvses(target) THEN st.evse[v]
                    ELSE IF detected THEN "Faulted" ELSE "Unavailable"]
           s2 == [st EXCEPT !.evse = ev]
<1>1. WellFormed(e)
      /\ e.type \in {"FaultDetected", "FaultCleared", "ResetRequested"}
  BY DEF WellFormed
<1>2. st \in ChargePoints /\ st.evse \in [Evses -> EvseStatuses]
  BY DEF Settled, ChargePoints
<1>3. ev \in [Evses -> EvseStatuses]
  BY <1>2 DEF EvseStatuses
<1> HIDE DEF ev
<1>4. s2 \in ChargePoints /\ s2.conn = st.conn /\ s2.nextId = st.nextId
  BY <1>2, <1>3 DEF ChargePoints
<1> HIDE DEF s2, e
<1>5. Settled(s2, lst)
  BY <1>4 DEF Settled
<1>6. Sound(s2, lst, Cascade(s2, TargetConnectors(target), e))
  BY <1>1, <1>5, CascadeSound
<1>7. Sound(st, lst, Cascade(s2, TargetConnectors(target), e))
  BY <1>4, <1>6 DEF Sound
<1> QED BY <1>7 DEF CascadeFault, s2, ev, e

\* A station event of a well-formed payload, or one of the model's own.
Sendable(e) ==
    \/ WellFormedStation(e)
         /\ e.type \in {"BootCompleted", "SetAvailable", "SetUnavailable",
                        "RegistrationStatusReceived", "EvseStatusSet",
                        "HardwareFault", "FaultCleared", "EvseFaultDetected",
                        "EvseFaultCleared", "ResetRequested",
                        "PriorityChargingSet"}
    \/ e.type = "PolicySet" /\ e.policy \in ConnectorPolicies
    \/ e.type = "Connector" /\ e.connector \in Connectors /\ WellFormed(e.event)

\* Rewriting anything but the slots and the id counter is sound.
LEMMA SlotsKeptSound ==
  ASSUME NEW st, NEW lst, Settled(st, lst), NEW st2 \in ChargePoints,
         st2.conn = st.conn, st2.nextId = st.nextId
  PROVE  Settled(st2, lst) /\ Sound(st, lst, Result(st2, Quiet))
<1>1. \A c \in Connectors : /\ SameTransaction(st.conn[c].tx, st2.conn[c].tx)
                            /\ FaultSafe(st2.conn[c])
  BY DEF Settled, SameTransaction
<1>2. Settled(st2, lst)
  BY DEF Settled
<1> QED BY <1>1, <1>2, QuietSound

\* ApplyPriorityCharging marks a transaction without moving it.
LEMMA PriorityChargingSound ==
  ASSUME NEW st, NEW lst, Settled(st, lst), NEW id, NEW activated \in BOOLEAN
  PROVE  Sound(st, lst, ApplyPriorityCharging(st, id, activated))
<1> DEFINE cn == [c \in Connectors |->
                    IF st.conn[c].tx # None /\ st.conn[c].tx.id = id
                      THEN [st.conn[c] EXCEPT !.tx.priority = activated]
                      ELSE st.conn[c]]
           s2 == [st EXCEPT !.conn = cn]
<1>0. st \in ChargePoints /\ st.conn \in [Connectors -> Slots]
  BY DEF Settled, ChargePoints
<1>1. ASSUME NEW c \in Connectors
      PROVE  /\ cn[c] \in Slots /\ FaultSafe(cn[c])
             /\ SameTransaction(st.conn[c].tx, cn[c].tx)
  <2> DEFINE s == st.conn[c]
  <2>0. s \in Slots /\ FaultSafe(s)
    BY <1>0 DEF Settled
  <2>1. CASE ~(s.tx # None /\ s.tx.id = id)
    <3>1. cn[c] = s
      BY <2>1
    <3> HIDE DEF cn, s
    <3> QED BY <2>0, <3>1 DEF SameTransaction, s
  <2>2. CASE s.tx # None /\ s.tx.id = id
    <3> DEFINE t == [s.tx EXCEPT !.priority = activated]
               u == [s EXCEPT !.tx = t]
    <3>1. cn[c] = u
      BY <2>0, <2>2 DEF Slots
    <3> HIDE DEF cn, s
    <3>2. s.tx \in Transactions
      BY <2>0, <2>2 DEF Slots, Option
    <3>3. t \in Transactions /\ t.id = s.tx.id /\ t.seqNo = s.tx.seqNo
      BY <3>2 DEF Transactions
    <3> HIDE DEF t
    <3>4. t # None /\ t \in Option(Transactions)
      BY <3>3, NoneIsNothing DEF Option
    <3>5. u \in Slots /\ u.tx = t /\ u.state = s.state
      BY <2>0, <3>4 DEF Slots
    <3> HIDE DEF u
    <3>6. FaultSafe(u) /\ SameTransaction(s.tx, u.tx)
      BY <2>0, <2>2, <3>3, <3>4, <3>5 DEF FaultSafe, SameTransaction
    <3> QED BY <3>1, <3>5, <3>6 DEF s
  <2> QED BY <2>1, <2>2
<1>2. cn \in [Connectors -> Slots]
  <2>1. cn = [c \in Connectors |-> cn[c]]
    OBVIOUS
  <2> HIDE DEF cn
  <2> QED BY <1>1, <2>1
<1> HIDE DEF cn
<1>3. s2 \in ChargePoints /\ s2.conn = cn /\ s2.nextId = st.nextId
  BY <1>0, <1>2 DEF ChargePoints
<1> HIDE DEF s2
<1>4. Sound(st, lst, Result(s2, Quiet))
  BY <1>1, <1>3, QuietSound
<1> QED BY <1>4 DEF ApplyPriorityCharging, s2, cn

\* apply but for its tail, for every event it can be given.
LEMMA DispatchSound ==
  ASSUME NEW st, NEW lst, Settled(st, lst), NEW e, Sendable(e)
  PROVE  Sound(st, lst, Dispatch(st, e))
<1>0. st \in ChargePoints
  BY DEF Settled
<1>1. ASSUME NEW l \in LifecycleStates
      PROVE  LET s2 == [st EXCEPT !.lifecycle = l] IN
             Settled(s2, lst) /\ Sound(st, lst, Result(s2, Quiet))
             /\ s2.nextId = st.nextId
  <2> DEFINE s2 == [st EXCEPT !.lifecycle = l]
  <2>1. s2 \in ChargePoints /\ s2.conn = st.conn /\ s2.nextId = st.nextId
    BY <1>0 DEF ChargePoints
  <2> HIDE DEF s2
  <2>2. Settled(s2, lst) /\ Sound(st, lst, Result(s2, Quiet))
    BY <2>1, SlotsKeptSound
  <2> QED BY <2>1, <2>2 DEF s2
<1>2. {"Available", "Unavailable", "Faulted"} \subseteq LifecycleStates
  BY DEF LifecycleStates
<1>3. CASE e.type \in {"BootCompleted", "SetAvailable", "SetUnavailable"}
  BY <1>1, <1>2, <1>3 DEF Dispatch, SetLifecycle
<1>4. CASE e.type \in {"HardwareFault", "FaultCleared"}
  <2> DEFINE l  == IF e.type = "HardwareFault" THEN "Faulted" ELSE "Unavailable"
             s2 == [st EXCEPT !.lifecycle = l]
             b  == e.type = "HardwareFault"
  <2>1. l \in LifecycleStates
    BY <1>2
  <2>2. Settled(s2, lst) /\ s2.nextId = st.nextId
    <3> HIDE DEF l
    <3> QED BY <1>1, <2>1
  <2>3. Dispatch(st, e) = CascadeFault(s2, None, b)
    BY <1>4 DEF Dispatch
  <2> HIDE DEF s2, b
  <2>4. b \in BOOLEAN
    BY DEF b
  <2>5. Sound(s2, lst, CascadeFault(s2, None, b))
    BY <2>2, <2>4, CascadeFaultSound
  <2>6. Sound(st, lst, CascadeFault(s2, None, b))
    BY <2>2, <2>5 DEF Sound
  <2> QED BY <2>3, <2>6
<1>5. CASE e.type = "RegistrationStatusReceived"
  <2> DEFINE s1 == [st EXCEPT !.registration = e.status]
             l  == IF e.status = "Accepted" THEN "Available" ELSE s1.lifecycle
             s2 == [s1 EXCEPT !.lifecycle = l]
  <2>1. e.status \in Option(Registrations)
    BY <1>5 DEF Sendable, WellFormedStation, Option
  <2>2. s1 \in ChargePoints /\ s1.conn = st.conn /\ s1.nextId = st.nextId
        /\ s1.lifecycle = st.lifecycle
    BY <1>0, <2>1 DEF ChargePoints
  <2>3. Dispatch(st, e) = Result(s2, Quiet)
    BY <1>0, <1>5, <2>2 DEF Dispatch, ApplyRegistration, ChargePoints
  <2> HIDE DEF s1
  <2>4. l \in LifecycleStates
    BY <1>2, <2>2 DEF ChargePoints
  <2> HIDE DEF l
  <2>5. s2 \in ChargePoints /\ s2.conn = st.conn /\ s2.nextId = st.nextId
    BY <2>2, <2>4 DEF ChargePoints
  <2> HIDE DEF s2
  <2> QED BY <2>3, <2>5, SlotsKeptSound
<1>6. CASE e.type = "ResetRequested"
  <2> DEFINE pr == [target |-> e.target, kind |-> e.kind]
             s2 == [st EXCEPT !.pendingReset = pr]
             re == [type |-> "ResetRequested"]
  <2>1. pr \in Option(PendingResets)
    BY <1>6 DEF Sendable, WellFormedStation, Option, PendingResets
  <2>2. Dispatch(st, e) = IF e.kind = "Immediate"
                            THEN Cascade(s2, TargetConnectors(e.target), re)
                            ELSE Result(s2, Quiet)
    BY <1>6 DEF Dispatch, ApplyReset
  <2>3. WellFormed(re) /\ re.type = "ResetRequested"
    BY DEF WellFormed
  <2> HIDE DEF pr
  <2>4. s2 \in ChargePoints /\ s2.conn = st.conn /\ s2.nextId = st.nextId
    BY <1>0, <2>1 DEF ChargePoints
  <2> HIDE DEF s2, re
  <2>5. Settled(s2, lst) /\ Sound(st, lst, Result(s2, Quiet))
    BY <2>4, SlotsKeptSound
  <2>6. Sound(s2, lst, Cascade(s2, TargetConnectors(e.target), re))
    BY <2>3, <2>5, CascadeSound
  <2>7. Sound(st, lst, Cascade(s2, TargetConnectors(e.target), re))
    BY <2>4, <2>6 DEF Sound
  <2> QED BY <2>2, <2>5, <2>7
<1>7. CASE e.type = "PriorityChargingSet"
  <2>1. e.activated \in BOOLEAN
    BY <1>7 DEF Sendable, WellFormedStation
  <2>2. Dispatch(st, e) = ApplyPriorityCharging(st, e.id, e.activated)
    BY <1>7 DEF Dispatch
  <2> QED BY <2>1, <2>2, PriorityChargingSound
<1>8. CASE e.type = "PolicySet"
  <2> DEFINE s2 == [st EXCEPT !.policy = e.policy]
  <2>1. e.policy \in ConnectorPolicies
    BY <1>8 DEF Sendable
  <2>2. s2 \in ChargePoints /\ s2.conn = st.conn /\ s2.nextId = st.nextId
    BY <1>0, <2>1 DEF ChargePoints
  <2>3. Dispatch(st, e) = Result(s2, Quiet)
    BY <1>8 DEF Dispatch
  <2> HIDE DEF s2
  <2> QED BY <2>2, <2>3, SlotsKeptSound
<1>9. CASE e.type = "EvseStatusSet"
  <2> DEFINE ev == [st.evse EXCEPT ![e.evse] = e.status]
             s2 == [st EXCEPT !.evse = ev]
  <2>1. e.evse \in Evses /\ e.status \in EvseStatuses
    BY <1>9 DEF Sendable, WellFormedStation, EvseStatuses
  <2>2. ev \in [Evses -> EvseStatuses]
    BY <1>0, <2>1 DEF ChargePoints
  <2>3. Dispatch(st, e) = Result(s2, Quiet)
    BY <1>0, <1>9 DEF Dispatch, ChargePoints
  <2> HIDE DEF ev
  <2>4. s2 \in ChargePoints /\ s2.conn = st.conn /\ s2.nextId = st.nextId
    BY <1>0, <2>2 DEF ChargePoints
  <2> HIDE DEF s2
  <2> QED BY <2>3, <2>4, SlotsKeptSound
<1>10. CASE e.type \in {"EvseFaultDetected", "EvseFaultCleared"}
  <2> DEFINE b == e.type = "EvseFaultDetected"
  <2>1. Dispatch(st, e) = CascadeFault(st, e.evse, b)
    BY <1>10 DEF Dispatch
  <2>2. b \in BOOLEAN
    OBVIOUS
  <2> HIDE DEF b
  <2> QED BY <2>1, <2>2, CascadeFaultSound
<1>11. CASE e.type = "Connector"
  <2>1. e.connector \in Connectors /\ WellFormed(e.event)
    BY <1>11 DEF Sendable
  <2>2. Dispatch(st, e) = OnConnector(st, e.connector, e.event)
    BY <1>11 DEF Dispatch
  <2> QED BY <2>1, <2>2, OnConnectorSound
<1> QED BY <1>3, <1>4, <1>5, <1>6, <1>7, <1>8, <1>9, <1>10, <1>11 DEF Sendable

\* apply as a whole.
LEMMA ApplySound ==
  ASSUME NEW st, NEW lst, Settled(st, lst), NEW e, Sendable(e)
  PROVE  Sound(st, lst, Apply(st, e))
  BY DispatchSound, CheckPendingResetSound DEF Apply

-----------------------------------------------------------------------------
(* The inductive invariant.  None of its parts is inductive alone: a slot     *)
(* keeps its type only if the follow-ups find a transaction to edit (which    *)
(* needs FaultEndsTransaction), and the chain of reports continues only from  *)
(* a slot that agrees with what was last reported.                            *)

IInv ==
    /\ TypeOK
    /\ SlotAgreesWithReports
    /\ FaultEndsTransaction
    /\ IdsNeverReused

\* A fresh charge point satisfies it: no transaction, no report.
LEMMA InitIInv == Init => IInv
<1> SUFFICES ASSUME Init PROVE IInv
  OBVIOUS
<1>1. PICK p \in ConnectorPolicies : cp = NewChargePoint(p)
  BY PolicyAssumption DEF Init
<1>2. NewSlot \in Slots /\ NewSlot.tx = None /\ NewSlot.state = "Available"
  BY DEF NewSlot, Slots, ConnectorStates, Option
<1>3. cp \in ChargePoints /\ \A c \in Connectors : cp.conn[c] = NewSlot
  BY <1>1, <1>2 DEF NewChargePoint, ChargePoints, LifecycleStates,
                    EvseStatuses, Option
<1>4. out \in [conn : [Connectors -> Effects], reboots : SUBSET Evses]
  BY NoEffectsType DEF Init, Quiet
<1>5. last \in [Connectors -> Option(Reports)]
      /\ \A c \in Connectors : last[c] = None
  BY DEF Init, Option
<1>6. TypeOK
  BY <1>3, <1>4, <1>5 DEF TypeOK
<1>7. SlotAgreesWithReports
  BY <1>2, <1>3, <1>5 DEF SlotAgreesWithReports, Agrees
<1>8. FaultEndsTransaction
  BY <1>2, <1>3 DEF FaultEndsTransaction
<1>9. IdsNeverReused
  BY <1>5 DEF IdsNeverReused
<1> QED BY <1>6, <1>7, <1>8, <1>9 DEF IInv

\* What the invariant says of the state an event finds.
LEMMA IInvSettled ==
  ASSUME IInv
  PROVE  Settled(cp, last)
  BY DEF IInv, TypeOK, SlotAgreesWithReports, FaultEndsTransaction, Settled,
         FaultSafe

\* A step of the specification is the application of an event it may be given.
LEMMA NextSends ==
  ASSUME Next
  PROVE  \E e : /\ Sendable(e) /\ Step(e)
                /\ e.type = "Connector" => e.event \in ConnectorEvents
<1>1. CASE ConnectorEvent
  <2>1. PICK c \in Connectors, e \in ConnectorEvents :
           Step([type |-> "Connector", connector |-> c, event |-> e])
    BY <1>1 DEF ConnectorEvent
  <2> DEFINE s == [type |-> "Connector", connector |-> c, event |-> e]
  <2>2. Sendable(s) /\ s.event \in ConnectorEvents
    BY EventAssumption DEF Sendable
  <2> HIDE DEF s
  <2>3. Step(s)
    BY <2>1 DEF s
  <2> QED BY <2>2, <2>3
<1>2. CASE PolicyEvent
  <2>1. PICK p \in Policies : Step([type |-> "PolicySet", policy |-> p])
    BY <1>2 DEF PolicyEvent
  <2> DEFINE s == [type |-> "PolicySet", policy |-> p]
  <2>2. Sendable(s) /\ s.type # "Connector"
    BY PolicyAssumption DEF Sendable
  <2> HIDE DEF s
  <2>3. Step(s)
    BY <2>1 DEF s
  <2> QED BY <2>2, <2>3
<1>3. CASE \/ LifecycleEvent \/ FaultEvent \/ ResetEvent
           \/ PriorityChargingEvent
  <2>1. PICK e \in StationEvents :
           /\ e.type \in {"BootCompleted", "SetAvailable", "SetUnavailable",
                          "RegistrationStatusReceived", "EvseStatusSet",
                          "HardwareFault", "FaultCleared", "EvseFaultDetected",
                          "EvseFaultCleared", "ResetRequested",
                          "PriorityChargingSet"}
           /\ Step(e)
    BY <1>3 DEF LifecycleEvent, FaultEvent, ResetEvent, PriorityChargingEvent
  <2>2. Sendable(e)
    BY <2>1, StationAssumption DEF Sendable
  <2> QED BY <2>1, <2>2
<1> QED BY <1>1, <1>2, <1>3 DEF Next

\* Every event preserves it, and continues every connector's chain of reports.
LEMMA StepIInv ==
  ASSUME IInv, NEW e, Sendable(e), Step(e)
  PROVE  /\ IInv'
         /\ \A c \in Connectors : Chained(last[c], out'.conn[c].reports)
<1> DEFINE l2(c) == LastOf(last[c], out'.conn[c].reports)
<1>1. Settled(cp, last)
  BY IInvSettled
<1> DEFINE r == Apply(cp, e)
<1>3. Sound(cp, last, r)
  BY <1>1, ApplySound
<1>4. /\ cp' = r.cp /\ out' = r.out
      /\ last' = [c \in Connectors |-> LastOf(last[c], r.out.conn[c].reports)]
  BY DEF Step, MoveOn
<1> HIDE DEF r
<1>5. cp' \in ChargePoints /\ out' \in Outs
  BY <1>3, <1>4 DEF Sound, Results
<1>6. ASSUME NEW c \in Connectors
      PROVE  /\ last'[c] = l2(c) /\ l2(c) \in Option(Reports)
             /\ Chained(last[c], out'.conn[c].reports)
             /\ FaultSafe(cp'.conn[c])
             /\ Agrees(cp'.conn[c].tx, last'[c])
             /\ IdsFrom(last[c], cp.nextId, last'[c], cp'.nextId)
  <2>1. last'[c] = l2(c)
    BY <1>4
  <2>2. last[c] \in Option(Reports)
    BY DEF IInv, TypeOK
  <2>3. out'.conn[c].reports \in Seq(Reports)
    BY <1>5 DEF Outs, Effects
  <2>4. l2(c) \in Option(Reports)
    BY <2>2, <2>3, LastOfType
  <2> QED BY <1>3, <1>4, <2>1, <2>4 DEF Sound
<1>7. last' \in [Connectors -> Option(Reports)]
  <2>1. last' = [c \in Connectors |-> last'[c]]
    BY <1>4
  <2> QED BY <1>6, <2>1
<1>8. TypeOK'
  BY <1>5, <1>7 DEF TypeOK, Outs
<1>9. SlotAgreesWithReports'
  BY <1>6 DEF SlotAgreesWithReports
<1>10. FaultEndsTransaction'
  BY <1>6 DEF FaultEndsTransaction, FaultSafe
<1>11. IdsNeverReused'
  <2>1. cp.nextId \in Nat /\ cp'.nextId \in Nat
    BY <1>5 DEF IInv, TypeOK, ChargePoints
  <2>2. ASSUME NEW c \in Connectors
        PROVE  /\ last[c] # None => last[c].id \in Nat /\ last[c].id < cp.nextId
               /\ last'[c] # None => last'[c].id \in Nat
    BY <1>6 DEF IInv, TypeOK, IdsNeverReused, Option, Reports
  <2>3. ASSUME NEW c \in Connectors, last'[c] # None
        PROVE  last'[c].id < cp'.nextId
    BY <1>6, <2>1, <2>2, <2>3 DEF IdsFrom
  <2>4. ASSUME NEW c \in Connectors, NEW d \in Connectors, c # d,
               last'[c] # None, last'[d] # None,
               KeepsId(last[c], last'[c])
        PROVE  last'[c].id # last'[d].id
    <3>1. last[c] # None /\ last'[c].id = last[c].id
      BY <2>4 DEF KeepsId
    <3>2. CASE last[d] # None /\ last'[d].id = last[d].id
      BY <2>4, <3>1, <3>2 DEF IInv, IdsNeverReused
    <3>3. CASE cp.nextId <= last'[d].id
      BY <2>1, <2>2, <2>4, <3>1, <3>3
    <3> QED BY <1>6, <2>4, <3>2, <3>3 DEF IdsFrom
  <2>5. ASSUME NEW c \in Connectors, NEW d \in Connectors, c # d
        PROVE  KeepsId(last[c], last'[c]) \/ KeepsId(last[d], last'[d])
    BY <1>3, <1>4, <1>6, <2>5 DEF Sound
  <2> QED BY <2>3, <2>4, <2>5 DEF IdsNeverReused
<1> QED BY <1>6, <1>8, <1>9, <1>10, <1>11 DEF IInv

LEMMA NextIInv ==
  ASSUME IInv, Next
  PROVE  /\ IInv'
         /\ \A c \in Connectors : Chained(last[c], out'.conn[c].reports)
  BY NextSends, StepIInv

\* Stuttering changes nothing.
LEMMA StutterIInv ==
  ASSUME IInv, UNCHANGED vars
  PROVE  IInv'
  BY DEF IInv, vars, TypeOK, SlotAgreesWithReports, FaultEndsTransaction,
         IdsNeverReused

-----------------------------------------------------------------------------
(* The theorems. *)

\* The inductive invariant holds of every behaviour of apply.
THEOREM Invariance == Spec => []IInv
<1>1. IInv /\ [Next]_vars => IInv'
  BY NextIInv, StutterIInv
<1> QED BY InitIInv, <1>1, PTL DEF Spec

\* Type correctness: whatever events arrive, in whatever order and from
\* whomever, apply leaves every slot of the charge point well formed and emits
\* well-formed effects.
THEOREM TypeCorrect == Spec => []TypeOK
  BY Invariance, PTL DEF IInv

\* No transaction leaves its slot without an Ended report, and every seqNo the
\* slot uses is reported.
THEOREM SlotsAgree == Spec => []SlotAgreesWithReports
  BY Invariance, PTL DEF IInv

\* A fault ends the transaction whatever TxStopPoint says.
THEOREM FaultsEndTransactions == Spec => []FaultEndsTransaction
  BY Invariance, PTL DEF IInv

\* Transaction ids are never shared between connectors nor handed out twice.
THEOREM IdsAreFresh == Spec => []IdsNeverReused
  BY Invariance, PTL DEF IInv

\* The TransactionEvents of every connector form one chain of transactions
\* with consecutive sequence numbers.
THEOREM ChainOfReports == Spec => ReportsAreChained
<1>1. IInv /\ [Next]_vars =>
        [\A c \in Connectors : Chained(last[c], out'.conn[c].reports)]_vars
  BY NextIInv
<1> QED BY Invariance, <1>1, PTL DEF Spec, ReportsAreChained

-----------------------------------------------------------------------------
(* What is kept of one slot. *)

SlotReserved(s) == s.state = "Reserved" <=> s.reservation # None

SlotForgets(s) == s.state \in {"Available", "Reserved"} => s.honoured = None

Capped(tx) ==
    tx # None /\ tx.csmsLimit # None =>
        /\ tx.limit # None
        /\ \A k \in LimitKinds : tx.csmsLimit[k] # None =>
              tx.limit[k] # None /\ tx.limit[k] <= tx.csmsLimit[k]

SlotJudged(s) ==
    s.tx # None /\ s.tx.limit # None /\ ~AllowanceSpent(s.tx) =>
        (s.tx.limitReached # None <=>
           ReachedLimit(s.tx, s.runningTotal, s.cost) # None)

\* A figure a ceiling is weighed against is a field of the transaction; a step
\* that leaves these alone leaves the verdict alone.
SameCeilings(a, b) ==
    /\ a.limit = b.limit /\ a.csmsLimit = b.csmsLimit
    /\ a.limitReached = b.limitReached

SameFigures(a, b) ==
    /\ a.energyStart = b.energyStart /\ a.lastSample = b.lastSample
    /\ a.elapsed = b.elapsed

\* The verdict is a function of the ceilings and the figures.
LEMMA SameVerdict ==
  ASSUME NEW a, NEW b, a.limit = b.limit, SameFigures(a, b), NEW r, NEW c
  PROVE  ReachedLimit(a, r, c) = ReachedLimit(b, r, c)
<1>1. ASSUME NEW k
      PROVE  Figure(a, k, r, c) = Figure(b, k, r, c)
  BY DEF Figure, SameFigures
<1>2. ASSUME NEW k
      PROVE  Exceeds(a, k, r, c) <=> Exceeds(b, k, r, c)
  BY <1>1 DEF Exceeds
<1> QED BY <1>2 DEF ReachedLimit

\* So is whether an allowance is spent.
LEMMA SameAllowance ==
  ASSUME NEW a, NEW b, a # None, b # None, a.lastSample = b.lastSample,
         a.stopAtEnergy = b.stopAtEnergy
  PROVE  AllowanceSpent(a) <=> AllowanceSpent(b)
  BY DEF AllowanceSpent

\* What a step that moves no figure may do to the transaction: empty the slot,
\* open a transaction no ceiling is set for, or leave ceilings, figures and
\* allowance as they are.
Unlimited(t) ==
    /\ t.limit = None /\ t.csmsLimit = None /\ t.limitReached = None
    /\ t.stopAtEnergy = None /\ t.lastSample = None

Carries(a, b) ==
    /\ a # None /\ b # None
    /\ SameCeilings(a, b) /\ SameFigures(a, b)
    /\ a.stopAtEnergy = b.stopAtEnergy

Carried(a, b) ==
    \/ b = None
    \/ a = None /\ b # None /\ Unlimited(b)
    \/ Carries(a, b)

\* advance_transaction carries the transaction along; it reports a start or an
\* end only when it opens or closes one, and never a meter reading.
AdvanceFacts(tx, step) ==
    /\ Carried(tx, step.tx)
    /\ Clears(step) => step.tx = None \/ tx = None
    /\ step.report # None => step.report.reason # "MeterValuePeriodic"

LEMMA AdvanceCarries ==
  ASSUME NEW tx \in Option(Transactions), NEW n \in Nat,
         NEW prev \in ConnectorStates, NEW next \in ConnectorStates,
         NEW reason \in Option(StopReasons), NEW o \in Origins, NEW p
  PROVE  AdvanceFacts(tx, AdvanceTransaction(tx, n, prev, next, reason, o, p))
<1> DEFINE new      == NewTransaction(n, next, o)
           stopping == WithStopReason(tx, prev, next, reason)
           moved    == [tx EXCEPT !.chargingState = ChargingStateFor(next)]
<1>1. AdvanceFacts(tx, Keep(None))
  BY DEF AdvanceFacts, Carried, Keep
<1>2. ASSUME NEW t
      PROVE  AdvanceFacts(tx, Close(t))
  BY DEF AdvanceFacts, Carried, Close, Report
<1>3. tx = None => AdvanceFacts(tx, Begin(new))
  <2>1. new \in Transactions /\ Unlimited(new)
    BY NewTransactionType DEF NewTransaction, Unlimited
  <2> HIDE DEF new
  <2>2. new # None
    BY <2>1, NoneIsNothing
  <2> QED BY <2>1, <2>2 DEF AdvanceFacts, Carried, Begin, Report
<1>4. CASE tx = None
  BY <1>1, <1>3, <1>4 DEF AdvanceTransaction
<1>5. CASE tx # None
  <2>0. tx \in Transactions
    BY <1>5 DEF Option
  <2>1. stopping \in Transactions /\ Carries(tx, stopping)
    <3>1. [tx EXCEPT !.stopReason = reason] \in Transactions
          /\ Carries(tx, [tx EXCEPT !.stopReason = reason])
      <4> DEFINE t == [tx EXCEPT !.stopReason = reason]
      <4>1. t \in Transactions
        BY <2>0 DEF Transactions
      <4>2. /\ t.limit = tx.limit /\ t.csmsLimit = tx.csmsLimit
            /\ t.limitReached = tx.limitReached
            /\ t.energyStart = tx.energyStart /\ t.lastSample = tx.lastSample
            /\ t.elapsed = tx.elapsed /\ t.stopAtEnergy = tx.stopAtEnergy
        BY <2>0 DEF Transactions
      <4> HIDE DEF t
      <4>3. Carries(tx, t)
        BY <1>5, <4>1, <4>2, NoneIsNothing
           DEF Carries, SameCeilings, SameFigures
      <4> QED BY <4>1, <4>3 DEF t
    <3>2. Carries(tx, tx)
      BY <1>5 DEF Carries, SameCeilings, SameFigures
    <3> QED BY <2>0, <3>1, <3>2 DEF WithStopReason
  <2> HIDE DEF stopping
  <2>2. AdvanceFacts(tx, Keep(stopping))
    BY <2>1 DEF AdvanceFacts, Carried, Keep, Clears
  <2>3. AdvanceFacts(tx, Update(moved, "ChargingStateChanged"))
    <3> DEFINE b == Bumped(moved)
    <3>1. moved \in Transactions
      BY <2>0 DEF Transactions, ChargingStates, ChargingStateFor
    <3>2. /\ moved.limit = tx.limit /\ moved.csmsLimit = tx.csmsLimit
          /\ moved.limitReached = tx.limitReached
          /\ moved.energyStart = tx.energyStart
          /\ moved.lastSample = tx.lastSample /\ moved.elapsed = tx.elapsed
          /\ moved.stopAtEnergy = tx.stopAtEnergy
      BY <2>0 DEF Transactions
    <3> HIDE DEF moved
    <3>3. /\ b \in Transactions
          /\ b.limit = moved.limit /\ b.csmsLimit = moved.csmsLimit
          /\ b.limitReached = moved.limitReached
          /\ b.energyStart = moved.energyStart
          /\ b.lastSample = moved.lastSample /\ b.elapsed = moved.elapsed
          /\ b.stopAtEnergy = moved.stopAtEnergy
      BY <3>1 DEF Bumped, Transactions
    <3>4. Update(moved, "ChargingStateChanged") =
            [tx |-> b, report |-> Report("Updated", "ChargingStateChanged", b)]
      BY DEF Update
    <3> HIDE DEF b
    <3>5. Carries(tx, b)
      BY <1>5, <3>2, <3>3, NoneIsNothing DEF Carries, SameCeilings, SameFigures
    <3> QED BY <3>4, <3>5 DEF AdvanceFacts, Carried, Clears, Report
  <2> QED BY <1>2, <1>5, <2>2, <2>3 DEF AdvanceTransaction, stopping, moved
<1> QED BY <1>4, <1>5

-----------------------------------------------------------------------------
(* The transaction's step of a whole event. *)

\* A transaction that is carried along, or opened, stays under the CSMS's cap.
LEMMA CarriedCapped ==
  ASSUME NEW a, NEW b, Capped(a), Carried(a, b)
  PROVE  Capped(b)
  BY DEF Capped, Carried, Carries, SameCeilings, Unlimited

\* A ceiling that arrives is cut to the CSMS's own, kind by kind.
LEMMA ClampCaps ==
  ASSUME NEW l \in TransactionLimits, NEW m \in TransactionLimits,
         NEW k \in LimitKinds, m[k] # None
  PROVE  ClampedTo(l, m)[k] # None /\ ClampedTo(l, m)[k] <= m[k]
<1>1. l[k] \in Nat \cup {None} /\ m[k] \in Nat
  BY DEF TransactionLimits
<1>2. ClampedTo(l, m)[k] = IF l[k] = None THEN m[k]
                           ELSE IF l[k] > m[k] THEN m[k] ELSE l[k]
  BY DEF ClampedTo
<1> QED BY <1>1, <1>2, NoneIsNothing

LEMMA SetLimitCapped ==
  ASSUME NEW tx \in Option(Transactions), Capped(tx),
         NEW limit \in TransactionLimits, NEW fromCsms \in BOOLEAN,
         NEW p \in ConnectorPolicies
  PROVE  Capped(SetTransactionLimit(tx, limit, fromCsms, p).tx)
<1> DEFINE supported == SupportedPart(limit, p.supportedLimits)
           csms  == IF fromCsms THEN supported ELSE tx.csmsLimit
           final == IF ~fromCsms /\ csms # None
                      THEN ClampedTo(supported, csms) ELSE supported
           t     == [tx EXCEPT !.csmsLimit = csms, !.limit = final]
           b     == Bumped(t)
<1>1. CASE tx = None \/ IsEmptyLimit(supported)
  BY <1>1 DEF SetTransactionLimit, Keep
<1>2. CASE ~(tx = None \/ IsEmptyLimit(supported))
  <2>0. tx \in Transactions
    BY <1>2 DEF Option
  <2>1. supported \in TransactionLimits
    BY CeilingTypes
  <2>2. csms \in Option(TransactionLimits)
    BY <2>0, <2>1 DEF Transactions, Option
  <2>3. SetTransactionLimit(tx, limit, fromCsms, p) = Update(t, "LimitSet")
    BY <1>2 DEF SetTransactionLimit
  <2> HIDE DEF supported
  <2>4. final \in TransactionLimits
    BY <2>1, <2>2, CeilingTypes DEF Option
  <2>5. ASSUME NEW k \in LimitKinds, csms # None, csms[k] # None
        PROVE  final[k] # None /\ final[k] <= csms[k]
    <3>1. CASE fromCsms
      <4>1. final = csms /\ csms[k] \in Nat
        BY <2>1, <2>5, <3>1 DEF TransactionLimits
      <4> QED BY <2>5, <4>1
    <3>2. CASE ~fromCsms
      <4>1. final = ClampedTo(supported, csms) /\ csms \in TransactionLimits
        BY <2>2, <2>5, <3>2 DEF Option
      <4> HIDE DEF csms, final
      <4> QED BY <2>1, <2>5, <4>1, ClampCaps
    <3> QED BY <3>1, <3>2
  <2>6. final # None
    BY <2>4, NoneAssumption
  <2> HIDE DEF csms, final
  <2>7. /\ b.limit = final /\ b.csmsLimit = csms
    <3>1. [tx EXCEPT !.csmsLimit = csms] \in Transactions
      BY <2>0, <2>2 DEF Transactions
    <3>2. final \in Option(TransactionLimits)
      BY <2>4 DEF Option
    <3>3. [[tx EXCEPT !.csmsLimit = csms] EXCEPT !.limit = final]
            \in Transactions
      BY <3>1, <3>2 DEF Transactions
    <3>4. t \in Transactions /\ t.limit = final /\ t.csmsLimit = csms
      BY <2>0, <3>3 DEF Transactions
    <3> HIDE DEF t
    <3> QED BY <3>4 DEF Bumped, Transactions
  <2>8. SetTransactionLimit(tx, limit, fromCsms, p).tx = b
    BY <2>3 DEF Update
  <2> HIDE DEF b
  <2> QED BY <2>5, <2>6, <2>7, <2>8 DEF Capped
<1> QED BY <1>1, <1>2

\* What the event's own part of the step does, event by event.
LEMMA GrantFacts ==
  ASSUME NEW tx \in Transactions, NEW p \in ConnectorPolicies
  PROVE  LET g == GrantAllowance(tx, p) IN
         /\ g \in Transactions /\ SameCeilings(tx, g) /\ SameFigures(tx, g)
         /\ AllowanceSpent(g) <=> AllowanceSpent(tx)
<1> DEFINE latest == IF tx.lastSample = None THEN 0 ELSE tx.lastSample.energy
           stop == p.maxEnergyOnInvalidId + latest
           t    == [tx EXCEPT !.stopAtEnergy = stop]
           g    == GrantAllowance(tx, p)
<1>1. g \in Transactions
  BY NoneIsNothing, GrantAllowanceType DEF Option
<1>2. CASE ~(tx.stopAtEnergy = None /\ ~RevocationStopsAtOnce(p))
  BY <1>1, <1>2 DEF GrantAllowance, SameCeilings, SameFigures
<1>3. CASE tx.stopAtEnergy = None /\ ~RevocationStopsAtOnce(p)
  <2>1. latest \in Nat /\ p.maxEnergyOnInvalidId \in Nat \ {0}
    <3>1. p.maxEnergyOnInvalidId \in Nat /\ ~(p.maxEnergyOnInvalidId <= 0)
      BY <1>3 DEF RevocationStopsAtOnce, ConnectorPolicies
    <3>2. latest \in Nat
      BY DEF Transactions, Option, Samples
    <3> QED BY <3>1, <3>2
  <2>2. g = t
    BY <1>3, NoneIsNothing DEF GrantAllowance
  <2>3. tx.lastSample # None => tx.lastSample.energy = latest
    OBVIOUS
  <2> HIDE DEF latest
  <2>4. stop \in Nat /\ stop > latest
    BY <2>1
  <2> HIDE DEF stop
  <2>5. /\ t.stopAtEnergy = stop /\ t.limit = tx.limit
        /\ t.csmsLimit = tx.csmsLimit /\ t.limitReached = tx.limitReached
        /\ t.energyStart = tx.energyStart /\ t.lastSample = tx.lastSample
        /\ t.elapsed = tx.elapsed
    BY DEF Transactions
  <2> HIDE DEF t, g
  <2>6. ~AllowanceSpent(tx)
    BY <1>3 DEF AllowanceSpent
  <2>7. ~AllowanceSpent(t)
    BY <2>1, <2>3, <2>4, <2>5 DEF AllowanceSpent
  <2>8. SameCeilings(tx, t) /\ SameFigures(tx, t)
    BY <2>5 DEF SameCeilings, SameFigures
  <2> QED BY <1>1, <2>2, <2>6, <2>7, <2>8 DEF g
<1> QED BY <1>2, <1>3

\* Steady: what a step that moves no figure leaves of the verdicts.
Steady(a, b) ==
    \/ b = None
    \/ a = None /\ b # None /\ Unlimited(b)
    \/ /\ a # None /\ b # None
       /\ SameCeilings(a, b) /\ SameFigures(a, b)
       /\ AllowanceSpent(b) <=> AllowanceSpent(a)

\* The events after which the ceilings are weighed whatever they recorded.
Weighed(e) ==
    e.type \in {"MeterValueSampled", "TransactionLimitSet",
                "TransactionElapsed"}

StepFacts(tx, e, step) ==
    /\ Capped(step.tx)
    /\ ~Weighed(e) => Steady(tx, step.tx)
    /\ Clears(step) => step.tx = None \/ tx = None
    /\ e.type # "MeterValueSampled" /\ step.report # None =>
          step.report.reason # "MeterValuePeriodic"

\* advance_transaction is steady.
LEMMA AdvanceStepFacts ==
  ASSUME NEW tx, Capped(tx), NEW e, NEW step, AdvanceFacts(tx, step)
  PROVE  StepFacts(tx, e, step)
<1>1. Capped(step.tx)
  BY CarriedCapped DEF AdvanceFacts
<1>2. Steady(tx, step.tx)
  <2>1. CASE \/ step.tx = None
             \/ tx = None /\ step.tx # None /\ Unlimited(step.tx)
    BY <2>1 DEF Steady
  <2>2. CASE Carries(tx, step.tx)
    <3>1. AllowanceSpent(step.tx) <=> AllowanceSpent(tx)
      BY <2>2, SameAllowance DEF Carries, SameFigures
    <3> QED BY <2>2, <3>1 DEF Steady, Carries
  <2> QED BY <2>1, <2>2 DEF AdvanceFacts, Carried
<1> QED BY <1>1, <1>2 DEF StepFacts, AdvanceFacts

\* The event's own part of the step, for the events that have one.
LEMMA OwnUpdateFacts ==
  ASSUME NEW s \in Slots, NEW e, WellFormed(e), NEW p \in ConnectorPolicies,
         Capped(s.tx)
  PROVE  StepFacts(s.tx, e, OwnUpdate(s, e, p))
<1>0. s.tx \in Option(Transactions)
  BY DEF Slots
<1>1. StepFacts(s.tx, e, Keep(s.tx))
  BY DEF StepFacts, Keep, Clears, Steady, SameCeilings, SameFigures
<1>2. CASE s.tx = None
  <2>1. /\ GrantAllowance(s.tx, p) = s.tx
        /\ SetTransactionLimit(s.tx, e.limit, e.fromCsms, p) = Keep(s.tx)
        /\ ApplyMeterSample(s.tx, e.sample) = Keep(s.tx)
    BY <1>2 DEF GrantAllowance, SetTransactionLimit, ApplyMeterSample
  <2>2. OwnUpdate(s, e, p) = Keep(s.tx)
    BY <1>2, <2>1 DEF OwnUpdate, LimitMoves
  <2> QED BY <1>1, <2>2
<1>3. CASE s.tx # None
  <2>0. s.tx \in Transactions
    BY <1>0, <1>3 DEF Option
  <2>1. CASE e.type = "AuthorizationRevoked"
    <3> DEFINE g == GrantAllowance(s.tx, p)
    <3>1. /\ g # None /\ SameCeilings(s.tx, g) /\ SameFigures(s.tx, g)
          /\ AllowanceSpent(g) <=> AllowanceSpent(s.tx)
      BY <2>0, GrantFacts, NoneIsNothing
    <3>2. OwnUpdate(s, e, p) = Keep(g)
      BY <2>1 DEF OwnUpdate, LimitMoves
    <3> HIDE DEF g
    <3>3. Capped(g)
      BY <1>3, <3>1 DEF Capped, SameCeilings
    <3> QED BY <1>3, <3>1, <3>2, <3>3 DEF StepFacts, Keep, Clears, Steady
  <2>2. CASE e.type = "TransactionLimitSet"
    <3> DEFINE u == SetTransactionLimit(s.tx, e.limit, e.fromCsms, p)
    <3>0. e.limit \in TransactionLimits /\ e.fromCsms \in BOOLEAN
      BY <2>2 DEF WellFormed
    <3>1. Capped(u.tx)
      BY <1>0, <3>0, SetLimitCapped
    <3>2. u.report # None => /\ u.report.reason = "LimitSet"
                             /\ u.report.kind = "Updated"
      BY DEF SetTransactionLimit, Keep, Update, Report
    <3>3. OwnUpdate(s, e, p) = u
      BY <2>2 DEF OwnUpdate, LimitMoves
    <3> HIDE DEF u
    <3> QED BY <2>2, <3>1, <3>2, <3>3 DEF StepFacts, Weighed, Clears
  <2>3. CASE e.type = "TransactionElapsed"
    <3> DEFINE t == [s.tx EXCEPT !.elapsed = e.secs]
    <3>1. t.limit = s.tx.limit /\ t.csmsLimit = s.tx.csmsLimit
      BY <2>0 DEF Transactions
    <3>2. OwnUpdate(s, e, p) = Keep(t)
      BY <1>3, <2>3 DEF OwnUpdate, LimitMoves
    <3> HIDE DEF t
    <3>3. Capped(t)
      BY <1>3, <3>1 DEF Capped
    <3> QED BY <2>3, <3>2, <3>3 DEF StepFacts, Weighed, Keep, Clears
  <2>4. CASE e.type = "MeterValueSampled"
    <3> DEFINE t == [s.tx EXCEPT
                       !.energyStart = IF @ = None THEN e.sample.energy ELSE @,
                       !.lastSample  = e.sample]
               u == Update(t, "MeterValuePeriodic")
    <3>0. e.sample \in Samples
      BY <2>4 DEF WellFormed
    <3>1. Bumped(t).limit = s.tx.limit /\ Bumped(t).csmsLimit = s.tx.csmsLimit
      BY <2>0 DEF Bumped, Transactions
    <3>2. u.report # None => u.report.kind = "Updated"
      BY DEF Update, Report
    <3>3. OwnUpdate(s, e, p) = u \/ OwnUpdate(s, e, p) = Keep(s.tx)
      BY <2>4 DEF OwnUpdate, LimitMoves, ApplyMeterSample
    <3>4. u.tx = Bumped(t)
      BY DEF Update
    <3> HIDE DEF t
    <3>5. Capped(Bumped(t))
      BY <1>3, <3>1 DEF Capped
    <3> HIDE DEF u
    <3>6. StepFacts(s.tx, e, u)
      BY <2>4, <3>2, <3>4, <3>5 DEF StepFacts, Weighed, Clears
    <3> QED BY <1>1, <3>3, <3>6
  <2>5. CASE e.type \notin {"AuthorizationRevoked", "TransactionLimitSet",
                            "TransactionElapsed", "MeterValueSampled"}
    <3> DEFINE b == Bumped(s.tx)
               u == Update(s.tx, "ChargingRateChanged")
    <3>1. /\ b \in Transactions
          /\ b.limit = s.tx.limit /\ b.csmsLimit = s.tx.csmsLimit
          /\ b.limitReached = s.tx.limitReached
          /\ b.energyStart = s.tx.energyStart
          /\ b.lastSample = s.tx.lastSample /\ b.elapsed = s.tx.elapsed
          /\ b.stopAtEnergy = s.tx.stopAtEnergy
      BY <2>0 DEF Bumped, Transactions
    <3>2. u = [tx |-> b, report |-> Report("Updated", "ChargingRateChanged", b)]
      BY DEF Update
    <3>3. OwnUpdate(s, e, p) = u \/ OwnUpdate(s, e, p) = Keep(s.tx)
      BY <2>5 DEF OwnUpdate
    <3> HIDE DEF b, u
    <3>4. b # None
      BY <3>1, NoneIsNothing
    <3>5. Carries(s.tx, b)
      BY <1>3, <3>1, <3>4 DEF Carries, SameCeilings, SameFigures
    <3>6. AdvanceFacts(s.tx, u)
      BY <3>2, <3>5 DEF AdvanceFacts, Carried, Clears, Report
    <3>7. StepFacts(s.tx, e, u)
      BY <3>6, AdvanceStepFacts
    <3> QED BY <1>1, <3>3, <3>7
  <2> QED BY <2>1, <2>2, <2>3, <2>4, <2>5
<1> QED BY <1>2, <1>3

\* Whatever the event.
LEMMA TransactionStepFacts ==
  ASSUME NEW s \in Slots, NEW n \in Nat, NEW e, WellFormed(e),
         NEW next \in ConnectorStates, NEW p \in ConnectorPolicies,
         Capped(s.tx)
  PROVE  StepFacts(s.tx, e, TransactionStep(s, n, e, next, p))
<1>1. StepFacts(s.tx, e, OwnUpdate(s, e, p))
  BY OwnUpdateFacts
<1>2. EventStopReason(e) \in Option(StopReasons)
  BY DEF EventStopReason, Option, StopReasons, WellFormed
<1>3. s.tx \in Option(Transactions) /\ s.state \in ConnectorStates
  BY DEF Slots
<1> DEFINE a == AdvanceTransaction(s.tx, n, s.state, next,
                                   EventStopReason(e), Origin(s, e), p)
<1>4. AdvanceFacts(s.tx, a)
  BY <1>2, <1>3, OriginType, AdvanceCarries
<1> HIDE DEF a
<1>5. StepFacts(s.tx, e, a)
  BY <1>4, AdvanceStepFacts
<1> QED BY <1>1, <1>5 DEF TransactionStep, a

-----------------------------------------------------------------------------
(* One transition. *)

SlotKept(s) == SlotReserved(s) /\ SlotForgets(s) /\ Capped(s.tx)

\* Reserved is entered by the event that carries the reservation, and left with
\* it; and whatever a connector honoured is forgotten where it becomes free.
LEMMA ReservationKept ==
  ASSUME NEW s \in Slots, NEW e, WellFormed(e), NEW p,
         SlotReserved(s), SlotForgets(s)
  PROVE  LET next == ConnectorApply(s.state, e, p).next IN
         /\ next = "Reserved" <=> NextReservation(s, e, next) # None
         /\ next \in {"Available", "Reserved"} =>
               NextHonoured(s, e, next) = None
<1> DEFINE next == ConnectorApply(s.state, e, p).next
<1>1. next = "Reserved" =>
         \/ e.type = "Reserved" /\ s.state \in {"Available", "Reserved"}
         \/ e.type # "Reserved" /\ s.state = "Reserved"
  BY DEF ConnectorApply, SupervisoryStep, SessionStep, Go, Powered, Suspended
<1>2. e.type = "Reserved" => e.reservation # None
  BY SlotAssumption DEF WellFormed
<1> HIDE DEF next
<1>3. next = "Reserved" <=> NextReservation(s, e, next) # None
  BY <1>1, <1>2 DEF NextReservation, SlotReserved
<1>4. next \in {"Available", "Reserved"} => NextHonoured(s, e, next) = None
  BY <1>1 DEF NextHonoured, SlotForgets
<1> QED BY <1>3, <1>4 DEF next

\* A transition keeps reservations settled and ceilings under the CSMS's.
LEMMA TransitKeeps ==
  ASSUME NEW s \in Slots, NEW n \in Nat, NEW e, WellFormed(e),
         NEW p \in ConnectorPolicies, SlotKept(s)
  PROVE  SlotKept(Transit(s, n, e, p).slot)
<1> DEFINE next == ConnectorApply(s.state, e, p).next
           step == TransactionStep(s, n, e, next, p)
           u    == Transit(s, n, e, p).slot
<1>1. next \in ConnectorStates
  BY ConnectorApplyType DEF Slots
<1>2. /\ next = "Reserved" <=> NextReservation(s, e, next) # None
      /\ next \in {"Available", "Reserved"} => NextHonoured(s, e, next) = None
  BY ReservationKept DEF SlotKept
<1>3. u = NextSlot(s, e, next, step)
  BY TransitParts
<1> HIDE DEF next
<1>4. Capped(step.tx)
  BY <1>1, TransactionStepFacts DEF SlotKept, StepFacts
<1> HIDE DEF step, u
<1>5. /\ u.state = next /\ u.reservation = NextReservation(s, e, next)
      /\ u.honoured = NextHonoured(s, e, next) /\ u.tx = step.tx
  BY <1>3 DEF NextSlot
<1>6. SlotKept(u)
  BY <1>2, <1>4, <1>5 DEF SlotKept, SlotReserved, SlotForgets
<1> QED BY <1>6 DEF u

\* A transition of an event that moves no figure: the transaction's step is
\* steady, and a transaction that stays keeps the costs it was told.
LEMMA TransitSteady ==
  ASSUME NEW s \in Slots, NEW n \in Nat, NEW e, WellFormed(e),
         NEW p \in ConnectorPolicies, SlotKept(s), ~MovesAFigure(s, e)
  PROVE  LET u == Transit(s, n, e, p).slot IN
         /\ Steady(s.tx, u.tx)
         /\ s.tx # None /\ u.tx # None =>
               u.cost = s.cost /\ u.runningTotal = s.runningTotal
<1> DEFINE next == ConnectorApply(s.state, e, p).next
           step == TransactionStep(s, n, e, next, p)
           u    == Transit(s, n, e, p).slot
<1>1. next \in ConnectorStates
  BY ConnectorApplyType DEF Slots
<1>2. u = NextSlot(s, e, next, step)
  BY TransitParts
<1> HIDE DEF next
<1>3. StepFacts(s.tx, e, step)
  BY <1>1, TransactionStepFacts DEF SlotKept
<1> HIDE DEF step, u
<1>4. u.tx = step.tx
  BY <1>2 DEF NextSlot
<1>5. Steady(s.tx, step.tx)
  BY <1>3 DEF StepFacts, Weighed, MovesAFigure
<1>6. ASSUME s.tx # None, u.tx # None
      PROVE  u.cost = s.cost /\ u.runningTotal = s.runningTotal
  <2>1. ~Clears(step)
    BY <1>3, <1>4, <1>6 DEF StepFacts
  <2>2. ~Records(s, e, "CostUpdated") /\ ~Records(s, e, "RunningCostAdvanced")
    BY DEF MovesAFigure
  <2> QED BY <1>2, <2>1, <2>2 DEF NextSlot
<1> QED BY <1>4, <1>5, <1>6 DEF u

\* So it leaves the verdict as it was.
LEMMA TransitJudged ==
  ASSUME NEW s \in Slots, NEW n \in Nat, NEW e, WellFormed(e),
         NEW p \in ConnectorPolicies, SlotKept(s), SlotJudged(s),
         ~MovesAFigure(s, e)
  PROVE  SlotJudged(Transit(s, n, e, p).slot)
<1> DEFINE u == Transit(s, n, e, p).slot
<1> SUFFICES SlotJudged(u)
  OBVIOUS
<1>1. /\ Steady(s.tx, u.tx)
      /\ s.tx # None /\ u.tx # None =>
            u.cost = s.cost /\ u.runningTotal = s.runningTotal
  BY TransitSteady
<1> HIDE DEF u
<1>2. CASE u.tx = None \/ u.tx.limit = None
  BY <1>2 DEF SlotJudged
<1>3. CASE ~(u.tx = None \/ u.tx.limit = None)
  <2>1. /\ s.tx # None /\ SameCeilings(s.tx, u.tx) /\ SameFigures(s.tx, u.tx)
        /\ AllowanceSpent(u.tx) <=> AllowanceSpent(s.tx)
    BY <1>1, <1>3 DEF Steady, Unlimited
  <2>2. u.cost = s.cost /\ u.runningTotal = s.runningTotal
    BY <1>1, <1>3, <2>1
  <2>3. ReachedLimit(s.tx, s.runningTotal, s.cost) =
          ReachedLimit(u.tx, u.runningTotal, u.cost)
    BY <2>1, <2>2, SameVerdict DEF SameCeilings
  <2> QED BY <2>1, <2>3 DEF SlotJudged, SameCeilings
<1> QED BY <1>2, <1>3

\* Only a meter event reports a meter reading.
Unmetered(reports) ==
    \A i \in 1..Len(reports) : reports[i].reason # "MeterValuePeriodic"

LEMMA TransitUnmetered ==
  ASSUME NEW s \in Slots, NEW n \in Nat, NEW e, WellFormed(e),
         NEW p \in ConnectorPolicies, SlotKept(s),
         e.type # "MeterValueSampled"
  PROVE  Unmetered(Transit(s, n, e, p).effects.reports)
<1> DEFINE next == ConnectorApply(s.state, e, p).next
           step == TransactionStep(s, n, e, next, p)
           q    == Transit(s, n, e, p).effects.reports
<1>1. next \in ConnectorStates
  BY ConnectorApplyType DEF Slots
<1>2. q = Maybe(step.report)
  BY TransitParts
<1> HIDE DEF next
<1>3. step.report # None => step.report.reason # "MeterValuePeriodic"
  BY <1>1, TransactionStepFacts DEF SlotKept, StepFacts
<1> HIDE DEF step, q
<1>4. Unmetered(q)
  BY <1>2, <1>3 DEF Unmetered, Maybe
<1> QED BY <1>4 DEF q

\* Reports that follow one another are unmetered together.
LEMMA UnmeteredConcat ==
  ASSUME NEW a \in Seq(Reports), NEW b \in Seq(Reports),
         Unmetered(a), Unmetered(b)
  PROVE  Unmetered(a \o b)
<1> SUFFICES ASSUME NEW i \in 1..Len(a \o b)
             PROVE  (a \o b)[i].reason # "MeterValuePeriodic"
  BY DEF Unmetered
<1>1. CASE i <= Len(a)
  BY <1>1 DEF Unmetered
<1>2. CASE i > Len(a)
  <2>1. i - Len(a) \in 1..Len(b) /\ (a \o b)[i] = b[i - Len(a)]
    BY <1>2
  <2> QED BY <2>1 DEF Unmetered
<1> QED BY <1>1, <1>2

-----------------------------------------------------------------------------
(* The follow-ups. *)

\* An outcome between an event and its follow-up.
Fit(o) == o \in Outcomes /\ FaultSafe(o.slot) /\ SlotKept(o.slot)

\* r adds no meter report to those of o.
AddsNoReading(o, r) ==
    Unmetered(o.effects.reports) => Unmetered(r.effects.reports)

\* What suspending at a ceiling and resuming below it leave alone.
SameWeights(s, u) ==
    /\ s.tx # None /\ u.tx # None
    /\ SameCeilings(s.tx, u.tx) /\ SameFigures(s.tx, u.tx)
    /\ AllowanceSpent(u.tx) <=> AllowanceSpent(s.tx)
    /\ u.cost = s.cost /\ u.runningTotal = s.runningTotal

\* A transition is fit.
LEMMA TransitFit ==
  ASSUME NEW s \in Slots, NEW n \in Nat, NEW e, WellFormed(e),
         NEW p \in ConnectorPolicies, FaultSafe(s), SlotKept(s)
  PROVE  Fit(Transit(s, n, e, p))
  BY TransitType, TransitFaultSafe, TransitKeeps DEF Fit

\* So is a transition after another one.
LEMMA FollowedFit ==
  ASSUME NEW o, Fit(o), NEW e, WellFormed(e), NEW p \in ConnectorPolicies
  PROVE  LET f == Followed(o, e, p) IN
         /\ Fit(f)
         /\ f.slot = Transit(o.slot, o.nextId, e, p).slot
         /\ e.type # "MeterValueSampled" => AddsNoReading(o, f)
<1> DEFINE t == Transit(o.slot, o.nextId, e, p)
           f == Followed(o, e, p)
<1>1. /\ o.slot \in Slots /\ o.nextId \in Nat /\ o.effects \in Effects
      /\ FaultSafe(o.slot) /\ SlotKept(o.slot)
  BY DEF Fit, Outcomes
<1>2. Fit(t)
  BY <1>1, TransitFit
<1>3. e.type # "MeterValueSampled" => Unmetered(t.effects.reports)
  BY <1>1, TransitUnmetered
<1> HIDE DEF t
<1>4. t.slot \in Slots /\ t.nextId \in Nat /\ t.effects \in Effects
  BY <1>2 DEF Fit, Outcomes
<1>5. /\ f.slot = t.slot /\ f.nextId = t.nextId
      /\ f.effects = Then(o.effects, t.effects)
      /\ f = [slot |-> f.slot, nextId |-> f.nextId, effects |-> f.effects]
  BY DEF Followed, After, Outcome, t
<1> HIDE DEF f
<1>6. f \in Outcomes
  <2>1. Then(o.effects, t.effects) \in Effects
    BY <1>1, <1>4, ThenType
  <2> QED BY <1>4, <1>5, <2>1 DEF Outcomes
<1>7. Fit(f)
  BY <1>2, <1>5, <1>6 DEF Fit
<1>8. e.type # "MeterValueSampled" => AddsNoReading(o, f)
  <2>1. f.effects.reports = o.effects.reports \o t.effects.reports
    BY <1>5, ThenReports
  <2>2. o.effects.reports \in Seq(Reports) /\ t.effects.reports \in Seq(Reports)
    BY <1>1, <1>4 DEF Effects
  <2> QED BY <1>3, <2>1, <2>2, UnmeteredConcat DEF AddsNoReading
<1> QED BY <1>5, <1>7, <1>8 DEF f, t

\* request_current_limit touches nothing but the limit it asks for.
LEMMA RequestFit ==
  ASSUME NEW o, Fit(o), NEW a \in Option(Nat)
  PROVE  LET q == RequestCurrentLimit(o, a) IN
         /\ Fit(q)
         /\ q.slot.tx = o.slot.tx /\ q.slot.cost = o.slot.cost
         /\ q.slot.runningTotal = o.slot.runningTotal
         /\ AddsNoReading(o, q)
<1> DEFINE sl == [o.slot EXCEPT !.requested = a]
           fx == [NoEffects EXCEPT !.commands = <<SetCurrentLimit(a)>>]
           th == Then(o.effects, fx)
           r  == Outcome(sl, o.nextId, th)
           q  == RequestCurrentLimit(o, a)
<1>0. o.slot \in Slots /\ o.nextId \in Nat /\ o.effects \in Effects
  BY DEF Fit, Outcomes
<1>1. CASE o.slot.requested = a
  BY <1>1 DEF RequestCurrentLimit, AddsNoReading
<1>2. CASE o.slot.requested # a
  <2>1. /\ sl \in Slots /\ sl.tx = o.slot.tx /\ sl.state = o.slot.state
        /\ sl.reservation = o.slot.reservation
        /\ sl.honoured = o.slot.honoured /\ sl.cost = o.slot.cost
        /\ sl.runningTotal = o.slot.runningTotal
    BY <1>0 DEF Slots
  <2>2. SetCurrentLimit(a) \in HardwareCommands
    BY CommandTypes
  <2>3. fx \in Effects /\ fx.reports = << >>
    BY <2>2, SingleEffects
  <2> HIDE DEF fx, sl
  <2>4. th \in Effects
    BY <1>0, <2>3, ThenType
  <2>5. th.reports = o.effects.reports
    BY <1>0, <2>3 DEF Then, Effects
  <2> HIDE DEF th
  <2>6. r \in Outcomes /\ r.slot = sl /\ r.nextId = o.nextId /\ r.effects = th
    BY <1>0, <2>1, <2>4 DEF Outcome, Outcomes
  <2>7. q = r
    BY <1>2 DEF RequestCurrentLimit, sl, th, fx
  <2> HIDE DEF r, q
  <2>8. FaultSafe(sl) /\ SlotKept(sl)
    BY <2>1 DEF Fit, FaultSafe, SlotKept, SlotReserved, SlotForgets
  <2>9. Fit(q) /\ AddsNoReading(o, q)
    BY <2>5, <2>6, <2>7, <2>8 DEF Fit, AddsNoReading
  <2> QED BY <2>1, <2>6, <2>7, <2>9 DEF q
<1> QED BY <1>1, <1>2

\* Suspending at a ceiling, or resuming below it, moves no figure.
LEMMA SuspensionWeighs ==
  ASSUME NEW o, Fit(o), o.slot.tx # None, NEW a \in Option(Nat), NEW e,
         e.type \in {"ChargingSuspendedByEvse", "ChargingResumed"},
         WellFormed(e), NEW p \in ConnectorPolicies
  PROVE  LET m == Followed(RequestCurrentLimit(o, a), e, p) IN
         /\ Fit(m)
         /\ SameWeights(o.slot, m.slot)
         /\ AddsNoReading(o, m)
<1> DEFINE q == RequestCurrentLimit(o, a)
           m == Followed(q, e, p)
<1>1. /\ Fit(q)
      /\ q.slot.tx = o.slot.tx /\ q.slot.cost = o.slot.cost
      /\ q.slot.runningTotal = o.slot.runningTotal
      /\ AddsNoReading(o, q)
  BY RequestFit
<1> HIDE DEF q
<1>2. /\ Fit(m) /\ AddsNoReading(q, m)
      /\ m.slot = Transit(q.slot, q.nextId, e, p).slot
  BY <1>1, FollowedFit
<1>3. /\ q.slot \in Slots /\ q.nextId \in Nat /\ FaultSafe(q.slot)
      /\ SlotKept(q.slot)
  BY <1>1 DEF Fit, Outcomes
<1>4. ~MovesAFigure(q.slot, e)
  BY DEF MovesAFigure, Records
<1> HIDE DEF m
<1>5. m.slot.tx # None
  BY <1>1, <1>2, <1>3, SuspensionKeepsTransaction
<1>6. /\ Steady(q.slot.tx, m.slot.tx)
      /\ m.slot.cost = q.slot.cost
      /\ m.slot.runningTotal = q.slot.runningTotal
  BY <1>1, <1>2, <1>3, <1>4, <1>5, TransitSteady
<1>7. SameWeights(o.slot, m.slot)
  BY <1>1, <1>5, <1>6 DEF SameWeights, Steady
<1>8. AddsNoReading(o, m)
  BY <1>1, <1>2 DEF AddsNoReading
<1> QED BY <1>2, <1>7, <1>8 DEF m, q

\* What the two edits of enforce_transaction_limit leave: an outcome r whose
\* transaction is that of m but for the mark.
Marks(m, r, kind) ==
    /\ r.slot.tx # None
    /\ r.slot.tx.limit = m.slot.tx.limit
    /\ r.slot.tx.csmsLimit = m.slot.tx.csmsLimit
    /\ SameFigures(m.slot.tx, r.slot.tx)
    /\ AllowanceSpent(r.slot.tx) <=> AllowanceSpent(m.slot.tx)
    /\ r.slot.tx.limitReached = kind
    /\ r.slot.cost = m.slot.cost
    /\ r.slot.runningTotal = m.slot.runningTotal
    /\ r.slot.state = m.slot.state
    /\ r.slot.reservation = m.slot.reservation
    /\ r.slot.honoured = m.slot.honoured

\* Marking a transaction keeps its slot.
LEMMA MarkedKept ==
  ASSUME NEW m, SlotKept(m.slot), m.slot.tx # None, NEW r, NEW kind,
         Marks(m, r, kind)
  PROVE  SlotKept(r.slot)
<1>1. Capped(r.slot.tx)
  BY DEF SlotKept, Capped, Marks
<1>2. SlotReserved(r.slot) /\ SlotForgets(r.slot)
  BY DEF SlotKept, SlotReserved, SlotForgets, Marks
<1> QED BY <1>1, <1>2 DEF SlotKept

LEMMA MarkReachedMarks ==
  ASSUME NEW m, Fit(m), m.slot.tx # None, NEW kind \in LimitKinds
  PROVE  /\ Marks(m, MarkReached(m, kind), kind)
         /\ AddsNoReading(m, MarkReached(m, kind))
<1> DEFINE t  == [m.slot.tx EXCEPT !.limitReached = kind]
           u  == Update(t, "LimitReached")
           b  == Bumped(t)
           sl == [m.slot EXCEPT !.tx = u.tx]
           fx == [NoEffects EXCEPT !.reports = <<u.report>>]
           r  == MarkReached(m, kind)
<1>1. m.slot \in Slots /\ m.slot.tx \in Transactions /\ m.effects \in Effects
  BY DEF Fit, Outcomes, Slots, Option
<1>2. /\ t \in Transactions /\ t.limit = m.slot.tx.limit
      /\ t.csmsLimit = m.slot.tx.csmsLimit /\ t.limitReached = kind
      /\ t.energyStart = m.slot.tx.energyStart
      /\ t.lastSample = m.slot.tx.lastSample
      /\ t.elapsed = m.slot.tx.elapsed
      /\ t.stopAtEnergy = m.slot.tx.stopAtEnergy
  <2>1. kind \in Option(LimitKinds)
    BY DEF Option
  <2> QED BY <1>1, <2>1 DEF Transactions
<1>3. MarkReached(m, kind) = Outcome(sl, m.nextId, Then(m.effects, fx))
  BY DEF MarkReached, ReportReached
<1>4. u.tx = b /\ u.report = Report("Updated", "LimitReached", b)
  BY DEF Update
<1> HIDE DEF t
<1>5. /\ b \in Transactions /\ b.limit = t.limit
      /\ b.csmsLimit = t.csmsLimit /\ b.limitReached = t.limitReached
      /\ b.energyStart = t.energyStart /\ b.lastSample = t.lastSample
      /\ b.elapsed = t.elapsed /\ b.stopAtEnergy = t.stopAtEnergy
  BY <1>2 DEF Bumped, Transactions
<1>6. u.report \in Reports /\ u.report.reason = "LimitReached"
  <2>1. "LimitReached" \in {"Started", "Ended"} \cup UpdateReasons
    BY DEF UpdateReasons
  <2>2. Report("Updated", "LimitReached", b) \in Reports
    BY <1>5, <2>1, ReportType
  <2> QED BY <1>4, <2>2 DEF Report
<1> HIDE DEF u, b
<1>7. /\ sl.tx = u.tx /\ sl.state = m.slot.state /\ sl.cost = m.slot.cost
      /\ sl.reservation = m.slot.reservation
      /\ sl.honoured = m.slot.honoured
      /\ sl.runningTotal = m.slot.runningTotal
  BY <1>1 DEF Slots
<1>8. /\ fx.reports = <<u.report>>
      /\ fx \in Effects
  BY <1>6, SingleEffects
<1> HIDE DEF sl, fx
<1>9. r.slot = sl /\ r.effects = Then(m.effects, fx)
  BY <1>3 DEF Outcome
<1> HIDE DEF r
<1>10. Marks(m, r, kind)
  <2>1. b # None
    BY <1>5, NoneIsNothing
  <2>2. AllowanceSpent(b) <=> AllowanceSpent(m.slot.tx)
    BY <1>2, <1>5, <2>1, SameAllowance
  <2> QED BY <1>2, <1>4, <1>5, <1>7, <1>9, <2>1, <2>2 DEF Marks, SameFigures
<1>11. AddsNoReading(m, r)
  <2>1. r.effects.reports = m.effects.reports \o <<u.report>>
    BY <1>8, <1>9, ThenReports
  <2>2. Unmetered(<<u.report>>) /\ <<u.report>> \in Seq(Reports)
    BY <1>6 DEF Unmetered
  <2>3. m.effects.reports \in Seq(Reports)
    BY <1>1 DEF Effects
  <2> QED BY <2>1, <2>2, <2>3, UnmeteredConcat DEF AddsNoReading
<1> QED BY <1>10, <1>11 DEF r

LEMMA ClearReachedMarks ==
  ASSUME NEW m, Fit(m), m.slot.tx # None
  PROVE  /\ Marks(m, ClearReached(m), None)
         /\ AddsNoReading(m, ClearReached(m))
<1> DEFINE t  == [m.slot.tx EXCEPT !.limitReached = None]
           sl == [m.slot EXCEPT !.tx = t]
           r  == ClearReached(m)
<1>1. m.slot \in Slots /\ m.slot.tx \in Transactions
  BY DEF Fit, Outcomes, Slots, Option
<1>2. /\ t \in Transactions /\ t.limit = m.slot.tx.limit
      /\ t.csmsLimit = m.slot.tx.csmsLimit /\ t.limitReached = None
      /\ t.energyStart = m.slot.tx.energyStart
      /\ t.lastSample = m.slot.tx.lastSample
      /\ t.elapsed = m.slot.tx.elapsed
      /\ t.stopAtEnergy = m.slot.tx.stopAtEnergy
  <2>1. None \in Option(LimitKinds)
    BY DEF Option
  <2> QED BY <1>1, <2>1 DEF Transactions
<1>3. r.slot = sl /\ r.effects = m.effects
  BY <1>1 DEF ClearReached, Outcome, Slots
<1> HIDE DEF t, r
<1>4. /\ sl.tx = t /\ sl.state = m.slot.state /\ sl.cost = m.slot.cost
      /\ sl.reservation = m.slot.reservation
      /\ sl.honoured = m.slot.honoured
      /\ sl.runningTotal = m.slot.runningTotal
  BY <1>1 DEF Slots
<1> HIDE DEF sl
<1>5. t # None
  BY <1>2, NoneIsNothing
<1>6. AllowanceSpent(t) <=> AllowanceSpent(m.slot.tx)
  BY <1>2, <1>5, SameAllowance
<1>7. Marks(m, r, None)
  BY <1>2, <1>3, <1>4, <1>5, <1>6 DEF Marks, SameFigures
<1>8. AddsNoReading(m, r)
  BY <1>3 DEF AddsNoReading
<1> QED BY <1>7, <1>8 DEF r

\* enforce_transaction_limit establishes the verdict, whatever it was before,
\* and leaves figures and allowance alone.
Enforced(o, r) ==
    /\ SlotKept(r.slot) /\ SlotJudged(r.slot)
    /\ AllowanceSpent(r.slot.tx) => AllowanceSpent(o.slot.tx)
    /\ AddsNoReading(o, r)

\* The two edits of it, after the suspension or the resumption m.
LEMMA MarkEnforces ==
  ASSUME NEW o, NEW m, Fit(m), SameWeights(o.slot, m.slot),
         AddsNoReading(o, m), NEW r, NEW kind, Marks(m, r, kind),
         AddsNoReading(m, r),
         kind # None <=>
           ReachedLimit(o.slot.tx, o.slot.runningTotal, o.slot.cost) # None
  PROVE  Enforced(o, r)
<1>1. SlotKept(r.slot)
  BY MarkedKept DEF Fit, SameWeights
<1>2. SlotJudged(r.slot)
  <2>1. /\ r.slot.tx.limit = o.slot.tx.limit
        /\ SameFigures(o.slot.tx, r.slot.tx)
        /\ r.slot.runningTotal = o.slot.runningTotal
        /\ r.slot.cost = o.slot.cost
    BY DEF Marks, SameWeights, SameCeilings, SameFigures
  <2>2. ReachedLimit(o.slot.tx, o.slot.runningTotal, o.slot.cost) =
          ReachedLimit(r.slot.tx, r.slot.runningTotal, r.slot.cost)
    BY <2>1, SameVerdict
  <2> QED BY <2>2 DEF SlotJudged, Marks
<1>3. AllowanceSpent(r.slot.tx) => AllowanceSpent(o.slot.tx)
  BY DEF Marks, SameWeights
<1>4. AddsNoReading(o, r)
  BY DEF AddsNoReading
<1> QED BY <1>1, <1>2, <1>3, <1>4 DEF Enforced

LEMMA EnforceEnforces ==
  ASSUME NEW o, Fit(o), NEW p \in ConnectorPolicies
  PROVE  Enforced(o, EnforceTransactionLimit(o, p))
<1> DEFINE tx      == o.slot.tx
           reached == ReachedLimit(tx, o.slot.runningTotal, o.slot.cost)
           e1 == [type |-> "ChargingSuspendedByEvse"]
           e2 == [type |-> "ChargingResumed"]
           m1 == Followed(RequestCurrentLimit(o, 0), e1, p)
           m2 == Followed(RequestCurrentLimit(o, None), e2, p)
<1>1. reached # None => reached \in LimitKinds
  BY DEF ReachedLimit, LimitKinds
<1>2. CASE tx = None \/ tx.limit = None
  BY <1>2 DEF EnforceTransactionLimit, Enforced, SlotJudged, AddsNoReading, Fit
<1>3. CASE ~(tx = None \/ tx.limit = None)
  <2>1. CASE reached # None /\ tx.limitReached = None
    <3>1. 0 \in Option(Nat) /\ WellFormed(e1)
      BY DEF Option, WellFormed
    <3>2. e1.type \in {"ChargingSuspendedByEvse", "ChargingResumed"}
      OBVIOUS
    <3> HIDE DEF e1
    <3>3. Fit(m1) /\ SameWeights(o.slot, m1.slot) /\ AddsNoReading(o, m1)
      BY <1>3, <3>1, <3>2, SuspensionWeighs
    <3> HIDE DEF m1
    <3>4. m1.slot.tx # None
      BY <3>3 DEF SameWeights
    <3>5. /\ Marks(m1, MarkReached(m1, reached), reached)
          /\ AddsNoReading(m1, MarkReached(m1, reached))
      <4> HIDE DEF reached
      <4> QED BY <1>1, <2>1, <3>3, <3>4, MarkReachedMarks
    <3>6. Enforced(o, MarkReached(m1, reached))
      <4>1. reached # None <=>
              ReachedLimit(o.slot.tx, o.slot.runningTotal, o.slot.cost) # None
        OBVIOUS
      <4> HIDE DEF reached
      <4> QED BY <3>3, <3>5, <4>1, MarkEnforces
    <3>7. EnforceTransactionLimit(o, p) = MarkReached(m1, reached)
      BY <1>3, <2>1 DEF EnforceTransactionLimit, Enforce, SuspendAtLimit, m1, e1
    <3> QED BY <3>6, <3>7
  <2>2. CASE reached = None /\ tx.limitReached # None
    <3>1. None \in Option(Nat) /\ WellFormed(e2)
      BY DEF Option, WellFormed
    <3>2. e2.type \in {"ChargingSuspendedByEvse", "ChargingResumed"}
      OBVIOUS
    <3> HIDE DEF e2
    <3>3. Fit(m2) /\ SameWeights(o.slot, m2.slot) /\ AddsNoReading(o, m2)
      BY <1>3, <3>1, <3>2, SuspensionWeighs
    <3> HIDE DEF m2
    <3>4. m2.slot.tx # None
      BY <3>3 DEF SameWeights
    <3>5. Marks(m2, ClearReached(m2), None) /\ AddsNoReading(m2, ClearReached(m2))
      BY <3>3, <3>4, ClearReachedMarks
    <3>6. Enforced(o, ClearReached(m2))
      <4>1. None # None <=>
              ReachedLimit(o.slot.tx, o.slot.runningTotal, o.slot.cost) # None
        BY <2>2
      <4> QED BY <3>3, <3>5, <4>1, MarkEnforces
    <3>7. EnforceTransactionLimit(o, p) = ClearReached(m2)
      BY <1>3, <2>2 DEF EnforceTransactionLimit, Enforce, ResumeBelowLimit, m2, e2
    <3> QED BY <3>6, <3>7
  <2>3. CASE reached # None <=> tx.limitReached # None
    <3>1. EnforceTransactionLimit(o, p) = o
      BY <1>3, <2>3 DEF EnforceTransactionLimit, Enforce
    <3>2. SlotJudged(o.slot)
      BY <2>3 DEF SlotJudged
    <3> QED BY <3>1, <3>2 DEF Enforced, AddsNoReading, Fit
  <2> QED BY <2>1, <2>2, <2>3
<1> QED BY <1>2, <1>3

-----------------------------------------------------------------------------
(* One event as a whole. *)

SlotHeld(s) == SlotKept(s) /\ SlotJudged(s)

\* A reading that spends the allowance leaves the connector de-energised.
StopsAtAllowance(slot, effects) ==
    ~Unmetered(effects.reports) /\ AllowanceSpent(slot.tx) =>
        slot.state \notin Powered

\* ChargingStopped leaves no connector energised.
LEMMA StopDeEnergises ==
  ASSUME NEW s, NEW n, NEW e, e.type = "ChargingStopped", NEW p
  PROVE  Transit(s, n, e, p).slot.state \notin Powered
<1>1. ConnectorApply(s.state, e, p).next \notin Powered
  BY DEF ConnectorApply, SupervisoryEvents, SessionStep, Go, Powered, Suspended
<1> QED BY <1>1, TransitParts

\* The event that spends the allowance: a stop, and whatever its transaction
\* stands at is no longer weighed.
LEMMA StoppedHeld ==
  ASSUME NEW o, Fit(o), AllowanceSpent(o.slot.tx), NEW e,
         e.type = "ChargingStopped", WellFormed(e), NEW p \in ConnectorPolicies
  PROVE  LET f == Followed(o, e, p) IN
         SlotHeld(f.slot) /\ f.slot.state \notin Powered
<1> DEFINE f == Followed(o, e, p)
<1>1. Fit(f) /\ f.slot = Transit(o.slot, o.nextId, e, p).slot
  BY FollowedFit
<1>2. f.slot.state \notin Powered
  BY <1>1, StopDeEnergises
<1>3. o.slot \in Slots /\ o.nextId \in Nat /\ SlotKept(o.slot)
  BY DEF Fit, Outcomes
<1>4. ~MovesAFigure(o.slot, e)
  BY DEF MovesAFigure, Records
<1> HIDE DEF f
<1>5. Steady(o.slot.tx, f.slot.tx)
  BY <1>1, <1>3, <1>4, TransitSteady
<1>6. SlotJudged(f.slot)
  BY <1>5 DEF SlotJudged, Steady, Unlimited, AllowanceSpent
<1> QED BY <1>1, <1>2, <1>6 DEF Fit, SlotHeld, f

\* apply_connector_event as a whole.
LEMMA ApplyConnectorEventHeld ==
  ASSUME NEW s \in Slots, NEW n \in Nat, NEW e, WellFormed(e),
         NEW p \in ConnectorPolicies, FaultSafe(s), SlotHeld(s)
  PROVE  LET r == ApplyConnectorEvent(s, n, e, p) IN
         SlotHeld(r.slot) /\ StopsAtAllowance(r.slot, r.effects)
<1> DEFINE o  == Transit(s, n, e, p)
           pe == Dispatched(s, o.slot.state)
           e1 == [type |-> "ChargingStopped", reason |-> "DeAuthorized"]
           e2 == [type |-> "RemoteStartRequested", token |-> pe.token,
                  remoteStartId |-> pe.remoteStartId]
           r  == ApplyConnectorEvent(s, n, e, p)
           ok(x) == SlotHeld(x.slot) /\ StopsAtAllowance(x.slot, x.effects)
<1>1. Fit(o) /\ (e.type # "MeterValueSampled" => Unmetered(o.effects.reports))
  BY TransitFit, TransitUnmetered DEF SlotHeld
<1>2. ~MovesAFigure(s, e) => SlotJudged(o.slot)
  BY TransitJudged DEF SlotHeld
<1> HIDE DEF o
<1>3. CASE e.type = "MeterValueSampled" /\ AllowanceSpent(o.slot.tx)
  <2>1. r = Followed(o, e1, p)
    BY <1>3 DEF ApplyConnectorEvent, FollowUp, o
  <2>2. WellFormed(e1) /\ e1.type = "ChargingStopped"
    BY DEF WellFormed, StopReasons
  <2> HIDE DEF e1, r
  <2>3. SlotHeld(r.slot) /\ r.slot.state \notin Powered
    BY <1>1, <1>3, <2>1, <2>2, StoppedHeld
  <2>4. ok(r)
    BY <2>3 DEF StopsAtAllowance
  <2> QED BY <2>4 DEF r
<1>4. CASE ~(e.type = "MeterValueSampled" /\ AllowanceSpent(o.slot.tx))
           /\ MovesAFigure(s, e)
  <2>1. r = EnforceTransactionLimit(o, p)
    BY <1>4 DEF ApplyConnectorEvent, FollowUp, o
  <2> HIDE DEF r
  <2>2. Enforced(o, r)
    BY <1>1, <2>1, EnforceEnforces
  <2>3. StopsAtAllowance(r.slot, r.effects)
    BY <1>1, <1>4, <2>2 DEF Enforced, StopsAtAllowance, AddsNoReading
  <2>4. ok(r)
    BY <2>2, <2>3 DEF Enforced, SlotHeld
  <2> QED BY <2>4 DEF r
<1>5. CASE ~MovesAFigure(s, e)
  <2>0. e.type # "MeterValueSampled"
    BY <1>5 DEF MovesAFigure
  <2>1. ok(o)
    BY <1>1, <1>2, <1>5, <2>0 DEF SlotHeld, StopsAtAllowance, Fit
  <2>2. CASE pe = None
    <3>1. r = o
      BY <1>5, <2>0, <2>2 DEF ApplyConnectorEvent, FollowUp, o
    <3> HIDE DEF r
    <3>2. ok(r)
      BY <2>1, <3>1
    <3> QED BY <3>2 DEF r
  <2>3. CASE pe # None
    <3>1. r = Followed(o, e2, p)
      BY <1>5, <2>0, <2>3 DEF ApplyConnectorEvent, FollowUp, o
    <3>2. s.pending \in Option(PendingStarts)
      BY DEF Slots
    <3>3. pe \in PendingStarts
      BY <2>3, <3>2 DEF Dispatched, Option
    <3> HIDE DEF pe
    <3>4. WellFormed(e2) /\ e2.type = "RemoteStartRequested"
      BY <3>3 DEF PendingStarts, WellFormed
    <3> HIDE DEF e2, r
    <3>5. /\ Fit(r) /\ r.slot = Transit(o.slot, o.nextId, e2, p).slot
          /\ AddsNoReading(o, r)
      BY <1>1, <3>1, <3>4, FollowedFit
    <3>6. SlotJudged(r.slot)
      <4>1. o.slot \in Slots /\ o.nextId \in Nat /\ SlotKept(o.slot)
        BY <1>1 DEF Fit, Outcomes
      <4>2. ~MovesAFigure(o.slot, e2)
        BY <3>4 DEF MovesAFigure, Records
      <4> QED BY <2>1, <3>4, <3>5, <4>1, <4>2, TransitJudged DEF SlotHeld
    <3>7. ok(r)
      BY <1>1, <2>0, <3>5, <3>6
         DEF Fit, SlotHeld, StopsAtAllowance, AddsNoReading
    <3> QED BY <3>7 DEF r
  <2> QED BY <2>2, <2>3
<1> QED BY <1>3, <1>4, <1>5

-----------------------------------------------------------------------------
(* What an event does to each connector of the charge point. *)

\* Nothing; the mark of a grant of priority charging; or one connector event.
Heard(ev, e) ==
    \/ e.type \in {"FaultDetected", "FaultCleared", "ResetRequested"}
    \/ ev.type = "Connector" /\ e = ev.event

Did(st, ev, c, slot, effects) ==
    \/ slot = st.conn[c] /\ effects = NoEffects
    \/ /\ st.conn[c].tx # None /\ effects = NoEffects
       /\ \E b \in BOOLEAN : slot = [st.conn[c] EXCEPT !.tx.priority = b]
    \/ \E e : /\ WellFormed(e) /\ Heard(ev, e)
              /\ LET r == ApplyConnectorEvent(st.conn[c], st.nextId, e,
                                              st.policy)
                 IN slot = r.slot /\ effects = r.effects

\* An event that rewrites no slot.
LEMMA QuietDoes ==
  ASSUME NEW st, NEW ev, NEW s2, s2.conn = st.conn, NEW c \in Connectors
  PROVE  Did(st, ev, c, Result(s2, Quiet).cp.conn[c], Result(s2, Quiet).out.conn[c])
  BY DEF Did, Result, Quiet

\* An event run on a whole scope.
LEMMA CascadeDoes ==
  ASSUME NEW st, NEW s2 \in ChargePoints, s2.conn = st.conn,
         s2.nextId = st.nextId, s2.policy = st.policy, NEW scope,
         NEW ev, NEW e, WellFormed(e), Heard(ev, e), NEW c \in Connectors
  PROVE  Did(st, ev, c, Cascade(s2, scope, e).cp.conn[c],
             Cascade(s2, scope, e).out.conn[c])
<1> DEFINE o(d) == ApplyConnectorEvent(s2.conn[d], s2.nextId, e, s2.policy)
           r == Cascade(s2, scope, e)
<1>1. /\ r.cp.conn[c] = IF c \in scope THEN o(c).slot ELSE s2.conn[c]
      /\ r.out.conn[c] = IF c \in scope THEN o(c).effects ELSE NoEffects
  BY DEF Cascade, WriteAll, Result, ChargePoints
<1>2. o(c) = ApplyConnectorEvent(st.conn[c], st.nextId, e, st.policy)
  OBVIOUS
<1> HIDE DEF o, r
<1>3. Did(st, ev, c, r.cp.conn[c], r.out.conn[c])
  BY <1>1, <1>2 DEF Did
<1> QED BY <1>3 DEF r

LEMMA CascadeFaultDoes ==
  ASSUME NEW st, NEW s2 \in ChargePoints, s2.conn = st.conn,
         s2.nextId = st.nextId, s2.policy = st.policy, NEW target,
         NEW detected \in BOOLEAN, NEW ev, NEW c \in Connectors
  PROVE  Did(st, ev, c, CascadeFault(s2, target, detected).cp.conn[c],
             CascadeFault(s2, target, detected).out.conn[c])
<1> DEFINE e  == [type |-> IF detected THEN "FaultDetected" ELSE "FaultCleared"]
           es == [v \in Evses |->
                    IF v \notin TargetEvses(target) THEN s2.evse[v]
                    ELSE IF detected THEN "Faulted" ELSE "Unavailable"]
           s3 == [s2 EXCEPT !.evse = es]
<1>1. WellFormed(e) /\ Heard(ev, e)
  BY DEF WellFormed, Heard
<1>2. es \in [Evses -> EvseStatuses]
  BY DEF EvseStatuses, ChargePoints
<1> HIDE DEF es
<1>3. /\ s3 \in ChargePoints /\ s3.conn = st.conn /\ s3.nextId = st.nextId
      /\ s3.policy = st.policy
  BY <1>2 DEF ChargePoints
<1> DEFINE r == Cascade(s3, TargetConnectors(target), e)
<1>4. CascadeFault(s2, target, detected) = r
  BY DEF CascadeFault, es
<1> HIDE DEF s3, e
<1>5. Did(st, ev, c, r.cp.conn[c], r.out.conn[c])
  BY <1>1, <1>3, CascadeDoes
<1> QED BY <1>4, <1>5

\* An event addressed to one connector.
LEMMA OnConnectorDoes ==
  ASSUME NEW st \in ChargePoints, NEW k \in Connectors, NEW e, WellFormed(e),
         NEW ev, Heard(ev, e), NEW c \in Connectors
  PROVE  Did(st, ev, c, OnConnector(st, k, e).cp.conn[c],
             OnConnector(st, k, e).out.conn[c])
<1> DEFINE o == ApplyConnectorEvent(st.conn[k], st.nextId, e, st.policy)
           r == OnConnector(st, k, e)
<1>1. /\ r.cp.conn = [st.conn EXCEPT ![k] = o.slot]
      /\ r.out.conn = [Quiet EXCEPT ![k] = o.effects]
  BY DEF OnConnector, WriteBack, Result, ChargePoints
<1>2. st.conn \in [Connectors -> Slots]
  BY DEF ChargePoints
<1>3. /\ r.cp.conn[c] = IF c = k THEN o.slot ELSE st.conn[c]
      /\ r.out.conn[c] = IF c = k THEN o.effects ELSE NoEffects
  BY <1>1, <1>2 DEF Quiet
<1>4. c = k => o = ApplyConnectorEvent(st.conn[c], st.nextId, e, st.policy)
  OBVIOUS
<1> HIDE DEF o, r
<1>5. Did(st, ev, c, r.cp.conn[c], r.out.conn[c])
  BY <1>3, <1>4 DEF Did
<1> QED BY <1>5 DEF r

\* A grant of priority charging.
LEMMA PriorityChargingDoes ==
  ASSUME NEW st \in ChargePoints, NEW id, NEW activated \in BOOLEAN,
         NEW ev, NEW c \in Connectors
  PROVE  Did(st, ev, c, ApplyPriorityCharging(st, id, activated).cp.conn[c],
             ApplyPriorityCharging(st, id, activated).out.conn[c])
<1> DEFINE r == ApplyPriorityCharging(st, id, activated)
<1>1. /\ r.cp.conn[c] =
           IF st.conn[c].tx # None /\ st.conn[c].tx.id = id
             THEN [st.conn[c] EXCEPT !.tx.priority = activated]
             ELSE st.conn[c]
      /\ r.out.conn[c] = NoEffects
  BY DEF ApplyPriorityCharging, Result, Quiet, ChargePoints
<1> HIDE DEF r
<1>2. Did(st, ev, c, r.cp.conn[c], r.out.conn[c])
  BY <1>1 DEF Did
<1> QED BY <1>2 DEF r

\* CheckPendingReset touches no connector.
LEMMA CheckPendingResetKeeps ==
  ASSUME NEW r \in Results
  PROVE  /\ CheckPendingReset(r).cp.conn = r.cp.conn
         /\ CheckPendingReset(r).out.conn = r.out.conn
<1> DEFINE reset == r.cp.pendingReset
           q == CheckPendingReset(r)
<1>0. r.cp \in ChargePoints /\ r.out \in Outs
  BY DEF Results
<1>1. CASE reset = None \/ ~PendingResetReady(r.cp, reset)
  BY <1>1 DEF CheckPendingReset
<1>2. CASE ~(reset = None \/ ~PendingResetReady(r.cp, reset))
  <2> DEFINE c2 == [r.cp EXCEPT !.pendingReset = None]
             o2 == [r.out EXCEPT !.reboots = TargetEvses(reset.target)]
  <2>1. q = [cp |-> c2, out |-> o2]
    BY <1>0, <1>2 DEF CheckPendingReset, Results
  <2>2. c2.conn = r.cp.conn /\ o2.conn = r.out.conn
    BY <1>0 DEF ChargePoints, Outs
  <2> HIDE DEF c2, o2, q
  <2>3. q.cp.conn = r.cp.conn /\ q.out.conn = r.out.conn
    BY <2>1, <2>2
  <2> QED BY <2>3 DEF q
<1> QED BY <1>1, <1>2

\* So whatever event is applied, each connector sees at most one event.
LEMMA ApplyDoes ==
  ASSUME NEW st, NEW lst, Settled(st, lst), NEW e, Sendable(e),
         NEW c \in Connectors
  PROVE  Did(st, e, c, Apply(st, e).cp.conn[c], Apply(st, e).out.conn[c])
<1> DEFINE r == Dispatch(st, e)
           does(x) == Did(st, e, c, x.cp.conn[c], x.out.conn[c])
<1>0. st \in ChargePoints
  BY DEF Settled
<1>1. SUFFICES does(r)
  <2>1. r \in Results
    BY DispatchSound DEF Sound
  <2> HIDE DEF r
  <2>2. does(r) => does(CheckPendingReset(r))
    BY <2>1, CheckPendingResetKeeps
  <2> QED BY <2>2 DEF Apply, r
<1>2. ASSUME NEW l
      PROVE  LET s2 == [st EXCEPT !.lifecycle = l] IN
             /\ s2.conn = st.conn /\ s2.nextId = st.nextId
             /\ s2.policy = st.policy
  BY <1>0 DEF ChargePoints
<1>3. CASE e.type \in {"BootCompleted", "SetAvailable", "SetUnavailable"}
  <2>1. PICK l : r = Result([st EXCEPT !.lifecycle = l], Quiet)
    BY <1>3 DEF Dispatch, SetLifecycle
  <2> DEFINE s2 == [st EXCEPT !.lifecycle = l]
  <2>2. s2.conn = st.conn /\ r = Result(s2, Quiet)
    BY <1>2, <2>1
  <2> HIDE DEF r, s2
  <2> QED BY <2>2, QuietDoes
<1>4. CASE e.type \in {"HardwareFault", "FaultCleared"}
  <2> DEFINE l  == IF e.type = "HardwareFault" THEN "Faulted" ELSE "Unavailable"
             s2 == [st EXCEPT !.lifecycle = l]
             b  == e.type = "HardwareFault"
  <2>1. s2 \in ChargePoints
    BY <1>0 DEF ChargePoints, LifecycleStates
  <2>2. s2.conn = st.conn /\ s2.nextId = st.nextId /\ s2.policy = st.policy
    BY <1>2
  <2>3. r = CascadeFault(s2, None, b)
    BY <1>4 DEF Dispatch
  <2>4. b \in BOOLEAN
    OBVIOUS
  <2> HIDE DEF r, s2, b
  <2> QED BY <2>1, <2>2, <2>3, <2>4, CascadeFaultDoes
<1>5. CASE e.type = "RegistrationStatusReceived"
  <2> DEFINE s2 == [st EXCEPT
                      !.registration = e.status,
                      !.lifecycle = IF e.status = "Accepted" THEN "Available"
                                    ELSE @]
  <2>1. s2.conn = st.conn
    BY <1>0 DEF ChargePoints
  <2>2. r = Result(s2, Quiet)
    BY <1>5 DEF Dispatch, ApplyRegistration
  <2> HIDE DEF r, s2
  <2> QED BY <2>1, <2>2, QuietDoes
<1>6. CASE e.type = "ResetRequested"
  <2> DEFINE pr == [target |-> e.target, kind |-> e.kind]
             s2 == [st EXCEPT !.pendingReset = pr]
             re == [type |-> "ResetRequested"]
  <2>1. r = IF e.kind = "Immediate"
              THEN Cascade(s2, TargetConnectors(e.target), re)
              ELSE Result(s2, Quiet)
    BY <1>6 DEF Dispatch, ApplyReset
  <2>2. pr \in Option(PendingResets)
    BY <1>6 DEF Sendable, WellFormedStation, Option, PendingResets
  <2>3. WellFormed(re) /\ Heard(e, re)
    BY DEF WellFormed, Heard
  <2> HIDE DEF r, pr
  <2>4. /\ s2 \in ChargePoints /\ s2.conn = st.conn
        /\ s2.nextId = st.nextId /\ s2.policy = st.policy
    BY <1>0, <2>2 DEF ChargePoints
  <2> HIDE DEF s2, re
  <2>5. does(Result(s2, Quiet))
    BY <2>4, QuietDoes
  <2>6. does(Cascade(s2, TargetConnectors(e.target), re))
    BY <2>3, <2>4, CascadeDoes
  <2> QED BY <2>1, <2>5, <2>6
<1>7. CASE e.type = "PriorityChargingSet"
  <2>1. e.activated \in BOOLEAN
    BY <1>7 DEF Sendable, WellFormedStation
  <2>2. r = ApplyPriorityCharging(st, e.id, e.activated)
    BY <1>7 DEF Dispatch
  <2> HIDE DEF r
  <2> QED BY <1>0, <2>1, <2>2, PriorityChargingDoes
<1>8. CASE e.type = "PolicySet"
  <2> DEFINE s2 == [st EXCEPT !.policy = e.policy]
  <2>1. s2.conn = st.conn
    BY <1>0 DEF ChargePoints
  <2>2. r = Result(s2, Quiet)
    BY <1>8 DEF Dispatch
  <2> HIDE DEF r, s2
  <2> QED BY <2>1, <2>2, QuietDoes
<1>9. CASE e.type = "EvseStatusSet"
  <2> DEFINE s2 == [st EXCEPT !.evse[e.evse] = e.status]
  <2>1. s2.conn = st.conn
    BY <1>0 DEF ChargePoints
  <2>2. r = Result(s2, Quiet)
    BY <1>9 DEF Dispatch
  <2> HIDE DEF r, s2
  <2> QED BY <2>1, <2>2, QuietDoes
<1>10. CASE e.type \in {"EvseFaultDetected", "EvseFaultCleared"}
  <2> DEFINE b == e.type = "EvseFaultDetected"
  <2>1. r = CascadeFault(st, e.evse, b)
    BY <1>10 DEF Dispatch
  <2>2. b \in BOOLEAN
    OBVIOUS
  <2> HIDE DEF r, b
  <2> QED BY <1>0, <2>1, <2>2, CascadeFaultDoes
<1>11. CASE e.type = "Connector"
  <2>1. e.connector \in Connectors /\ WellFormed(e.event) /\ Heard(e, e.event)
    BY <1>11 DEF Sendable, Heard
  <2>2. r = OnConnector(st, e.connector, e.event)
    BY <1>11 DEF Dispatch
  <2> HIDE DEF r
  <2> QED BY <1>0, <2>1, <2>2, OnConnectorDoes
<1> QED BY <1>3, <1>4, <1>5, <1>6, <1>7, <1>8, <1>9, <1>10, <1>11 DEF Sendable

\* A slot that sees at most one event keeps what it must: nothing and the mark
\* of a grant touch none of it.
LEMMA DidHeld ==
  ASSUME NEW st, NEW lst, Settled(st, lst), NEW ev, NEW c \in Connectors,
         SlotHeld(st.conn[c]), NEW slot, NEW effects,
         Did(st, ev, c, slot, effects)
  PROVE  SlotHeld(slot) /\ StopsAtAllowance(slot, effects)
<1> DEFINE s == st.conn[c]
<1>0. /\ s \in Slots /\ FaultSafe(s) /\ st.nextId \in Nat
      /\ st.policy \in ConnectorPolicies
  BY DEF Settled, ChargePoints
<1>1. effects = NoEffects => StopsAtAllowance(slot, effects)
  BY DEF StopsAtAllowance, Unmetered, NoEffects
<1>2. CASE slot = s /\ effects = NoEffects
  BY <1>1, <1>2
<1>3. CASE /\ s.tx # None /\ effects = NoEffects
           /\ \E b \in BOOLEAN : slot = [s EXCEPT !.tx.priority = b]
  <2>1. PICK b \in BOOLEAN : slot = [s EXCEPT !.tx.priority = b]
    BY <1>3
  <2> DEFINE t == [s.tx EXCEPT !.priority = b]
  <2>2. s.tx \in Transactions
    BY <1>0, <1>3 DEF Slots, Option
  <2>3. /\ slot.tx = t /\ slot.state = s.state
        /\ slot.reservation = s.reservation /\ slot.honoured = s.honoured
        /\ slot.runningTotal = s.runningTotal /\ slot.cost = s.cost
    BY <1>0, <2>1 DEF Slots
  <2>4. t \in Transactions
    BY <2>2 DEF Transactions
  <2>5. SameCeilings(t, s.tx) /\ SameFigures(t, s.tx)
        /\ t.stopAtEnergy = s.tx.stopAtEnergy
    BY <2>2 DEF Transactions, SameCeilings, SameFigures
  <2>6. t # None
    BY <2>4, NoneIsNothing
  <2> HIDE DEF t
  <2>7. AllowanceSpent(t) <=> AllowanceSpent(s.tx)
    BY <1>3, <2>5, <2>6, SameAllowance DEF SameFigures
  <2>8. ReachedLimit(t, s.runningTotal, s.cost)
          = ReachedLimit(s.tx, s.runningTotal, s.cost)
    BY <2>5, SameVerdict DEF SameCeilings
  <2>9. Capped(slot.tx)
    BY <1>3, <2>3, <2>5 DEF Capped, SameCeilings, SlotHeld, SlotKept
  <2>10. SlotKept(slot)
    BY <2>3, <2>9 DEF SlotHeld, SlotKept, SlotReserved, SlotForgets
  <2>11. SlotJudged(slot)
    BY <1>3, <2>3, <2>5, <2>7, <2>8
       DEF SlotHeld, SlotJudged, SameCeilings
  <2> QED BY <1>1, <1>3, <2>10, <2>11 DEF SlotHeld
<1>4. CASE \E e : /\ WellFormed(e) /\ Heard(ev, e)
                  /\ LET r == ApplyConnectorEvent(s, st.nextId, e, st.policy)
                     IN slot = r.slot /\ effects = r.effects
  <2>1. PICK e : /\ WellFormed(e)
                 /\ LET r == ApplyConnectorEvent(s, st.nextId, e, st.policy)
                    IN slot = r.slot /\ effects = r.effects
    BY <1>4
  <2> DEFINE r == ApplyConnectorEvent(s, st.nextId, e, st.policy)
  <2>2. SlotHeld(r.slot) /\ StopsAtAllowance(r.slot, r.effects)
    BY <1>0, <2>1, ApplyConnectorEventHeld
  <2> QED BY <2>1, <2>2
<1> QED BY <1>2, <1>3, <1>4 DEF Did

-----------------------------------------------------------------------------
(* The inductive invariant: that of the chain of reports, and for every       *)
(* connector its reservation, its ceilings and what the last reading said of  *)
(* the allowance.  The slot's part needs IInv: a follow-up edits the          *)
(* transaction it finds, and the figures it weighs are typed, only of a slot  *)
(* in order.                                                                  *)

HeldInv ==
    /\ IInv
    /\ \A c \in Connectors :
          /\ SlotHeld(cp.conn[c])
          /\ StopsAtAllowance(cp.conn[c], out.conn[c])

\* A fresh charge point holds no reservation and no transaction.
LEMMA InitHeldInv == Init => HeldInv
<1> SUFFICES ASSUME Init PROVE HeldInv
  OBVIOUS
<1>1. PICK p \in ConnectorPolicies : cp = NewChargePoint(p)
  BY PolicyAssumption DEF Init
<1>2. ASSUME NEW c \in Connectors
      PROVE  cp.conn[c] = NewSlot /\ out.conn[c] = NoEffects
  BY <1>1 DEF NewChargePoint, Init, Quiet
<1>3. SlotHeld(NewSlot)
  BY DEF SlotHeld, SlotKept, SlotReserved, SlotForgets, SlotJudged, Capped,
         NewSlot
<1>4. StopsAtAllowance(NewSlot, NoEffects)
  BY DEF StopsAtAllowance, Unmetered, NoEffects
<1> QED BY <1>2, <1>3, <1>4, InitIInv DEF HeldInv

\* Every event preserves it.
LEMMA StepHeldInv ==
  ASSUME HeldInv, NEW e, Sendable(e), Step(e)
  PROVE  /\ HeldInv'
         /\ \A c \in Connectors : Did(cp, e, c, cp'.conn[c], out'.conn[c])
<1>1. IInv /\ Settled(cp, last)
  BY IInvSettled DEF HeldInv
<1>2. IInv'
  BY <1>1, StepIInv
<1>4. cp' = Apply(cp, e).cp /\ out' = Apply(cp, e).out
  BY DEF Step, MoveOn
<1>5. ASSUME NEW c \in Connectors
      PROVE  /\ SlotHeld(cp'.conn[c])
             /\ StopsAtAllowance(cp'.conn[c], out'.conn[c])
             /\ Did(cp, e, c, cp'.conn[c], out'.conn[c])
  <2>1. Did(cp, e, c, cp'.conn[c], out'.conn[c])
    BY <1>1, <1>4, ApplyDoes
  <2>2. SlotHeld(cp.conn[c])
    BY DEF HeldInv
  <2> QED BY <1>1, <2>1, <2>2, DidHeld
<1> QED BY <1>2, <1>5 DEF HeldInv

LEMMA NextHeldInv ==
  ASSUME HeldInv, Next
  PROVE  HeldInv'
  BY NextSends, StepHeldInv

\* Stuttering changes nothing.
LEMMA StutterHeldInv ==
  ASSUME HeldInv, UNCHANGED vars
  PROVE  HeldInv'
<1>1. IInv'
  BY StutterIInv DEF HeldInv
<1> QED BY <1>1 DEF HeldInv, vars

\* The inductive invariant holds of every behaviour of apply.
THEOREM HeldInvariance == Spec => []HeldInv
<1>1. HeldInv /\ [Next]_vars => HeldInv'
  BY NextHeldInv, StutterHeldInv
<1> QED BY InitHeldInv, <1>1, PTL DEF Spec

-----------------------------------------------------------------------------
(* The theorems. *)

\* A connector is Reserved exactly while it holds a reservation, and a
\* reservation honoured by a session is forgotten with it.
THEOREM ReservationsSettled == Spec => []ReservationsAreSettled
<1>1. HeldInv => ReservationsAreSettled
  BY DEF HeldInv, SlotHeld, SlotKept, SlotReserved, SlotForgets,
         ReservationsAreSettled, ReservedIffHeld, HonouredEndsWithSession
<1> QED BY HeldInvariance, <1>1, PTL

\* The CSMS's ceiling prevails, every verdict is the one today's figures give,
\* and the reading that spends a revoked identifier's allowance stops it.
THEOREM CeilingsHeld == Spec => []CeilingsAreHeld
<1>1. HeldInv => CeilingsAreHeld
  <2> SUFFICES ASSUME HeldInv PROVE CeilingsAreHeld
    OBVIOUS
  <2>1. CsmsLimitPrevails
    BY DEF HeldInv, SlotHeld, SlotKept, Capped, CsmsLimitPrevails
  <2>2. LimitVerdictCurrent
    BY DEF HeldInv, SlotHeld, SlotJudged, LimitVerdictCurrent
  <2>3. AllowanceIsFinal
    BY DEF HeldInv, StopsAtAllowance, Unmetered, AllowanceIsFinal
  <2> QED BY <2>1, <2>2, <2>3 DEF CeilingsAreHeld
<1> QED BY HeldInvariance, <1>1, PTL

=============================================================================
