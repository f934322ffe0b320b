# A TLA+ model of ocpp-charge-point

`ocpp-charge-point` is firmware for an EV charge point: one actor owns the state
of every connector and transaction, hardware bindings report what cable, lock,
contactor and meter do, and a central system (the CSMS) is told about it over
OCPP and sends requests back.  Around the actor run some forty tasks: queues,
sweeps, persistence, dialling, firmware, pricing.  This directory holds TLA+
models of them, the TLC runs that check them on small instances, and proofs,
checked by TLAPS, of what matters most for instances of any size.  Paths below
are relative to the repository's `src/` directory unless they start with `docs/`.

## 1. Inventory

| Part | State | Operations | Talks to |
|---|---|---|---|
| connector state machine (`state/connector_state.rs`) | one of 16 states per connector | a pure function of state, event and policy | called by the charge point state |
| transaction lifecycle (`state/transaction.rs`, end of `charge_point_state.rs`) | an optional `Transaction` per connector: charging state, `seq_no`, meter baseline, ceilings, E05 allowance | start, end and update on a transition; meter sample; E16 ceilings | reports to the CSMS through `transaction_events` |
| per-connector bookkeeping (`state/evse_state.rs`, `apply_connector_event`) | reservation, honoured reservation, held start, costs, tariff, current limits, lock problem | one event at a time, with at most one follow-up | emits commands, reports, status, authorization requests |
| charge point state (`state/charge_point_state.rs`) | lifecycle, registration, EVSE status, pending reset, next transaction id | `apply`, fault cascades, resets | the actor |
| actor (`actor/charge_point_actor.rs`, `sync.rs`) | bounded mailbox, watch and broadcast channels | applies one event, publishes its effects, acknowledges | everything |
| hardware executor (`hardware/command_executor.rs`) | none | runs a command, feeds the confirmation or a fault back | hardware bindings, actor |
| authorization (`authorization.rs`, cache, local list) | cache, local list | decides an identifier locally or asks the CSMS | actor, CSMS |
| CSMS request handlers (`remote_control.rs`, `availability.rs`, `reservation.rs`, `reset.rs`) | none: they read a snapshot and send events | answer a request | actor, CSMS |
| offline queue (`offline_queue.rs`) | FIFO of reports, flush claim, attempts at the front | push, flush, drop, mark offline | forwarder, reconnect and retry tasks |
| persistence (`persistence.rs`, `hardware/storage.rs`) | records and snapshots in `Storage` | save, clear, load, restore at boot | storage binding |
| smart charging (`smart_charging/`, `state/charging_profile.rs`) | profile store, external limits, relative anchors | install, clear, compose, project to currents | actor |
| tariff and pricing (`tariff.rs`, `pricing.rs`, `state/tariff.rs`) | tariff store, a bill per transaction | assign, advance the cost, enforce it through E16 | actor, CSMS |
| device model and reports (`device_model.rs`, `reporting.rs`) | bounded variables, mirrored state | register, set in batches, report in chunks | actor, CSMS |
| monitoring (`variable_monitoring.rs`, event streams) | monitors, streams, last reports | set, clear, evaluate, report periodically | device model, CSMS |
| network profiles (`network_switch.rs`, `basic_auth_credential.rs`) | slots, priority, dial target with its fallbacks, password record | switch, dial, roll back, rotate | transport, key store |
| provisioning (`provisioning.rs`) | registration, clock anchor | boot, heartbeat, retry | CSMS |
| status reporting (`availability.rs`) | what was last sent, queue, debounce | report, sweep | offline queue, CSMS |
| jobs (`firmware.rs`, `publish_firmware.rs`, `diagnostics.rs`, `certificates.rs`) | tickets and records of their own | start, supersede, retry, report progress | CSMS, hardware |
| local list and customer data (`local_authorization_list.rs`, `customer_information.rs`) | the list with its version, queued inquiries | update in full or differentially, report, erase | actor, CSMS |
| display, battery swap, security log | bounded stores | set, render; prepare; record, clear | hardware, CSMS |
| DER control, ISO 15118, payment, wire conversion, topology | see section 5 | | |

What is hard to get right, and hard to test, is listed with its line in
`PROJECT.json` under `hazards`.  In short: events of hardware, driver and CSMS
in orders nobody wrote a test for; policy variables that change mid-session;
figures (cost, energy, time, current) that move while a verdict about them
stands; decisions taken on a published snapshot and applied later; jobs
superseded at any await; three tasks draining one queue; rollbacks whose cause
is one of three unproven changes; power cuts between a step and its record.

What makes each part correct:

* a connector's `TransactionEvent`s form one gapless chain per transaction, and
  the slot and the CSMS never disagree about what is open;
* energy flows only inside a transaction and through a locked, owned contactor;
  a fault or a spent allowance ends it;
* reservations, honoured reservations, costs and ceilings belong to one session;
* a request answered Accepted is borne out, and no waiting state lasts for ever;
* a queued report is delivered in order, at least once, twice only when a reply
  was lost; what was recorded before a power cut is accounted for after it;
* the station always finds its way back to a CSMS and registers with it;
* a superseded job neither reports nor keeps what it withheld;
* limits and prices are what the schedules and tariffs say, second by second.

## 2. Modules

| Module | Models | Notes |
|---|---|---|
| `ConnectorState` | `ConnectorState::apply`, `ConnectorPolicy`, the transaction points | constant operators only |
| `Transaction` | `advance_transaction`, `apply_meter_sample`, `TransactionLimit`, the allowance | every operator returns the slot and the report |
| `ConnectorSlot` | `apply_connector_event`, `enforce_transaction_limit` | the parallel `Vec`s of `EvseState` as one record |
| `ChargePointState` | `ChargePointState::apply` and the actor's loop | the state machine proper |
| `ChargePointStateProofs` | | theorems about `ChargePointState`: reports and ids; what a connector holds |
| `Station` | mailbox, executor, lock and contactor, CSMS handlers, both sweeps | extends `ChargePointState`: composes it with its environment |
| `StationProofs` | | theorems about `Station`: its handlers, its power and its latches |
| `Authorization` | `run_authorization_requests`, cache, local list, switches | extends `ChargePointState` |
| `AuthorizationProofs` | | theorems about `Authorization`, on top of those about `ChargePointState` |
| `OrderedDelivery`, `OfflineQueue`, `PersistedQueue` | the promise of the queue, `offline_queue.rs`, the queue half of `persistence.rs` | the second refines the first; the third extends the second with storage and power cuts |
| `DurableRegister`, `AtomicStorage` | a durable register; two checksummed slots, of which a read may fail | the second refines the first |
| `OfflineQueueProofs` | | theorems about the queue, its refinement among them |
| `Recovery` | transaction records, the id counter, restore | `AtomicMedium` says whether a write can be torn |
| `Snapshots` | the six snapshot stores and their write policies | one `Kinds` element per store |
| `SecurityLog` | the bounded log, its persistence and `clear_security_log` | |
| `DurabilityProofs` | | theorems about `AtomicStorage` and its refinement, `Recovery`, `Snapshots`, `SecurityLog`, `PersistedQueue`, and their union |
| `NetworkSwitch` | profiles, priority, dialling and the three rollbacks | a dial is three steps |
| `Provisioning` | boot, re-registration, heartbeats, clock anchor | `sync_time` is three steps for each of its callers, which may overlap |
| `StatusReporting` | forwarding, debounce, queue, sweeps | `Debounced` and `InOrder` select the wiring and the environment |
| `CertificateRenewal` | `SignCertificate`, waits, resends, roll back | |
| `DeviceModel` | registration, mirrors, `SetVariables`, chunked reports | one variable per kind |
| `ConnectivityProofs` | | theorems about `NetworkSwitch`, `Provisioning`, `StatusReporting`, `CertificateRenewal` and `DeviceModel`, stated of their union |
| `Firmware`, `PublishFirmware`, `LogUpload` | the three superseding jobs | tickets as in the code; in the last two each lock section is a step of its own |
| `VariableMonitoring`, `DisplayMessages`, `BatterySwap` | their stores and tasks | |
| `BackgroundJobsProofs` | | theorems about the jobs, `DisplayMessages`, `BatterySwap` and `VariableMonitoring` |
| `LocalList` | `SendLocalList`, versions, and the erasure of a customer | what the CSMS was told is part of the state |
| `Composition` | composing schedules | constant operators only; the questions asked of it, and its pointwise reference, are in `MCCharging` |
| `SmartCharging` | profile store, projection loop, timer, pulls | extends `Composition` |
| `TimeLimits`, `RunningCost`, `Pricing` | the time sweep; tariffs and the cost loop; the engine | |
| `ChargingProofs` | | theorems about `RunningCost` and `TimeLimits` |
| `MCOperations`, `MCAuthorization`, `MCStation` | | small instances of one specification |
| `MCDurability`, `MCConnectivity`, `MCBackgroundJobs`, `MCCharging` | | small instances of several |

The last four are unions: the specifications they extend share no state, so the
variable `block` picks in the initial state which one an execution is of, and
the constant `Blocks` says which are offered.  To look at one specification
alone, take the run's `.cfg` and set `Blocks` to that one.  `MCOperations` does
the same with scenarios (sets of events, policies and bounds) of one
specification.

**Correspondence.**  A Rust event is a record whose `type` is the variant's
name.  `ChargePointState!Step(e)` is one turn of the actor's loop: `Apply(cp, e)`
including every follow-up event, the trailing `check_pending_reset` and the
effects.  `ApplyConnectorEvent` follows the order of the code: transition,
reservation, allowance, ceilings, held start, transaction, meter, current limit,
costs, lock problem, then at most one follow-up.  `None` is `Option::None`;
prices, currents and energies are naturals.  The variables derived from
the state (`sync_*`) are in `DeviceModel`.

**Time.**  A `Clock` is finer than a second, and `num_seconds` truncates.  Where
the code subtracts instants and goes on with seconds, in `Composition`,
`SmartCharging` and `Pricing`, an instant is a number of `Second`s (or of
`Resolution`) and the truncation is modelled (`NumSeconds`, `NumSecs`): a
boundary may fall together with another or be skipped, the timer wakes early,
and a priced interval loses the rest of its last second.  Elsewhere a unit of
time is the one a task waits or compares in: the other uses of `num_seconds`
(the age of a cache entry, the period of a monitor or a stream, the reported
size of a clock step) compare one difference with one threshold, and truncation
only moves the instant at which it is reached by less than a second.

`Station` puts tasks around that step.  Each task that sends an event waits for
the actor's acknowledgement (`ChargePointActor::send`), so it has at most one
event in the mailbox; a handler decides on the published state and pushes its
event without awaiting in between, which makes deciding and pushing one step,
and what makes its snapshot stale is the events queued ahead.  The CSMS sends
one request at a time (OCPP-J).  Availability changes only concern connectors
that are not in use, since the effect of others is a known open point
(`docs/OCPP-2.1-COMPLIANCE-AUDIT.md`).  No `SetCurrentLimit` command occurs:
limits come from `SmartCharging`, which is modelled apart.

In the task modules a `pc` is the await point a task is at.  In `OfflineQueue`:
`gate` (`may_flush`), `claim`, `peek`, `sending`, `delivered`, `failed`,
`release`.  In `Authorization`: `idle`, `received`, `asking`, `caching`,
`answering`.  In `NetworkSwitch` a dial is three steps, because `switch_to`,
`stage_tls_config` and `rotate` may run between reading the address, reading the
TLS configuration and password after the jitter, and recording the outcome.
Tasks run on a multi-threaded executor, so any two interleave between those
steps.  Storing a network profile also rewrites the priority order
(`refresh_network_configuration_priority`), as in the code.

`Pricing` works on a day of six seconds with minutes of two, seconds of two
instants, and a "kWh" of two units, so that a few readings cross several price changes; the engine's own
integer arithmetic is kept.

## 3. Runs

Bounds are constants; each is named in its module.  Identifiers are model
values, and no symmetry is used: the sets are of size one to three.

| Run | Shows | Bounds |
|---|---|---|
| `Operations` | the state machine in five scenarios: sessions under four policies switched midway; two reservations around faults, registrations and availability changes; ceilings and an allowance against meter, cost and clock; a revoked identifier whose connector is energised again; resets superseding each other over two EVSEs | two transactions are enough for what one session can leave to the next; five reports let a ceiling be set, reached, raised and reached again |
| `TransactionQueue` | forwarder, reconnect flush and capped retry timer on one queue: at-least-once, ordered, no silent loss, every report settles; refines `OrderedDelivery` | three messages through a capacity of two reach overflow, head-of-line blocking and a push during a send |
| `Authorization` | cards, a contract, the token of a free bay and remote starts beside the authorization task | two identifiers through a cache of one and a lifetime of one tick reach staleness, eviction and expiry |
| `Station` | handlers, executor and sweeps around the actor, over two connectors, with one failure of lock, contactor or reboot, or one fault the hardware reports by itself: no event is refused, the contactor is closed only where the state owns it or its opening is queued, no latch is released under load, the plug is locked while energised, a stop stops the transaction it names, a reboot has its reason; waiting states, holds and accepted stops end | the mailbox has room for one event of each of the five tasks, far below the code's capacity; two moves of the driver plug in and pull out, stop or clear a fault |
| `Durability` | the queue's backlog, an atomic value, open transactions, six snapshot stores and the security log through a power cut and a failed write, the atomic value through failed reads as well; `AtomicStorage` refines `DurableRegister` | sequence numbers from a space of five wrap; two connectors, two ids, a meter threshold of two |
| `Connectivity` | dialling, registration, status reports, certificate renewal, device model | three CSMS writes over three slots and two addresses, one of them dead; one lost connection; a model with room for four variables and reports of two per chunk; two registration loops and the heartbeat, with one answer or one wait that meets another answer in hand |
| `BackgroundJobs` | firmware, publishing, uploads, monitors, display, battery swap, local list | three updates, four publications of three checksums with room for one, and four uploads superseding each other; four requests about a list of two out of three identifiers, two of them of one value |
| `Charging` | composition, projection, time ceilings, running cost, pricing | clocks of half a second; windows of five seconds with any two of some fifty profiles, asked about at four instants; a second and a half for the loops; three readings of the meter, half a second to fourteen seconds apart, two tariffs |

A run's invariants are conjunctions of named parts, one per concern; each part
has its definition and its comment in the component's module, and TLC can be
pointed at a part alone.

| Run | Invariant or property | Parts |
|---|---|---|
| `Operations` | `ReservationsAreSettled` | `ReservedIffHeld`, `HonouredEndsWithSession` |
| | `CeilingsAreHeld` | `CsmsLimitPrevails`, `LimitVerdictCurrent`, `AllowanceIsFinal` |
| `TransactionQueue` | `SendsAreOrderly` | `TypeOK`, `SendsTheFront`, `NoDuplicateDelivery`, `AttemptsCountFront`, `RetriedIsMarked` |
| `Authorization` | `GrantsAreCurrent` | `AuthTypeOK`, `CacheIsCurrent`, `EnergyWasGranted` |
| `Station` | `PowerIsGuarded` | `ClosedContactorIsOwned`, `LatchHeldUnderLoad` |
| | `SingleFaultIsSafe` | `EnergisedIsLocked` while at most one fault has occurred |
| | `HandlersAreFaithful` | `StationTypeOK`, `NothingRefused`, `StopsWhatItNames`, `RebootHasItsReason` |
| | `WaitsEnd` | `TransientStatesEnd`, `HoldsEnd`, `AcceptedStopsEnd` |
| `Durability` | `BacklogIsReplayed` | `PTypeOK`, `FirstDeliveriesInOrder` |
| | `RecordsSurvive` | `RecTypeOK`, `RecordedIsAccountedFor`, `LossIsBounded`, `RecordedIdsStayUsed` |
| | `StoredIsDurable` | `AtomicTypeOK`, `SnapTypeOK`, `HeldIsDurable`, `SecLogTypeOK`, `LogIsDurable` |
| `Connectivity` | `TargetIsRecoverable` | `NetTypeOK`, `Recoverable` |
| | `ReportsAreRight` | `StatusTypeOK`, `PictureIsRight` |
| | `ModelIsHonest` | `DmTypeOK`, `MirrorsAreCurrent`, `AcceptedIsReadable`, `WholeReportsAreComplete` |
| | `TimersAreBounded` | `ProvTypeOK`, `StepsNotDrift`, `CertTypeOK`, `ResendsAreBounded` |
| | `RetriesEnd` | `StationEndsRegistered`, `CertificateCsrIsSettled` |
| `BackgroundJobs` | `FirmwareIsOrderly` | `FwTypeOK`, `NewestIsInHand`, `WithheldOnlyWhileUpdating`, `PublishedIsBounded` |
| | `MonitorsReport` | `MonTypeOK`, `DriftIsBounded`, `FailedStaysDue` |
| | `StoresAreCurrent` | `DisplayTypeOK`, `ScreenIsCurrent`, `SwapTypeOK`, `RejectedLeavesNothing`, `LocalListTypeOK`, `VersionNamesTheList` |
| | `JobsSettle` | `FirmwareSettles`, `UploadsAnswered`, `InquiriesEnd` |
| `Charging` | `LimitsAreExact` | `ComposeIsPointwise`, `NothingChangesInBetween`, `SmartTypeOK` |
| | `FiguresAreItsOwn` | `TimeTypeOK`, `CostTypeOK`, `StoreIsUnambiguous`, `BilledOnce` |
| | `BillIsExact` | `PricingTypeOK`, `ToTheSecond`, `BreakdownAddsUp`, `TaxedOnce`, `PeriodsSplitAtChanges` |
| | `BillsNeverShrink` | `EarnedIsKept`, `BillNeverShrinks` |
| | `LoopsSettle` | `LimitsSettle`, `VerdictSettles` |

Properties that are about progress, and the fairness they rest on:

* `EveryReportSettles` (`FairSpec`): weak fairness of each task's own steps (the
  executor polls every ready task, a call completes or times out), of the retry
  timer and of acceptance.  `MaxFailures` makes failures finite.
* `AuthorizingIsAnswered` (`AuthSpec`): the task takes a waiting request and its
  awaits return.
* `TransientStatesEnd`, `HoldsEnd`, `AcceptedStopsEnd` (`StationFairness`):
  actor, executor, answers and hold sweep keep being polled.  Nothing is assumed
  of the driver or the CSMS.
* `NetworkComesBack`, `StationEndsRegistered`, `CertificateCsrIsSettled`
  (`MCConnectivity`): the loops keep being polled, calls return, an outage ends.
* `FirmwareSettles`, `UploadsAnswered`, `InquiriesEnd` (`JobsSpec`) and `LimitsSettle`,
  `VerdictSettles` (`ChargingSpec`): the same of the jobs' and the loops' steps.

Deadlock is checked where the environment never runs out; in the other runs the
bounds on requests, writes and time end the behaviours.

`ComposeIsPointwise`, `NothingChangesInBetween` and `ToTheSecond` say how far
truncation may put the curve, the timer and the bill beside their references,
and no further: less than a second, less than two, and less than a second of
each priced interval.

`NothingRefused` holds because each of the modelled tasks has one event in the
mailbox at most and there is a place for each; a flood from outside that fills
it, and what a refusal would then leave undone, is not modelled.  The security
event that `handle_reset` sends and awaits between the record of the reason and
the reset request is left out: all it does there is to take time.  The queues of
the jobs (firmware, publications, uploads, inquiries) take every request, where
the code's refuse the 257th that waits, unnoticed by the handler
(`firmware.rs:351`).  `Recovery` reads what is on storage; the code takes a record
it cannot read at boot for none and a counter it cannot read for 0
(`persistence.rs:249`, `314`), and then neither `RecordsSurvive` nor fresh ids can be
expected.  The tariff store of the run holds one tariff, so the run shows nothing
of the pairwise part of `StoreIsUnambiguous`, which the theorem covers.

`SteadyEnergyHasTransaction` is checked where `TxStartPoint` is not switched
mid-session; `RebootsAreSettled` holds because in that scenario each EVSE has
one connector.  `PictureIsRight` is conditional: its definition lists what
excuses a wrong picture.  `VersionNamesTheList` is about a CSMS that never
numbers its lists downwards and waits for an answer before it asks again.
`Recoverable` and `NetworkComesBack` speak of behaviours in which every dial
bore on at most one unproven change, which is what the rollback can tell apart.

### Statements the code does not keep

Each of these runs checks one sentence of the repository and finds a behaviour
of the code that breaks it; `PROJECT.json` quotes the sentence.

| Run | Behaviour |
|---|---|
| `V_QueueSilentLoss` | `DropOldest` evicts the message in flight, and the completed send pops its successor |
| `V_TornRecord` | the builder never uses `AtomicStorage`, so a power cut during a write loses the transaction |
| `V_Overbilled` | the engine is given the meter's register, not the transaction's energy |
| `V_DeadProfile` | a profile that was rolled back is selected again at once, for ever |

The following are stated in the modules and do not hold either.  To see one
fail, take the `.cfg` of the run, set `Blocks` (and the constants named) and
check only that definition, as an invariant.

| Property | Run, block | Behaviour |
|---|---|---|
| `BacklogIsDurable` | Durability, `queue` | the reconnect task's `clear`, decided on an empty queue, removes the snapshot the forwarder wrote meanwhile; `persistence.rs:810` says "every push and every successful delivery is reflected into `store`" |
| `CutsAreAtomic` (a `PROPERTY`) | Durability, `storage` | after a failed read of the latest slot the next write is aimed at it, and cut short it leaves the value before it: one cut undoes two writes; `hardware/storage.rs:235` says "`get` after a crash returns either the value from before the interrupted write, or the value from after it" |
| `DroppedStaysDropped` | Durability, `snapshots` | entries dropped at boot stay on disk and return; `persistence.rs:2967` says "Storage is reconciled to hold only the entries actually restored" |
| `TimerWakesInTime` | Charging, `smart` | the timer computes its next wake-up from a snapshot and does not look at profiles installed while it sleeps; and it sleeps over a boundary less than a second away, where it usually wakes, as it sleeps the whole seconds up to one (`projection.rs:297`); line 283 says "sleeping until exactly that instant" |
| `NextChangeIsExact` | Charging, `composition` | a boundary in the first second of the curve has offset 0 and is skipped (`smart_charging/mod.rs:208`), and one between two seconds is put early; line 206 says that the projection can "sleep until exactly the next boundary" |
| `NoMinuteLost` | Charging, `pricing` | the seconds between two readings are truncated and the last instant is not (`pricing.rs:712`, `759`), so what two readings leave of a second is charged nowhere, and a session read more often than once a second is charged no time at all; `pricing.rs:318` says "no minute charged twice or not at all" |
| `NewestBreaksTies` | Charging, `composition` | of two profiles of one stack level the first found wins, not "the more recently installed profile" (`state/charging_profile.rs:220`) |
| `PeriodsAreUniform` | Charging, `pricing` | going from no price element to some opens no new period; `pricing.rs:182` says "A new period starts whenever the "used element list" changes" |
| `NobodyCutOff` | BackgroundJobs, `firmware` | a session begun between the wait for idle and the reboot is cut off; `firmware.rs:525` says "`wait_for_idle` above has already established there is nothing running" |
| `ErasedStaysErased` | BackgroundJobs, `list` | a differential `SendLocalList` resolved before an erasure and applied after it restores the entry, under the version the erasure gave the list; `state/local_authorization_list.rs:89` says a CSMS "must be made to notice [...] rather than silently apply on top of a list that has moved out from under it" |
| `ReportsWhatItErases` | BackgroundJobs, `list` | a list update between a customer's report and the erasure is erased unreported; `customer_information.rs:349` says the report "should describe what was held right before it was deleted" |
| `InProgressIsHonest` | BackgroundJobs, `publish` | a superseded publication's end clears the newer one's mark |
| `NoMoreThanFit` | BackgroundJobs, `publish` | the bound is looked at before the claim, under other locks, and an image the worker marks published in between makes one too many; `publish_firmware.rs:385` says "refuse a genuinely new checksum once the tracked set is full" |
| `NoCancelledResult` | BackgroundJobs, `log` | a `GetLog` between the worker's last look at its ticket and `finish` is answered `AcceptedCanceled`, and the old result is reported all the same; `diagnostics.rs:357` says the look is there because that "would tell the CSMS about an upload it believes was cancelled" |
| `OneEventPerStep` | Connectivity, `provisioning` | two answers in hand at once both compare with the anchor before either has moved it and report one step twice; `provisioning.rs:307` says that an event is raised "only on a genuine step" |
| `SweepsAreCurrent`, `LongOutagesAreSwept` | Connectivity, `status`, with `Debounced = FALSE`, `InOrder = TRUE` | a sweep overtaken by a change leaves the older status with the CSMS (`availability.rs:452`); an outage's sweep can be skipped (`builder.rs:926`) |
| `RenewalCanBeUndone` | Connectivity, `certificate` | the backup is stashed per purpose and overwritten by a second renewal before the first is proven (`certificate_renewal.rs:431`) |
| `NoFallbackMeansProven` | Connectivity, `network` | a dial begun before a switch proves the address switched to, which nobody dialled (`network_switch.rs:147`) |
| `EnergisedIsLocked` | Station, with one connector, `Requests` a single Start, `MaxFailures = 4`, `MaxMoves = 8`, `MaxCalls = 2`, `MaxTransactions = 2`, `MaxSeqNo = 6` | a fault on the way down queues a second `OpenContactor`; the first one's confirmation is taken for the last, so `FaultedSafe` comes too early and stale lock commands survive into the next session, whose contactor is closed on a socket that a stale unlock has opened, until the failed lock opens it again; `state/connector_state.rs:52` says of `FaultedSafe` "the contactor has confirmed open". With at most one failure it holds (`SingleFaultIsSafe`) |

Three more belong to `MCOperations` with `SPECIFICATION LoneSpec` (the scenario's
sets give way to those the constants name), one connector, `EvseOf <- OneEvse`, `StationEvents <- NoStationEvents`,
`Policies <- OnePolicy`, `MaxTransactions = 2`, `MaxSeqNo = 6`,
`Prices = {0, 1}`, `Currents = {0, 16}` and the event sets named:

* `NewTransactionUnpriced` (`ConnectorEvents <- CostRunEvents`):
  `running_cost_totals` is never cleared (`state/charge_point_state.rs:2148`), so
  the next driver's cost ceiling is compared with the last one's total, though
  line 1997 says "A new transaction must not inherit a previous one's running
  cost".
* `LimitSuspendsEnergy` (`ConnectorEvents <- CurrentRunEvents`): a recomputed
  current replaces the 0 A of a reached ceiling
  (`state/charge_point_state.rs:2056`), though `limit_reached` "means energy
  transfer is suspended".
* `RebootsAreSettled` with two connectors on one EVSE
  (`ConnectorEvents <- ShortSession`, `StationEvents <- WideResetEvents`): an idle neighbour starts a session while
  the other is stopping and is rebooted in it
  (`state/charge_point_state.rs:2409`).

### Also met while modelling

Sessions and queues:

* `pending_reset_ready` does not wait for `StoppingLocked` either, so an
  Immediate reset reboots an EVSE whose kept-cable stop is not confirmed;
* with `TxStartPoint=PowerPathClosed` the event that starts a transaction is
  `ContactorClosed`, so the transaction carries no identifier; with
  `EVConnected` a second session on a kept cable charges without one;
* `SetAvailable`, `BootCompleted` and an accepted registration leave the
  `Faulted` lifecycle while the fault is active;
* an allowance that is spent, or a ceiling that is reached, does not keep the
  transaction from being energised again: after `SetUnavailable` and
  `SetAvailable`, or a stop under `TxStopPoint=EVConnected`, the same transaction
  draws power until its next meter reading;
* `DropOldest` keeps the evicted message's attempt count for its successor;
* with `DropOldest`, or with a cap on attempts, a report that was dropped comes
  back after a power cut from a stale copy on disk (the store compares lengths
  only) and reaches the CSMS behind younger ones;
* a forwarder that pushes after the claim holder's last look and tries the claim
  before its release is covered by nobody until the next flush: the reason why
  `EveryReportSettles` needs the retry timer;
* every flush `builder.rs` wires passes no cap on attempts, so
  `OCPPCommCtrlr.MessageAttempts` has no effect there;
* any event on a connector in `Authorizing` with a held start raises its
  authorization request once more;
* `state/local_authorization_list.rs` says that the list "isn't yet consulted by
  the Authorization functional block itself"; both local decisions consult it;
* the sweep of held starts keys `first_seen` by connector, so a hold replaced
  between two sweeps is timed from its predecessor; the expiry sweep can expire
  the reservation that replaced the one that ran out;
* `ReserveNow` can be answered Accepted with a `CableConnected` queued ahead;
* an unplug before the `Lock` command leaves an Available connector locked, and
  `CableDisconnected` in `Starting` is ignored.

Storage:

* a power cut after the start was reported but before the counter was saved
  reuses the id; the record is cleared while the Ended report is only in RAM; a
  failed clear reports the transaction again at the next boot;
* the shadow copy says "Rebuilt from storage at start-up" (`persistence.rs:368`)
  and starts empty;
* failed saves update `last` as if they had succeeded; a cleared cache or profile
  store returns after a reboot when the clear was the first change seen; a local
  list that reuses a version is never written; a device-model threshold above
  one leaves the last change unwritten;
* cleared security-log entries return after a power cut if a save in flight lands
  after the clear.

Link to the CSMS:

* an outage or a bad TLS configuration rolls back a password the CSMS has
  adopted, and a dial that never used a staged configuration confirms it;
* storing a first profile drops slot 0, the default, from the priority order and
  so selects the new profile at once.  A CSMS that writes the order "2,1" before
  slot 2 is filled finds "1,2" once it is, although the code's comment says
  "Appends, never reorders" (`state/charge_point_state.rs:2331`);
* `NotifyReport`s are sent before the answer to `GetBaseReport`, which
  `reporting.rs:132` says is "sent before any `NotifyReport`s follow";
* in a model near its bound a slot's nine variables are registered in part: the
  slot then has no `BasicAuthPassword`, and its password cannot be rotated;
* the binding registering a variable again resets the value the CSMS wrote;
* `validate_value` trims a number before it parses it, and the readers of the
  setting do not, so `" 60 "` is Accepted and then ignored;
* clock-aligned meter values with an interval that does not divide a day shift
  at midnight;
* a re-registration's answers, `CertificateSigned` before `record_sent`, and two
  read-modify-writes of the renewal store can cross.

Jobs:

* `set_all_evses(SetAvailable)` after an update revives EVSEs that the CSMS or a
  fault took out of service; the ticket is not checked again during the install;
* unpublishing during a publication leaves served and tracked sets different;
* a cleared monitor is reported once more from a snapshot, its stream stays open,
  and a delta baseline is lost over a value that is no number;
* a failed `show` is never retried, and transaction-scoped messages outlive
  their transaction;
* two swap requests with one id share an entry: the failure of one removes the
  other's.

Charging:

* beyond `MAX_COMPOSITION_BOUNDARIES` the last limit extends to the window's end
  rather than being truncated; two `SetChargingProfile` race for the last slot; a
  pull's answer can reach a profile that replaced the one it was for;
* a change of tariff is applied to the interval since the last reading, although
  `pricing.rs:587` says "never retroactively"; that interval is also charged
  under the charging state of the report that closes it; a clock set back and
  then forward charges the same minutes twice (`pricing.rs:707`); `capped`
  survives a change of tariff;
* the Ended report is priced after the running cost was cleared; answers of the
  cost loop are addressed to a connector, not to a transaction.

## 4. Proofs

Every theorem holds for every value of the constants that satisfies the named
assumptions of the modules (`None` is not a value of the types it is optional
over, the topology maps connectors to EVSEs, payloads have their types, bounds
are naturals) and the hypotheses it states itself.

| Module | Theorem | States |
|---|---|---|
| `ChargePointStateProofs` | `TypeCorrect` | `Spec => []TypeOK` |
| | `SlotsAgree` | `Spec => []SlotAgreesWithReports` |
| | `FaultsEndTransactions` | `Spec => []FaultEndsTransaction` |
| | `IdsAreFresh` | `Spec => []IdsNeverReused` |
| | `ChainOfReports` | `Spec => ReportsAreChained`, an action property |
| | `ReservationsSettled` | `Spec => []ReservationsAreSettled` |
| | `CeilingsHeld` | `Spec => []CeilingsAreHeld` |
| `StationProofs` | `HandlersFaithful` | `StationSpec => []HandlersAreFaithful`, with a place in the mailbox for each task |
| | `PowerGuarded` | `StationSpec => []PowerIsGuarded`, with the same and `AvailabilityIsApart` |
| | `OneFaultIsSafe` | `StationSpec => []SingleFaultIsSafe`, with the same two hypotheses |
| `AuthorizationProofs` | `AcceptancesStayGrounded` | `AuthSpec => AcceptancesAreGrounded`, an action property |
| | `GrantsStayCurrent` | `AuthSpec => []GrantsAreCurrent`, with `GrantsComeFromTheTask` |
| `OfflineQueueProofs` | `QueueClaimIsExclusive` | one flush at a time, under either overflow policy |
| | `QueueSendsAreOrderly` | `[]SendsAreOrderly`, with `DropNewest` and `MarksOffline` |
| | `QueueNoSilentLoss` | `[]NoSilentLoss`, with `DropNewest` |
| | `QueueImplementsOrderedDelivery` | the refinement of `OrderedDelivery`, with `DropNewest` |
| `DurabilityProofs` | `AtomicStorageTypeOK` | a power cut never tears the only good record, whatever reads failed |
| | `AtomicStorageImplementsRegister` | the refinement of `DurableRegister` |
| | `DurableRecords` | `DurabilitySpec => []RecordsSurvive`, with `AtomicMedium` |
| | `StoredStaysDurable` | `DurabilitySpec => []StoredIsDurable` |
| | `DurableBacklog` | `DurabilitySpec => []BacklogIsReplayed`, with `DropNewest` and no cap on attempts |
| `ConnectivityProofs` | `WayBackIsKept` | `ConnectivitySpec => []TargetIsRecoverable` |
| | `TimersStayBounded` | `ConnectivitySpec => []TimersAreBounded` |
| | `ReportsStayRight` | `ConnectivitySpec => []ReportsAreRight` |
| | `ModelStaysHonest` | `ConnectivitySpec => []ModelIsHonest` |
| `BackgroundJobsProofs` | `CancelledUploadsStaySilent` | `[]CancelledStaysSilent` |
| | `FirmwareStaysOrderly` | `[]FirmwareIsOrderly` |
| | `DisplayIsCurrent`, `RefusedSwapsLeave` | two of the three stores of `StoresAreCurrent` |
| | `JobsAreOrderly` | the first two of these of `JobsSpec`, which the run checks |
| | `MonitorsStayHonest` | `JobsSpec => []MonitorsReport` |
| `ChargingProofs` | `FiguresStayTheirOwn` | `ChargingSpec => []FiguresAreItsOwn` |
| | `EarnedStaysKept` | `ChargingSpec => EarnedIsKept`, the half of `BillsNeverShrink` that is about `RunningCost` |

`Invariance`, `HeldInvariance`, `AuthInvariance`, `QueueInvariant`, `AtomicStorageInvariant`,
`RecoveryInvariance`, `SecurityLogInvariance`, `SnapshotInvariance`,
`FirmwareInvariance` and `PublishInvariance` state that the strengthened
invariants below hold; the theorems follow from them.

**The hypotheses are needed.**  `DropOldest` is the code's default policy and
loses a report silently (`V_QueueSilentLoss`), so nothing stronger than the
exclusive claim is proved for it.  TLC finds `FirstDeliveriesInOrder` violated
with `DropOldest`, and with a cap on attempts, over one power cut (`Capacity` 2,
four messages).  A medium whose writes can be torn loses records
(`V_TornRecord`); `AtomicStorageImplementsRegister` is why `AtomicMedium` may be
assumed of a store built with `new_atomic`, as long as its reads do not fail.  `MarksOffline` is the setting in
which `RetriedIsMarked` is meant.  `Capacity >= 5` is a place for each of the
five tasks of `Station`, each of which waits for the answer to its last event;
the code's mailbox is far larger, and one smaller than the number of tasks may
refuse an event.  Without `AvailabilityIsApart` a single connector in session can
be taken out of service by name: `availability.rs:334` says that `SetUnavailable`
"takes effect immediately regardless of an active transaction", and TLC then
finds `ClosedContactorIsOwned` violated with one connector, a Start and that
request: the contactor stays closed in `Unavailable` and nothing is queued to
open it.  Changes of an EVSE or of the whole station, which that hypothesis
leaves open, touch no connector.

`GrantsComeFromTheTask` says that the events from outside the authorization task
grant nothing: none is a `ChargingAuthorized`, which only `authorization.rs:374`
sends, and a remote start carries a `remoteStartId`, by which `EnergyWasGranted`
tells it from a card's session.  A 2.x RequestStartTransaction always has one
(`remote_control.rs:2066`, `2584`).  A 1.6 RemoteStartTransaction has none: its
session cannot be told from a card's in the transaction's record, so under 1.6 the
theorem speaks of the stations that are started by card.  The other two theorems of
`AuthorizationProofs` need no such hypothesis.

### Arguments

*Reports* (`IInv`).  Lemmas about `Transaction` say what each bookkeeping step
returns: a slot of the right type, a report that continues the slot's numbering
(`Begin` from an empty slot with sequence number 0, `Update` and `Close` with the
next one), and an empty slot only after `Close`.  Lemmas about `ConnectorSlot`
lift this to `Transit`, to a follow-up, and to `ApplyConnectorEvent`.  The step
of the charge point then splits on the event: one connector, a cascade over a
scope, or no connector at all.  `SlotAgreesWithReports` is not inductive alone:
`Started` may only follow `Ended` if the slot is empty then, and ids are fresh
only if every report's id is below the counter, so agreement, freshness and
types are proved together.  `FaultEndsTransaction` joins them because the fault
arm of `advance_transaction` is reached only if no start or stop point matched
first, which the proof shows for each of the three points.

*What a connector holds* (`HeldInv`, on top of `IInv`).  A reservation is held
exactly in `Reserved`, an honoured one only in the states a session passes
through, and an allowance or a verdict only beside an open transaction.  Two of
the ceilings' properties had to be restated before they could be proved: as
first written they said that a spent allowance, or a ceiling that is reached,
leaves the connector without energy, which the scenarios of the run happened
never to refute.  Once the proof asked what keeps a transaction from being
energised again, the answer in the code was: nothing, until the next reading.
The properties now speak of the reading, and the scenario `revoked` of
`Operations` reaches the case.

*The station* (`SInv`, `StopInv`, `PowerInv`, `LatchInv`).  `SInv` says that the state machine
satisfies the types of `IInv`, that no task has two events in the mailbox, and
that no reset event, command or reboot exists before a reason is stored: that is
`NothingRefused` and `RebootHasItsReason`.  A stop is decided for a connector that
is powered and applied later; `StopInv` bounds how far the connector can have come
down meanwhile by which of the driver and the executor still have an event ahead
of the stop (`Kept`), and no state it allows can begin another transaction.
`PowerInv` relates the commands queued for a connector, its state and its
contactor: a queued close belongs to a state that owns the power or has an open
behind it, between a close and a later unlock there is an open, and a
confirmation of an open in the mailbox is of a contactor that is open.  The
state machine sends its commands in the order of its effects, so each event
appends to the queue a few commands of which the invariant speaks (`Extends`),
and the executor takes the front (`Taken`).

`LatchInv` says of a connector that a driver uses, while the hardware has failed at
most once, what its lock, its state, the commands queued for it and the
confirmations in the mailbox owe each other (`LatchOf`): a plug is held from the
confirmation of its lock to the state in which it is released, an unlock is queued
only in a state that is being freed (once there) or is faulted, and behind the opening
of a contactor that is closed; a close is queued only for a locked socket, with no
unlock ahead of it.  With two faults this fails: the confirmation of the first
opening is taken for that of the second, and an unlock left over from before meets
the next session (`EnergisedIsLocked` in the table of section 3).  What excludes it is
that as long as the failure is still to come, or its report is still in the mailbox
(`Spare`), no fault has moved the connector, so an opening is queued in the states
that settle and nowhere else; the fault that does arrive then adds the only opening
of the faulted state, behind every unlock.  `Course` is what the proof needs of the
state machine for this, proved of every state, event and policy (`ApplyArc`).
The count of failures has to be in the invariant with each report that is on its
way (`FaultsCounted`), since a report may reach the actor many steps after the call
that failed.

*Authorization* (`AuthInv`, `GrantInv`, on top of `HeldInv`).  `AuthInv` says what
each of the task's await points knows: from `received` on there is a request, at
`caching` the verdict is the CSMS's last word on its identifier, and at
`answering` an acceptance has been recorded.  While the answer is on its way into
the cache the cache may contradict the CSMS, so a decision that reads the cache
must not fall there; since the task decides one request at a time, none does.
`Remember` and `EraseCustomer` keep entries of the old cache and no others
(`OthersSieve`, by the least counterexample).  `GrantInv` says of every connector
that its transaction and its held start are of an identifier accepted before,
unless they have a `remoteStartId` (`Granted`).  The held start has to be part of
it: an accepted card is held until its cable arrives and then becomes a session by
a follow-up event of `apply_connector_event`.  Whatever an event does to a
connector is either nothing, a grant of priority charging or `ApplyConnectorEvent`
of an event it heard (`Did`), and only an event addressed to it names an
identifier.

*The queue* (`ClaimInv`, `SendInv`, `LogInv`).  One task at most is past the
claim; while it is between `peek` and `delivered` the front of the queue is the
message it holds, since a push with `DropNewest` touches only the back.  What was
received, dropped or given up on is recorded in histories, and the invariant
says of every message ever made in which of them it is.  The refinement maps
each step of a flush to a step of `OrderedDelivery` or to a stutter; it needs the
same invariant to know that the message delivered is the abstract front.

*Slots* (`AtomicInv`).  The two sequence numbers differ by one modulo the space,
so "newer" is decided correctly across a wrap when the space has five numbers or
more.  A write that saw the latest record goes to the other slot; one that could
not read it goes to its slot, with its number, and leaves the record before it.
Either way the number written follows that of the record left alone, and a good
one is left alone whenever there is one.

*Records* (`RecInv`).  While the writes are atomic, the record of a connector is
its open transaction or lags behind it by one event whose write is under way
(`RecOpen`), the counter on disk is above every recorded id (`IdsFit`), and what
is recorded is within a threshold of the meter (`FairWeather`).  The restore is a
loop over the records in the order of their connectors.

*The security log and the snapshots* (`SecLogInv`, `SnapInv`).  For each point a
persistence task can be at, what it last took from the store, what it has yet to
write and what is on disk determine each other.

*The backlog* (`MirrorInv`).  A queue that drops nothing it holds and gives up on
nothing is only ever emptied from the front, and only of what the CSMS has.  So
any copy of it, however stale, holds only reports that were received or still
wait (`Copies`), in order; a restore from it therefore repeats some deliveries and
puts none behind a younger one.  The restore itself is a fold of `push` over the
copy; that the fold exists and keeps the copy is shown by the least
counterexample (`WFMin`), because the library's induction theorems take an
operator as their parameter.

*The way back* (`NetInv`).  As long as nothing confounds an outcome, a dial under
way carries the address, the TLS configuration and the password that are in force
(`DialIsCurrent`), so its success proves what it is credited with.  A fallback is
proven, and without one the address in force is (`WayBack`); a failure gives up
the one change that is unproven, and a password only after the CSMS has refused
it.  Types need the priority order to list the occupied slots once each: the ranks
of a finite set under a strict order number it (`RanksNumber`).  `NetInv` also
shows that `NoFallbackMeansProven` (section 3) fails only through a confounded
outcome.

*The clock* (`ClockInv`).  `sync_time` reads the anchor, awaits the report and then
awaits the anchor's move, for each registration loop and the heartbeat on its own, so
answers overlap.  The bound on the corrections reported (`Budget`: one, one per step,
two per answer or wait that meets another in hand) holds in one of four regimes: there
is a report to spare even if every comparison under way reports (`Spare`); nothing is in
hand and the estimate is off by at most a drift (`Attuned`); one answer is in hand, and
it and the one after it report what they must (`Alone`); or the answers in hand say what
the CSMS still says and what is known (`Alike`).  Drift is put between answers, one
unit from one answer to the next.

*Status reports* (`StatInv`).  Whatever has happened, the last queued change of a
connector is its present status.  As long as no named mishap has, a connector of
which nothing is queued is remembered by the filter as it is, or not at all, and
the CSMS has its status, or a sweep brings it or is owed by the acceptance
watcher.  The two wirings need different reasons: with a debounce, the filter and
the CSMS agree and no sweep goes round the queue; without one, no two successive
changes of a connector are alike, so the filter never finds a duplicate to drop.

*Certificate requests* (`CertInv`).  The resends recorded with the pending request
are exactly those that went out since the CSMS last answered or a TriggerMessage
last asked, whichever of the two tasks is between its await points; waits stay
under the last back-off since powers of two grow (`PowersGrow`, from the
cardinality of a power set).

*The device model* (`DmInv`).  What a reader sees lags behind the actor's model, yet
each mirrored variable in it is current, because an event that moves a mirror
reports a change and so publishes, and the settings in it are the actor's own.  A
slot's variables are there or the model is full, whatever order the slots are
walked in: the walk only adds (`Keeps`), and by the least counterexample among its
steps (`SlotFold`) each occupied slot is in line after it.  `Asking` ties the CSMS's one letter in
the mailbox to the item being answered; so when the letter is gone, the value is
there, unless the binding has registered the variable anew since, and it stays
there until a later item of the batch takes its place (`Readable`).  A report's
chunks partition its entries (`ChunksAreWhole`), and numbers that count up from 0
to a chunk with nothing to follow leave none out.

*The jobs* (`FwInv`, `PubInv`, `LogInv`, `DisplayInv`, `SwapInv`).  Tickets grow, the newest is in
hand or in the queue, and whatever an older job still does it checks its ticket
first.  An upload the worker looked at for the last time was current then, and one
that is being reported is out of flight, so no later request is answered as if it
cancelled it; what falls between look and `finish` is `"too late"`, and nothing else is
reported of what was cancelled.  Of the published images, the one in the publisher's
hands, the one in progress and the one a handler has admitted, those that can still
join the set are in one of two sets (`Ahead`, `Behind`), and each has at most
`MaxPublished + 1` elements: publishing what is in hand takes what is in progress out,
and a claim takes its place (`PubRoom`).

*Variable monitors* (`MonInv`).  The baseline a delta monitor keeps is the value it
last spoke of (`BaselineIsTold`), whoever replaced it and however often the value
failed to parse in between; what `evaluate` compares is therefore what
`DriftIsBounded` is about.  What a sweep has yet to send is due and each id is in
it once (`SweptOnce`, from the order in which a finite set of ids is walked,
`WalkInOrder`), so dating one item's report by the sweep's clock cannot take a
later item, or one that failed, out of what is due.

*A session's figures* (`CostInv`, `TimeInv`).  What `retain` leaves of the tariff
store is a part of it in which each tariff occurs once (`Left`), so an unambiguous
store stays so, and one from which a superseded tariff went has room for its
successor.  `PricedKeeps` says that a total on its way to the actor has no less on
it than the one it replaces, which is all `EarnedIsKept` needs.  `BilledOnce` is
about the first session only, since a later one is billed for the register
(`V_Overbilled`); for it, the readings not delivered yet rise from the reading last
billed up to the connector's (`FirstBill`), so that a report sent again prices
nothing and a later one only what is new.  `TimeInv` needs one fact of the sweep's
map: whom it names has begun, so that a new transaction is never one it knows.

### What proving changed in the models

Besides the two properties above: `CASE` arms of `OfflineQueue!Push`,
`CurrentMessageState`, `SmartCharging!Noted` and `TimeLimits!SeenBy` overlapped, which
TLA+ leaves open and TLC resolves by order; they are `IF` chains now.
`Recovery!OnEach` enumerated a set with `CHOOSE` and is `SetToSeq` of the
connectors that have a record.  `NetworkSwitch!RefreshPriority` filtered and
sorted; it now says directly which slot comes at which place.  `StepThreshold` is
at least 2, for with 1 every drift is a step (the code's is 10 seconds), and
`Attempts` are at most 3, as far as `failures` is counted.  The statuses are
distinct from the `"none"` of an empty filter.  `Station` let the hardware fail only at a command:
`ReportFault`, the fault a binding reports by itself, was missing, and
`EnergisedIsLocked` had held only for that.  It holds up to one failure, which is
what the run checks now (section 3).  `Authorization` took an identifier's entries
out of the cache with `SelectSeq`, of which the provers know nothing; `Others` is
the recursive function it stands for, and so is `Retained` of `RunningCost`, for
which `MeterAtBoot` is now a reading the meter may have.  `VariableMonitoring!ById`,
a library sort of the ids, is their enumeration by rank, and
`DeviceModel!SyncNetwork` walks the occupied slots (`Ascending`) in a recursive
function where it folded over a sorted sequence.  `DeviceModelAssumption` now says
that the slots are finitely many numbers and that what a binding registers is no
mirrored variable: one that registers `AvailabilityState` anew, as writable, is
outside the model.

### Only model-checked

* Everything temporal with fairness: `EveryReportSettles`, `AuthorizingIsAnswered`,
  `WaitsEnd`, `NetworkComesBack`, `RetriesEnd`, `JobsSettle`,
  `LoopsSettle`.  TLAPS does not handle `ENABLED`.
* Checks of an algorithm against a recursive or folded reference
  (`ComposeIsPointwise`, `BillIsExact`, `LocalList`'s differential update):
  induction over data for every input.
* `SteadyEnergyHasTransaction` and `RebootsAreSettled`, which hold of the scenarios
  they are checked in and not of the specification (section 3).
* `LocalList`'s part of `StoresAreCurrent`.
* `LimitsAreExact` of the charging blocks.

## 5. Not modelled

`PROJECT.json` lists every component with the reason.

About half of the repository's lines are unit tests kept in the same files as
the code; of the rest, the modules account for about a third.  What remains:

* Wire conversion, the catalogue of variables, cryptography and start-up
  configuration are data without control; the three protocol adapters (1.6,
  2.0.1, 2.1) of each block, about a third of the code, are of this kind.
* DER control is a bounded store whose handlers run one at a time: a model would
  restate its guards.
* ISO 15118, payment and OCSP forward a request to a binding and its answer back.
* The transport (`connect.rs`, `keepalive.rs`) is I/O around the dial that
  `NetworkSwitch` models; clock-aligned meter values are a timer.
* The composition of modules other than those that extend `ChargePointState`:
  they meet in the actor, whose one-event-at-a-time step is what each assumes of
  it.
