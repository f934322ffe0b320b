------------------------------- MODULE Station -------------------------------
(***************************************************************************)
(* The charge point as a set of tasks around the actor: the actor's        *)
(* bounded mailbox (src/sync.rs, src/actor), the executor that carries out *)
(* hardware commands against a contactor and a lock                        *)
(* (src/hardware/command_executor.rs), the CSMS's requests                 *)
(* (src/remote_control.rs, src/reservation.rs, src/reset.rs,               *)
(* src/availability.rs) and the two sweeps that time out held starts and   *)
(* reservations.                                                           *)
(*                                                                         *)
(* Every task that sends an event waits for the actor to acknowledge it.   *)
(* A handler decides on the published state and pushes its event without   *)
(* awaiting in between, so deciding and pushing is one step; what makes    *)
(* its snapshot stale is the events already queued ahead of its own.       *)
(***************************************************************************)
EXTENDS ChargePointState, SequencesExt

CONSTANTS Capacity,      \* the mailbox's capacity
          Requests,      \* the requests the CSMS sends
          Driven,        \* the connectors a driver turns up at
          MaxFailures,   \* bound: hardware calls that fail
          MaxCalls,      \* bound: requests the CSMS sends
          MaxMoves       \* bound: what the driver does

ASSUME StationBounds ==
    /\ Capacity \in Nat \ {0} /\ Driven \subseteq Connectors
    /\ MaxFailures \in Nat /\ MaxCalls \in Nat /\ MaxMoves \in Nat

\* Connectors are addressed by their index, and there are finitely many.
ASSUME TopologyIsFinite ==
    Connectors \subseteq Nat /\ IsFiniteSet(Connectors) /\ IsFiniteSet(Evses)

\* What the protocol adapters make of the CSMS's messages.
WellFormedRequest(q) ==
    /\ q.op \in {"Unlock", "Start", "Stop", "Reserve", "Cancel", "Availability",
                 "Reset"}
    /\ q.op = "Unlock" => q.connector \in Connectors
    /\ q.op \in {"Start", "Reserve"} => q.evse \in Option(Evses)
    /\ q.op = "Start" => q.token \in IdTokens
    /\ q.op = "Reserve" => q.reservation \in Reservations
    /\ q.op = "Availability" =>
          /\ q.connector \in Option(Connectors) /\ q.evse \in Option(Evses)
          /\ q.available \in BOOLEAN
    /\ q.op = "Reset" =>
          q.target \in Option(Evses) /\ q.kind \in {"Immediate", "OnIdle"}

ASSUME RequestAssumption == \A q \in Requests : WellFormedRequest(q)

Tasks == {"csms", "driver", "executor", "holds", "expiry"}

VARIABLES mail,       \* the actor's mailbox: [from, event]
          commands,   \* hardware commands broadcast and not yet executed
          phys,       \* per connector: contactor, lock and cable
          call,       \* the CSMS request being handled, None between requests
          seen,       \* first_seen: connectors whose hold a sweep has met
          bootReason, \* what the boot-reason recorder last stored
          left,       \* per sweep: what its snapshot still has to release
          up,         \* the process runs: a successful reboot ends it
          refused,    \* history: an event was refused with MailboxFull
          spent       \* failed hardware calls, requests and driver's moves

stationVars ==
    <<mail, commands, phys, call, seen, bootReason, left, up, refused, spent>>
allVars     == <<vars, stationVars>>

\* The task's last event was acknowledged: send has returned.
Idle(task) == \A i \in 1..Len(mail) : mail[i].from # task

OnC(c, e) == [type |-> "Connector", connector |-> c, event |-> e]
Bare(type) == [type |-> type]

-----------------------------------------------------------------------------
(* Sending: ChargePointActor::send and Chan::send.                          *)

\* A full mailbox refuses the event; every caller here ignores the error.
Send(task, e) ==
    IF Len(mail) >= Capacity
      THEN mail' = mail /\ refused' = TRUE
      ELSE mail' = Append(mail, [from |-> task, event |-> e])
           /\ refused' = refused

-----------------------------------------------------------------------------
(* The actor's turn: apply one event, broadcast its hardware commands and   *)
(* acknowledge the sender.  The other effects go to tasks that are not part *)
(* of this module, so out and last, which record them, stay as they were.  *)

CommandsOf(o) ==
    FlattenSeq([i \in 1..Cardinality(Connectors) |->
        LET c == SetToSeq(Connectors)[i]
        IN [j \in 1..Len(o.conn[c].commands) |->
              [connector |-> c, type |-> o.conn[c].commands[j].type]]])
    \o [i \in 1..Cardinality(o.reboots) |->
          [evse |-> SetToSeq(o.reboots)[i], type |-> "Reboot"]]

Turn ==
    /\ up
    /\ mail # <<>>
    /\ LET r == Apply(cp, Head(mail).event)
       IN /\ WithinBounds(r.cp)
          /\ cp' = r.cp
          /\ commands' = commands \o CommandsOf(r.out)
    /\ mail' = Tail(mail)
    /\ UNCHANGED <<out, last, phys, call, seen, bootReason, left, up, refused, spent>>

-----------------------------------------------------------------------------
(* execute_hardware_command: one command, then its outcome, then wait.      *)

Confirmation(type) ==
    CASE type = "Lock"           -> "LockConfirmed"
      [] type = "Unlock"         -> "UnlockConfirmed"
      [] type = "CloseContactor" -> "ContactorClosed"
      [] type = "OpenContactor"  -> "ContactorOpened"

\* Mutant: a binding call that failed is confirmed all the same.
ConfirmedAnyway(command, failed) == Bare(Confirmation(command.type))

\* A failed lock is named as such; any other failed call faults the connector.
ConnectorOutcome(command, failed) ==
    IF ~failed THEN Bare(Confirmation(command.type))
    ELSE IF command.type \in {"Lock", "Unlock"} THEN Bare("LockFailed")
    ELSE Bare("FaultDetected")

Moved(p, type) ==
    CASE type = "Lock"           -> [p EXCEPT !.locked = TRUE]
      [] type = "Unlock"         -> [p EXCEPT !.locked = FALSE]
      [] type = "CloseContactor" -> [p EXCEPT !.closed = TRUE]
      [] type = "OpenContactor"  -> [p EXCEPT !.closed = FALSE]

ExecutorReady == up /\ commands # <<>> /\ Idle("executor")

\* hardware/evse.rs: a reboot that succeeds ends the process, so nothing is
\* reported; one that fails faults the EVSE.
ExecuteReboot(command, failed) ==
    /\ up' = failed
    /\ IF failed
         THEN Send("executor",
                   [type |-> "EvseFaultDetected", evse |-> command.evse])
         ELSE UNCHANGED <<mail, refused>>
    /\ UNCHANGED phys

ExecuteOnConnector(command, failed) ==
    /\ UNCHANGED up
    /\ phys' = IF failed THEN phys
               ELSE [phys EXCEPT ![command.connector] = Moved(@, command.type)]
    /\ Send("executor",
            OnC(command.connector, ConnectorOutcome(command, failed)))

\* Mutant: a call that fails is logged and nothing is reported.
ExecuteQuietly ==
    /\ ExecutorReady
    /\ \/ /\ Head(commands).type # "Reboot"
          /\ ExecuteOnConnector(Head(commands), FALSE)
          /\ UNCHANGED spent
       \/ /\ spent.failures < MaxFailures
          /\ spent' = [spent EXCEPT !.failures = @ + 1]
          /\ UNCHANGED <<phys, mail, refused, up>>
    /\ commands' = Tail(commands)
    /\ UNCHANGED <<vars, call, seen, bootReason, left>>

Execute ==
    /\ ExecutorReady
    /\ \E failed \in BOOLEAN :
          /\ failed => spent.failures < MaxFailures
          /\ spent' = IF failed THEN [spent EXCEPT !.failures = @ + 1]
                      ELSE spent
          /\ IF Head(commands).type = "Reboot"
               THEN ExecuteReboot(Head(commands), failed)
               ELSE ExecuteOnConnector(Head(commands), failed)
    /\ commands' = Tail(commands)
    /\ UNCHANGED <<vars, call, seen, bootReason, left>>

-----------------------------------------------------------------------------
(* The driver and the hardware binding's own reports.                       *)

DriverSends(c, e) ==
    /\ up
    /\ Idle("driver")
    /\ spent.moves < MaxMoves
    /\ spent' = [spent EXCEPT !.moves = @ + 1]
    /\ Send("driver", OnC(c, e))
    /\ UNCHANGED <<vars, commands, call, seen, bootReason, left, up>>

\* The vehicle end can be pulled whatever the socket's lock does.
Plug(c) ==
    /\ ~phys[c].cable
    /\ phys' = [phys EXCEPT ![c].cable = TRUE]
    /\ DriverSends(c, Bare("CableConnected"))

Unplug(c) ==
    /\ phys[c].cable
    /\ phys' = [phys EXCEPT ![c].cable = FALSE]
    /\ DriverSends(c, Bare("CableDisconnected"))

PressStop(c) ==
    /\ cp.conn[c].state = "Charging"
    /\ UNCHANGED phys
    /\ DriverSends(c, [type |-> "ChargingStopped", reason |-> "Local"])

ClearFault(c) ==
    /\ cp.conn[c].state \in {"Faulted", "FaultedSafe"}
    /\ UNCHANGED phys
    /\ DriverSends(c, Bare("FaultCleared"))

\* hardware/event_sender.rs: the binding pushes "a fault", one that no command
\* of the executor met.  It counts as a failure of the hardware.
ReportFault(c) ==
    /\ up
    /\ Idle("driver")
    /\ spent.failures < MaxFailures
    /\ spent' = [spent EXCEPT !.failures = @ + 1]
    /\ Send("driver", OnC(c, Bare("FaultDetected")))
    /\ UNCHANGED <<vars, commands, phys, call, seen, bootReason, left, up>>

-----------------------------------------------------------------------------
(* The CSMS's requests, one at a time as OCPP's RPC layer asks.  Each       *)
(* handler decides on cp as published; an outcome of None refuses it.      *)

MaySendRequests == cp.registration = "Accepted"

First(candidates) == CHOOSE c \in candidates : \A d \in candidates : c <= d

\* can_start_here: F01.FR.21 to .24.  That the identifier or its group is the
\* one the bay is reserved for is one comparison of tokens here.
CanStartHere(c, token) ==
    LET slot == cp.conn[c] IN
    /\ cp.evse[EvseOf[c]] = "Available"
    /\ slot.state \in {"Available", "Locked", "Reserved"}
    /\ slot.tx = None
    /\ slot.reservation # None => slot.reservation.token = token

\* find_start_target: a latched connector, else one this driver reserved, else
\* a free one, each time the first.
FindStartTarget(evse, token) ==
    LET able(state) == {c \in TargetConnectors(evse) :
                          CanStartHere(c, token) /\ cp.conn[c].state = state}
    IN IF able("Locked") # {} THEN First(able("Locked"))
       ELSE IF able("Reserved") # {} THEN First(able("Reserved"))
       ELSE IF able("Available") # {} THEN First(able("Available"))
       ELSE None

FindTransaction(id) ==
    LET running == {c \in Connectors :
                      cp.conn[c].tx # None /\ cp.conn[c].tx.id = id}
    IN IF running = {} THEN None ELSE First(running)

FindReservation(id) ==
    LET held == {c \in Connectors : cp.conn[c].reservation # None
                                     /\ cp.conn[c].reservation.id = id}
    IN IF held = {} THEN None ELSE First(held)

FindFree(evse) ==
    LET free == {c \in TargetConnectors(evse) :
                   cp.conn[c].state = "Available"}
    IN IF free = {} THEN None ELSE First(free)

\* A request being handled: what for, how far, and on which connector if any.
Calls == [request : Requests, pc : {"recorded", "sent"},
          connector : Option(Connectors)]

ASSUME CallAssumption == None \notin Calls

Opens(q, pc, c) == call' = [request |-> q, pc |-> pc, connector |-> c]

\* The handler's event is on its way and the handler waits for it to be applied.
Forward(q, c, e) ==
    /\ Send("csms", e)
    /\ Opens(q, "sent", c)
    /\ UNCHANGED bootReason

\* handle_unlock_request: only a Locked connector is unlocked.
HandleUnlock(q) ==
    /\ cp.conn[q.connector].state = "Locked"
    /\ Forward(q, q.connector,
               OnC(q.connector, Bare("RemoteUnlockRequested")))

\* handle_request_start_transaction: now if the cable is latched (F01), else
\* when it arrives (F02).
HandleStart(q) ==
    LET c == FindStartTarget(q.evse, q.token)
    IN /\ MaySendRequests
       /\ c # None
       /\ Forward(q, c, OnC(c,
            IF cp.conn[c].state = "Locked"
              THEN [type |-> "RemoteStartRequested", token |-> q.token,
                    remoteStartId |-> None]
              ELSE [type |-> "RemoteStartPending",
                    pending |-> [token |-> q.token, remoteStartId |-> None]]))

\* handle_request_stop_transaction: a running, charging transaction.
HandleStop(q) ==
    LET c == FindTransaction(q.id)
    IN /\ MaySendRequests
       /\ c # None
       /\ cp.conn[c].state = "Charging"
       /\ Forward(q, c, OnC(c, [type |-> "ChargingStopped", reason |-> "Remote"]))

\* handle_reserve_now: the first connector that is free.
HandleReserve(q) ==
    LET c == FindFree(q.evse)
    IN /\ c # None
       /\ Forward(q, c, OnC(c, [type |-> "Reserved", reservation |-> q.reservation]))

HandleCancel(q) ==
    LET c == FindReservation(q.id)
    IN /\ c # None
       /\ Forward(q, c, OnC(c, Bare("ReservationCancelled")))

\* handle_change_availability_request, for its three levels.
HandleAvailability(q) ==
    Forward(q, None,
        IF q.connector # None
          THEN OnC(q.connector, Bare(IF q.available THEN "SetAvailable"
                                     ELSE "SetUnavailable"))
          ELSE IF q.evse # None
          THEN [type |-> "EvseStatusSet", evse |-> q.evse,
                status |-> IF q.available THEN "Available" ELSE "Unavailable"]
          ELSE Bare(IF q.available THEN "SetAvailable" ELSE "SetUnavailable"))

BootReasonOf(kind) ==
    IF kind = "Immediate" THEN "RemoteReset" ELSE "ScheduledReset"

ASSUME ReasonAssumption == None \notin {"RemoteReset", "ScheduledReset"}

\* Mutant: the reset is requested without its reason being recorded.
HandleResetUnrecorded(q) ==
    /\ Opens(q, "recorded", None)
    /\ UNCHANGED <<mail, refused, bootReason>>

\* handle_reset awaits the recorder before the event that may end the process.
HandleReset(q) ==
    /\ bootReason' = BootReasonOf(q.kind)
    /\ Opens(q, "recorded", None)
    /\ UNCHANGED <<mail, refused>>

Handle(q) ==
    /\ up
    /\ call = None
    /\ spent.calls < MaxCalls
    /\ spent' = [spent EXCEPT !.calls = @ + 1]
    /\ CASE q.op = "Unlock"       -> HandleUnlock(q)
         [] q.op = "Start"        -> HandleStart(q)
         [] q.op = "Stop"         -> HandleStop(q)
         [] q.op = "Reserve"      -> HandleReserve(q)
         [] q.op = "Cancel"       -> HandleCancel(q)
         [] q.op = "Availability" -> HandleAvailability(q)
         [] q.op = "Reset"        -> HandleReset(q)
    /\ UNCHANGED <<vars, commands, phys, seen, left, up>>

Request == \E q \in Requests : Handle(q)

\* The reason is on storage: send the request.  The security event the handler
\* sends and awaits first is left out: it takes time, which this step may take.
RequestReset ==
    /\ up
    /\ call # None /\ call.pc = "recorded"
    /\ Send("csms", [type |-> "ResetRequested", target |-> call.request.target,
                     kind |-> call.request.kind])
    /\ call' = [call EXCEPT !.pc = "sent"]
    /\ UNCHANGED <<vars, commands, phys, seen, bootReason, left, up, spent>>

\* The event was applied, or refused, which the handlers do not tell apart.
\* UnlockConnector alone waits on, for the connector to be free or faulted.
Answer ==
    /\ up
    /\ call # None /\ call.pc = "sent" /\ Idle("csms")
    /\ call.request.op = "Unlock" =>
          cp.conn[call.connector].state \in
            {"Available", "Faulted", "FaultedSafe"}
    /\ call' = None
    /\ UNCHANGED <<vars, mail, commands, phys, seen, bootReason, left, up,
                   refused, spent>>

-----------------------------------------------------------------------------
(* run_pending_remote_start_timeouts.  A sweep times a hold from the first  *)
(* sweep that met it; whether EVConnectionTimeOut has passed since is open. *)

HeldAwaitingCable ==
    {c \in Connectors : cp.conn[c].pending # None
                        /\ cp.conn[c].state # "Authorizing"}

DueHolds == SUBSET (HeldAwaitingCable \cap seen)

ReleaseHold(c) == Send("holds", OnC(c, Bare("RemoteStartPendingCleared")))

SweepHolds ==
    /\ up /\ Idle("holds") /\ left.holds = {}
    /\ \E due \in DueHolds :
          /\ seen' = HeldAwaitingCable \ due
          /\ IF due = {}
               THEN UNCHANGED <<mail, refused, left>>
               ELSE /\ ReleaseHold(First(due))
                    /\ left' = [left EXCEPT !.holds = due \ {First(due)}]
    /\ UNCHANGED <<vars, commands, phys, call, bootReason, up, spent>>

SweepNextHold ==
    /\ up /\ Idle("holds") /\ left.holds # {}
    /\ ReleaseHold(First(left.holds))
    /\ left' = [left EXCEPT !.holds = @ \ {First(@)}]
    /\ UNCHANGED <<vars, commands, phys, call, seen, bootReason, up, spent>>

(* run_reservation_expiry: the same, for the reservations that have run out. *)

Reserved == {c \in Connectors : cp.conn[c].reservation # None}

ExpireOn(c) == Send("expiry", OnC(c, Bare("ReservationExpired")))

SweepReservations ==
    /\ up /\ Idle("expiry") /\ left.expiry = {}
    /\ \E due \in (SUBSET Reserved) \ {{}} :
          /\ ExpireOn(First(due))
          /\ left' = [left EXCEPT !.expiry = due \ {First(due)}]
    /\ UNCHANGED <<vars, commands, phys, call, seen, bootReason, up, spent>>

SweepNextReservation ==
    /\ up /\ Idle("expiry") /\ left.expiry # {}
    /\ ExpireOn(First(left.expiry))
    /\ left' = [left EXCEPT !.expiry = @ \ {First(@)}]
    /\ UNCHANGED <<vars, commands, phys, call, seen, bootReason, up, spent>>

-----------------------------------------------------------------------------
(* The specification.  The station starts registered and idle: what comes   *)
(* before is Provisioning's.                                                *)

StationInit ==
    /\ cp \in {[NewChargePoint(p) EXCEPT !.lifecycle = "Available",
                                        !.registration = "Accepted"] :
               p \in Policies}
    /\ out = [conn |-> Quiet, reboots |-> {}]
    /\ last = [c \in Connectors |-> None]
    /\ mail = <<>> /\ commands = <<>>
    /\ phys = [c \in Connectors |->
                 [closed |-> FALSE, locked |-> FALSE, cable |-> FALSE]]
    /\ call = None /\ seen = {} /\ bootReason = None
    /\ left = [holds |-> {}, expiry |-> {}]
    /\ up = TRUE /\ refused = FALSE
    /\ spent = [failures |-> 0, calls |-> 0, moves |-> 0]

Driver ==
    \E c \in Driven :
        Plug(c) \/ Unplug(c) \/ PressStop(c) \/ ReportFault(c) \/ ClearFault(c)

StationNext ==
    \/ Turn \/ Execute \/ Driver \/ Request \/ RequestReset \/ Answer
    \/ SweepHolds \/ SweepNextHold
    \/ SweepReservations \/ SweepNextReservation

\* The tasks of a cooperative executor: the actor, the executor and the sweeps
\* are polled for ever; the driver and the CSMS need do nothing.
StationFairness ==
    /\ ([]<>(mail = <<>> \/ ~up)) \/ []<><<Turn>>_allVars
    /\ WF_allVars(Execute)
    /\ WF_allVars(Answer)
    /\ WF_allVars(SweepNextHold)
    /\ WF_allVars(SweepHolds)

StationSpec == StationInit /\ [][StationNext]_allVars /\ StationFairness

-----------------------------------------------------------------------------
(* Properties. *)

\* The mailbox, the broadcast channel, the binding and the tasks' own state keep
\* their types, and no task has two events in the mailbox.
StationTypeOK ==
    /\ \A i \in 1..Len(mail) : mail[i].from \in Tasks
    /\ \A i, j \in 1..Len(mail) : mail[i].from = mail[j].from => i = j
    /\ \A i \in 1..Len(commands) :
          commands[i].type \in ConnectorCommands \cup {"Reboot"}
    /\ phys \in [Connectors -> [closed : BOOLEAN, locked : BOOLEAN,
                                cable : BOOLEAN]]
    /\ call # None =>
          call.request \in Requests /\ call.pc \in {"recorded", "sent"}
    /\ seen \subseteq Connectors
    /\ left.holds \subseteq Connectors /\ left.expiry \subseteq Connectors
    /\ bootReason \in Option({"RemoteReset", "ScheduledReset"})
    /\ up \in BOOLEAN /\ refused \in BOOLEAN
    /\ spent \in [failures : 0..MaxFailures, calls : 0..MaxCalls,
                  moves : 0..MaxMoves]

\* actor/charge_point_actor.rs, send: a refused event "would wedge a
\* connector".  Every sender waits for its acknowledgement, so a mailbox with
\* one place per task never refuses one, however the tasks interleave.
NothingRefused == ~refused

Ahead(c, type) ==
    \E i \in 1..Len(commands) : commands[i].type = type
                                /\ commands[i].connector = c

FaultReported(c) ==
    \E i \in 1..Len(mail) : mail[i].event = OnC(c, Bare("FaultDetected"))

\* Fail-safe: a contactor that is physically closed belongs to a session that
\* is running or starting, or is about to be opened: the command is queued, or
\* the failed attempt is about to be reported and raises another.
ClosedContactorIsOwned ==
    \A c \in Connectors : phys[c].closed =>
        \/ cp.conn[c].state \in {"Starting"} \cup Powered
        \/ Ahead(c, "OpenContactor")
        \/ FaultReported(c)

\* hardware/fault_injection.rs: "releasing a latch while current flows exposes a
\* live pin".  An unlock queued for a closed contactor has the command that opens
\* it ahead of itself, unless the call that should have opened it has failed.
LatchHeldUnderLoad ==
    \A c \in Connectors, i \in 1..Len(commands) :
        /\ phys[c].closed
        /\ commands[i].type = "Unlock" /\ commands[i].connector = c
        => \/ \E j \in 1..(i - 1) : /\ commands[j].type = "OpenContactor"
                                  /\ commands[j].connector = c
           \/ FaultReported(c)
           \/ cp.conn[c].state = "Faulted"

\* hardware/connector.rs: a lock confirmed too early would "let a transaction
\* start behind it".  No contactor is closed on an unlocked socket, however
\* late or repeated the confirmations of earlier commands are.
EnergisedIsLocked ==
    \A c \in Connectors : phys[c].closed => phys[c].locked

\* RequestStopTransaction ends the transaction it names and no other: whatever
\* is queued ahead of its event cannot replace the transaction it was decided
\* for.
StopsWhatItNames ==
    call # None /\ call.request.op = "Stop" /\ ~Idle("csms") =>
        LET tx == cp.conn[call.connector].tx
        IN tx # None => tx.id = call.request.id

\* handle_reset: the boot reason is on storage before anything can end the
\* process, so no commanded restart is reported as a power cut.
RebootHasItsReason == ~up => bootReason # None

\* A connector never waits for ever on its hardware: every state that waits for
\* a confirmation is left, because the executor reports every outcome.
TransientStates == {"Starting", "Stopping", "StoppingLocked", "Finishing",
                    "Unlocking"}

TransientStatesEnd ==
    \A c \in Connectors :
        cp.conn[c].state \in TransientStates
          ~> (cp.conn[c].state \notin TransientStates \/ ~up)

\* E03.FR.15, F02.FR.07: a held start does not wait for ever for its driver.
HoldsEnd ==
    \A c \in Connectors :
        c \in HeldAwaitingCable ~> (c \notin HeldAwaitingCable \/ ~up)

\* A stop that was accepted ends its transaction.
AcceptedStopsEnd ==
    \A q \in Requests : q.op = "Stop" =>
        ((call # None /\ call.request = q)
           ~> (~up \/ \A c \in Connectors :
                 cp.conn[c].tx # None => cp.conn[c].tx.id # q.id))

\* Power: a closed contactor belongs to a session or is about to be opened, and
\* no latch is released while current flows (command_executor.rs).
PowerIsGuarded == ClosedContactorIsOwned /\ LatchHeldUnderLoad

\* No single fault of the hardware energises an unlocked socket.
SingleFaultIsSafe == spent.failures <= 1 => EnergisedIsLocked

\* Handlers: no event they send finds the mailbox full, a stop ends the
\* transaction it names and no other, and a reboot has its reason on record
\* (charge_point_actor.rs, remote_control.rs, reset.rs).
HandlersAreFaithful ==
    StationTypeOK /\ NothingRefused /\ StopsWhatItNames /\ RebootHasItsReason

\* Waits end: a connector does not wait for its hardware for ever, a held remote
\* start ends, and an accepted stop ends its transaction (remote_control.rs).
WaitsEnd == TransientStatesEnd /\ HoldsEnd /\ AcceptedStopsEnd

=============================================================================
