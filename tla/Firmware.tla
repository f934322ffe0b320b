------------------------------ MODULE Firmware ------------------------------
(***************************************************************************)
(* Firmware updates (firmware.rs).  UpdateFirmware is answered at once and *)
(* queued under a ticket; a worker task downloads, verifies, waits for the *)
(* running transactions with every EVSE withheld, installs and asks for a  *)
(* reboot.  A newer request supersedes the running one, which notices only *)
(* at the points where it looks at its ticket.  Drivers, the CSMS and the  *)
(* hardware go on using the EVSEs meanwhile.  The queue of the jobs takes  *)
(* every request; the code's refuses the 257th that waits (sync.rs), and   *)
(* the handler answers as if it had not.                                   *)
(***************************************************************************)
EXTENDS Integers, Sequences

CONSTANTS
    Evses,
    Requests,      \* [retrieveLater, signed, installLater : BOOLEAN, retries : Nat]
    AllowsNew,     \* AllowNewSessionsPendingFirmwareUpdate
    MaxUpdates,    \* bound: requests the CSMS makes
    MaxSessions    \* bound: sessions that start and status changes

ASSUME FirmwareAssumption ==
    /\ \A r \in Requests : r.retries \in Nat
    /\ AllowsNew \in BOOLEAN /\ MaxUpdates \in Nat /\ MaxSessions \in Nat

VARIABLES
    fwState,       \* FirmwareUpdateInner: current, inProgress, status
    fwQueue,       \* FirmwareUpdateQueue: tickets and their requests
    fwWorker,      \* run_firmware_updates: pc, ticket, request, attempt
    evseStatus,    \* EvseState::status
    session,       \* which EVSEs have a transaction
    taken,         \* EVSEs out of service because the update withheld them
    rebooting,     \* the reboot was asked for, and whom it cut off
    fwPast         \* sessions started and statuses changed so far

fwVars == <<fwState, fwQueue, fwWorker, evseStatus, session, taken, rebooting,
            fwPast>>

TerminalForgetsSignature(status) ==
    status \in {"Installed", "InstallationFailed", "DownloadFailed"}

Terminal(status) ==
    status \in {"Installed", "InstallationFailed", "DownloadFailed", "InvalidSignature"}

NoUpdate == [pc |-> "idle", ticket |-> 0, attempt |-> 0,
             request |-> [retrieveLater |-> FALSE, signed |-> FALSE,
                          installLater |-> FALSE, retries |-> 0]]

IsCurrent == fwState.current = fwWorker.ticket

\* FirmwareUpdateState::record, and the notification that follows it.
Record(status) ==
    fwState' = [fwState EXCEPT !.status = status,
                               !.inProgress = @ /\ ~Terminal(status)]

\* claim: the new ticket is current at once; answered AcceptedCanceled when
\* something was in progress.
UpdateFirmware ==
    /\ fwState.current < MaxUpdates /\ ~rebooting.asked
    /\ \E r \in Requests :
          fwQueue' = Append(fwQueue, [ticket |-> fwState.current + 1, request |-> r])
    /\ fwState' = [fwState EXCEPT !.current = @ + 1, !.inProgress = TRUE]
    /\ UNCHANGED <<fwWorker, evseStatus, session, taken, rebooting, fwPast>>

\* run_firmware_updates takes the next one and drops it when superseded.
TakeUpdate ==
    /\ fwWorker.pc = "idle" /\ fwQueue # <<>> /\ ~rebooting.asked
    /\ fwQueue' = Tail(fwQueue)
    /\ LET next == Head(fwQueue)
       IN IF next.ticket # fwState.current
          THEN UNCHANGED <<fwWorker, fwState>>
          ELSE /\ fwWorker' = [pc |-> IF next.request.retrieveLater THEN "scheduled"
                                      ELSE "downloading",
                               ticket |-> next.ticket, attempt |-> 0,
                               request |-> next.request]
               /\ Record(IF next.request.retrieveLater THEN "DownloadScheduled"
                         ELSE "Downloading")
    /\ UNCHANGED <<evseStatus, session, taken, rebooting, fwPast>>

Goto(pc) == fwWorker' = [fwWorker EXCEPT !.pc = pc]
Abandon  == fwWorker' = NoUpdate /\ UNCHANGED fwState

\* wait_until retrieveDateTime.
RetrieveTime ==
    /\ fwWorker.pc = "scheduled"
    /\ IF IsCurrent THEN Goto("downloading") /\ Record("Downloading") ELSE Abandon
    /\ UNCHANGED <<fwQueue, evseStatus, session, taken, rebooting, fwPast>>

\* download_with_retries: a failed attempt waits and tries again while the
\* ticket is current; out of attempts it fails, silently when superseded.
DownloadFails ==
    /\ fwWorker.pc = "downloading"
    /\ IF fwWorker.attempt < fwWorker.request.retries
       THEN /\ fwWorker' = [fwWorker EXCEPT !.pc = "retrying", !.attempt = @ + 1]
            /\ UNCHANGED fwState
       ELSE IF IsCurrent THEN fwWorker' = NoUpdate /\ Record("DownloadFailed")
            ELSE Abandon
    /\ UNCHANGED <<fwQueue, evseStatus, session, taken, rebooting, fwPast>>

DownloadRetries ==
    /\ fwWorker.pc = "retrying"
    /\ IF IsCurrent THEN Goto("downloading") /\ UNCHANGED fwState ELSE Abandon
    /\ UNCHANGED <<fwQueue, evseStatus, session, taken, rebooting, fwPast>>

Downloads ==
    /\ fwWorker.pc = "downloading"
    /\ IF IsCurrent THEN Goto("downloaded") /\ Record("Downloaded") ELSE Abandon
    /\ UNCHANGED <<fwQueue, evseStatus, session, taken, rebooting, fwPast>>

\* Only a request that carries a signature or a certificate is verified; what
\* cannot be verified is refused.
Verifies ==
    /\ fwWorker.pc = "downloaded"
    /\ \/ /\ ~fwWorker.request.signed
          /\ Goto("verified") /\ UNCHANGED fwState
       \/ /\ fwWorker.request.signed
          /\ IF IsCurrent THEN Goto("verified") /\ Record("SignatureVerified")
             ELSE Abandon
       \/ /\ fwWorker.request.signed
          /\ IF IsCurrent THEN fwWorker' = NoUpdate /\ Record("InvalidSignature")
             ELSE Abandon
    /\ UNCHANGED <<fwQueue, evseStatus, session, taken, rebooting, fwPast>>

SchedulesInstall ==
    /\ fwWorker.pc = "verified" /\ fwWorker.request.installLater
    /\ fwWorker' = [fwWorker EXCEPT !.pc = "installLater"]
    /\ Record("InstallScheduled")
    /\ UNCHANGED <<fwQueue, evseStatus, session, taken, rebooting, fwPast>>

\* wait_until installDateTime, then withhold every EVSE (set_all_evses).
Withhold ==
    IF AllowsNew THEN UNCHANGED <<evseStatus, taken>>
    ELSE /\ evseStatus' = [e \in Evses |-> "Unavailable"]
         /\ taken' = taken \cup {e \in Evses : evseStatus[e] = "Available"}

InstallTime ==
    /\ \/ fwWorker.pc = "verified" /\ ~fwWorker.request.installLater
       \/ fwWorker.pc = "installLater"
    /\ IF fwWorker.pc = "installLater" /\ ~IsCurrent
       THEN Abandon /\ UNCHANGED <<evseStatus, taken>>
       ELSE Goto("waitIdle") /\ Withhold /\ UNCHANGED fwState
    /\ UNCHANGED <<fwQueue, session, rebooting, fwPast>>

\* set_all_evses(SetAvailable): every EVSE, whoever took it out of service.
GiveBack ==
    IF AllowsNew THEN UNCHANGED <<evseStatus, taken>>
    ELSE /\ evseStatus' = [e \in Evses |-> "Available"]
         /\ taken' = {}

KeepsWithheld == UNCHANGED <<evseStatus, taken>>

\* wait_for_idle: superseded at any poll, it gives the EVSEs back.
WaitForIdle ==
    /\ fwWorker.pc = "waitIdle"
    /\ IF ~IsCurrent THEN Abandon /\ GiveBack
       ELSE /\ \A e \in Evses : ~session[e]
            /\ Goto("installing") /\ Record("Installing")
            /\ UNCHANGED <<evseStatus, taken>>
    /\ UNCHANGED <<fwQueue, session, rebooting, fwPast>>

\* installer.install(): the ticket is not looked at again.
Installs ==
    /\ fwWorker.pc = "installing"
    /\ \E status \in {"Installed", "InstallationFailed"} : Record(status)
    /\ GiveBack
    /\ fwWorker' = NoUpdate
    /\ UNCHANGED <<fwQueue, session, rebooting, fwPast>>

\* RebootRequired: an immediate reset of the charge point.
InstallReboots ==
    /\ fwWorker.pc = "installing"
    /\ Record("InstallRebooting")
    /\ rebooting' = [asked |-> TRUE, cut |-> {e \in Evses : session[e]}]
    /\ fwWorker' = NoUpdate
    /\ UNCHANGED <<fwQueue, evseStatus, session, taken, fwPast>>

-----------------------------------------------------------------------------
\* A driver with a cable and a card: no guard of a connector reads the status
\* of its EVSE.
LocalStart ==
    /\ fwPast < MaxSessions /\ ~rebooting.asked
    /\ \E e \in Evses : ~session[e] /\ session' = [session EXCEPT ![e] = TRUE]
    /\ fwPast' = fwPast + 1
    /\ UNCHANGED <<fwState, fwQueue, fwWorker, evseStatus, taken, rebooting>>

\* A remote start is refused unless the EVSE is available (can_start_here).
RemoteStart ==
    /\ fwPast < MaxSessions /\ ~rebooting.asked
    /\ \E e \in Evses : /\ ~session[e] /\ evseStatus[e] = "Available"
                        /\ session' = [session EXCEPT ![e] = TRUE]
    /\ fwPast' = fwPast + 1
    /\ UNCHANGED <<fwState, fwQueue, fwWorker, evseStatus, taken, rebooting>>

SessionEnds ==
    /\ ~rebooting.asked
    /\ \E e \in Evses : session[e] /\ session' = [session EXCEPT ![e] = FALSE]
    /\ UNCHANGED <<fwState, fwQueue, fwWorker, evseStatus, taken, rebooting, fwPast>>

\* ChangeAvailability, or a fault of the EVSE found and cleared.
EvseChanges ==
    /\ fwPast < MaxSessions /\ ~rebooting.asked
    /\ \E e \in Evses, s \in {"Available", "Unavailable", "Faulted"} :
          /\ evseStatus[e] # s
          /\ evseStatus' = [evseStatus EXCEPT ![e] = s]
          /\ taken' = taken \ {e}
    /\ fwPast' = fwPast + 1
    /\ UNCHANGED <<fwState, fwQueue, fwWorker, session, rebooting>>

-----------------------------------------------------------------------------
FwInit ==
    /\ fwState = [current |-> 0, inProgress |-> FALSE, status |-> "Idle"]
    /\ fwQueue = <<>> /\ fwWorker = NoUpdate
    /\ evseStatus = [e \in Evses |-> "Available"]
    /\ session = [e \in Evses |-> FALSE]
    /\ taken = {} /\ rebooting = [asked |-> FALSE, cut |-> {}] /\ fwPast = 0

FwWorkerSteps ==
    \/ TakeUpdate \/ RetrieveTime \/ DownloadFails \/ DownloadRetries
    \/ Downloads \/ Verifies \/ SchedulesInstall \/ InstallTime \/ WaitForIdle
    \/ Installs \/ InstallReboots

FwNext ==
    \/ FwWorkerSteps \/ UpdateFirmware
    \/ LocalStart \/ RemoteStart \/ SessionEnds \/ EvseChanges

FwSpec == FwInit /\ [][FwNext]_fwVars

-----------------------------------------------------------------------------
\* What the worker holds: a ticket some request was given, never one newer
\* than the current one, and the queue holds only newer ones, in order.
FwTypeOK ==
    /\ fwWorker.pc \in {"idle", "scheduled", "downloading", "retrying", "downloaded",
                        "verified", "installLater", "waitIdle", "installing"}
    /\ fwWorker.ticket <= fwState.current
    /\ \A i \in 1 .. Len(fwQueue) :
          /\ fwQueue[i].ticket \in fwWorker.ticket + 1 .. fwState.current
          /\ i > 1 => fwQueue[i - 1].ticket < fwQueue[i].ticket
    /\ fwWorker.attempt <= fwWorker.request.retries
    /\ evseStatus \in [Evses -> {"Available", "Unavailable", "Faulted"}]
    /\ taken \subseteq Evses

\* No update, failed, superseded or done, leaves an EVSE it withheld out of
\* service: unless a reboot is under way, withheld EVSEs mean that an update
\* is waiting for transactions or installing right now.
WithheldOnlyWhileUpdating ==
    taken # {} => rebooting.asked \/ fwWorker.pc \in {"waitIdle", "installing"}

\* An accepted update is never lost: as long as one is in progress, the
\* newest ticket is the worker's or still queued.
NewestIsInHand ==
    fwState.inProgress /\ ~rebooting.asked =>
        \/ fwWorker.ticket = fwState.current
        \/ \E i \in 1 .. Len(fwQueue) : fwQueue[i].ticket = fwState.current

\* Whatever supersedes what, firmware management always settles: the state a
\* TriggerMessage reports is again and again one of no update in progress,
\* unless the station reboots.
FirmwareSettles ==
    []<>(~fwState.inProgress \/ rebooting.asked)

\* What the code claims: the reboot of an update cuts nobody off, because the
\* wait established that nothing is running.
NobodyCutOff ==
    rebooting.cut = {}
=============================================================================
