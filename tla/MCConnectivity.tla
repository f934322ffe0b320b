--------------------------- MODULE MCConnectivity ---------------------------
(***************************************************************************)
(* Small instances of the five specifications of the station's link to its *)
(* CSMS: which address it dials with which credentials, registration and   *)
(* heartbeats, status reports, the renewal of its certificate, and the     *)
(* device model it reads and writes.  They share no state here, so an      *)
(* execution is one of one of them.                                        *)
(***************************************************************************)
EXTENDS NetworkSwitch, Provisioning, StatusReporting, CertificateRenewal,
        DeviceModel

CONSTANT Blocks      \* the specifications this instance runs

VARIABLE block       \* the one this execution is of

connectivityVars == <<block, netVars, provVars, statusVars, certVars, dmVars>>

ConnectivityInit ==
    /\ block \in Blocks
    /\ NetInit /\ ProvInit /\ StatusInit /\ CertInit /\ DmInit

ConnectivityNext ==
    \/ /\ block = "network" /\ NetNext
       /\ UNCHANGED <<block, provVars, statusVars, certVars, dmVars>>
    \/ /\ block = "provisioning" /\ ProvNext
       /\ UNCHANGED <<block, netVars, statusVars, certVars, dmVars>>
    \/ /\ block = "status" /\ StatusNext
       /\ UNCHANGED <<block, netVars, provVars, certVars, dmVars>>
    \/ /\ block = "certificate" /\ CertNext
       /\ UNCHANGED <<block, netVars, provVars, statusVars, dmVars>>
    \/ /\ block = "model" /\ DmNext
       /\ UNCHANGED <<block, netVars, provVars, statusVars, certVars>>

\* Every spawned loop keeps being polled and every call it awaits returns; an
\* outage ends.  Nothing is assumed of the CSMS's answers.
NetFairness ==
    /\ WF_netVars(block = "network" /\ SwitchPass)
    /\ WF_netVars(block = "network" /\ GraceOver)
    /\ WF_netVars(block = "network" /\ Restore)
    /\ WF_netVars(block = "network" /\ DialSteps)

ProvFairness ==
    /\ WF_provVars(block = "provisioning" /\ Reregister)
    /\ WF_provVars(block = "provisioning" /\ (BootAnswered \/ BootFailed))
    /\ WF_provVars(block = "provisioning" /\ BootApplied)
    /\ WF_provVars(block = "provisioning" /\ Compares)
    /\ WF_provVars(block = "provisioning" /\ BootAnchors)
    /\ WF_provVars(block = "provisioning" /\ BootRetries)
    /\ WF_provVars(block = "provisioning" /\ HeartbeatWaits)
    /\ WF_provVars(block = "provisioning" /\ HeartbeatSent)
    /\ WF_provVars(block = "provisioning" /\ HeartbeatAnswered)
    /\ WF_provVars(block = "provisioning" /\ HeartbeatAnchors)

CertFairness ==
    /\ WF_certVars(block = "certificate" /\ RetryTick)
    /\ WF_certVars(block = "certificate" /\ AskerSteps("retry"))

ConnectivitySpec ==
    /\ ConnectivityInit /\ [][ConnectivityNext]_connectivityVars
    /\ NetFairness /\ ProvFairness /\ CertFairness

-----------------------------------------------------------------------------
(* The progress properties, of the executions they are about. *)

\* ComesBack: the station never gives up on its CSMS (network_switch.rs).
NetworkComesBack == block = "network" => ComesBack

\* DeadProfileIsLeft: the rollback of network_switch.rs brings the station back
\* from a profile that does not work.
NetworkLeavesDeadProfile == block = "network" => DeadProfileIsLeft

\* EndsRegistered: registration is retried until it is accepted
\* (provisioning.rs).
StationEndsRegistered == block = "provisioning" => EndsRegistered

\* CsrIsSettled: an outstanding certificate request is answered or resent
\* (run_sign_certificate_retries).
CertificateCsrIsSettled == block = "certificate" => CsrIsSettled

\* Retries: registration is retried until it is accepted, and an outstanding
\* certificate request is answered or resent.
RetriesEnd == StationEndsRegistered /\ CertificateCsrIsSettled

\* Timers: small clock corrections never add up to a step nobody reported, and
\* a certificate request is resent no more often than configured
\* (provisioning.rs, certificates.rs).
TimersAreBounded ==
    ProvTypeOK /\ StepsNotDrift /\ CertTypeOK /\ ResendsAreBounded

=============================================================================
