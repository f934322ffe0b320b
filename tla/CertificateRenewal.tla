------------------------- MODULE CertificateRenewal -------------------------
(***************************************************************************)
(* Renewing the station's own certificate (certificates.rs,                *)
(* certificate_renewal.rs), for one signing purpose.  Two loops ask the    *)
(* CSMS to sign: the expiry sweep, and the one that resends a request the  *)
(* CSMS accepted and never answered, on a doubling back-off that stops.    *)
(* The answer, CertificateSigned, is a message of its own: it can come     *)
(* before the station knows its request was accepted, after a resend, or   *)
(* not at all.  Storage operations of one call are one step.               *)
(***************************************************************************)
EXTENDS Integers

CONSTANTS
    WaitMinimum, RepeatTimes,   \* SecurityCtrlr.CertSigningWaitMinimum, -RepeatTimes
    MaxAsked, MaxTriggers       \* bounds: requests sent, TriggerMessages

ASSUME RenewalAssumption ==
    /\ WaitMinimum \in Nat \ {0} /\ RepeatTimes \in Nat \ {0}
    /\ MaxAsked \in Nat /\ MaxTriggers \in Nat

VARIABLES
    slot,       \* RenewalStore: the key on file and the stashed certificate
    installed,  \* the certificate in the store
    overdue,    \* whether the sweep finds it due for renewal
    pending,    \* PendingSignRequests, this purpose
    askers,     \* the two loops: what each is waiting for
    csrs,       \* requests the CSMS holds and has not answered
    asked, triggered,
    resent      \* ghost: resends since the back-off was last armed

certVars == <<slot, installed, overdue, pending, askers, csrs, asked, triggered, resent>>

NoKey    == 0
Factory  == [req |-> 0, key |-> NoKey, good |-> TRUE]
NoBackup == [req |-> 0 - 1, key |-> NoKey, good |-> FALSE]
NoCsr    == [req |-> 0, waited |-> 0, resends |-> 0]
AtEase   == [pc |-> "idle", req |-> 0, key |-> NoKey]
Askers   == {"sweep", "retry"}

CertInit ==
    /\ slot = [key |-> NoKey, backup |-> NoBackup]
    /\ installed = Factory /\ overdue = TRUE
    /\ pending = NoCsr
    /\ askers = [a \in Askers |-> AtEase]
    /\ csrs = {} /\ asked = 0 /\ triggered = 0 /\ resent = 0

\* renew_certificate up to the request: under the key on file, or a new one
\* when there is none yet (a key is named after the request it was made for).
Ask(a) ==
    /\ askers[a] = AtEase
    /\ asked < MaxAsked
    /\ asked' = asked + 1
    /\ askers' = [askers EXCEPT ![a] =
          [pc |-> "asking", req |-> asked + 1,
           key |-> IF slot.key = NoKey THEN asked + 1 ELSE slot.key]]

\* run_certificate_renewal: the certificate in place is stashed first, if a key
\* is on file.
Sweep ==
    /\ overdue
    /\ Ask("sweep")
    /\ slot' = IF slot.key = NoKey THEN slot ELSE [slot EXCEPT !.backup = installed]
    /\ UNCHANGED <<installed, overdue, pending, csrs, triggered, resent>>

\* SignCertificateRetryPolicy::back_off_secs, in ticks.
BackOff(resends) == WaitMinimum * 2^resends

\* due_for_resend on one tick of run_sign_certificate_retries: the time
\* accumulates until the back-off expires, which counts as a resend.
Waited == pending.waited + 1

Expired == Waited >= BackOff(pending.resends)

MayResend == pending.resends < RepeatTimes

RetryTick ==
    /\ pending.req # 0 /\ MayResend
    /\ askers["retry"] = AtEase
    /\ IF Expired
       THEN /\ Ask("retry")
            /\ pending' = [pending EXCEPT !.waited = 0, !.resends = @ + 1]
            /\ resent' = resent + 1
       ELSE /\ pending' = [pending EXCEPT !.waited = Waited]
            /\ UNCHANGED <<askers, asked, resent>>
    /\ UNCHANGED <<slot, installed, overdue, csrs, triggered>>

\* The request reaches the CSMS, which may then answer it whenever it likes.
CsmsTakes(a) ==
    /\ askers[a].pc = "asking"
    /\ askers' = [askers EXCEPT ![a].pc = "taken"]
    /\ csrs' = csrs \union {[req |-> askers[a].req, key |-> askers[a].key]}
    /\ UNCHANGED <<slot, installed, overdue, pending, asked, triggered, resent>>

\* Rejected, or an error on the way, leaves everything as it was - also when
\* only the answer was lost and the CSMS holds the request.
AskFails(a) ==
    /\ askers[a].pc \in {"asking", "taken"}
    /\ askers' = [askers EXCEPT ![a] = AtEase]
    /\ UNCHANGED <<slot, installed, overdue, pending, csrs, asked, triggered, resent>>

\* PendingSignRequests::record_sent: the count of resends survives.
RecordSentAnew(req) == [req |-> req, waited |-> 0, resends |-> 0]

RecordSent(req) == [req |-> req, waited |-> 0, resends |-> pending.resends]

Accepted(a) ==
    /\ askers[a].pc = "taken"
    /\ pending' = RecordSent(askers[a].req)
    /\ askers' = [askers EXCEPT ![a].pc = "recording"]
    /\ UNCHANGED <<slot, installed, overdue, csrs, asked, triggered, resent>>

\* record_key_pair keeps the backup.  A write that fails is logged.
RecordKeyPair(a, ok) ==
    /\ askers[a].pc = "recording"
    /\ slot' = IF ok THEN [slot EXCEPT !.key = askers[a].key] ELSE slot
    /\ askers' = [askers EXCEPT ![a] = AtEase]
    /\ UNCHANGED <<installed, overdue, pending, csrs, asked, triggered, resent>>

\* handle_certificate_signed: only the newest accepted request is answered; the
\* store may refuse the chain after the request was struck off.
Solicited(csr) == pending.req = csr.req

CertificateSigned(csr, ok, good) ==
    /\ csrs' = csrs \ {csr}
    /\ IF Solicited(csr)
       THEN /\ pending' = NoCsr /\ resent' = 0
            /\ installed' = IF ok THEN [req |-> csr.req, key |-> csr.key, good |-> good]
                            ELSE installed
            /\ overdue' = IF ok THEN FALSE ELSE overdue
       ELSE UNCHANGED <<pending, resent, installed, overdue>>
    /\ UNCHANGED <<slot, askers, asked, triggered>>

\* TriggerMessage: the back-off starts again, if a request is outstanding.
Restart ==
    /\ triggered < MaxTriggers /\ pending.req # 0
    /\ triggered' = triggered + 1
    /\ pending' = [pending EXCEPT !.waited = 0, !.resends = 0]
    /\ resent' = 0
    /\ UNCHANGED <<slot, installed, overdue, askers, csrs, asked>>

\* The first connection with the new certificate settles it.
ConfirmRenewal ==
    /\ installed.good /\ slot.backup # NoBackup
    /\ slot' = [slot EXCEPT !.backup = NoBackup]
    /\ UNCHANGED <<installed, overdue, pending, askers, csrs, asked, triggered, resent>>

DiscardRenewal ==
    /\ ~installed.good /\ slot.backup # NoBackup
    /\ slot' = [slot EXCEPT !.backup = NoBackup]
    /\ installed' = slot.backup
    /\ overdue' = TRUE
    /\ UNCHANGED <<pending, askers, csrs, asked, triggered, resent>>

\* The CSMS loses a request it had accepted.
CsmsForgets(csr) ==
    /\ csrs' = csrs \ {csr}
    /\ UNCHANGED <<slot, installed, overdue, pending, askers, asked, triggered, resent>>

AskerSteps(a) ==
    \/ CsmsTakes(a) \/ AskFails(a) \/ Accepted(a)
    \/ \E ok \in BOOLEAN : RecordKeyPair(a, ok)

CertNext ==
    \/ Sweep \/ RetryTick
    \/ \E a \in Askers : AskerSteps(a)
    \/ \E csr \in csrs : \/ CsmsForgets(csr)
                         \/ \E ok, good \in BOOLEAN : CertificateSigned(csr, ok, good)
    \/ Restart \/ ConfirmRenewal \/ DiscardRenewal

CertSpec == CertInit /\ [][CertNext]_certVars

-----------------------------------------------------------------------------
\* Requests, keys and certificates are the ones that were asked for.
CertTypeOK ==
    /\ slot.key \in 0..asked /\ installed.req \in 0..asked
    /\ pending.req \in 0..asked /\ pending.resends \in 0..RepeatTimes
    /\ pending.waited \in 0..BackOff(RepeatTimes)
    /\ \A csr \in csrs : csr.req \in 1..asked /\ csr.key \in 1..csr.req

\* CertSigningRepeatTimes really stops the resends (A02.FR.19): whatever the
\* CSMS takes, refuses or forgets, and although every resend is recorded like
\* a first request, no more than that many go out until the CSMS answers or a
\* TriggerMessage asks again (record_sent, due_for_resend).
ResendsAreBounded == resent <= RepeatTimes

\* Every outstanding request is answered, or resent until the limit: the
\* back-off cannot wait for ever (run_sign_certificate_retries).
CsrIsSettled ==
    pending.req # 0 ~> \/ pending.req = 0
                       \/ pending.resends = RepeatTimes
                       \/ asked = MaxAsked

\* "Before requesting, stashes the currently-installed certificate on
\* renewals": a renewed certificate that does not work can be taken back.
RenewalCanBeUndone == ~installed.good => slot.backup # NoBackup
=============================================================================
