---------------------------- MODULE NetworkSwitch ----------------------------
(***************************************************************************)
(* Where the CSMS connection is dialled: the stored network profiles       *)
(* (network_profile.rs, security_profile.rs), the redial target with its   *)
(* rollback of an address, a TLS configuration and a Basic password        *)
(* (network_switch.rs, basic_auth_credential.rs), and the task that moves  *)
(* the connection when the selected profile changes.                       *)
(*                                                                         *)
(* A dial is three steps, because switch_to, stage_tls_config and rotate   *)
(* may run between them: the address is read, then the TLS configuration   *)
(* and password after the jitter, then the outcome is recorded.            *)
(***************************************************************************)
EXTENDS Integers, Sequences, FiniteSets, SequencesExt

CONSTANTS
    Origin,          \* the address the connection was started on
    Elsewhere,       \* addresses a network profile may name
    Reachable,       \* the addresses a CSMS answers on
    Slots,           \* configuration slots a CSMS writes
    MaxSlots,        \* StateLimits::max_network_profile_slots
    Attempts,        \* values of NetworkProfileConnectionAttempts
    ActiveSecurity,  \* SecurityCtrlr.SecurityProfile, 1..3
    AllowDowngrade,  \* SecurityCtrlr.AllowSecurityProfileDowngrade
    MaxWrites,       \* bound: CSMS writes in a behaviour
    NoAddress

ASSUME NetAssumption ==
    /\ Reachable \subseteq Elsewhere \cup {Origin}
    /\ Origin \in Reachable \ Elsewhere
    /\ Slots \subseteq Int
    /\ MaxSlots \in Nat /\ MaxWrites \in Nat
    /\ Attempts \subseteq 0 .. 3 /\ Attempts \ {0} # {}
    /\ ActiveSecurity \in 1 .. 3 /\ AllowDowngrade \in BOOLEAN
    /\ NoAddress \notin Elsewhere \cup {Origin}

Addresses == Elsewhere \cup {Origin}
TlsConfigs == {"good", "bad"}
Passwords == {"old", "new"}

VARIABLES
    netProfiles,   \* slot |-> the stored profile's address, or NoAddress
    priority,   \* NetworkConfigurationPriority
    target,     \* Inner: where the next dial goes and what it may roll back
    password,   \* the StoredBasicAuthPassword record in the KeyStore
    dial,       \* the redial in progress
    link,       \* the address the live connection is on, or NoAddress
    switcher,   \* run_network_profile_switching: watching, or in its grace
    network,      \* the network is down; the password the CSMS accepts
    netPast        \* what happened: proven addresses, confounded outcomes, writes

netVars == <<netProfiles, priority, target, password, dial, link, switcher,
             network, netPast>>

Unproven(t, p) ==
    {k \in {"address", "tls", "password"} :
        CASE k = "address"  -> t.fallback # NoAddress
          [] k = "tls"      -> t.pendingTls # "none"
          [] k = "password" -> p.previous # "none"}

-----------------------------------------------------------------------------
\* SecurityProfileChange::evaluate: raising is always allowed, dropping to
\* profile 1 never, 3 -> 2 only where the operator opted in.
ChangeAllowed(proposed) ==
    /\ proposed \in 1 .. 3
    /\ \/ proposed >= ActiveSecurity
       \/ proposed # 1 /\ AllowDowngrade

OccupiedSlots == {s \in DOMAIN netProfiles : netProfiles[s] # NoAddress}

\* selected_profile: the first slot of the priority order that holds one.
SelectedAddress(ps, order) ==
    LET held == {i \in 1 .. Len(order) :
                    order[i] \in DOMAIN ps /\ ps[order[i]] # NoAddress}
    IN  IF held = {} THEN NoAddress
        ELSE ps[order[CHOOSE i \in held : \A j \in held : i <= j]]

\* m is tried before n: it comes first in the order, or neither is in it and it
\* is the lower slot (NetworkProfileStore::slots is sorted).
Precedes(order, m, n) ==
    \/ \E i \in DOMAIN order : order[i] = m /\ \A j \in 1 .. i : order[j] # n
    \/ m < n /\ \A i \in DOMAIN order : order[i] \notin {m, n}

\* refresh_network_configuration_priority "appends, never reorders": slots with
\* nothing in them are dropped from the order, and occupied ones missing from it
\* come last.
RefreshPriority(order, ps) ==
    LET occupied == {s \in DOMAIN ps : ps[s] # NoAddress}
        Rank(s)  == Cardinality({m \in occupied : Precedes(order, m, s)})
    IN  [i \in 1 .. Cardinality(occupied) |-> CHOOSE s \in occupied : Rank(s) = i - 1]

CountWrite == netPast' = [netPast EXCEPT !.writes = @ + 1]

\* handle_set_network_profile, and NetworkProfileSet.
SetNetworkProfile ==
    \E slot \in Slots, url \in Elsewhere, security \in 0 .. 3, soap \in BOOLEAN :
        /\ link # NoAddress /\ netPast.writes < MaxWrites
        /\ slot >= 0 /\ ~soap
        /\ ChangeAllowed(security)
        /\ netProfiles[slot] # NoAddress \/ Cardinality(OccupiedSlots) < MaxSlots
        /\ netProfiles' = [netProfiles EXCEPT ![slot] = url]
        /\ priority' = RefreshPriority(priority, netProfiles')
        /\ CountWrite
        /\ UNCHANGED <<target, password, dial, link, switcher, network>>

Orders == {<<s>> : s \in Slots} \cup {o \in Slots \X Slots : o[1] # o[2]}

\* A CSMS writes NetworkConfigurationPriority.
SetPriority ==
    \E order \in Orders :
        /\ link # NoAddress /\ netPast.writes < MaxWrites
        /\ priority' = order /\ order # priority
        /\ CountWrite
        /\ UNCHANGED <<netProfiles, target, password, dial, link, switcher, network>>

-----------------------------------------------------------------------------
\* A write that lands while a dial is under way: its outcome will be credited
\* to a candidate the dial never tried.
MidDial == dial.pc # "idle"

SwitchForgetsOrigin(t, address) ==
    [t EXCEPT !.fallback = NoAddress, !.active = address, !.failures = 0]

\* ConnectionTarget::switch_to.  Only the first of several unproven switches
\* captures a fallback, and going back to the fallback is a rollback.
SwitchTo(t, address) ==
    LET kept == IF t.fallback = NoAddress THEN t.active ELSE t.fallback
    IN  [t EXCEPT !.fallback = IF kept = address THEN NoAddress ELSE kept,
                  !.active = address,
                  !.failures = 0]

\* One pass of run_network_profile_switching: take the connection attempts
\* that are in force (zero is ignored), and switch if the selected profile
\* names another address.  dials_before is the count at this moment, so
\* `redialled` is whether the count moved since.
SwitchPass ==
    /\ switcher.pc = "watching"
    /\ LET selected == SelectedAddress(netProfiles, priority)
       IN  /\ selected # NoAddress /\ selected # target.active
           /\ target' = SwitchTo(target, selected)
           /\ netPast' = [netPast EXCEPT !.confounded = @ \/ MidDial]
    /\ switcher' = [pc |-> "grace", redialled |-> FALSE]
    /\ UNCHANGED <<netProfiles, priority, password, dial, link, network>>

\* The CSMS writes NetworkProfileConnectionAttempts and the task picks it up.
SetAttempts ==
    /\ switcher.pc = "watching" /\ link # NoAddress /\ netPast.writes < MaxWrites
    /\ \E n \in Attempts \ {0, target.attempts} :
          target' = [target EXCEPT !.attempts = n]
    /\ CountWrite
    /\ UNCHANGED <<netProfiles, priority, password, dial, link, switcher, network>>

\* SWITCH_GRACE_SECS have passed: abandon the connection unless a redial has
\* already gone through the new target.
GraceOver ==
    /\ switcher.pc = "grace"
    /\ link' = IF switcher.redialled THEN link ELSE NoAddress
    /\ switcher' = [switcher EXCEPT !.pc = "watching"]
    /\ UNCHANGED <<netProfiles, priority, target, password, dial, network, netPast>>

\* stage_tls_config, after the installed CSMS roots changed.  The request came
\* over the connection, but its handler may end after the connection fell.
StageTls ==
    \E config \in TlsConfigs :
        /\ netPast.writes < MaxWrites
        /\ target' = [target EXCEPT !.pendingTls = config, !.tlsFailures = 0]
        /\ netPast' = [netPast EXCEPT !.confounded = @ \/ MidDial, !.writes = @ + 1]
        /\ UNCHANGED <<netProfiles, priority, password, dial, link, switcher, network>>

\* basic_auth_credential::rotate.  The CSMS means to accept the new password
\* from then on, but may have got it wrong and still want the old one.
RotatePassword ==
    /\ netPast.writes < MaxWrites
    /\ password.current = "old"
    /\ password' = [current |-> "new", previous |-> password.current]
    /\ network' \in [down : {network.down}, accepts : Passwords]
    /\ netPast' = [netPast EXCEPT !.confounded = @ \/ MidDial, !.writes = @ + 1]
    /\ UNCHANGED <<netProfiles, priority, target, dial, link, switcher>>

-----------------------------------------------------------------------------
\* dial_parameters: the address this attempt goes to.
DialBegins ==
    /\ link = NoAddress /\ dial.pc = "idle"
    /\ dial' = [pc |-> "jitter", address |-> target.active,
                tls |-> "none", password |-> "none"]
    /\ UNCHANGED <<netProfiles, priority, target, password, link, switcher, network,
                   netPast>>

\* After the jitter: read the password (origin only) and the TLS
\* configuration, count the dial, and open the transport.
DialConnects ==
    /\ dial.pc = "jitter"
    /\ dial' = [dial EXCEPT
          !.pc = "connecting",
          !.tls = IF target.pendingTls # "none" THEN target.pendingTls
                  ELSE target.tls,
          !.password = IF dial.address = Origin THEN password.current ELSE "none"]
    /\ switcher' = [switcher EXCEPT !.redialled = TRUE]
    /\ UNCHANGED <<netProfiles, priority, target, password, link, network, netPast>>

CsmsAnswers ==
    /\ ~network.down
    /\ dial.address \in Reachable
    /\ dial.tls = "good"
    /\ dial.address = Origin => dial.password = network.accepts

\* record_success: the active address and a staged TLS configuration are
\* proven, and at the origin the password is confirmed.
DialSucceeded(t) ==
    [t EXCEPT !.fallback = NoAddress, !.failures = 0,
              !.tls = IF t.pendingTls # "none" THEN t.pendingTls ELSE t.tls,
              !.pendingTls = "none", !.tlsFailures = 0, !.credentialFailures = 0]

DialSucceeds ==
    /\ dial.pc = "connecting" /\ CsmsAnswers
    /\ target' = DialSucceeded(target)
    /\ password' = IF dial.address = Origin
                   THEN [password EXCEPT !.previous = "none"] ELSE password
    /\ link' = dial.address
    /\ dial' = [dial EXCEPT !.pc = "idle"]
    /\ netPast' = [netPast EXCEPT !.proven = @ \cup {dial.address}]
    /\ UNCHANGED <<netProfiles, priority, switcher, network>>

\* Failures are counted as far as a number of attempts may ask for.
AddOneUpTo3(n) == IF n < 3 THEN n + 1 ELSE n

NeverRollsBack(t, atOrigin) == [t EXCEPT !.failures = AddOneUpTo3(@)]

\* record_failure: the address, a staged TLS configuration and a password in
\* force each count the failure and give up at the same threshold.
DialFailed(t, atOrigin) ==
    LET failures    == AddOneUpTo3(t.failures)
        tlsFailures == IF t.pendingTls # "none" THEN t.tlsFailures + 1
                       ELSE t.tlsFailures
        credentials == IF atOrigin THEN t.credentialFailures + 1
                       ELSE t.credentialFailures
        dropTls     == t.pendingTls # "none" /\ tlsFailures >= t.attempts
        rollback    == failures >= t.attempts /\ t.fallback # NoAddress
    IN  [t EXCEPT !.active = IF rollback THEN t.fallback ELSE t.active,
                  !.fallback = IF rollback THEN NoAddress ELSE t.fallback,
                  !.failures = IF rollback THEN 0 ELSE failures,
                  !.pendingTls = IF dropTls THEN "none" ELSE t.pendingTls,
                  !.tlsFailures = IF dropTls THEN 0 ELSE tlsFailures,
                  !.credentialFailures =
                      IF credentials >= t.attempts THEN 0 ELSE credentials]

CredentialGivenUp(t, atOrigin) ==
    atOrigin /\ t.credentialFailures + 1 >= t.attempts

DialFails ==
    /\ dial.pc = "connecting" /\ ~CsmsAnswers
    /\ LET atOrigin == dial.address = Origin
       IN  /\ target' = DialFailed(target, atOrigin)
           /\ password' = IF CredentialGivenUp(target, atOrigin)
                             /\ password.previous # "none"
                          THEN [current |-> password.previous, previous |-> "none"]
                          ELSE password
    /\ dial' = [dial EXCEPT !.pc = "idle"]
    /\ netPast' = [netPast EXCEPT !.confounded = @
          \/ Cardinality(Unproven(target, password)) > 1
          \/ (network.down /\ Unproven(target, password) # {})
          \/ dial.address # target.active]
    /\ UNCHANGED <<netProfiles, priority, link, switcher, network>>

\* The connection is lost, or the network goes and comes back.
LinkDrops ==
    /\ link # NoAddress /\ link' = NoAddress
    /\ UNCHANGED <<netProfiles, priority, target, password, dial, switcher, network,
                   netPast>>

Outage ==
    /\ netPast.writes < MaxWrites /\ ~network.down
    /\ network' = [network EXCEPT !.down = TRUE]
    /\ link' = NoAddress
    /\ CountWrite
    /\ UNCHANGED <<netProfiles, priority, target, password, dial, switcher>>

Restore ==
    /\ network.down
    /\ network' = [network EXCEPT !.down = FALSE]
    /\ UNCHANGED <<netProfiles, priority, target, password, dial, link, switcher,
                   netPast>>

-----------------------------------------------------------------------------
NetInit ==
    /\ netProfiles = [s \in {s \in Slots : s >= 0} |-> NoAddress]
    /\ priority = <<0>>
    /\ target = [active |-> Origin, fallback |-> NoAddress, failures |-> 0,
                 tls |-> "good", pendingTls |-> "none", tlsFailures |-> 0,
                 credentialFailures |-> 0,
                 attempts |-> CHOOSE n \in Attempts \ {0} :
                                \A m \in Attempts \ {0} : n >= m]
    /\ password = [current |-> "old", previous |-> "none"]
    /\ dial = [pc |-> "idle", address |-> Origin, tls |-> "none", password |-> "none"]
    /\ link = Origin
    /\ switcher = [pc |-> "watching", redialled |-> FALSE]
    /\ network = [down |-> FALSE, accepts |-> "old"]
    /\ netPast = [proven |-> {Origin}, confounded |-> FALSE, writes |-> 0]

NetNext ==
    \/ SetNetworkProfile \/ SetPriority \/ SetAttempts
    \/ StageTls \/ RotatePassword
    \/ SwitchPass \/ GraceOver
    \/ DialBegins \/ DialConnects \/ DialSucceeds \/ DialFails
    \/ LinkDrops \/ Outage \/ Restore

DialSteps == DialBegins \/ DialConnects \/ DialSucceeds \/ DialFails

NetSpec == NetInit /\ [][NetNext]_netVars

-----------------------------------------------------------------------------
NetTypeOK ==
    /\ netProfiles \in [{s \in Slots : s >= 0} -> Elsewhere \cup {NoAddress}]
    /\ Cardinality(OccupiedSlots) <= MaxSlots
    /\ IsInjective(priority) /\ \A i \in DOMAIN priority : priority[i] \in Slots \cup {0}
    /\ target.active \in Addresses
    /\ target.fallback \in (Addresses \cup {NoAddress}) \ {target.active}
    /\ target.failures \in 0 .. 3
    /\ target.tlsFailures \in Nat /\ target.credentialFailures \in Nat
    /\ target.tls \in TlsConfigs /\ target.pendingTls \in TlsConfigs \cup {"none"}
    /\ password.current \in Passwords /\ password.previous \in Passwords \cup {"none"}
    /\ link \in Addresses \cup {NoAddress}
    /\ dial.pc \in {"idle", "jitter", "connecting"}
    /\ link # NoAddress => dial.pc = "idle"

\* network_switch.rs on Inner::fallback: "`None` means `active` is itself
\* proven (or is the original address, which the initial dial proved)".
NoFallbackMeansProven ==
    target.fallback = NoAddress => target.active \in netPast.proven

\* As long as every dial's outcome bore on at most one unproven change, no
\* sequence of profile, trust and password writes leaves the station without
\* a way back: an unproven address has a proven fallback, the confirmed TLS
\* configuration works, and the password the CSMS accepts is still stored.
Recoverable ==
    ~netPast.confounded =>
        /\ target.active \in netPast.proven \/ target.fallback \in netPast.proven
        /\ target.tls = "good"
        /\ network.accepts \in {password.current, password.previous}

\* The same, as progress: if nothing confounds the outcomes and the selected
\* profile, if any, names a CSMS that can be reached, the connection is always
\* up again (run_network_profile_switching, dial).
ComesBack ==
    /\ [](~netPast.confounded)
    /\ <>[](SelectedAddress(netProfiles, priority) \in Reachable \cup {NoAddress})
    => []<>(link # NoAddress)

\* network_switch.rs, "Rollback": "A profile the CSMS wrote may simply not work
\* [...] So the target remembers where it came from and reverts": whatever was
\* written, the charge point does not stay unreachable.
DeadProfileIsLeft ==
    [](~netPast.confounded) => []<>(link # NoAddress)

\* The target: whatever it dials, it can still come back to what last worked
\* (network_switch.rs, basic_auth_credential.rs).
TargetIsRecoverable == NetTypeOK /\ Recoverable

=============================================================================
