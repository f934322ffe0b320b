--------------------------- MODULE Authorization ---------------------------
(***************************************************************************)
(* The Authorization functional block of src/authorization.rs beside the   *)
(* actor: one task takes the authorization requests the state machine      *)
(* raises, in order, decides each one (CSMS, local list, cache), remembers *)
(* what the CSMS said and sends the verdict back as a connector event.     *)
(* Everything else goes on between its steps: the request may be stale by  *)
(* the time it is decided, and the settings may have changed.              *)
(***************************************************************************)
EXTENDS ChargePointState

CONSTANTS Switches,     \* settings of AuthCtrlr and AuthCacheCtrlr to choose from
          LocalLists,   \* local authorization lists the CSMS may install
          CacheSize,    \* bound of the cache, max_entries
          MaxAsks,      \* bound: authorization requests ever raised
          MaxTime       \* bound: the clock

VARIABLES requests,   \* the broadcast channel's queue, unbounded in the code
          auth,       \* the task: where it is and what it works on
          cache,      \* AuthorizationCache, oldest entry first
          list,       \* LocalAuthorizationList
          switches,   \* the device-model settings the decisions read
          clock,      \* the wall clock, None while it is not synchronized
          asked,      \* history: requests raised so far
          csmsSaid,   \* history: the CSMS's latest answer per identifier
          granted     \* history: identifiers some decision accepted

taskVars    == <<requests, auth>>
stationVars == <<cache, list, switches, clock>>
history     == <<asked, csmsSaid, granted>>
authVars    == <<vars, taskVars, stationVars, history>>

Statuses == {"Accepted", "Rejected"}

AuthSwitches ==
    [localAuthorizeOffline : BOOLEAN,   \* AuthCtrlr.LocalAuthorizeOffline
     unknownIdOffline      : BOOLEAN,   \* AuthCtrlr.OfflineTxForUnknownIdEnabled
     disableRemote         : BOOLEAN,   \* AuthCtrlr.DisableRemoteAuthorization
     cacheEnabled          : BOOLEAN,   \* AuthCacheCtrlr.Enabled
     lifeTime              : Nat]       \* AuthCacheCtrlr.LifeTime, 0 for ever

Lists    == [IdTokens -> Option(Statuses)]
Requests == [connector : Connectors, token : IdTokens, contract : BOOLEAN]
Entries  == [token : IdTokens, status : Statuses, cachedAt : Option(Nat)]

ASSUME AuthAssumption ==
    /\ Switches \subseteq AuthSwitches /\ LocalLists \subseteq Lists
    /\ CacheSize \in Nat \ {0} /\ MaxAsks \in Nat /\ MaxTime \in Nat

\* The task waits for a request; has one; waits for the CSMS's reply; has a
\* reply to remember; has a verdict to send.
Places == {"idle", "received", "asking", "caching", "answering"}

Idle == [pc |-> "idle", request |-> None, now |-> None, verdict |-> None]

-----------------------------------------------------------------------------
(* AuthorizationCache. *)

\* The entries of every other identifier, in their order.
Others(entries, token) ==
    LET kept[n \in 0..Len(entries)] ==
            IF n = 0 THEN <<>>
            ELSE IF entries[n].token = token THEN kept[n - 1]
            ELSE Append(kept[n - 1], entries[n])
    IN kept[Len(entries)]

\* One entry per identifier, the oldest ones making room.
Remember(entries, token, status, now) ==
    LET others == Others(entries, token)
        room   == IF Len(others) < CacheSize THEN others
                  ELSE SubSeq(others, Len(others) - CacheSize + 2, Len(others))
    IN Append(room, [token |-> token, status |-> status, cachedAt |-> now])

\* An entry of unknown age, or read without a clock, never expires.
IsExpired(entry, now) ==
    /\ entry.cachedAt # None /\ now # None /\ switches.lifeTime # 0
    /\ now - entry.cachedAt >= switches.lifeTime

\* The status of the first entry of the identifier, None if there is none or
\* it has expired.
Lookup(token, now) ==
    LET found == {i \in 1..Len(cache) : cache[i].token = token}
        first == CHOOSE i \in found : \A j \in found : i <= j
    IN IF found = {} THEN None
       ELSE IF IsExpired(cache[first], now) THEN None
       ELSE cache[first].status

-----------------------------------------------------------------------------
(* The decisions taken without the CSMS. *)

\* The list outranks the cache; what neither knows is up to the caller.
LocalDecision(token, now, unknown) ==
    IF list[token] # None THEN list[token]
    ELSE IF ~switches.cacheEnabled THEN "Rejected"
    ELSE IF Lookup(token, now) # None THEN Lookup(token, now)
    ELSE unknown

LocalOnlyDecision(token, now) == LocalDecision(token, now, "Rejected")

\* Mutant: an identifier nobody knows is let in.
OfflineAcceptsUnknown(token, now) ==
    IF switches.localAuthorizeOffline
      THEN LocalDecision(token, now, "Accepted") ELSE "Rejected"

OfflineDecision(token, now) ==
    IF ~switches.localAuthorizeOffline THEN "Rejected"
    ELSE LocalDecision(token, now,
                       IF switches.unknownIdOffline THEN "Accepted"
                       ELSE "Rejected")

\* ContractAuthorization::accepted: the identifier, and the certificate if the
\* CSMS has an opinion on it.
ContractAccepted(status, certificate) ==
    status = "Accepted" /\ certificate \in {None, "Accepted"}

-----------------------------------------------------------------------------
(* The actor's side. *)

\* What the event just applied asks; only an event addressed to one connector
\* ever asks anything.
Asked ==
    IF \A c \in Connectors : out'.conn[c].asks = <<>> THEN <<>>
    ELSE LET c == CHOOSE c \in Connectors : out'.conn[c].asks # <<>>
         IN [i \in 1..Len(out'.conn[c].asks) |->
                [connector |-> c, token |-> out'.conn[c].asks[i].token,
                 contract |-> out'.conn[c].asks[i].contract]]

\* The requests the event raises join the queue.
Raise ==
    /\ requests' = requests \o Asked
    /\ asked' = asked + Len(Asked)

\* The environment's event.
ActorEvent ==
    /\ Next
    /\ Raise
    /\ asked' <= MaxAsks
    /\ UNCHANGED <<auth, stationVars, csmsSaid, granted>>

-----------------------------------------------------------------------------
(* The task, run_authorization_requests. *)

Decide(verdict) ==
    /\ auth' = [auth EXCEPT !.pc = "answering", !.verdict = verdict]
    /\ granted' = IF verdict = "Accepted"
                    THEN granted \cup {auth.request.token} ELSE granted

\* The next request.  The clock is read here, before anything is awaited.
Receive ==
    /\ auth.pc = "idle" /\ requests # <<>>
    /\ requests' = Tail(requests)
    /\ auth' = [Idle EXCEPT !.pc = "received", !.request = Head(requests),
                            !.now = clock]
    /\ UNCHANGED <<vars, stationVars, history>>

\* The CSMS must not be asked: a card is decided locally, a contract refused.
DecideLocally ==
    /\ auth.pc = "received" /\ switches.disableRemote
    /\ Decide(IF auth.request.contract THEN "Rejected"
              ELSE LocalOnlyDecision(auth.request.token, auth.now))
    /\ UNCHANGED <<vars, requests, stationVars, asked, csmsSaid>>

\* The CSMS may be asked, as far as the settings say now.
Ask ==
    /\ auth.pc = "received" /\ ~switches.disableRemote
    /\ auth' = [auth EXCEPT !.pc = "asking"]
    /\ UNCHANGED <<vars, requests, stationVars, history>>

\* The CSMS answers; a contract's answer has two halves.
CsmsAnswers ==
    /\ auth.pc = "asking"
    /\ \E status \in Statuses, certificate \in Option(Statuses) :
         /\ ~auth.request.contract => certificate = None
         /\ LET verdict == IF ContractAccepted(status, certificate)
                             THEN "Accepted" ELSE "Rejected"
            IN /\ auth' = [auth EXCEPT !.pc = "caching", !.verdict = verdict]
               /\ csmsSaid' = [csmsSaid EXCEPT ![auth.request.token] = verdict]
    /\ UNCHANGED <<vars, requests, stationVars, asked, granted>>

\* The call fails: a card falls back offline, a contract cannot.
CsmsUnreachable ==
    /\ auth.pc = "asking"
    /\ Decide(IF auth.request.contract THEN "Rejected"
              ELSE OfflineDecision(auth.request.token, auth.now))
    /\ UNCHANGED <<vars, requests, stationVars, asked, csmsSaid>>

\* Acceptance and rejection alike, whether or not the cache is enabled.
CacheDecision ==
    /\ auth.pc = "caching"
    /\ cache' = Remember(cache, auth.request.token, auth.verdict, auth.now)
    /\ Decide(auth.verdict)
    /\ UNCHANGED <<vars, requests, list, switches, clock, asked, csmsSaid>>

\* The verdict as the connector event it becomes.
VerdictEvent(request, verdict) ==
    IF verdict = "Accepted"
      THEN [type |-> "ChargingAuthorized", token |-> request.token]
      ELSE [type |-> "AuthorizationDenied"]

\* Mutant: a refusal is not reported back.
AnswerAcceptances ==
    /\ auth.pc = "answering"
    /\ IF auth.verdict = "Accepted"
         THEN Step([type |-> "Connector", connector |-> auth.request.connector,
                    event |-> VerdictEvent(auth.request, auth.verdict)])
         ELSE UNCHANGED vars
    /\ auth' = Idle
    /\ Raise
    /\ UNCHANGED <<stationVars, csmsSaid, granted>>

\* The actor applies it like any other event, whatever the connector is doing
\* by now.
Answer ==
    /\ auth.pc = "answering"
    /\ Step([type |-> "Connector", connector |-> auth.request.connector,
             event |-> VerdictEvent(auth.request, auth.verdict)])
    /\ auth' = Idle
    /\ Raise
    /\ UNCHANGED <<stationVars, csmsSaid, granted>>

-----------------------------------------------------------------------------
(* What the CSMS, the operator and time do to the inputs of a decision. *)

\* handle_clear_cache, when caching is on.
ClearCache ==
    /\ switches.cacheEnabled /\ cache # <<>>
    /\ cache' = <<>>
    /\ UNCHANGED <<vars, taskVars, list, switches, clock, history>>

\* CustomerInformationErased forgets an identifier in both places.
EraseCustomer(token) ==
    /\ cache' = Others(cache, token)
    /\ list' = [list EXCEPT ![token] = None]
    /\ <<cache, list>>' # <<cache, list>>
    /\ UNCHANGED <<vars, taskVars, switches, clock, history>>

\* LocalListUpdated.
InstallList ==
    /\ list' \in LocalLists \ {list}
    /\ UNCHANGED <<vars, taskVars, cache, switches, clock, history>>

\* SetVariables on the two controllers.
SetSwitches ==
    /\ switches' \in Switches \ {switches}
    /\ UNCHANGED <<vars, taskVars, cache, list, clock, history>>

\* The clock is synchronized once, and runs from then on.
Tick ==
    /\ clock' = IF clock = None THEN 0 ELSE clock + 1
    /\ clock' <= MaxTime
    /\ UNCHANGED <<vars, taskVars, cache, list, switches, history>>

-----------------------------------------------------------------------------
AuthInit ==
    /\ Init
    /\ requests = <<>> /\ auth = Idle /\ cache = <<>>
    /\ list \in LocalLists /\ switches \in Switches /\ clock = None
    /\ asked = 0 /\ csmsSaid = [t \in IdTokens |-> None] /\ granted = {}

Task == Receive \/ DecideLocally \/ Ask \/ CsmsAnswers \/ CsmsUnreachable
        \/ CacheDecision \/ Answer

AuthNext ==
    \/ ActorEvent
    \/ Task
    \/ ClearCache
    \/ \E token \in IdTokens : EraseCustomer(token)
    \/ InstallList
    \/ SetSwitches
    \/ Tick

\* The executor polls the task and every one of its awaits returns: a call to
\* the CSMS ends in an answer or in the transport's timeout, and the actor
\* acknowledges the verdict.
AuthSpec ==
    /\ AuthInit /\ [][AuthNext]_authVars
    /\ WF_authVars(Receive) /\ []<>(auth.pc = "idle")

-----------------------------------------------------------------------------
(* Properties. *)

\* The cache holds whole entries within its bound and the task is always at one
\* of its await points.
AuthTypeOK ==
    /\ requests \in Seq(Requests) /\ cache \in Seq(Entries)
    /\ Len(cache) <= CacheSize
    /\ auth \in [pc : Places, request : Option(Requests), now : Option(Nat),
                 verdict : Option(Statuses)]
    /\ list \in Lists /\ switches \in AuthSwitches
    /\ clock \in Option(0..MaxTime) /\ asked \in Nat
    /\ csmsSaid \in [IdTokens -> Option(Statuses)] /\ granted \subseteq IdTokens

\* run_authorization_requests: "a cache that only remembered acceptances would
\* let a revoked card in every time the link drops".  Whatever the cache holds
\* for an identifier is the last thing the CSMS said about it, but for the
\* answer that is on its way into the cache.
CacheIsCurrent ==
    \A i \in 1..Len(cache) :
        \/ cache[i].status = csmsSaid[cache[i].token]
        \/ auth.pc = "caching" /\ auth.request.token = cache[i].token

\* What an acceptance rests on when it is decided: the CSMS's last word, the
\* local list, or the operator's leave to serve identifiers nobody knows.  A
\* contract is accepted by the CSMS alone.
Grounded(request) ==
    \/ csmsSaid[request.token] = "Accepted"
    \/ /\ ~request.contract
       /\ \/ list[request.token] = "Accepted"
          \/ switches.unknownIdOffline

\* authorization.rs: "'we don't know' is not 'yes'".
AcceptancesAreGrounded ==
    [][auth.pc # "answering" /\ auth'.pc = "answering"
         /\ auth'.verdict = "Accepted" => Grounded(auth'.request)]_authVars

\* A session nobody started remotely runs on an identifier that was accepted
\* first, although requests go stale, verdicts are sent to connectors that have
\* moved on, and an accepted card may be held until a cable arrives (E03).
EnergyWasGranted ==
    \A c \in Connectors :
        LET tx == cp.conn[c].tx IN
        tx # None /\ tx.token # None /\ tx.remoteStartId = None =>
            tx.token \in granted

\* authorization.rs: "erratic connectivity must not leave a connector waiting
\* indefinitely".
AuthorizingIsAnswered ==
    \A c \in Connectors :
        cp.conn[c].state = "Authorizing" ~> cp.conn[c].state # "Authorizing"

\* Identifiers: the cache holds the CSMS's last word on a card, and energy flows
\* only for an identifier somebody granted (authorization.rs).
GrantsAreCurrent == AuthTypeOK /\ CacheIsCurrent /\ EnergyWasGranted

=============================================================================
