---------------------------- MODULE Provisioning ----------------------------
(***************************************************************************)
(* Registration with the CSMS (provisioning.rs, connection.rs): every      *)
(* reconnect starts a loop that sends BootNotification until it is         *)
(* accepted, so several loops may be under way; a heartbeat task; and the  *)
(* comparison of the CSMS's clock with the station's own estimate, which   *)
(* every answer to either message takes part in.  Each loop and the        *)
(* heartbeat run sync_time on their own: the anchor is read, the report    *)
(* awaited, and only then is the anchor moved.                             *)
(***************************************************************************)
EXTENDS Integers, FiniteSets

CONSTANTS
    Loops,         \* register_until_accepted calls that may be under way
    FirstRetry,    \* FIRST_RETRY_INTERVAL_SECS
    MaxRetry,      \* DEFAULT_RETRY_INTERVAL_SECS
    StepThreshold, \* CLOCK_STEP_THRESHOLD_SECS
    Intervals,     \* values a CSMS gives HeartbeatInterval, 0 included
    MaxTicks,      \* bound: monotonic time
    MaxMoves,      \* bound: what the CSMS or the network does to us
    MaxOverlaps    \* bound: answers that arrive while another is handled

ASSUME ProvAssumption ==
    /\ IsFiniteSet(Loops) /\ Loops \subseteq Nat \ {0}
    /\ FirstRetry \in Nat \ {0} /\ MaxRetry \in Nat /\ FirstRetry <= MaxRetry
    /\ StepThreshold \in Nat \ {0, 1}
    /\ Intervals \subseteq Nat
    /\ MaxTicks \in Nat /\ MaxMoves \in Nat /\ MaxOverlaps \in Nat

VARIABLES
    regLoop,       \* each loop: where it is, its retry interval, its verdict
    registration,  \* ChargePointState::registration_status
    heartbeat,     \* the heartbeat task: where it is; its interval
    hbVariable,    \* OCPPCommCtrlr.HeartbeatInterval
    hbFallback,    \* the interval the accepted BootNotification returned
    csms,          \* reachable; its verdict; how far its clock is ahead of
                   \* ours, and whether it drifted since it last answered
    ticks,         \* the monotonic clock
    anchor,        \* ChargePointState::time_sync, or NoAnchor
    heard,         \* each caller of sync_time: the time it was given, and
                   \* whether it has compared it with the anchor
    reported,      \* SettingSystemTime events raised
    disturbed,     \* how often an answer came, or time passed, while another
                   \* answer was being handled
    moves          \* how often the CSMS's clock stepped; moves so far

provVars == <<regLoop, registration, heartbeat, hbVariable, hbFallback, csms,
              ticks, anchor, heard, reported, disturbed, moves>>
clockVars == <<anchor, heard, reported, disturbed>>

Verdicts == {"Accepted", "Pending", "Rejected"}
NoAnchor == [time |-> 0, at |-> -1]

\* The callers of sync_time.
Heart == 0
Callers == Loops \cup {Heart}

NoTime == [stage |-> "none", time |-> 0]
InHand == {a \in Callers : heard[a].stage # "none"}
Uncompared == {a \in Callers : heard[a].stage = "answered"}

CsmsTime == ticks + csms.ahead

\* local_time_estimate, and evaluate_time_sync on it: without an estimate, or
\* at the threshold, the difference is a step.
LocalEstimate == anchor.time + (ticks - anchor.at)

IsStep(time) ==
    \/ anchor = NoAnchor
    \/ time - LocalEstimate >= StepThreshold
    \/ LocalEstimate - time >= StepThreshold

\* An answer with the CSMS's currentTime reaches its caller.
Answered(a) ==
    /\ InHand # {} => disturbed < MaxOverlaps
    /\ heard' = [heard EXCEPT ![a] = [stage |-> "answered", time |-> CsmsTime]]
    /\ disturbed' = IF InHand = {} THEN disturbed ELSE disturbed + 1
    /\ csms' = [csms EXCEPT !.drifted = FALSE]
    /\ UNCHANGED <<anchor, reported>>

\* One whose currentTime does not parse takes no part in the comparison.
Unreadable == UNCHANGED <<clockVars, csms>>

Syncing(a) == IF a = Heart THEN heartbeat.pc = "syncing" ELSE regLoop[a].pc = "syncing"

\* sync_time, up to its first await: read the anchor and report a step.
Compares ==
    \E a \in Callers :
        /\ Syncing(a) /\ heard[a].stage = "answered"
        /\ heard' = [heard EXCEPT ![a].stage = "compared"]
        /\ reported' = IF IsStep(heard[a].time) THEN reported + 1 ELSE reported
        /\ UNCHANGED <<regLoop, registration, heartbeat, hbVariable, hbFallback,
                       csms, ticks, anchor, disturbed, moves>>

MovesOnlyOnStep(time) ==
    anchor' = IF IsStep(time) THEN [time |-> time, at |-> ticks] ELSE anchor

\* TimeSynced: step or not, the anchor is what the CSMS said, as of now.
MovesAnchor(time) == anchor' = [time |-> time, at |-> ticks]

Lesser(a, b) == IF a < b THEN a ELSE b

\* reregister_on_reconnect: a fresh loop.
Reregister ==
    /\ ~csms.up
    /\ \E l \in Loops :
          /\ regLoop[l].pc = "off"
          /\ regLoop' = [regLoop EXCEPT
                ![l] = [@ EXCEPT !.pc = "sending", !.retry = FirstRetry]]
    /\ csms' = [csms EXCEPT !.up = TRUE]
    /\ UNCHANGED <<registration, heartbeat, hbVariable, hbFallback, ticks,
                   clockVars, moves>>

\* register_until_accepted: the CSMS answers, and the retry interval starts over.
BootAnswered ==
    \E l \in Loops :
        /\ regLoop[l].pc = "sending" /\ csms.up
        /\ regLoop' = [regLoop EXCEPT ![l] =
              [pc |-> "applying", retry |-> FirstRetry, verdict |-> csms.verdict]]
        /\ Answered(l) \/ Unreadable
        /\ UNCHANGED <<registration, heartbeat, hbVariable, hbFallback, ticks, moves>>

EndsOnAnyAnswer(verdict) == TRUE

\* Only Accepted ends the loop.
Ends(verdict) == verdict = "Accepted"

Concluded(l) == [pc |-> IF Ends(regLoop[l].verdict) THEN "off" ELSE "waiting",
                 retry |-> regLoop[l].retry, verdict |-> "Pending"]

\* RegistrationStatusReceived: the verdict is applied whatever it says, and
\* sync_time follows when the answer held a time.
BootApplied ==
    \E l \in Loops :
        /\ regLoop[l].pc = "applying"
        /\ registration' = regLoop[l].verdict
        /\ regLoop' = [regLoop EXCEPT ![l] =
              IF heard[l].stage = "none" THEN Concluded(l) ELSE [@ EXCEPT !.pc = "syncing"]]
        /\ UNCHANGED <<heartbeat, hbVariable, hbFallback, csms, ticks, clockVars, moves>>

\* sync_time returns to its caller when the anchor has moved.
Anchored(a) ==
    /\ heard[a].stage = "compared"
    /\ MovesAnchor(heard[a].time)
    /\ heard' = [heard EXCEPT ![a] = NoTime]
    /\ UNCHANGED <<registration, hbVariable, hbFallback, csms, ticks, reported,
                   disturbed, moves>>

BootAnchors ==
    \E l \in Loops :
        /\ Anchored(l)
        /\ regLoop' = [regLoop EXCEPT ![l] = Concluded(l)]
        /\ UNCHANGED heartbeat

\* A transport failure: wait the interval, then double it up to the cap.
FailedLoop(l) == [pc |-> "waiting", retry |-> Lesser(2 * regLoop[l].retry, MaxRetry),
                  verdict |-> regLoop[l].verdict]

BootFailed ==
    \E l \in Loops :
        /\ regLoop[l].pc = "sending" /\ ~csms.up
        /\ regLoop' = [regLoop EXCEPT ![l] = FailedLoop(l)]
        /\ UNCHANGED <<registration, heartbeat, hbVariable, hbFallback, csms,
                       ticks, clockVars, moves>>

BootRetries ==
    \E l \in Loops :
        /\ regLoop[l].pc = "waiting"
        /\ regLoop' = [regLoop EXCEPT ![l].pc = "sending"]
        /\ UNCHANGED <<registration, heartbeat, hbVariable, hbFallback, csms,
                       ticks, clockVars, moves>>

\* run_heartbeat: the interval is read afresh each cycle; 0 is no interval.
HeartbeatInterval == IF hbVariable # 0 THEN hbVariable ELSE hbFallback

HeartbeatWaits ==
    /\ heartbeat.pc = "idle"
    /\ heartbeat' = [pc |-> "waiting", interval |-> HeartbeatInterval]
    /\ UNCHANGED <<regLoop, registration, hbVariable, hbFallback, csms, ticks,
                   clockVars, moves>>

\* The interval passes, perhaps while a loop has an answer in hand.
HeartbeatSent ==
    /\ heartbeat.pc = "waiting" /\ ticks + heartbeat.interval <= MaxTicks
    /\ heartbeat' = [pc |-> "sending", interval |-> 1]
    /\ ticks' = ticks + heartbeat.interval
    /\ disturbed' = IF InHand = {} THEN disturbed ELSE disturbed + 1
    /\ UNCHANGED <<regLoop, registration, hbVariable, hbFallback, csms, anchor,
                   heard, reported, moves>>

\* The answer is compared with our clock, a failure is only logged.
HeartbeatAnswered ==
    /\ heartbeat.pc = "sending"
    /\ \/ csms.up /\ Answered(Heart) /\ heartbeat' = [heartbeat EXCEPT !.pc = "syncing"]
       \/ Unreadable /\ heartbeat' = [heartbeat EXCEPT !.pc = "idle"]
    /\ UNCHANGED <<regLoop, registration, hbVariable, hbFallback, ticks, moves>>

HeartbeatAnchors ==
    /\ Anchored(Heart)
    /\ heartbeat' = [heartbeat EXCEPT !.pc = "idle"]
    /\ UNCHANGED regLoop

\* SetVariables or ChangeConfiguration on HeartbeatInterval.
SetHeartbeatInterval ==
    /\ csms.up /\ moves.all < MaxMoves
    /\ hbVariable' \in Intervals \ {hbVariable}
    /\ moves' = [moves EXCEPT !.all = @ + 1]
    /\ UNCHANGED <<regLoop, registration, heartbeat, hbFallback, csms, ticks,
                   clockVars>>

\* The CSMS: its verdict changes, its clock steps either way, it goes away.
CsmsMoves ==
    /\ moves.all < MaxMoves
    /\ \/ /\ \E v \in Verdicts \ {csms.verdict} :
                csms' = [csms EXCEPT !.verdict = v]
          /\ moves' = [moves EXCEPT !.all = @ + 1]
       \/ /\ \E by \in {StepThreshold, -StepThreshold} :
                csms' = [csms EXCEPT !.ahead = @ + by]
          /\ moves' = [all |-> moves.all + 1, steps |-> moves.steps + 1,
                       drift |-> moves.drift]
       \/ /\ csms.up
          /\ csms' = [csms EXCEPT !.up = FALSE]
          /\ moves' = [moves EXCEPT !.all = @ + 1]
    /\ UNCHANGED <<regLoop, registration, heartbeat, hbVariable, hbFallback,
                   ticks, clockVars>>

\* Drift: one unit between two answers, below a step, and put between them.
ClockDrifts ==
    /\ moves.drift < StepThreshold
    /\ ~csms.drifted /\ InHand = {}
    /\ csms' = [up |-> csms.up, verdict |-> csms.verdict, ahead |-> csms.ahead + 1,
                drifted |-> TRUE]
    /\ moves' = [moves EXCEPT !.drift = @ + 1]
    /\ UNCHANGED <<regLoop, registration, heartbeat, hbVariable, hbFallback,
                   ticks, clockVars>>

-----------------------------------------------------------------------------
ProvInit ==
    /\ regLoop = [l \in Loops |-> [pc |-> IF l = 1 THEN "sending" ELSE "off",
                                   retry |-> FirstRetry, verdict |-> "Pending"]]
    /\ registration = "Pending"
    /\ heartbeat = [pc |-> "idle", interval |-> 1]
    /\ hbVariable = 1 /\ hbFallback = 1
    /\ csms = [up |-> TRUE, verdict |-> "Pending", ahead |-> 1, drifted |-> FALSE]
    /\ ticks = 0 /\ anchor = NoAnchor /\ reported = 0 /\ disturbed = 0
    /\ heard = [a \in Callers |-> NoTime]
    /\ moves = [all |-> 0, steps |-> 0, drift |-> 0]

ProvSteps ==
    \/ Reregister \/ BootAnswered \/ BootApplied \/ Compares \/ BootAnchors
    \/ BootFailed \/ BootRetries
    \/ HeartbeatWaits \/ HeartbeatSent \/ HeartbeatAnswered \/ HeartbeatAnchors

ProvNext == ProvSteps \/ SetHeartbeatInterval \/ CsmsMoves \/ ClockDrifts

ProvSpec == ProvInit /\ [][ProvNext]_provVars

-----------------------------------------------------------------------------
ProvTypeOK ==
    /\ \A l \in Loops :
          /\ regLoop[l].pc \in {"off", "sending", "applying", "syncing", "waiting"}
          /\ regLoop[l].retry \in FirstRetry .. MaxRetry
    /\ registration \in Verdicts
    /\ heartbeat.interval \in Nat \ {0}
    /\ anchor = NoAnchor \/ anchor.at \in 0 .. ticks

\* A SettingSystemTime event means what it says: beyond the first answer, at
\* most one is raised per step of the CSMS's clock, and drift below the
\* threshold never adds up to one, however many answers it is spread over.  An
\* answer that comes while another is handled, or time that passes then, adds
\* two at most: one by a comparison with an anchor about to move, and one by
\* the first comparison with the anchor it leaves.
StepsNotDrift == reported <= 1 + moves.steps + 2 * disturbed

\* "... does not raise a security event on every heartbeat, only on a genuine
\* step" (evaluate_time_sync): one event per step, however the answers overlap.
OneEventPerStep == reported <= 1 + moves.steps

\* The charge point does not give up: whatever loops raced, once the CSMS
\* stays reachable and accepts, the station ends up registered for good.
EndsRegistered ==
    <>[](csms.up /\ csms.verdict = "Accepted")
        => <>[](registration = "Accepted")
=============================================================================
