----------------------------- MODULE TimeLimits -----------------------------
(***************************************************************************)
(* The maxTime ceiling of a transaction (run_transaction_time_limits in    *)
(* transactions.rs, enforce_transaction_limit in                           *)
(* state/charge_point_state.rs).  The state machine has no clock: a sweep  *)
(* notes when it first saw each transaction and, only when the verdict     *)
(* would move, sends the elapsed time to the connector.  The message names *)
(* the connector, not the transaction, and the connector may have moved on *)
(* by the time the actor applies it.                                       *)
(***************************************************************************)
EXTENDS Integers

CONSTANTS
    TimedConnectors, Ceilings,
    MaxTimed, MaxClock, MaxCeilings    \* bounds: transactions, time, limits set

ASSUME TimeAssumption ==
    /\ Ceilings \subseteq Nat \ {0}
    /\ MaxTimed \in Nat /\ MaxClock \in Nat /\ MaxCeilings \in Nat

VARIABLES
    timed,       \* per connector, the running transaction
    firstSeen,   \* the sweep's map: per connector, whom it saw and since when
    elapsedMsgs, \* per connector, the elapsed time on its way to the actor
    time, begun, ceilingsSet

timeVars == <<timed, firstSeen, elapsedMsgs, time, begun, ceilingsSet>>

Unset   == 0 - 1
Vacant  == [id |-> Unset, began |-> 0, max |-> Unset, elapsed |-> Unset,
            suspended |-> FALSE]
Unseen  == [id |-> Unset, at |-> 0]

TimeInit ==
    /\ timed = [c \in TimedConnectors |-> Vacant]
    /\ firstSeen = [c \in TimedConnectors |-> Unseen]
    /\ elapsedMsgs = [c \in TimedConnectors |-> Unset]
    /\ time = 0 /\ begun = 0 /\ ceilingsSet = 0

\* enforce_transaction_limit, of which only maxTime is left: the verdict
\* follows the recorded figures.
EnforceOnce(t) ==
    [t EXCEPT !.suspended =
        @ \/ (t.max # Unset /\ t.elapsed # Unset /\ t.elapsed >= t.max)]
Enforce(t) ==
    IF t.max = Unset THEN t
    ELSE [t EXCEPT !.suspended = t.elapsed # Unset /\ t.elapsed >= t.max]

TimedStart ==
    /\ begun < MaxTimed /\ begun' = begun + 1
    /\ \E c \in TimedConnectors :
          /\ timed[c] = Vacant
          /\ timed' = [timed EXCEPT ![c] = [Vacant EXCEPT !.id = begun, !.began = time]]
    /\ UNCHANGED <<firstSeen, elapsedMsgs, time, ceilingsSet>>

TimedEnd ==
    /\ \E c \in TimedConnectors :
          timed[c] # Vacant /\ timed' = [timed EXCEPT ![c] = Vacant]
    /\ UNCHANGED <<firstSeen, elapsedMsgs, time, begun, ceilingsSet>>

SetCeiling ==
    /\ ceilingsSet < MaxCeilings /\ ceilingsSet' = ceilingsSet + 1
    /\ \E c \in TimedConnectors, m \in Ceilings :
          /\ timed[c] # Vacant
          /\ timed' = [timed EXCEPT ![c] = Enforce([@ EXCEPT !.max = m])]
    /\ UNCHANGED <<firstSeen, elapsedMsgs, time, begun>>

TimePasses ==
    /\ time < MaxClock /\ time' = time + 1
    /\ UNCHANGED <<timed, firstSeen, elapsedMsgs, begun, ceilingsSet>>

----------------------------------------------------------------------------
(* One pass of the sweep, over one snapshot of the state. *)

SeenBy(c) ==
    IF timed[c] = Vacant THEN Unseen
    ELSE IF firstSeen[c].id = timed[c].id THEN firstSeen[c]
    ELSE [id |-> timed[c].id, at |-> time]

\* Whether the verdict would move, and with which figure.
Report(c) ==
    LET elapsed == time - SeenBy(c).at
        t == timed[c]
    IN IF t.max # Unset /\ (elapsed >= t.max) # t.suspended THEN elapsed ELSE Unset

SweepTimes ==
    /\ \A c \in TimedConnectors : elapsedMsgs[c] = Unset
    /\ firstSeen' = [c \in TimedConnectors |-> SeenBy(c)]
    /\ elapsedMsgs' = [c \in TimedConnectors |-> Report(c)]
    /\ UNCHANGED <<timed, time, begun, ceilingsSet>>

\* The actor applies TransactionElapsed to whatever runs there.
ApplyElapsed ==
    /\ \E c \in TimedConnectors :
          /\ elapsedMsgs[c] # Unset
          /\ elapsedMsgs' = [elapsedMsgs EXCEPT ![c] = Unset]
          /\ timed' = IF timed[c] = Vacant THEN timed
                      ELSE [timed EXCEPT ![c] = Enforce([@ EXCEPT !.elapsed = elapsedMsgs[c]])]
    /\ UNCHANGED <<firstSeen, time, begun, ceilingsSet>>

TimeSteps == SweepTimes \/ ApplyElapsed
TimeNext  == TimedStart \/ TimedEnd \/ SetCeiling \/ TimePasses \/ TimeSteps
TimeSpec  == TimeInit /\ [][TimeNext]_timeVars

----------------------------------------------------------------------------
(* The types; the sweep never believes it saw a transaction before it      *)
(* began.                                                                  *)
TimeTypeOK ==
    /\ time \in 0 .. MaxClock /\ begun \in 0 .. MaxTimed
    /\ \A c \in TimedConnectors :
          /\ timed[c].max \in Ceilings \cup {Unset}
          /\ elapsedMsgs[c] \in Unset .. MaxClock
          /\ firstSeen[c].id = timed[c].id => firstSeen[c].at >= timed[c].began

(* Once the world is quiet, every transaction under a maxTime ceiling is   *)
(* suspended exactly when it has run that long since the sweep first saw   *)
(* it, and never when it has not run that long at all: a figure measured   *)
(* for the connector's previous transaction, and applied to this one, is   *)
(* put right by a later sweep (run_transaction_time_limits asks again in   *)
(* both directions).                                                       *)
VerdictSettles ==
    <>[](\A c \in TimedConnectors : timed[c].max # Unset =>
            /\ timed[c].suspended = (time - firstSeen[c].at >= timed[c].max)
            /\ timed[c].suspended => time - timed[c].began >= timed[c].max)
=============================================================================
