--------------------------- MODULE SmartCharging ---------------------------
(***************************************************************************)
(* Charging profiles at work: the store and the handlers that change it    *)
(* (state/charging_profile.rs, smart_charging/handlers.rs), the limits an  *)
(* external system imposes (state/charge_point_state.rs), and the two      *)
(* loops that project the composed limit onto each EVSE's connector        *)
(* (smart_charging/projection.rs).  Each loop works from a snapshot of the *)
(* state it took before its first EVSE; one is woken by changes of the     *)
(* state, the other sleeps until the boundary it last found.               *)
(*                                                                         *)
(* One connector per EVSE; handlers decide and dispatch in one step, as in *)
(* Station.  The report of an externally caused change is left out.        *)
(***************************************************************************)
EXTENDS Composition

CONSTANTS
    NumEvses,
    Offered,        \* the profiles a CSMS installs
    External,       \* the profiles external limits compose as
    MaxProfiles,    \* StateLimits::max_charging_profiles
    MaxNap,         \* MAX_SLEEP_SECS
    MaxTime,        \* bound on the clock
    MaxDeeds        \* bound: requests, external limits, transactions

ASSUME SmartChargingAssumption ==
    /\ NumEvses \in Nat \ {0} /\ MaxProfiles \in Nat \ {0}
    /\ MaxNap \in Nat \ {0} /\ MaxTime \in Nat /\ MaxDeeds \in Nat

VARIABLES
    installed,     \* ChargingProfileStore::profiles, in installation order
    imposed,       \* the external limits in force
    running,       \* per EVSE: the transaction, and whether it has priority
    limits,        \* charging_limits: what the connector was last asked for
    starts,        \* transaction_starts
    loop,          \* the two loops
    unseen,        \* the state changed since the projection loop looked
    pull,          \* the dynamic profile whose update was asked for
    clock, deeds

smartVars == <<installed, imposed, running, limits, starts, loop, unseen, pull,
               clock, deeds>>

EvseIds == 1 .. NumEvses
Station == 0        \* ChargingProfileScope::ChargePoint
Loops2  == {"projection", "timer"}
Free    == [id |-> Unlimited, priority |-> FALSE]
Unnoted == [id |-> Unlimited, at |-> 0]

----------------------------------------------------------------------------
(* The store. *)

Superseded(old, p) ==
    \/ old.id = p.id
    \/ old.scope = p.scope /\ old.purpose = p.purpose /\ old.level = p.level

\* check_dynamic_shape, and a TxProfile needs an EVSE.
WellFormed(p) ==
    /\ IF p.kind = "Dynamic" THEN Len(p.periods) = 1 /\ p.periods[1].at = 0
       ELSE p.pull = Unlimited
    /\ ~(p.scope = Station /\ p.purpose = "Tx")

Without(ps, p) == SelectSeq(ps, LAMBDA old : ~Superseded(old, p))

CanInstall(ps, p) ==
    /\ WellFormed(p)
    /\ Len(Without(ps, p)) < Len(ps) \/ Len(ps) < MaxProfiles

Install(ps, p) == Append(Without(ps, p), p)

\* ChargingProfileCriteria::matches, of which the id and purpose are given.
Matches(p, criteria) ==
    /\ p.purpose \notin {"ExternalConstraints", "LocalGeneration"}
    /\ criteria.id \in {Unlimited, p.id}
    /\ criteria.purpose \in {"any", p.purpose}

Addressable(id) ==
    \E i \in DOMAIN installed : installed[i].id = id /\ installed[i].kind = "Dynamic"

ApplyDynamicUpdate(id, limit) ==
    [i \in DOMAIN installed |->
        IF installed[i].id = id /\ installed[i].kind = "Dynamic"
        THEN [installed[i] EXCEPT
                 !.periods[1].limit = IF limit = Unlimited THEN @ ELSE limit,
                 !.updated = clock]
        ELSE installed[i]]

PullsDue ==
    {installed[i].id : i \in {i \in DOMAIN installed :
        /\ installed[i].kind = "Dynamic" /\ installed[i].pull > 0
        /\ installed[i].updated = Unlimited
           \/ clock >= Later(installed[i].updated, installed[i].pull)}}

----------------------------------------------------------------------------
(* The CSMS, the energy manager, the drivers. *)

Deed == deeds < MaxDeeds /\ deeds' = deeds + 1

\* The handler stamps what only it knows: the instant of arrival.
Stamped(p) ==
    [p EXCEPT !.start = IF @ = Unlimited THEN clock ELSE @,
              !.updated = IF p.kind = "Dynamic" /\ @ = Unlimited THEN clock ELSE @]

SetChargingProfile ==
    /\ Deed
    /\ \E p \in Offered :
          /\ p.scope \in EvseIds \cup {Station}
          /\ CanInstall(installed, Stamped(p))
          /\ installed' = Install(installed, Stamped(p))
    /\ unseen' = TRUE
    /\ UNCHANGED <<imposed, running, limits, starts, loop, pull, clock>>

ClearChargingProfile ==
    /\ Deed
    /\ \E criteria \in [id : {p.id : p \in Offered} \cup {Unlimited},
                        purpose : {"any", "TxDefault"}] :
          LET kept == SelectSeq(installed, LAMBDA p : ~Matches(p, criteria))
          IN kept # installed /\ installed' = kept
    /\ unseen' = TRUE
    /\ UNCHANGED <<imposed, running, limits, starts, loop, pull, clock>>

UpdateDynamicSchedule ==
    /\ Deed
    /\ \E p \in Offered, limit \in {Unlimited, 0} :
          Addressable(p.id) /\ installed' = ApplyDynamicUpdate(p.id, limit)
    /\ unseen' = TRUE
    /\ UNCHANGED <<imposed, running, limits, starts, loop, pull, clock>>

\* run_dynamic_schedule_pulls: what is due is asked for; the answer is applied
\* if the profile is still there, stamped with the instant it is applied.
AskForUpdate ==
    /\ pull = Unlimited /\ Deed
    /\ \E id \in PullsDue : pull' = id
    /\ UNCHANGED <<installed, imposed, running, limits, starts, loop, unseen, clock>>

PullAnswered ==
    /\ pull # Unlimited /\ pull' = Unlimited
    /\ \/ UNCHANGED <<installed, unseen>>
       \/ /\ Addressable(pull)
          /\ installed' = ApplyDynamicUpdate(pull, 1) /\ unseen' = TRUE
    /\ UNCHANGED <<imposed, running, limits, starts, loop, clock, deeds>>

UsePriorityCharging ==
    /\ Deed
    /\ \E e \in EvseIds, activate \in BOOLEAN :
          /\ running[e].id # Unlimited /\ running[e].priority # activate
          /\ activate => \E i \in DOMAIN installed :
                            /\ installed[i].purpose = "PriorityCharging"
                            /\ installed[i].scope \in {Station, e}
          /\ running' = [running EXCEPT ![e].priority = activate]
    /\ unseen' = TRUE
    /\ UNCHANGED <<installed, imposed, limits, starts, loop, pull, clock>>

SetExternalChargingLimit ==
    /\ Deed
    /\ \E p \in External \ imposed :
          imposed' = {q \in imposed : q.scope # p.scope \/ q.purpose # p.purpose} \cup {p}
    /\ unseen' = TRUE
    /\ UNCHANGED <<installed, running, limits, starts, loop, pull, clock>>

ClearExternalChargingLimit ==
    /\ Deed
    /\ \E p \in imposed : imposed' = imposed \ {p}
    /\ unseen' = TRUE
    /\ UNCHANGED <<installed, running, limits, starts, loop, pull, clock>>

TransactionBegins ==
    /\ Deed
    /\ \E e \in EvseIds : /\ running[e] = Free
                          /\ running' = [running EXCEPT ![e].id = deeds]
    /\ unseen' = TRUE
    /\ UNCHANGED <<installed, imposed, limits, starts, loop, pull, clock>>

TransactionEnds ==
    /\ Deed
    /\ \E e \in EvseIds : running[e] # Free /\ running' = [running EXCEPT ![e] = Free]
    /\ unseen' = TRUE
    /\ UNCHANGED <<installed, imposed, limits, starts, loop, pull, clock>>

ClockTicks ==
    /\ clock < MaxTime /\ clock' = clock + 1
    /\ UNCHANGED <<installed, imposed, running, limits, starts, loop, unseen, pull, deeds>>

----------------------------------------------------------------------------
(* The projection. *)

\* composing_profiles: what was installed for this EVSE, then the external.
ComposingProfiles(ps, ext, e) ==
    SelectSeq(ps, LAMBDA p : p.scope \in {Station, e}) \o
        SetToSeq({p \in ext : p.scope \in {Station, e}})

\* note_transaction and forget_transaction.
Noted(e, id, at) ==
    IF id = Unlimited THEN Unnoted
    ELSE IF starts[e].id = id THEN starts[e] ELSE [id |-> id, at |-> at]

ContextOf(tx, noted, at) ==
    [now |-> at, transaction |-> tx.id, priority |-> tx.priority,
     started |-> IF tx.id = Unlimited THEN Unlimited ELSE noted.at]

Snapshot == [installed |-> installed, imposed |-> imposed, running |-> running,
             at |-> clock]

Begin(l) ==
    loop' = [loop EXCEPT ![l] = [pc |-> "evaluating", evse |-> 1, snap |-> Snapshot,
                                 next |-> Unlimited, wake |-> 0]]

\* states.changed() returned: the change counts as seen before the snapshot.
ProjectionWakes ==
    /\ loop["projection"].pc = "idle" /\ unseen
    /\ Begin("projection") /\ unseen' = FALSE
    /\ UNCHANGED <<installed, imposed, running, limits, starts, pull, clock, deeds>>

\* backoff.wait returned; at the bound of the clock a sleep just ends.
TimerWakes ==
    /\ loop["timer"].pc = "idle"
    /\ clock >= loop["timer"].wake \/ clock = MaxTime
    /\ Begin("timer")
    /\ UNCHANGED <<installed, imposed, running, limits, starts, unseen, pull, clock, deeds>>

Earlier(a, b) == IF a = Unlimited \/ (b # Unlimited /\ b < a) THEN b ELSE a

\* seconds.clamp(1, MAX_SLEEP_SECS) from the instant the evaluation ended: a
\* fraction of a second too early, then, for a boundary between two seconds.
Nap(next) ==
    LET seconds == NumSeconds(next - clock)
    IN Later(clock, IF next = Unlimited \/ seconds > MaxNap THEN MaxNap
                    ELSE IF seconds < 1 THEN 1 ELSE seconds)

Publishes(changed) == unseen' = (unseen \/ changed)

\* evaluate_all, one EVSE: the limit at the snapshot's instant is sent, and
\* the state machine takes it if it differs from what it last asked for.
EvaluateEvse(l) ==
    /\ loop[l].pc = "evaluating"
    /\ LET s     == loop[l].snap
           e     == loop[l].evse
           noted == Noted(e, s.running[e].id, s.at)
           ps    == ComposingProfiles(s.installed, s.imposed, e)
           ctx   == ContextOf(s.running[e], noted, s.at)
           limit == LimitAt(ps, ctx, s.at)
           next  == Earlier(loop[l].next, NextChangeAfter(Compose(ps, ctx), s.at))
       IN /\ starts' = [starts EXCEPT ![e] = noted]
          /\ limits' = [limits EXCEPT ![e] = limit]
          /\ Publishes(limit # limits[e])
          /\ loop' = [loop EXCEPT ![l] =
                IF e < NumEvses THEN [@ EXCEPT !.evse = e + 1, !.next = next]
                ELSE [pc |-> "idle", wake |-> IF l = "timer" THEN Nap(next) ELSE 0]]
    /\ UNCHANGED <<installed, imposed, running, pull, clock, deeds>>

----------------------------------------------------------------------------
SmartInit ==
    /\ installed = <<>> /\ imposed = {} /\ pull = Unlimited
    /\ running = [e \in EvseIds |-> Free]
    /\ limits = [e \in EvseIds |-> Unlimited]
    /\ starts = [e \in EvseIds |-> Unnoted]
    /\ loop = [l \in Loops2 |-> [pc |-> "idle", wake |-> 0]]
    /\ unseen = TRUE /\ clock = 0 /\ deeds = 0

SmartRequests ==
    \/ SetChargingProfile \/ ClearChargingProfile \/ UpdateDynamicSchedule
    \/ AskForUpdate \/ UsePriorityCharging
    \/ SetExternalChargingLimit \/ ClearExternalChargingLimit
    \/ TransactionBegins \/ TransactionEnds

SmartSteps ==
    \/ PullAnswered \/ ProjectionWakes \/ TimerWakes
    \/ \E l \in Loops2 : EvaluateEvse(l)

SmartNext == SmartRequests \/ SmartSteps \/ ClockTicks

SmartSpec == SmartInit /\ [][SmartNext]_smartVars

----------------------------------------------------------------------------
\* The limit an EVSE's profiles, as they are now, compose to now.
LimitNow(e) ==
    LimitAt(ComposingProfiles(installed, imposed, e),
            ContextOf(running[e], Noted(e, running[e].id, clock), clock), clock)

Resting == ~unseen /\ \A l \in Loops2 : loop[l].pc = "idle"

(* The types; and the store is never ambiguous, whatever the order of      *)
(* installations: no id twice, no scope, purpose and level twice, never    *)
(* more than the bound (ChargingProfileStore::install).                    *)
SmartTypeOK ==
    /\ Len(installed) <= MaxProfiles
    /\ \A i, j \in DOMAIN installed : i # j =>
          /\ installed[i].id # installed[j].id
          /\ \/ installed[i].scope # installed[j].scope
             \/ installed[i].purpose # installed[j].purpose
             \/ installed[i].level # installed[j].level
    /\ \A e \in EvseIds : starts[e] = Unnoted \/ starts[e].at \in 0 .. clock
    /\ clock \in 0 .. MaxTime /\ deeds \in 0 .. MaxDeeds

(* "Re-evaluates every connector's charging limit when a schedule period   *)
(* boundary arrives, sleeping until exactly that instant (or 15 minutes,   *)
(* whichever is sooner)" (run_charging_limit_schedule): with nothing left  *)
(* to look at, the limits in force are right until the timer wakes.        *)
TimerWakesInTime ==
    Resting => \A e \in EvseIds :
        \A t \in clock .. loop["timer"].wake - 1 :
            LimitAt(ComposingProfiles(installed, imposed, e),
                    ContextOf(running[e], Noted(e, running[e].id, clock), clock), t)
                = limits[e]

(* Once the requests stop and the last boundary is past, every connector   *)
(* ends up with the limit its profiles then compose to: no stale snapshot  *)
(* of either loop stays in force.                                          *)
LimitsSettle == <>[](\A e \in EvseIds : limits[e] = LimitNow(e))
=============================================================================
