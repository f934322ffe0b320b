----------------------------- MODULE MCCharging -----------------------------
(***************************************************************************)
(* Small instances of the five specifications of how much a session may    *)
(* draw and what it costs: the limit curve of a set of profiles, the loops *)
(* that put it in force, the ceiling on a transaction's time, tariffs, and *)
(* the calculation of a cost from one.                                     *)
(* They share no state, so an execution is one of one of them.             *)
(***************************************************************************)
EXTENDS SmartCharging, TimeLimits, RunningCost, Pricing

-----------------------------------------------------------------------------
(* The questions GetCompositeSchedule and the projection ask of Composition  *)
(* (smart_charging/mod.rs): which limit curve do these profiles give, for    *)
(* this transaction, from this instant on.  A behaviour asks about two       *)
(* profiles that can be installed together, and asks again later.            *)

CONSTANTS
    Profiles,       \* the profiles a question may be about
    LastInstant     \* bound: the instants at which it is asked

ASSUME QuestionAssumption == LastInstant \in Nat

VARIABLE asked      \* the installed profiles and the context of the question

Running == 1

NoTransaction == [transaction |-> Unlimited, started |-> Unlimited, priority |-> FALSE]

\* An EVSE's profiles: no two of one id, none of which supersede each other.
Installable(s) ==
    \A i, j \in DOMAIN s : i # j =>
        /\ s[i].id # s[j].id
        /\ ~(s[i].purpose = s[j].purpose /\ s[i].level = s[j].level
             /\ s[i].scope = s[j].scope)

Questions ==
    [profiles : {s \in Profiles \X Profiles : Installable(s)}, now : {0},
     running : {NoTransaction,
                [transaction |-> Running, started |-> 0, priority |-> FALSE],
                [transaction |-> Running, started |-> 1, priority |-> TRUE]}]

NotAsked == [now |-> Unlimited]

CompositionInit == asked = NotAsked

AskNow == asked = NotAsked /\ asked' \in Questions

AskLater ==
    asked # NotAsked /\ asked.now < LastInstant /\ asked' = [asked EXCEPT !.now = @ + 1]

CompositionNext == AskNow \/ AskLater
CompositionSpec == CompositionInit /\ [][CompositionNext]_asked

Context == [now |-> asked.now, transaction |-> asked.running.transaction,
            started |-> asked.running.started, priority |-> asked.running.priority]

----------------------------------------------------------------------------
(* The curve a CSMS is shown (GetCompositeSchedule) is the one the charge  *)
(* point applies, less than a second apart: at every instant but those of  *)
(* the second in which it begins to limit anything, it says what limit_at  *)
(* says at some instant less than a second away.  Nothing more falls       *)
(* between two evaluated boundaries, whatever validity windows,            *)
(* recurrences, dynamic deadlines and durations overlap.                   *)
ComposeIsPointwise ==
    asked # NotAsked =>
    LET c == Compose(asked.profiles, Context)
        Real(t) == LimitAt(asked.profiles, Context, t)
        known == IF c = NoComposite THEN Later(asked.now, Window) - 1
                 ELSE Later(c.start, c.duration) - (IF c.endsLimit THEN 0 ELSE 1)
        begins == c.start - Second + 1 .. c.start - 1
    IN \A t \in (asked.now .. known) \ begins :
          \E u \in Max({asked.now, t - Second + 1}) .. t + Second - 1 :
             CompositeLimitAt(c, t) = Real(u)

(* But for two seconds after now, whose boundaries it may skip, and the    *)
(* last second before it, next_change_after sleeps through no change: up   *)
(* to the instant it names (or the end of the window) the limit is one.    *)
NothingChangesInBetween ==
    asked # NotAsked =>
    LET next == NextChangeAfter(Compose(asked.profiles, Context), asked.now)
        until == IF next = Unlimited THEN Later(asked.now, Window) ELSE next
        calm == Later(asked.now, 2) .. until - Second
    IN \A t, u \in calm :
          LimitAt(asked.profiles, Context, t) = LimitAt(asked.profiles, Context, u)

(* "This is what lets run_charging_limit_projection sleep until exactly    *)
(* the next boundary" (next_change_after): until the instant it names      *)
(* nothing changes.                                                        *)
NextChangeIsExact ==
    asked # NotAsked =>
    LET next == NextChangeAfter(Compose(asked.profiles, Context), asked.now)
        Real(t) == LimitAt(asked.profiles, Context, t)
    IN next # Unlimited => \A t \in asked.now .. next - 1 : Real(t) = Real(asked.now)

(* "Ties are broken by the more recently installed profile"                *)
(* (state/charging_profile.rs on stack_level): of two profiles of one      *)
(* purpose and level, the later installed decides.                         *)
NewestBreaksTies ==
    asked # NotAsked =>
    LET a == asked.profiles[1]
        b == asked.profiles[2]
        Gives(p) == Contribution(p, Context, asked.now)
    IN (/\ a.purpose = b.purpose /\ a.level = b.level
        /\ a.purpose \in {"TxDefault", "Tx"}
        /\ Gives(a) # Unlimited /\ Gives(b) # Unlimited)
       => LimitAt(asked.profiles, Context, asked.now) = Gives(b)

-----------------------------------------------------------------------------
CONSTANT Blocks      \* the specifications this instance runs

VARIABLE block       \* the one this execution is of

chargingVars == <<block, asked, smartVars, timeVars, costVars, pricingVars>>

-----------------------------------------------------------------------------
(* Profiles. *)

Flat ==
    [id |-> 0, scope |-> Station, purpose |-> "TxDefault", level |-> 0,
     kind |-> "Absolute", recurs |-> FALSE, from |-> Unlimited, to |-> Unlimited,
     transaction |-> Unlimited, start |-> Unlimited, duration |-> Unlimited,
     periods |-> <<[at |-> 0, limit |-> 1]>>,
     updated |-> Unlimited, pull |-> Unlimited]

Step(first, second) ==
    <<[at |-> 0, limit |-> first], [at |-> 1, limit |-> second]>>

\* Every way a schedule is anchored in time.
Anchored ==
    {Flat, [Flat EXCEPT !.start = 1], [Flat EXCEPT !.kind = "Relative"],
     [Flat EXCEPT !.kind = "Recurring", !.recurs = TRUE, !.start = 0],
     [Flat EXCEPT !.kind = "Recurring", !.start = 1],
     [Flat EXCEPT !.kind = "Dynamic"],
     [Flat EXCEPT !.kind = "Dynamic", !.updated = 1, !.duration = 2]}

\* One of each purpose, station-wide, and of the transaction's purposes some
\* that begin, end or run out within the window, or tie with the former.
QuestionProfiles ==
    {[p EXCEPT !.id = PurposeRank(purpose), !.purpose = purpose,
               !.periods = Step(2, 0)] :
        p \in Anchored,
        purpose \in {"ChargePointMax", "TxDefault", "Tx", "ExternalConstraints",
                     "LocalGeneration", "PriorityCharging"}}
    \cup {[p EXCEPT !.id = 6, !.scope = 1, !.from = 1, !.periods = Step(1, 3)] :
              p \in Anchored}
    \cup {[p EXCEPT !.id = 7, !.scope = 1, !.purpose = "Tx", !.level = 1,
                    !.to = 3, !.duration = 2] : p \in Anchored}

OfferedProfiles ==
    {[Flat EXCEPT !.id = 2, !.scope = 1, !.kind = "Relative", !.to = 3,
                  !.periods = Step(2, 1)],
     [Flat EXCEPT !.id = 2, !.scope = 1, !.purpose = "Tx", !.kind = "Dynamic",
                  !.duration = 1, !.pull = 1],
     [Flat EXCEPT !.id = 3, !.scope = 1, !.purpose = "PriorityCharging", !.start = 0]}

ExternalProfiles ==
    {[Flat EXCEPT !.id = Unlimited, !.purpose = "ExternalConstraints",
                  !.periods = <<[at |-> 0, limit |-> 0]>>]}

-----------------------------------------------------------------------------
\* A price now, and a fee only, from tomorrow on.
TwoTariffs ==
    {[id |-> "a", from |-> 0, price |-> 1, fee |-> 1],
     [id |-> "b", from |-> 1, price |-> 0, fee |-> 1]}

\* A night price over midnight with taxes on taxes and a floor, and a price
\* on some days after some time only, with a cap.
NightAndThreshold ==
    LET Always(price) == [price |-> price, from |-> NoBound, to |-> NoBound,
                          days |-> {}, minTime |-> 0]
        Component(prices, rates) == [prices |-> prices, rates |-> rates]
    IN {[id |-> "night", fee |-> Component(<<Always(1)>>, << >>),
         energy |-> Component(<<Always(1)>>, <<50>>),
         charging |-> Component(<<[Always(3) EXCEPT !.from = 2, !.to = 1], Always(1)>>,
                                <<50, 50>>),
         idle |-> Component(<<[Always(1) EXCEPT !.from = 1]>>, << >>),
         min |-> [excl |-> NoBound, incl |-> 4],
         max |-> [excl |-> NoBound, incl |-> NoBound]],
        [id |-> "threshold", fee |-> Component(<< >>, << >>),
         energy |-> Component(<<[Always(2) EXCEPT !.days = {1}]>>, <<50>>),
         charging |-> Component(<<[Always(2) EXCEPT !.minTime = 2]>>, <<10>>),
         idle |-> Component(<< >>, << >>),
         min |-> [excl |-> NoBound, incl |-> NoBound],
         max |-> [excl |-> 6, incl |-> NoBound]]}

\* Between two readings the clock may also be set back; two may be less than a
\* second apart, or days.
ReadingGaps == {-1, 1, 9, 28}

\* One start of a bill, for the executions that never look at it.
AnyStart == {<<Min(FirstInstants), CHOOSE t \in PricedTariffs : TRUE>>}

-----------------------------------------------------------------------------
ChargingInit ==
    /\ block \in Blocks
    /\ CompositionInit /\ SmartInit /\ TimeInit /\ CostInit /\ PricingInit
    /\ block = "pricing" \/ <<instant, tariffNow>> \in AnyStart

ChargingNext ==
    \/ /\ block = "composition" /\ CompositionNext
       /\ UNCHANGED <<block, smartVars, timeVars, costVars, pricingVars>>
    \/ /\ block = "smart" /\ SmartNext
       /\ UNCHANGED <<block, asked, timeVars, costVars, pricingVars>>
    \/ /\ block = "time" /\ TimeNext
       /\ UNCHANGED <<block, asked, smartVars, costVars, pricingVars>>
    \/ /\ block = "cost" /\ CostNext
       /\ UNCHANGED <<block, asked, smartVars, timeVars, pricingVars>>
    \/ /\ block = "pricing" /\ PricingNext
       /\ UNCHANGED <<block, asked, smartVars, timeVars, costVars>>

\* The loops keep being polled and time goes on; a pass over the EVSEs ends.
ChargingSpec ==
    /\ ChargingInit /\ [][ChargingNext]_chargingVars
    /\ WF_smartVars(block = "smart" /\ ProjectionWakes)
    /\ WF_smartVars(block = "smart" /\ TimerWakes)
    /\ WF_smartVars(block = "smart" /\ ClockTicks)
    /\ \A l \in Loops2 : []<>(loop[l].pc = "idle")
    /\ WF_timeVars(block = "time" /\ SweepTimes)
    /\ WF_timeVars(block = "time" /\ ApplyElapsed)

-----------------------------------------------------------------------------
\* Limits: the composite schedule gives at every instant what the profiles give
\* there, and no two stored profiles conflict (smart_charging/mod.rs,
\* state/charging_profile.rs).
LimitsAreExact == ComposeIsPointwise /\ NothingChangesInBetween /\ SmartTypeOK

\* A session's figures: its time is its own, its tariff unambiguous and its
\* energy billed once (transactions.rs, tariff.rs).
FiguresAreItsOwn == TimeTypeOK /\ CostTypeOK /\ StoreIsUnambiguous /\ BilledOnce

\* What a session has cost stays owed: neither a new tariff nor a new reading
\* makes a bill smaller (tariff.rs, pricing.rs).
BillsNeverShrink == EarnedIsKept /\ BillNeverShrinks

\* The loops bring about what they compute: the limit in force becomes the one
\* the profiles give, and a reached time ceiling the verdict (projection.rs,
\* transactions.rs).
LoopsSettle == LimitsSettle /\ VerdictSettles

=============================================================================
