---------------------------- MODULE Composition ----------------------------
(***************************************************************************)
(* How charging profiles compose into one limit curve                      *)
(* (smart_charging/mod.rs, state/charging_profile.rs).  `limit_at` resolves*)
(* one instant; `compose` evaluates it only at the instants where some     *)
(* profile could change, and calls the result the curve.                   *)
(*                                                                         *)
(* Every schedule is in one rate unit: converting between two scales each  *)
(* limit by the same factor.  Instants are finer than a second, while the  *)
(* offsets within a schedule are whole seconds: `num_seconds` truncates.   *)
(***************************************************************************)
EXTENDS Integers, SequencesExt, FiniteSetsExt

CONSTANTS
    Second,         \* the instants the clock tells apart in a second
    PeriodSecs,     \* RecurrencyKind::period_secs
    MaxBoundaries,  \* MAX_COMPOSITION_BOUNDARIES
    Window          \* how many seconds ahead the curve is wanted

ASSUME CompositionAssumption ==
    /\ Second \in Nat \ {0}
    /\ PeriodSecs \in Nat \ {0} /\ MaxBoundaries \in Nat \ {0}
    /\ Window \in Nat

\* Towards zero, as chrono's TimeDelta::num_seconds.
NumSeconds(d) == IF d >= 0 THEN d \div Second ELSE -((-d) \div Second)

\* Duration::seconds: that many seconds after an instant.
Later(at, secs) == at + Second * secs

Unlimited == 0 - 1     \* no limit, no instant, no duration

(* The order is the precedence. *)
PurposeRank(purpose) ==
    CASE purpose = "ChargePointMax" -> 0 [] purpose = "TxDefault" -> 1
      [] purpose = "Tx" -> 2 [] purpose = "ExternalConstraints" -> 3
      [] purpose = "LocalGeneration" -> 4 [] purpose = "PriorityCharging" -> 5

CapsTheResult(p) == p.purpose \in {"ChargePointMax", "ExternalConstraints"}
AddsToTheResult(p) == p.purpose = "LocalGeneration"

----------------------------------------------------------------------------
(* One profile at one instant.  A question's context: the instant it is    *)
(* asked, the transaction running (or none), when that was seen to start,  *)
(* and whether it was granted priority.                                    *)

DynamicUpdatesAreStale(p, at) ==
    /\ p.kind = "Dynamic" /\ p.duration # Unlimited
    /\ p.updated # Unlimited /\ at > Later(p.updated, p.duration)

IsValidAt(p, at) ==
    /\ p.from = Unlimited \/ at >= p.from
    /\ p.to = Unlimited \/ at < p.to
    /\ ~DynamicUpdatesAreStale(p, at)

AppliesToTransaction(p, ctx) ==
    CASE p.purpose = "Tx" -> /\ ctx.transaction # Unlimited
                             /\ p.transaction \in {Unlimited, ctx.transaction}
      [] p.purpose = "TxDefault" -> ctx.transaction # Unlimited
      [] p.purpose = "PriorityCharging" -> ctx.transaction # Unlimited /\ ctx.priority
      [] OTHER -> TRUE

HasAnchor(p, ctx) ==
    CASE p.kind = "Relative" -> ctx.started # Unlimited
      [] p.kind = "Recurring" -> p.start # Unlimited
      [] OTHER -> TRUE

Anchor(p, ctx) ==
    CASE p.kind = "Relative" -> ctx.started
      [] p.kind = "Dynamic" -> IF p.updated # Unlimited THEN p.updated ELSE ctx.now
      [] OTHER -> IF p.start # Unlimited THEN p.start ELSE ctx.now

Repeats(p) == p.kind = "Recurring" /\ p.recurs

ElapsedIntoSchedule(p, ctx, at) ==
    LET elapsed == NumSeconds(at - Anchor(p, ctx))
    IN IF Repeats(p) /\ elapsed >= 0 THEN elapsed % PeriodSecs ELSE elapsed

\* ChargingSchedule::limit_at: the last period begun, inside the duration.
PeriodLimit(p, elapsed) ==
    LET begun == {i \in DOMAIN p.periods : p.periods[i].at <= elapsed}
    IN IF \/ elapsed < 0 \/ begun = {}
          \/ p.duration # Unlimited /\ elapsed >= p.duration
       THEN Unlimited ELSE p.periods[Max(begun)].limit

Contribution(p, ctx, at) ==
    IF IsValidAt(p, at) /\ AppliesToTransaction(p, ctx) /\ HasAnchor(p, ctx)
    THEN PeriodLimit(p, ElapsedIntoSchedule(p, ctx, at)) ELSE Unlimited

----------------------------------------------------------------------------
(* All of them at one instant.  `profiles` is in installation order: the   *)
(* first of equals competes best, the last of equals adds.                 *)

Precedes(p, q) ==
    \/ PurposeRank(p.purpose) > PurposeRank(q.purpose)
    \/ p.purpose = q.purpose /\ p.level > q.level

\* What the contributions of the profiles, one each, resolve to.
Resolved(profiles, given) ==
    LET giving    == {i \in DOMAIN given : given[i] # Unlimited}
        capping   == {i \in giving : CapsTheResult(profiles[i])}
        adding    == {i \in giving : AddsToTheResult(profiles[i])}
        competing == giving \ (capping \cup adding)
        selected  == CHOOSE i \in competing : \A j \in competing \ {i} :
                        \/ Precedes(profiles[i], profiles[j])
                        \/ ~Precedes(profiles[j], profiles[i]) /\ i < j
        headroom  == CHOOSE i \in adding : \A j \in adding \ {i} :
                        \/ profiles[i].level > profiles[j].level
                        \/ profiles[i].level = profiles[j].level /\ i > j
        deciding  == capping \cup (IF competing = {} THEN {} ELSE {selected})
        composed  == Min({given[i] : i \in deciding})
    IN IF deciding = {} THEN Unlimited
       ELSE composed + (IF adding = {} THEN 0 ELSE given[headroom])

LimitAt(profiles, ctx, at) ==
    Resolved(profiles, [i \in DOMAIN profiles |-> Contribution(profiles[i], ctx, at)])

----------------------------------------------------------------------------
(* The curve. *)

\* One repetition's instants, and the repetitions that reach the window.
InstantsFrom(p, anchor) ==
    {anchor} \cup {Later(anchor, p.periods[i].at) : i \in DOMAIN p.periods}
        \cup (IF p.duration # Unlimited THEN {Later(anchor, p.duration)} ELSE {})

Anchors(p, ctx, end) ==
    IF ~HasAnchor(p, ctx) THEN {}
    ELSE IF ~Repeats(p) THEN {Anchor(p, ctx)}
    ELSE {Anchor(p, ctx)} \cup
         {a \in Anchor(p, ctx) .. end - 1 :
             (a - Anchor(p, ctx)) % (Second * PeriodSecs) = 0}

BoundariesOfSchedules(profiles, ctx, end) ==
    {ctx.now} \cup {t \in UNION {UNION {InstantsFrom(profiles[i], a) :
                                           a \in Anchors(profiles[i], ctx, end)} :
                                     i \in DOMAIN profiles} : ctx.now < t /\ t < end}

CompositionBoundaries(profiles, ctx, end) ==
    LET edges(p) == {p.from, p.to} \ {Unlimited}
        all == UNION {edges(profiles[i]) \cup
                      UNION {InstantsFrom(profiles[i], a) :
                                a \in Anchors(profiles[i], ctx, end)} :
                          i \in DOMAIN profiles}
        sorted == {ctx.now} \cup {t \in all : ctx.now < t /\ t < end}
    IN {t \in sorted : Cardinality({u \in sorted : u < t}) < MaxBoundaries}

NoComposite == [start |-> Unlimited]

\* The first unbroken stretch of the limits found at the boundaries: its
\* length and the starts of its periods are seconds, so of boundaries in one
\* second of the curve only the last can be read from it.
FirstStretch(limitAt, end) ==
    LET limited  == {t \in DOMAIN limitAt : limitAt[t] # Unlimited}
        start    == Min(limited)
        gaps     == {t \in DOMAIN limitAt \ limited : t > start}
        stop     == IF gaps = {} THEN end ELSE Min(gaps)
        inside   == {t \in limited : t < stop}
        Before(t) == Max({u \in inside : u < t})
        changes  == {t \in inside : t = start \/ limitAt[t] # limitAt[Before(t)]}
    IN IF limited = {} THEN NoComposite
       ELSE [start |-> start, duration |-> NumSeconds(stop - start),
             endsLimit |-> gaps # {},
             periods |-> [secs \in {NumSeconds(t - start) : t \in changes} |->
                            limitAt[Max({t \in changes : NumSeconds(t - start) = secs})]]]

Compose(profiles, ctx) ==
    LET end == Later(ctx.now, Window)
    IN FirstStretch([t \in CompositionBoundaries(profiles, ctx, end) |->
                        LimitAt(profiles, ctx, t)], end)

CompositeLimitAt(c, at) ==
    LET elapsed == NumSeconds(at - c.start)
    IN IF c = NoComposite \/ elapsed < 0 \/ elapsed >= c.duration THEN Unlimited
       ELSE c.periods[Max({secs \in DOMAIN c.periods : secs <= elapsed})]

\* CompositeSchedule::next_change_after: when the timer must look again.
NextChangeAfter(c, at) ==
    LET elapsed == NumSeconds(at - c.start)
        ends    == IF c.endsLimit THEN {c.duration} ELSE {}
        ahead   == {secs \in DOMAIN c.periods \cup ends : secs > elapsed}
    IN IF c = NoComposite \/ ahead = {} THEN Unlimited ELSE Later(c.start, Min(ahead))
=============================================================================
