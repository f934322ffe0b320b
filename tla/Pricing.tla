------------------------------ MODULE Pricing ------------------------------
(***************************************************************************)
(* The local cost calculation (pricing.rs): TransactionCost, advanced by   *)
(* readings that come whenever they come.  An interval between two of them *)
(* is split where a condition of the tariff on the time of day or the date *)
(* can change, each piece is priced at the elements in force at its start, *)
(* and the energy is apportioned over the pieces by time.  Everything is   *)
(* whole numbers and every division truncates; so does `num_seconds`, with *)
(* which the time between two instants is taken.                           *)
(*                                                                         *)
(* Of the conditions on sampled figures (energy, power, current, times)    *)
(* one is kept, the least elapsed time; of date and weekday the weekday.   *)
(* The one caller passes no reservation and no local offset, so neither    *)
(* does the model.  Power and current per period are left out.             *)
(***************************************************************************)
EXTENDS Integers, SequencesExt

CONSTANTS
    PricedTariffs,      \* the tariffs that may be in force
    Resolution,         \* the instants the clock tells apart in a second
    DayLength,          \* seconds in a day
    Minute,             \* seconds in a minute, the unit of a time price
    KWh,                \* meter units in the unit of an energy price
    MaxSubIntervals,    \* MAX_SUB_INTERVALS
    FirstInstants,      \* when the transaction may begin
    ClockMoves,         \* how far the clock moves between two readings
    MeterMoves,         \* how far the meter does
    MaxReadings         \* bound

ASSUME PricingAssumption ==
    /\ Resolution \in Nat \ {0} /\ Minute \in Nat \ {0} /\ KWh \in Nat \ {0}
    /\ DayLength \in Nat \ {0} /\ DayLength % Minute = 0
    /\ MaxSubIntervals \in Nat /\ MaxReadings \in Nat
    /\ FirstInstants \subseteq Nat /\ MeterMoves \subseteq Nat /\ ClockMoves \subseteq Int

VARIABLES
    instant,    \* the station's clock
    register,   \* the energy of the transaction so far
    tariffNow,  \* the tariff the last reading was priced with
    bill,       \* TransactionCost
    audit,      \* history: what the instants cost, one by one
    readings

pricingVars == <<instant, register, tariffNow, bill, audit, readings>>

NoBound == -1     \* an absent bound

\* num_seconds of what is not negative, of instants; a day, of seconds.
NumSecs(d) == d \div Resolution
Day == Resolution * DayLength

-----------------------------------------------------------------------------
(* Conditions, and the first price whose conditions hold. *)

InDailyWindow(at, from, to) ==
    LET minute == (at % Day) \div (Resolution * Minute)
        start == IF from = NoBound THEN 0 ELSE from
        end == IF to = NoBound THEN 0 ELSE to
    IN \/ start = end
       \/ start < end /\ minute >= start /\ minute < end
       \/ start > end /\ (minute >= start \/ minute < end)

ConditionsApply(c, at, elapsed) ==
    /\ InDailyWindow(at, c.from, c.to)
    /\ c.days = {} \/ (at \div Day) % 7 \in c.days
    /\ elapsed >= c.minTime

\* select_energy, select_time, select_fixed; 0 when none applies.
SelectPrice(prices, at, elapsed) ==
    LET met == {i \in DOMAIN prices : ConditionsApply(prices[i], at, elapsed)}
    IN IF met = {} THEN 0 ELSE Min(met)

PriceOf(component, i) == IF i = 0 THEN 0 ELSE component.prices[i].price

\* boundary_minutes, as instants of the day; midnight is always one.
BoundaryMinutes(t) ==
    LET prices == UNION {{c.prices[i] : i \in DOMAIN c.prices} :
                            c \in {t.energy, t.charging, t.idle}}
    IN {0} \cup {Resolution * Minute * m : m \in
                   ({p.from : p \in prices} \cup {p.to : p \in prices}) \ {NoBound}}

NextBoundary(at, t) ==
    Min({s \in at + 1 .. at + Day : s % Day \in BoundaryMinutes(t)})

-----------------------------------------------------------------------------
(* Accumulator: taxed once per stretch of equal rates. *)

\* Each level of the stack is charged on the result of the one below.
ApplyTaxes(net, rates) ==
    FoldLeft(LAMBDA base, percent : base + (base * percent) \div 100, net, rates)

NothingYet == [excl |-> 0, incl |-> 0, live |-> 0, rates |-> << >>]

TotalOf(a) == [excl |-> a.excl + a.live, incl |-> a.incl + ApplyTaxes(a.live, a.rates)]

Sealed(a) ==
    [excl |-> TotalOf(a).excl, incl |-> TotalOf(a).incl, live |-> 0, rates |-> a.rates]

Add(a, amount, rates) ==
    LET b == IF a.rates # rates THEN [Sealed(a) EXCEPT !.rates = rates] ELSE a
    IN [b EXCEPT !.live = @ + amount]

EnergyCost(price, energy) == (price * energy) \div KWh
TimeCost(price, secs) == (price * secs) \div Minute

-----------------------------------------------------------------------------
(* TransactionCost. *)

NoElements == [energy |-> 0, charging |-> 0, idle |-> 0]

\* uses is history: the element lists that were charged in the period.
OpenPeriod(id, at) ==
    [tariff |-> id, start |-> at, energy |-> 0, charging |-> 0, idle |-> 0, uses |-> {}]

StartBill(t, at) ==
    [tariff |-> t.id,
     fixed |-> LET i == SelectPrice(t.fee.prices, at, 0)
               IN IF i = 0 THEN NothingYet
                  ELSE Add(NothingYet, t.fee.prices[i].price, t.fee.rates),
     energy |-> NothingYet, charging |-> NothingYet, idle |-> NothingYet,
     usage |-> [energy |-> 0, charging |-> 0, idle |-> 0],
     periods |-> <<OpenPeriod(t.id, at)>>,
     lastAt |-> at, lastEnergy |-> 0, used |-> NoElements, capped |-> FALSE]

RawTotal(b) ==
    LET sum(half) == TotalOf(b.fixed)[half] + TotalOf(b.energy)[half]
                     + TotalOf(b.charging)[half] + TotalOf(b.idle)[half]
    IN [excl |-> sum("excl"), incl |-> sum("incl")]

Reaches(total, bound) ==
    \/ bound.excl # NoBound /\ total.excl >= bound.excl
    \/ bound.incl # NoBound /\ total.incl >= bound.incl

\* The used element list changed: the period ends, unless nothing was in use.
SplitPeriods(b, t, used, at) ==
    IF used # b.used /\ b.used # NoElements
    THEN [b EXCEPT !.periods = Append(@, OpenPeriod(t.id, at))] ELSE b

\* The price elements in force.
ElementsAt(t, at, elapsed) ==
    [energy |-> SelectPrice(t.energy.prices, at, elapsed),
     charging |-> SelectPrice(t.charging.prices, at, elapsed),
     idle |-> SelectPrice(t.idle.prices, at, elapsed)]

\* What a sub-interval adds to the bill and to its last period, at b.used.
AddUsage(b, t, dim, secs, energy) ==
    LET Plus(a, component, amount) ==
            IF b.capped THEN a ELSE Add(a, amount, component.rates)
        last == Len(b.periods)
    IN [b EXCEPT
          ![dim] = IF b.used[dim] = 0 THEN @
                   ELSE Plus(@, t[dim], TimeCost(PriceOf(t[dim], b.used[dim]), secs)),
          !.energy = IF b.used.energy = 0 THEN @
                     ELSE Plus(@, t.energy,
                               EnergyCost(PriceOf(t.energy, b.used.energy), energy)),
          !.usage.energy = @ + energy, !.usage[dim] = @ + secs,
          !.periods[last].energy = @ + energy, !.periods[last][dim] = @ + secs,
          !.periods[last].uses = IF secs > 0 \/ energy > 0 THEN @ \cup {b.used} ELSE @]

\* Once the cap is reached, nothing more is added.
Capped(b, t) == [b EXCEPT !.capped = @ \/ Reaches(RawTotal(b), t.max)]

\* One sub-interval, at the prices in force at its start.
Charge(b, t, charging, from, secs, energy) ==
    LET used == ElementsAt(t, from, b.usage.charging + b.usage.idle)
    IN Capped(AddUsage([SplitPeriods(b, t, used, from) EXCEPT !.used = used],
                       t, IF charging THEN "charging" ELSE "idle", secs, energy),
              t)

SwitchTariff(b, t, at) ==
    [b EXCEPT !.fixed = Sealed(@), !.energy = Sealed(@), !.charging = Sealed(@),
              !.idle = Sealed(@), !.tariff = t.id, !.used = NoElements,
              !.periods = Append(@, OpenPeriod(t.id, at))]

PieceByTime(left, share, last) == share

\* The last piece takes what rounding left over.
PieceOfEnergy(left, share, last) == IF last THEN left ELSE share

PieceEnd(from, now, t) == Min({NextBoundary(from, t), now})

\* What the walk over the pieces did not reach.
Rest(w, t, charging, now) ==
    IF w.from >= now THEN w.bill
    ELSE Charge(w.bill, t, charging, w.from, w.secs, w.energy)

\* The pieces of (lastAt, now], up to the guard; then the rest in one go.  The
\* fractions of a second that the pieces end with are charged in none.
SplitInterval(b, t, charging, now, total, energy) ==
    LET Piece(w, n) ==
            IF w.from >= now THEN w
            ELSE LET next == PieceEnd(w.from, now, t)
                     secs == NumSecs(next - w.from)
                     share == PieceOfEnergy(w.energy, (energy * secs) \div total,
                                            next = now)
                 IN [bill |-> Charge(w.bill, t, charging, w.from, secs, share),
                     from |-> next, secs |-> w.secs - secs, energy |-> w.energy - share]
    IN Rest(FoldLeft(Piece, [bill |-> b, from |-> b.lastAt, secs |-> total,
                             energy |-> energy],
                     [n \in 1 .. MaxSubIntervals |-> n]),
            t, charging, now)

\* A clock that was set back is followed, and the rest of a second forgotten.
Remember(b, now, reading) == [b EXCEPT !.lastAt = now, !.lastEnergy = reading]

Advance(b, t, charging, now, reading) ==
    LET switched == IF t.id # b.tariff THEN SwitchTariff(b, t, now) ELSE b
        total == NumSecs(now - b.lastAt)
        energy == IF reading > b.lastEnergy THEN reading - b.lastEnergy ELSE 0
        charged == IF total <= 0 THEN Charge(switched, t, charging, b.lastAt, 0, energy)
                   ELSE SplitInterval(switched, t, charging, now, total, energy)
    IN Remember(charged, now, reading)

\* minCost replaces a total that does not reach it.
Totals(b, t) ==
    LET total == RawTotal(b)
        half(h) == IF t.min[h] # NoBound THEN t.min[h] ELSE total[h]
    IN IF t.min = [excl |-> NoBound, incl |-> NoBound] \/ Reaches(total, t.min) THEN total
       ELSE [excl |-> half("excl"), incl |-> half("incl")]

-----------------------------------------------------------------------------
(* The reference: every instant at the price in force at that instant. *)

Due(t, charging, from, to) ==
    LET c == IF charging THEN t.charging ELSE t.idle
    IN FoldLeft(LAMBDA sum, s : sum + PriceOf(c, SelectPrice(c.prices, s, 0)), 0,
                [n \in 1 .. (IF to > from THEN to - from ELSE 0) |-> from + n - 1])

\* How many pieces an interval has, and whether the guard lets all be priced.
Pieces(t, from, to) ==
    1 + Cardinality({s \in from + 1 .. to - 1 : s % Day \in BoundaryMinutes(t)})

TimePrices(t) ==
    UNION {{PriceOf(c, i) : i \in 0 .. Len(c.prices)} : c \in {t.charging, t.idle}}

Plain(t) ==
    \A c \in {t.charging, t.idle} : \A i \in DOMAIN c.prices : c.prices[i].minTime = 0

PricingInit ==
    /\ instant \in FirstInstants /\ register = 0 /\ readings = 0
    /\ tariffNow \in PricedTariffs
    /\ bill = StartBill(tariffNow, instant)
    /\ audit = [due |-> 0, pieces |-> 0, fractions |-> 0, exact |-> TRUE]

\* A reading: clock and meter have moved, the session charges or idles, and
\* the tariff may have been replaced since the last one.
ReadMeter(move, energy, charging, t) ==
    /\ readings < MaxReadings /\ readings' = readings + 1
    /\ instant + move >= 0
    /\ instant' = instant + move
    /\ register' = register + energy
    /\ tariffNow' = t
    /\ bill' = Advance(bill, t, charging, instant', register')
    /\ audit' = [due |-> audit.due + Due(t, charging, instant, instant'),
                 pieces |-> audit.pieces + Pieces(t, instant, instant'),
                 fractions |-> audit.fractions
                     + Pieces(t, instant, instant') * Max(TimePrices(t)) * (Resolution - 1),
                 exact |-> /\ audit.exact /\ Plain(t)
                           /\ Pieces(t, instant, instant') <= MaxSubIntervals]

PricingNext ==
    \E move \in ClockMoves, energy \in MeterMoves, charging \in BOOLEAN, t \in PricedTariffs :
        ReadMeter(move, energy, charging, t)

PricingSpec == PricingInit /\ [][PricingNext]_pricingVars

-----------------------------------------------------------------------------
\* Amounts are natural numbers, and every transaction has a charging period.
PricingTypeOK ==
    /\ instant \in Nat /\ register \in Nat /\ tariffNow \in PricedTariffs
    /\ RawTotal(bill) \in [excl : Nat, incl : Nat] /\ bill.capped \in BOOLEAN
    /\ bill.lastAt = instant /\ bill.lastEnergy = register
    /\ bill.periods # << >>

\* Date and time-of-day conditions "need to be followed exactly": however the
\* readings fall and the clock is set back, the time charged is the price in
\* force at each instant, never to the driver's cost and apart only by what
\* truncation takes from each priced interval: less than a second of its time
\* and less than one unit of its price (boundary_minutes, advance, time_cost).
ToTheSecond ==
    audit.exact /\ ~bill.capped =>
        LET charged == TotalOf(bill.charging).excl + TotalOf(bill.idle).excl
            undercharged == audit.due - Resolution * Minute * charged
        IN /\ undercharged >= 0
           /\ undercharged <= Resolution * (Minute - 1) * audit.pieces + audit.fractions

\* A time window holds "with no minute charged twice or not at all"
\* (in_daily_window): all of the time between two readings is charged.
NoMinuteLost ==
    bill.usage.charging + bill.usage.idle >= NumSecs(instant - bill.periods[1].start)

\* "The pieces always sum to exactly what the meter reported", and the charging
\* periods to the usage: splitting, the guard on the number of pieces, tariff
\* changes and a frozen total lose no energy and no time (advance, charge).
BreakdownAddsUp ==
    LET sum(f(_)) == FoldLeft(LAMBDA acc, p : acc + f(p), 0, bill.periods)
    IN /\ bill.usage.energy = register
       /\ sum(LAMBDA p : p.energy) = bill.usage.energy
       /\ sum(LAMBDA p : p.charging) = bill.usage.charging
       /\ sum(LAMBDA p : p.idle) = bill.usage.idle

\* Accumulator: under one tariff the tax is taken once on each whole dimension,
\* not once per reading.
TaxedOnce ==
    (\A i \in DOMAIN bill.periods : bill.periods[i].tariff = tariffNow.id) =>
        \A dim \in {"energy", "charging", "idle"} :
            TotalOf(bill[dim]).incl = ApplyTaxes(TotalOf(bill[dim]).excl, tariffNow[dim].rates)

\* CostPeriod: a period ends where another price becomes the applicable one, so
\* that a CSMS can recalculate the cost from the periods - except where no
\* price was in use before, which opens none (charge).
PeriodsSplitAtChanges ==
    \A i \in DOMAIN bill.periods : Cardinality(bill.periods[i].uses \ {NoElements}) <= 1

\* CostPeriod: "One stretch of a transaction over which the same price elements
\* applied".
PeriodsAreUniform ==
    \A i \in DOMAIN bill.periods : Cardinality(bill.periods[i].uses) <= 1

\* What the driver is shown never shrinks while one tariff is in force, with a
\* floor, a cap and a clock that is set back (totals, advance).
BillNeverShrinks ==
    [][readings' # readings /\ tariffNow' = tariffNow =>
        Totals(bill', tariffNow').incl >= Totals(bill, tariffNow).incl]_pricingVars

\* The bill: priced to the second, its parts add up to it, taxed once, in
\* periods that begin where the price changes (pricing.rs).
BillIsExact ==
    PricingTypeOK /\ ToTheSecond /\ BreakdownAddsUp /\ TaxedOnce /\ PeriodsSplitAtChanges

=============================================================================
