---------------------------- MODULE RunningCost ----------------------------
(***************************************************************************)
(* Tariffs and what a session costs (tariff.rs, cost.rs, pricing.rs,       *)
(* state/tariff.rs, and deliver_transaction_event in transactions.rs).     *)
(* The default tariffs sit in a store, a driver's tariff and the running   *)
(* cost on the connector.  A cost is advanced when a TransactionEvent is   *)
(* delivered, which may be long after the event happened, and what the     *)
(* CSMS answers is applied to whatever the connector runs by then.  Every  *)
(* change goes through the actor: a task reads the state, decides, and     *)
(* waits until its event has been applied; the hardware's events may be    *)
(* applied in between.  One EVSE with one connector; one currency; money   *)
(* and energy in whole units; time only decides which tariff is valid.     *)
(***************************************************************************)
EXTENDS Integers, Sequences, Functions

CONSTANTS
    Tariffs,        \* what the CSMS may install: [id, from, price, fee]
    MaxTariffs,     \* StateLimits::max_tariffs
    MeterAtBoot,    \* what the meter's register reads at first
    MaxMeter, MaxSessions,   \* bounds
    MaxDisturbances,    \* bound: requests and failed sends together
    LastDay         \* bound: how far the clock goes

ASSUME CostAssumption ==
    /\ \A t \in Tariffs : t.from \in Nat /\ t.price \in Nat /\ t.fee \in Nat
    /\ MaxTariffs \in Nat \ {0} /\ MaxMeter \in Nat /\ MeterAtBoot \in 0 .. MaxMeter
    /\ MaxSessions \in Nat /\ MaxDisturbances \in Nat
    /\ LastDay \in Nat

VARIABLES
    store,      \* TariffStore::tariffs, in installation order
    session,    \* the connector's transaction, and the register when it began
    driver,     \* EvseState::transaction_tariffs
    cost,       \* EvseState::running_cost
    told,       \* EvseState::running_costs: whose cost the CSMS reported last
    meter, day, sessions,
    reports,    \* TransactionEvents not delivered yet
    reporter,   \* the delivery under way
    request,    \* the CSMS request whose event the actor has not applied yet
    quota       \* requests and failed sends left

costVars == <<store, session, driver, cost, told, meter, day, sessions, reports,
              reporter, request, quota>>

Absent    == 0 - 1     \* no sample, no session, no request
NoTariff  == [id |-> "none", from |-> 0, price |-> 0, fee |-> 0]
NoCost    == [tariff |-> NoTariff, units |-> Absent, charged |-> 0, last |-> 0]
NoSession == [id |-> Absent, energy |-> Absent, began |-> 0]
NoRequest == [kind |-> "none"]
ReporterIdle   == [pc |-> "idle", report |-> NoSession, cost |-> NoCost]
TariffScopes == {"chargePoint", "evse"}

CostInit ==
    /\ store = <<>> /\ session = NoSession /\ driver = NoTariff
    /\ cost = NoCost /\ told = Absent
    /\ meter = MeterAtBoot /\ day = 0 /\ sessions = 0
    /\ reports = <<>> /\ reporter = ReporterIdle /\ request = NoRequest
    /\ quota = MaxDisturbances

----------------------------------------------------------------------------
(* TariffStore. *)

Supersedes(scope, t, installed) ==
    installed.scope = scope /\ (installed.t.id = t.id \/ installed.t.from = t.from)

\* Whether set_default takes the tariff: its id is not installed at another
\* scope, and it replaces something or there is room.
Takes(scope, t) ==
    /\ ~\E i \in DOMAIN store : store[i].scope # scope /\ store[i].t.id = t.id
    /\ \/ \E i \in DOMAIN store : Supersedes(scope, t, store[i])
       \/ Len(store) < MaxTariffs

\* What Vec::retain leaves of the store: the tariffs outside a set, in order.
Retained(gone) ==
    LET kept[n \in 0 .. Len(store)] ==
            IF n = 0 THEN <<>>
            ELSE IF store[n] \in gone THEN kept[n - 1]
            ELSE Append(kept[n - 1], store[n])
    IN kept[Len(store)]

SetDefault(scope, t) ==
    Append(Retained({x \in Range(store) : Supersedes(scope, t, x)}),
           [scope |-> scope, t |-> t])

\* max_by_key on valid_from, which returns the last of several maxima.
EffectiveFor(scope) ==
    LET valid == {i \in DOMAIN store : store[i].scope = scope /\ store[i].t.from <= day}
    IN IF valid = {} THEN NoTariff
       ELSE store[CHOOSE i \in valid : \A j \in valid :
                    \/ store[j].t.from < store[i].t.from
                    \/ store[j].t.from = store[i].t.from /\ j <= i].t

EffectiveTariff ==
    CASE driver # NoTariff               -> driver
      [] driver = NoTariff /\ EffectiveFor("evse") # NoTariff -> EffectiveFor("evse")
      [] OTHER                           -> EffectiveFor("chargePoint")

----------------------------------------------------------------------------
(* TransactionCost: started at the first report a tariff applies to, and   *)
(* advanced by each later one.  pricing_context takes the register of the  *)
(* report's sample, or 0 when it has none.                                 *)

Reading(report) == IF report.energy = Absent THEN 0 ELSE report.energy

CostStart(t, report) ==
    [tariff |-> t, units |-> 0, charged |-> t.fee, last |-> Reading(report)]

CostAdvanceFromZero(c, t, report) ==
    LET used == Reading(report)
    IN [tariff |-> t, units |-> c.units + used, charged |-> c.charged + t.price * used,
        last |-> Reading(report)]
CostAdvanceUnderNewTariff(c, t, report) ==
    IF t # c.tariff THEN CostStart(t, report) ELSE CostAdvanceFromZero(c, t, report)
CostAdvance(c, t, report) ==
    LET used == IF Reading(report) > c.last THEN Reading(report) - c.last ELSE 0
    IN [tariff |-> t, units |-> c.units + used, charged |-> c.charged + t.price * used,
        last |-> Reading(report)]

----------------------------------------------------------------------------
(* The session, as the hardware's events move it. *)

Fresh == driver' = NoTariff /\ cost' = NoCost /\ told' = Absent

BeginSession ==
    /\ session = NoSession /\ sessions < MaxSessions
    /\ session' = [id |-> sessions, energy |-> Absent, began |-> meter]
    /\ sessions' = sessions + 1
    /\ reports' = Append(reports, session')
    /\ Fresh
    /\ UNCHANGED <<store, meter, day, reporter, request, quota>>

SampleMeter ==
    /\ session # NoSession /\ meter < MaxMeter
    /\ meter' = meter + 1
    /\ session' = [session EXCEPT !.energy = meter + 1]
    /\ reports' = Append(reports, session')
    /\ UNCHANGED <<store, driver, cost, told, day, sessions, reporter, request, quota>>

FinishSession ==
    /\ session # NoSession
    /\ reports' = Append(reports, session)
    /\ session' = NoSession
    /\ Fresh

EndSession ==
    /\ FinishSession
    /\ UNCHANGED <<store, meter, day, sessions, reporter, request, quota>>

NextDay ==
    /\ day < LastDay /\ day' = day + 1
    /\ UNCHANGED <<store, session, driver, cost, told, meter, sessions, reports,
                   reporter, request, quota>>

----------------------------------------------------------------------------
(* The CSMS's requests: checked against the state as it is, then sent to   *)
(* the actor.  A request that is refused changes nothing.                  *)

Ask(r) ==
    /\ request = NoRequest /\ quota > 0
    /\ request' = r
    /\ quota' = quota - 1
    /\ UNCHANGED <<store, session, driver, cost, told, meter, day, sessions, reports,
                   reporter>>

HandleSetDefaultTariff ==
    \E scope \in TariffScopes, t \in Tariffs :
        Takes(scope, t) /\ Ask([kind |-> "set", scope |-> scope, t |-> t])

\* ClearTariffs by id, or of everything.
HandleClearTariffs ==
    \E ids \in {{t.id : t \in Tariffs}} \cup {{t.id} : t \in Tariffs} :
        /\ \E i \in DOMAIN store : store[i].t.id \in ids
        /\ Ask([kind |-> "clear", ids |-> ids])

HandleChangeTransactionTariff ==
    /\ session # NoSession
    /\ \E t \in Tariffs : Ask([kind |-> "assign", t |-> t, for |-> session.id])

HandleCostUpdated ==
    session # NoSession /\ Ask([kind |-> "told", for |-> session.id])

\* The actor applies the event: the store checks again, and what is addressed
\* to the connector needs a transaction there, not the one it was meant for.
ApplyRequest ==
    /\ request # NoRequest /\ request' = NoRequest
    /\ store' = CASE request.kind = "set" ->
                       IF Takes(request.scope, request.t)
                       THEN SetDefault(request.scope, request.t) ELSE store
                  [] request.kind = "clear" ->
                       Retained({x \in Range(store) : x.t.id \in request.ids})
                  [] OTHER -> store
    /\ driver' = IF request.kind = "assign" /\ session # NoSession
                 THEN request.t ELSE driver
    /\ told' = IF request.kind = "told" /\ session # NoSession
               THEN request.for ELSE told
    /\ UNCHANGED <<session, cost, meter, day, sessions, reports, reporter, quota>>

----------------------------------------------------------------------------
(* Delivering the front of the queue: price it, send it, act on the answer. *)

Price ==
    /\ reporter.pc = "idle" /\ reports # <<>>
    /\ LET r == Head(reports)
           t == EffectiveTariff
       IN reporter' = IF t = NoTariff
                      THEN [ReporterIdle EXCEPT !.pc = "sent", !.report = r]
                      ELSE [ReporterIdle EXCEPT !.pc = "priced", !.report = r,
                             !.cost = IF cost = NoCost THEN CostStart(t, r)
                                      ELSE CostAdvance(cost, t, r)]
    /\ UNCHANGED <<store, session, driver, cost, told, meter, day, sessions, reports,
                   request, quota>>

\* RunningCostAdvanced is applied; then the request goes out.
RecordCost ==
    /\ reporter.pc = "priced"
    /\ reporter' = [reporter EXCEPT !.pc = "sent"]
    /\ cost' = IF session # NoSession THEN reporter.cost ELSE cost
    /\ UNCHANGED <<store, session, driver, told, meter, day, sessions, reports,
                   request, quota>>

SendFails ==
    /\ reporter.pc = "sent" /\ quota > 0
    /\ reporter' = ReporterIdle
    /\ quota' = quota - 1
    /\ UNCHANGED <<store, session, driver, cost, told, meter, day, sessions, reports,
                   request>>

\* The answer may refuse the identifier; the report is done either way.
Answered(rejected) ==
    /\ reporter.pc = "sent"
    /\ reports' = Tail(reports)
    /\ reporter' = IF rejected THEN [reporter EXCEPT !.pc = "revoke"] ELSE ReporterIdle
    /\ UNCHANGED <<store, session, driver, cost, told, meter, day, sessions, request,
                   quota>>

\* AuthorizationRevoked, addressed to the connector, with StopTxOnInvalidId.
Revoke ==
    /\ reporter.pc = "revoke" /\ reporter' = ReporterIdle
    /\ \/ FinishSession
       \/ session = NoSession /\ UNCHANGED <<session, reports, driver, cost, told>>
    /\ UNCHANGED <<store, meter, day, sessions, request, quota>>

CostNext ==
    \/ BeginSession \/ SampleMeter \/ EndSession \/ NextDay
    \/ HandleSetDefaultTariff \/ HandleClearTariffs
    \/ HandleChangeTransactionTariff \/ HandleCostUpdated \/ ApplyRequest
    \/ Price \/ RecordCost \/ SendFails
    \/ \E rejected \in BOOLEAN : Answered(rejected)
    \/ Revoke

CostSpec == CostInit /\ [][CostNext]_costVars

----------------------------------------------------------------------------
(* The types; a cost lives only on a connector that runs a session, since  *)
(* the actor drops the one computed for a session that has ended.          *)
CostTypeOK ==
    /\ \A i \in DOMAIN store : store[i].scope \in TariffScopes /\ store[i].t \in Tariffs
    /\ driver \in Tariffs \cup {NoTariff}
    /\ meter \in MeterAtBoot .. MaxMeter /\ day \in 0 .. LastDay
    /\ session.id \in Absent .. sessions - 1
    /\ session = NoSession => driver = NoTariff /\ cost = NoCost /\ told = Absent
    /\ cost # NoCost => cost.units \in Nat /\ cost.charged \in Nat
    /\ reporter.pc \in {"idle", "priced", "sent", "revoke"}

(* Whatever is installed, replaced and cleared, and however requests and   *)
(* the actor interleave, the store can name one tariff for an id, one per  *)
(* scope and day of validity, and stays within its limit.                  *)
StoreIsUnambiguous ==
    /\ Len(store) <= MaxTariffs
    /\ \A i, j \in DOMAIN store : i # j =>
          /\ store[i].t.id # store[j].t.id
          /\ store[i].scope = store[j].scope => store[i].t.from # store[j].t.from

(* advance_running_cost leaves an earned total alone when no tariff        *)
(* applies, and seals what was charged when the tariff changes: while a    *)
(* session runs, what it has been charged never shrinks, whatever is       *)
(* cleared, reassigned, retried or delivered late.                         *)
EarnedIsKept ==
    [][(session # NoSession /\ session'.id = session.id /\ cost # NoCost)
        => cost' # NoCost /\ cost'.charged >= cost.charged]_costVars

(* A report that is sent again, and every later one, prices only what is   *)
(* new: the first session after commissioning is never billed for more     *)
(* than the register shows.                                                *)
BilledOnce == (sessions = 1 /\ cost # NoCost) => cost.units <= meter

(* PricingContext::energy_mwh is the "cumulative energy this transaction   *)
(* has transferred" (pricing.rs:68): a session is not billed for energy    *)
(* that was on the register before it began.                               *)
BilledWithinDelivered ==
    cost # NoCost => cost.units <= meter - session.began
=============================================================================
