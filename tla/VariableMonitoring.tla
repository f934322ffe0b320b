------------------------- MODULE VariableMonitoring -------------------------
(***************************************************************************)
(* Variable monitors and periodic event streams (variable_monitoring.rs,   *)
(* periodic_event_stream.rs and their stores under state/), watching one   *)
(* variable of the device model.  The CSMS sets, replaces and clears       *)
(* monitors, opens streams on them and moves the monitoring level; writes  *)
(* to the variable fire threshold and delta monitors from inside the state *)
(* machine, and two sweeps report periodic monitors and streams on their   *)
(* own clock, from a snapshot of what was due, one send at a time.  Times  *)
(* are ages: how long ago something was last reported, up to MaxAge.       *)
(***************************************************************************)
EXTENDS Integers, SequencesExt

CONSTANTS
    MaxMonitors, MaxStreams,    \* StateLimits
    MonitorTypes, Severities, Levels,
    TopValue, MaxId, MaxAge,    \* bounds: the variable, ids, ages
    MaxOrders, MaxWritten, MaxLost    \* bounds: CSMS requests, writes, lost sends

ASSUME MonitoringAssumption ==
    /\ MaxMonitors \in Nat \ {0} /\ MaxStreams \in Nat \ {0}
    /\ MonitorTypes \subseteq {"Upper", "Lower", "Delta", "Periodic"}
    /\ TopValue \in Nat /\ MaxId \in Nat \ {0} /\ MaxAge \in Nat \ {0}

VARIABLES
    monitors,   \* id -> monitor, over the installed ids
    nextId, level, reading,
    streams,    \* stream id -> [monitor, every]
    alerts,     \* fired monitors on their way to the event loop
    sweeper,    \* which of the two sweeps the builder wired
    sweep,      \* what it still has to send, and since when
    reported,   \* id -> age of the last report, never dropped
    told,       \* ghost, id -> the value a delta monitor last spoke of
    failed,     \* ghost, the items whose last send failed
    orders, written, lost

monVars == <<monitors, nextId, level, reading, streams, alerts, sweeper,
             sweep, reported, told, failed, orders, written, lost>>

Ids     == 1..MaxId
Periods == 1..MaxAge
NoNumber == 0 - 1               \* a value that does not parse as a number
Never    == MaxAge + 1          \* not in last_reported

Distance(a, b) == IF a < b THEN b - a ELSE a - b
Put(f, k, v)   == [x \in DOMAIN f \union {k} |-> IF x = k THEN v ELSE f[x]]
Drop(f, S)     == [x \in DOMAIN f \ S |-> f[x]]

\* The keys of a BTreeMap, in the order it is walked.
ById(S) == [n \in 1..Cardinality(S) |->
               CHOOSE i \in S : Cardinality({j \in S : j < i}) = n - 1]

MonInit ==
    /\ monitors = << >> /\ nextId = 1 /\ level = 9 /\ reading = 0
    /\ streams = << >> /\ alerts = << >>
    /\ sweeper \in {"monitors", "streams"}
    /\ sweep = [due |-> << >>, since |-> 0]
    /\ reported = [i \in Ids |-> Never]
    /\ told = [i \in Ids |-> NoNumber]
    /\ failed = {}
    /\ orders = 0 /\ written = 0 /\ lost = 0

Requested == UNCHANGED <<sweeper, reading, sweep, reported, failed, alerts, written, lost>>

\* Requests that only take away or adjust need no bound of their own.
Order ==
    /\ orders < MaxOrders
    /\ orders' = orders + 1
    /\ Requested

\* VariableMonitorStore::precheck: replacing an installed id is never refused.
Precheck(id, type) ==
    \/ id \in DOMAIN monitors
    \/ /\ \A i \in DOMAIN monitors : monitors[i].type # type
       /\ Cardinality(DOMAIN monitors) < MaxMonitors

\* handle_set_variable_monitoring, one item: under the id the CSMS names or
\* the next free one.  A refusal changes nothing and is left out.
SetMonitor(id, type, amount, severity) ==
    /\ Order
    /\ id \in Ids
    /\ Precheck(id, type)
    /\ monitors' = Put(monitors, id, [type |-> type, value |-> amount,
                       severity |-> severity, baseline |-> NoNumber])
    /\ nextId' = IF id >= nextId THEN id + 1 ELSE nextId
    /\ told' = [told EXCEPT ![id] = NoNumber]
    /\ UNCHANGED <<level, streams>>

ClearMonitor(id) ==
    /\ Requested /\ orders' = orders
    /\ id \in DOMAIN monitors
    /\ monitors' = Drop(monitors, {id})
    /\ UNCHANGED <<nextId, level, streams, told>>

\* SetMonitoringBase: anything but All clears what the CSMS installed.
SetBase(base) ==
    /\ Order
    /\ monitors' = IF base = "All" THEN monitors ELSE << >>
    /\ UNCHANGED <<nextId, level, streams, told>>

SetLevel(severity) ==
    /\ Order
    /\ level' = severity
    /\ UNCHANGED <<monitors, nextId, streams, told>>

OpenStream(id, monitor, every) ==
    /\ Order
    /\ monitor \in DOMAIN monitors
    /\ id \in DOMAIN streams \/ Cardinality(DOMAIN streams) < MaxStreams
    /\ streams' = Put(streams, id, [monitor |-> monitor, every |-> every])
    /\ UNCHANGED <<monitors, nextId, level, told>>

AdjustStream(id, every) ==
    /\ Requested /\ orders' = orders
    /\ id \in DOMAIN streams
    /\ streams' = [streams EXCEPT ![id].every = every]
    /\ UNCHANGED <<monitors, nextId, level, told>>

CloseStream(id) ==
    /\ Requested /\ orders' = orders
    /\ id \in DOMAIN streams
    /\ streams' = Drop(streams, {id})
    /\ UNCHANGED <<monitors, nextId, level, told>>

\* VariableMonitorStore::evaluate, for one monitor: the baseline a delta
\* monitor measures from, whether the monitor fires, what it keeps.
Baseline(m, old, new) ==
    IF m.baseline # NoNumber THEN m.baseline
    ELSE IF old # NoNumber THEN old ELSE new

Fires(m, old, new) ==
    CASE m.type = "Upper" -> new >= m.value /\ (old = NoNumber \/ old < m.value)
      [] m.type = "Lower" -> new <= m.value /\ (old = NoNumber \/ old > m.value)
      [] m.type = "Delta" -> Distance(new, Baseline(m, old, new)) >= m.value
      [] OTHER -> FALSE

EvaluatedFollowsEveryWrite(m, old, new) ==
    IF m.type # "Delta" THEN m ELSE [m EXCEPT !.baseline = new]

Evaluated(m, old, new) ==
    IF m.type # "Delta" THEN m
    ELSE [m EXCEPT !.baseline = IF Fires(m, old, new) THEN new
                                ELSE Baseline(m, old, new)]

\* DeviceModelEvent::AttributeValueSet on the variable's Actual attribute: a
\* value that does not parse is stored and evaluated by nobody.
Write(new) ==
    LET fired == {i \in DOMAIN monitors : Fires(monitors[i], reading, new)}
    IN  /\ written < MaxWritten
        /\ written' = written + 1
        /\ reading' = new
        /\ IF new = NoNumber
           THEN UNCHANGED <<monitors, alerts, told>>
           ELSE /\ monitors' = [i \in DOMAIN monitors |->
                                    Evaluated(monitors[i], reading, new)]
                /\ alerts' = alerts \o
                     [n \in 1..Cardinality(fired) |->
                        [id |-> ById(fired)[n],
                         severity |-> monitors[ById(fired)[n]].severity]]
                /\ told' = [i \in Ids |->
                     IF i \notin DOMAIN monitors THEN told[i]
                     ELSE IF i \in fired THEN new
                     ELSE IF told[i] # NoNumber THEN told[i]
                     ELSE IF reading # NoNumber THEN reading ELSE new]
        /\ UNCHANGED <<nextId, level, streams, sweeper, sweep, reported, failed,
                       orders, lost>>

\* The outcome of a send: failures are bounded.
Delivered == lost' = lost
Failed    == lost < MaxLost /\ lost' = lost + 1

\* run_variable_monitor_events: an alert below the level of the moment is
\* dropped, any other is sent once.
ReportAlert ==
    /\ alerts # << >>
    /\ alerts' = Tail(alerts)
    /\ \/ Head(alerts).severity > level /\ Delivered
       \/ Head(alerts).severity <= level /\ (Delivered \/ Failed)
    /\ UNCHANGED <<monitors, nextId, level, sweeper, reading, streams, sweep, reported,
                   told, failed, orders, written>>

\* due_periodic_events and due_periodic_stream_samples.
IsDue(id, every) == reported[id] = Never \/ reported[id] >= every

Every(i) == IF sweeper = "monitors" THEN monitors[i].value ELSE streams[i].every

Due ==
    IF sweeper = "monitors"
    THEN {i \in DOMAIN monitors : /\ monitors[i].type = "Periodic"
                                  /\ IsDue(i, Every(i))}
    ELSE {i \in DOMAIN streams : /\ IsDue(i, Every(i))
                                 /\ streams[i].monitor \in DOMAIN monitors}

\* The severity an item of the sweep carries is the one of its snapshot; a
\* stream has none and is never suppressed.
Item(i) ==
    [id |-> i, every |-> Every(i),
     severity |-> IF sweeper = "monitors" THEN monitors[i].severity ELSE 0]

\* One sweep begins: the clock is read and everything due is collected.
StartSweep ==
    /\ sweep.due = << >>
    /\ Due # {}
    /\ sweep' =
         [due |-> [n \in 1..Cardinality(Due) |-> Item(ById(Due)[n])],
          since |-> 0]
    /\ UNCHANGED <<monitors, nextId, level, sweeper, reading, streams, alerts, reported,
                   told, failed, orders, written, lost>>

\* What a send leaves behind: the report is dated by the sweep's own clock
\* reading; a failed one leaves the item due.
NoteReport(id, delivered) ==
    IF delivered THEN [reported EXCEPT ![id] = sweep.since] ELSE reported

SweepNext ==
    LET item == Head(sweep.due)
    IN  /\ sweep.due # << >>
        /\ sweep' = [sweep EXCEPT !.due = Tail(@)]
        /\ \/ /\ sweeper = "monitors" /\ item.severity > level
              /\ Delivered
              /\ reported' = NoteReport(item.id, TRUE)
              /\ failed' = {f \in failed : f.id # item.id}
           \/ /\ sweeper = "streams" \/ item.severity <= level
              /\ \/ /\ Delivered
                    /\ reported' = NoteReport(item.id, TRUE)
                    /\ failed' = {f \in failed : f.id # item.id}
                 \/ /\ Failed
                    /\ reported' = NoteReport(item.id, FALSE)
                    /\ failed' = failed \union {item}
        /\ UNCHANGED <<monitors, nextId, level, sweeper, reading, streams, alerts, told,
                       orders, written>>

Older(age) == IF age >= MaxAge THEN age ELSE age + 1

MonTick ==
    /\ reported' = [i \in Ids |-> Older(reported[i])]
    /\ sweep' = [sweep EXCEPT !.since = IF sweep.due = << >> THEN 0 ELSE Older(@)]
    /\ UNCHANGED <<monitors, nextId, level, sweeper, reading, streams, alerts, told,
                   failed, orders, written, lost>>

MonRequests ==
    \/ \E type \in MonitorTypes, amount \in Periods, severity \in Severities :
          \/ SetMonitor(nextId, type, amount, severity)
          \/ \E id \in Ids : SetMonitor(id, type, amount, severity)
    \/ \E id \in Ids : ClearMonitor(id) \/ CloseStream(id)
    \/ \E base \in {"All", "FactoryDefault"} : SetBase(base)
    \/ \E severity \in Levels : SetLevel(severity)
    \/ \E id, monitor \in Ids, every \in Periods : OpenStream(id, monitor, every)
    \/ \E id \in Ids, every \in Periods : AdjustStream(id, every)

MonSteps ==
    \/ ReportAlert
    \/ StartSweep
    \/ SweepNext

MonNext ==
    \/ MonRequests
    \/ \E new \in 0..TopValue \union {NoNumber} : Write(new)
    \/ MonSteps
    \/ MonTick

MonSpec == MonInit /\ [][MonNext]_monVars

-----------------------------------------------------------------------------
\* The stores stay within their limits and every reference in flight names an
\* id of the right kind.
MonTypeOK ==
    /\ DOMAIN monitors \subseteq Ids /\ Cardinality(DOMAIN monitors) <= MaxMonitors
    /\ \A i \in DOMAIN monitors : i < nextId /\ monitors[i].type \in MonitorTypes
    /\ DOMAIN streams \subseteq Ids /\ Cardinality(DOMAIN streams) <= MaxStreams
    /\ reading \in 0..TopValue \union {NoNumber}
    /\ sweep.since \in 0..MaxAge

\* However slowly the variable creeps, a delta monitor never lets it stray by
\* its delta or more from the value it last spoke of (VariableMonitorStore::
\* evaluate, "has moved by at least value since the last time it fired").
DriftIsBounded ==
    \A i \in DOMAIN monitors :
        monitors[i].type = "Delta" /\ reading # NoNumber /\ told[i] # NoNumber
        => Distance(reading, told[i]) < monitors[i].value

\* "A failed report is logged and the monitor is left due, so it's retried on
\* the very next sweep": however long the rest of the sweep took, an item whose
\* last send failed is still past the period it was collected under.
FailedStaysDue ==
    \A item \in failed : IsDue(item.id, item.every)

\* Monitors: a value never drifts from the reported one by the delta or more,
\* and a periodic report that failed stays due (variable_monitoring.rs).
MonitorsReport == MonTypeOK /\ DriftIsBounded /\ FailedStaysDue

=============================================================================
