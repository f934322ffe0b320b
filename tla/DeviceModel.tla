----------------------------- MODULE DeviceModel -----------------------------
(***************************************************************************)
(* The device model (src/state/device_model.rs): its bounded registrations,*)
(* the variables re-derived from the state after every applied event       *)
(* (src/state/charge_point_state.rs), SetVariables batches applied through *)
(* the actor (src/device_model.rs) and reports sent in chunks that may be  *)
(* lost (src/reporting.rs).                                                *)
(*                                                                         *)
(* One variable stands for each kind: AvailabilityState for what is        *)
(* derived from connectors and the station, two fields of a network        *)
(* configuration slot for its nine, one setting for those the CSMS writes, *)
(* and Added for the ones the binding registers.                           *)
(***************************************************************************)
EXTENDS Naturals, Sequences, FiniteSets, SequencesExt

CONSTANTS
    Added,           \* variables the hardware binding registers, none a mirrored one
    MirrorSlots,     \* configuration slots a CSMS stores a profile in
    MaxVariables,    \* StateLimits::max_device_model_variables
    ChunkSize,       \* REPORT_CHUNK_SIZE
    MaxAsks,         \* bound: CSMS requests
    MaxBinding       \* bound: events of the hardware binding

ASSUME DeviceModelAssumption ==
    /\ MaxVariables \in Nat /\ MaxVariables >= 2 /\ ChunkSize \in Nat \ {0}
    /\ MaxAsks \in Nat /\ MaxBinding \in Nat
    /\ MirrorSlots \subseteq Nat /\ IsFiniteSet(MirrorSlots)
    /\ Added \cap {"AvailabilityState", "OcppCsmsUrl", "BasicAuthPassword"} = {}

Fixed == {"AvailabilityState", "HeartbeatInterval"}
Settings == {"HeartbeatInterval"} \cup Added
Keys == [name : Fixed \cup Added, slot : {0}]
        \cup [name : {"OcppCsmsUrl", "BasicAuthPassword"}, slot : MirrorSlots]

Key(name) == [name |-> name, slot |-> 0]
Url(slot) == [name |-> "OcppCsmsUrl", slot |-> slot]
Secret(slot) == [name |-> "BasicAuthPassword", slot |-> slot]

Values == {"1", "2"}             \* well-formed values
Urls == {"u1", "u2"}

VARIABLES
    model,      \* the actor's DeviceModel: key |-> its Actual attribute
    station,    \* the state the mirrors follow: status and stored profiles
    seen,       \* the device model last published to readers
    inbox,      \* the actor's mailbox; a sender waits for its own event
    request,    \* the CSMS request being answered
    report,     \* the report being sent, and what the CSMS has of it
    dmPast      \* history: requests and binding events so far, and which
                \* settings were registered anew after a write

dmVars == <<model, station, seen, inbox, request, report, dmPast>>

-----------------------------------------------------------------------------
\* DeviceModel::register: replaces a known variable, value included, and
\* refuses a new one when the model is full.
Fits(m, key) == key \in DOMAIN m \/ Cardinality(DOMAIN m) < MaxVariables

Register(m, key, value, mutability) ==
    IF Fits(m, key)
    THEN [k \in DOMAIN m \cup {key} |->
             IF k = key THEN [value |-> value, mutability |-> mutability] ELSE m[k]]
    ELSE m

\* DeviceModel::set_attribute_value.
SetValue(m, key, value) ==
    IF key \in DOMAIN m THEN [m EXCEPT ![key].value = value] ELSE m

RegisterSlotOnce(m, slot, url) ==
    IF Url(slot) \in DOMAIN m THEN m
    ELSE Register(Register(m, Url(slot), url, "ReadOnly"), Secret(slot), "", "WriteOnly")

\* NetworkConnectionProfileSnapshot::register_into, for one occupied slot.
RegisterSlot(m, slot, url) ==
    Register(Register(m, Url(slot), url, "ReadOnly"), Secret(slot), "", "WriteOnly")

\* sync_availability_variables.
SyncAvailability(m, s) == SetValue(m, Key("AvailabilityState"), s.status)

\* NetworkProfileStore::slots, "by ascending slot number".
Ascending(S) == [n \in 1 .. Cardinality(S) |->
                    CHOOSE t \in S : Cardinality({u \in S : u < t}) = n - 1]

\* sync_network_configuration_variables.  No profile is ever removed while
\* running, so no slot's component is.
SyncNetwork(m, s) ==
    LET slots == Ascending({t \in MirrorSlots : s.urls[t] # "none"})
        after[n \in 0 .. Len(slots)] ==
            IF n = 0 THEN m
            ELSE RegisterSlot(after[n - 1], slots[n], s.urls[slots[n]])
    IN  after[Len(slots)]

\* What every applied event ends with.
Sync(m, s) == SyncNetwork(SyncAvailability(m, s), s)

-----------------------------------------------------------------------------
Waiting(who) == \E i \in DOMAIN inbox : inbox[i].from = who

Post(who, event) == inbox' = Append(inbox, [from |-> who, event |-> event])

\* One event applied by the actor: the change itself, the mirrors, and the
\* publication that only an event reporting a change makes.
Applied(event) ==
    CASE event.kind = "registered" ->
           [model |-> Register(model, event.key, "0", event.mutability),
            station |-> station, changed |-> Fits(model, event.key)]
      [] event.kind = "set" ->
           [model |-> SetValue(model, event.key, event.value),
            station |-> station, changed |-> event.key \in DOMAIN model]
      [] event.kind = "profile" ->
           [model |-> model,
            station |-> [station EXCEPT !.urls[event.slot] = event.url],
            changed |-> TRUE]
      [] event.kind = "status" ->
           [model |-> model,
            station |-> [station EXCEPT !.status = event.status],
            changed |-> station.status # event.status]

ActorApplies ==
    /\ inbox # <<>>
    /\ LET event == Head(inbox).event
           after == Applied(event)
       IN  /\ model' = Sync(after.model, after.station)
           /\ station' = after.station
           /\ seen' = IF after.changed THEN model' ELSE seen
           /\ dmPast' = [dmPast EXCEPT !.renewed =
                CASE event.kind = "registered" /\ after.changed -> @ \cup {event.key}
                  [] event.kind = "set" -> @ \ {event.key}
                  [] OTHER -> @]
    /\ inbox' = Tail(inbox)
    /\ UNCHANGED <<request, report>>

-----------------------------------------------------------------------------
\* The hardware binding registers a variable, or reports a change of status.
BindingReports ==
    /\ ~Waiting("binding") /\ dmPast.binding < MaxBinding
    /\ \/ \E name \in Settings, mutability \in {"ReadWrite", "ReadOnly"} :
             Post("binding", [kind |-> "registered", key |-> Key(name),
                              mutability |-> mutability])
       \/ \E status \in {"Available", "Occupied"} :
             Post("binding", [kind |-> "status", status |-> status])
    /\ dmPast' = [dmPast EXCEPT !.binding = @ + 1]
    /\ UNCHANGED <<model, station, seen, request, report>>

Items == [key : {Key(n) : n \in Settings}, value : Values]
         \cup {[key |-> Key("HeartbeatInterval"), value |-> "malformed"],
               [key |-> Key("AvailabilityState"), value |-> "1"]}

Asked == dmPast' = [dmPast EXCEPT !.asks = @ + 1]

\* A SetVariables batch arrives.
SetVariablesAsked ==
    /\ request.pc = "none" /\ dmPast.asks < MaxAsks
    /\ \E items \in Items \X Items :
          request' = [pc |-> "resolving", items |-> items, outcomes |-> <<>>]
    /\ Asked
    /\ UNCHANGED <<model, station, seen, inbox, report>>

\* resolve_and_apply_set, up to the verdict: an unknown variable, a read-only
\* one and a value it cannot hold are refused.
Verdict(m, item) ==
    IF item.key \notin DOMAIN m THEN "Unknown"
    ELSE IF m[item.key].mutability = "ReadOnly" \/ item.value = "malformed"
    THEN "Rejected" ELSE "Accepted"

\* After the send was acknowledged, or without one, the next item is due.
NextItem(r, outcome) ==
    LET outcomes == Append(r.outcomes, outcome)
    IN  [r EXCEPT !.outcomes = outcomes,
                  !.pc = IF Len(outcomes) = Len(r.items) THEN "answered"
                         ELSE "resolving"]

ResolveItem ==
    /\ request.pc = "resolving"
    /\ LET item == request.items[Len(request.outcomes) + 1]
       IN  IF Verdict(seen, item) = "Accepted"
           THEN /\ Post("csms", [kind |-> "set", key |-> item.key,
                                 value |-> item.value])
                /\ request' = [request EXCEPT !.pc = "sent"]
           ELSE /\ request' = NextItem(request, Verdict(seen, item))
                /\ UNCHANGED inbox
    /\ UNCHANGED <<model, station, seen, report, dmPast>>

\* ChargePointActor::send returns once the event has been applied.
Acknowledged == ~Waiting("csms")

ItemDone ==
    /\ request.pc = "sent" /\ Acknowledged
    /\ request' = NextItem(request, "Accepted")
    /\ UNCHANGED <<model, station, seen, inbox, report, dmPast>>

\* SetNetworkProfile, accepted: the event is sent and awaited.
ProfileAsked ==
    /\ request.pc = "none" /\ dmPast.asks < MaxAsks
    /\ \E slot \in MirrorSlots, url \in Urls :
          Post("csms", [kind |-> "profile", slot |-> slot, url |-> url])
    /\ request' = [pc |-> "profile", items |-> <<>>, outcomes |-> <<>>]
    /\ Asked
    /\ UNCHANGED <<model, station, seen, report>>

RequestOver ==
    /\ request.pc = "answered" \/ (request.pc = "profile" /\ Acknowledged)
    /\ request' = [pc |-> "none", items |-> <<>>, outcomes |-> <<>>]
    /\ UNCHANGED <<model, station, seen, inbox, report, dmPast>>

-----------------------------------------------------------------------------
\* matches_base.
Matches(m, base) ==
    {k \in DOMAIN m :
        CASE base = "FullInventory"          -> TRUE
          [] base = "ConfigurationInventory" -> m[k].mutability # "ReadOnly"
          [] base = "SummaryInventory"       -> k.name = "AvailabilityState"}

Entries(m, base) == {[key |-> k, value |-> m[k].value] : k \in Matches(m, base)}

\* chunk_report: at most ChunkSize entries each, numbered from 0, the last one
\* not to be continued; an empty report is one empty chunk.
ChunkReport(entries) ==
    LET all   == SetToSeq(entries)
        total == IF all = <<>> THEN 1 ELSE (Len(all) + ChunkSize - 1) \div ChunkSize
    IN  [n \in 1 .. total |->
            [seqNo |-> n - 1, tbc |-> n < total,
             entries |-> ToSet(SubSeq(all, (n - 1) * ChunkSize + 1,
                     IF n * ChunkSize < Len(all) THEN n * ChunkSize ELSE Len(all)))]]

\* handle_get_base_report: the entries are copied from one state.
ReportAsked ==
    /\ report.pc = "none" /\ dmPast.asks < MaxAsks
    /\ \E base \in {"FullInventory", "ConfigurationInventory", "SummaryInventory"} :
          report' = [pc |-> "sending", sent |-> 0, received |-> <<>>,
                     entries |-> Entries(seen, base)]
    /\ Asked
    /\ UNCHANGED <<model, station, seen, inbox, request>>

\* filter_report_entries, for one criterion or one named variable: a component
\* without the criterion's control variable matches any but Problem, and none
\* of the variables modelled here is a control variable.
Filtered(m, filter) ==
    {[key |-> k, value |-> m[k].value] :
        k \in {k \in DOMAIN m : filter = "Enabled" \/ k.name = filter}}

\* handle_get_report: an empty selection is answered EmptyResultSet and no
\* report follows.
FilteredReportAsked ==
    /\ report.pc = "none" /\ dmPast.asks < MaxAsks
    /\ \E filter \in {"Enabled", "Problem"} \cup Settings :
          LET selected == Filtered(seen, filter)
          IN  report' = IF selected = {} THEN report
                        ELSE [pc |-> "sending", sent |-> 0, received |-> <<>>,
                              entries |-> selected]
    /\ Asked
    /\ UNCHANGED <<model, station, seen, inbox, request>>

\* The chunk send_report_chunks sends next.
NextChunk(r) == ChunkReport(r.entries)[r.sent + 1]

\* One chunk is sent; a failed send is logged and skipped.
SendChunk ==
    /\ report.pc = "sending"
    /\ \E arrives \in BOOLEAN :
          report' = [report EXCEPT
              !.sent = @ + 1,
              !.received = IF arrives THEN Append(@, NextChunk(report)) ELSE @,
              !.pc = IF report.sent + 1 = Len(ChunkReport(report.entries))
                     THEN "answered" ELSE "sending"]
    /\ UNCHANGED <<model, station, seen, inbox, request, dmPast>>

NoReport == [pc |-> "none", sent |-> 0, received |-> <<>>, entries |-> {}]

ReportOver ==
    /\ report.pc = "answered" /\ report' = NoReport
    /\ UNCHANGED <<model, station, seen, inbox, request, dmPast>>

-----------------------------------------------------------------------------
DmInit ==
    /\ model = [k \in {Key(n) : n \in Fixed} |->
                  IF k.name = "AvailabilityState"
                  THEN [value |-> "Available", mutability |-> "ReadOnly"]
                  ELSE [value |-> "0", mutability |-> "ReadWrite"]]
    /\ station = [status |-> "Available", urls |-> [s \in MirrorSlots |-> "none"]]
    /\ seen = model
    /\ inbox = <<>>
    /\ request = [pc |-> "none", items |-> <<>>, outcomes |-> <<>>]
    /\ report = NoReport
    /\ dmPast = [asks |-> 0, binding |-> 0, renewed |-> {}]

DmNext ==
    \/ ActorApplies \/ BindingReports
    \/ SetVariablesAsked \/ ResolveItem \/ ItemDone \/ ProfileAsked \/ RequestOver
    \/ ReportAsked \/ FilteredReportAsked \/ SendChunk \/ ReportOver

DmSpec == DmInit /\ [][DmNext]_dmVars

-----------------------------------------------------------------------------
\* The model never outgrows max_variables, whatever is registered or mirrored
\* into it, and a sender has at most one event in the mailbox.
DmTypeOK ==
    /\ DOMAIN model \subseteq Keys /\ Cardinality(DOMAIN model) <= MaxVariables
    /\ \A k \in DOMAIN model :
          model[k].mutability \in {"ReadOnly", "ReadWrite", "WriteOnly"}
    /\ DOMAIN seen \subseteq DOMAIN model
    /\ \A i, j \in DOMAIN inbox : inbox[i].from = inbox[j].from => i = j
    /\ request.pc \in {"none", "resolving", "sent", "profile", "answered"}
    /\ report.pc \in {"none", "sending", "answered"}

\* What a reader of the published model sees of the mirrored variables is the
\* state they mirror: the station's status, and for a stored profile either its
\* current URL or no variable, which happens only in a full model
\* (sync_availability_variables, sync_network_configuration_variables).
MirrorsAreCurrent ==
    /\ seen[Key("AvailabilityState")].value = station.status
    /\ \A s \in MirrorSlots :
          IF Url(s) \in DOMAIN seen
          THEN seen[Url(s)].value = station.urls[s]
          ELSE station.urls[s] = "none" \/ Cardinality(DOMAIN seen) = MaxVariables

\* When SetVariables answers, a GetVariables reads what each accepted item
\* wrote, the last of several for one variable, unless the binding registered
\* the variable anew in between (resolve_and_apply_set waits for the actor
\* item by item).
AcceptedIsReadable ==
    request.pc = "answered" =>
        \A i \in DOMAIN request.items :
            \/ request.outcomes[i] # "Accepted"
            \/ request.items[i].key \in dmPast.renewed
            \/ \E j \in (i + 1) .. Len(request.items) :
                  /\ request.items[j].key = request.items[i].key
                  /\ request.outcomes[j] = "Accepted"
            \/ seen[request.items[i].key].value = request.items[i].value

\* The CSMS can tell from seqNo and tbc alone whether it has a whole report,
\* and a whole one is the requested inventory of a single moment, however many
\* events were applied between its chunks (send_report_chunks skips a chunk
\* that fails).
Whole(chunks) ==
    /\ \A i \in DOMAIN chunks : chunks[i].seqNo = i - 1
    /\ chunks # <<>> /\ ~Last(chunks).tbc

WholeReportsAreComplete ==
    report.pc = "answered" /\ Whole(report.received) =>
        UNION {report.received[i].entries : i \in DOMAIN report.received}
            = report.entries

\* The device model: mirrored variables show the state, what was acknowledged
\* can be read back, and a report that looks whole is (device_model.rs,
\* reporting.rs).
ModelIsHonest ==
    DmTypeOK /\ MirrorsAreCurrent /\ AcceptedIsReadable /\ WholeReportsAreComplete

=============================================================================
