--------------------------- MODULE StatusReporting ---------------------------
(***************************************************************************)
(* How the CSMS learns each connector's status: the queued forwarder with  *)
(* its MinimumStatusDuration debounce and its duplicate filter, and the    *)
(* two sweeps that report every connector (availability.rs and             *)
(* ChargePointBuilder::status_notifications and                            *)
(* connector_status_resynchronisation), next to what a reconnect runs.     *)
(*                                                                         *)
(* ocpp-client, which runs the reconnect handlers, is external.  InOrder   *)
(* says whether it runs them one after the other in registration order,    *)
(* as the comments in setup.rs and builder.rs rely on, or concurrently.    *)
(***************************************************************************)
EXTENDS Integers, Sequences, FiniteSets, SequencesExt

CONSTANTS
    Sockets,      \* the station's connectors
    Statuses,     \* values of ConnectorStatus that occur
    AtBoot,       \* every connector's status when the process starts
    Debounced,    \* MinimumStatusDuration is not 0
    InOrder,      \* reconnect handlers run one after the other
    QueueCap,     \* OfflineQueue capacity
    MaxChanges,   \* bound: status changes in a behaviour
    MaxDrops      \* bound: connection losses in a behaviour

ASSUME StatusAssumption ==
    /\ AtBoot \in Statuses /\ "none" \notin Statuses /\ Debounced \in BOOLEAN /\ InOrder \in BOOLEAN
    /\ IsFiniteSet(Sockets)
    /\ QueueCap \in Nat \ {0} /\ MaxChanges \in Nat /\ MaxDrops \in Nat

VARIABLES
    socket,      \* availability_status of each connector
    backlog,     \* status changes the forwarder has not delivered yet
    forwarder,   \* what it does with the front: idle, settling, sending
    lastSent,    \* DedupedStatusNotifier::last_sent
    picture,     \* what the CSMS was last told of each connector
    sweeps,      \* what is left of each sweep's snapshot
    uplink,      \* the connection is up
    contact,     \* age of the time-sync anchor: "fresh" or over the threshold
    accepted,    \* may_send_requests
    wasAccepted, \* the acceptance watcher's previous reading
    handlers,    \* reconnect handlers still to run
    mishaps,     \* what has happened that a sweep or the queue cannot repair
    spent        \* changes and losses so far; a sweep is owed for a long outage

statusVars == <<socket, backlog, forwarder, lastSent, picture, sweeps, uplink,
                contact, accepted, wasAccepted, handlers, mishaps, spent>>

Sweepers == {"resync", "accept"}
OnReconnect == <<"register", "resync">>

\* all_connector_statuses: one snapshot of every connector.
AllConnectorStatuses(statuses) ==
    SetToSeq({[socket |-> s, status |-> statuses[s]] : s \in DOMAIN statuses})

Sweeping(s) == \E w \in Sweepers : \E r \in ToSet(sweeps[w]) : r.socket = s

-----------------------------------------------------------------------------
\* OfflineQueue::push on a full queue.
Overflows == Len(backlog) >= QueueCap

\* A connector changes: the broadcast reaches the forwarder, whose queue
\* drops its oldest entry when it is full (OverflowPolicy::DropOldest).
StatusChanges ==
    \E s \in Sockets, status \in Statuses :
        /\ spent.changes < MaxChanges /\ status # socket[s]
        /\ socket' = [socket EXCEPT ![s] = status]
        /\ LET full == Overflows
           IN  /\ backlog' = Append(IF full THEN Tail(backlog) ELSE backlog,
                                    [socket |-> s, status |-> status])
               /\ forwarder' = IF full THEN "idle" ELSE forwarder
               /\ mishaps' = mishaps
                    \cup (IF full THEN {"overflow"} ELSE {})
                    \cup (IF Sweeping(s) THEN {"overtaken"} ELSE {})
        /\ spent' = [spent EXCEPT !.changes = @ + 1]
        /\ UNCHANGED <<lastSent, picture, sweeps, uplink, contact, accepted,
                       wasAccepted, handlers>>

NextReport == Head(backlog)
Settled(r) == socket[r.socket] = r.status
Duplicate(r) == lastSent[r.socket] = r.status

\* MinimumStatusDurationNotifier::notify_status up to its wait: without a
\* window the call goes straight on, a superseded status is dropped at once.
TakeFront ==
    /\ forwarder = "idle" /\ backlog # <<>> /\ accepted
    /\ IF Debounced /\ ~Settled(NextReport)
       THEN backlog' = Tail(backlog) /\ UNCHANGED forwarder
       ELSE /\ forwarder' = IF Debounced THEN "settling" ELSE "sending"
            /\ UNCHANGED backlog
    /\ UNCHANGED <<socket, lastSent, picture, sweeps, uplink, contact, accepted,
                   wasAccepted, handlers, mishaps, spent>>

\* The window is over: forward the status only if it held.
WindowOver ==
    /\ forwarder = "settling"
    /\ IF Settled(NextReport)
       THEN forwarder' = "sending" /\ UNCHANGED backlog
       ELSE forwarder' = "idle" /\ backlog' = Tail(backlog)
    /\ UNCHANGED <<socket, lastSent, picture, sweeps, uplink, contact, accepted,
                   wasAccepted, handlers, mishaps, spent>>

\* DedupedStatusNotifier::notify_status: a duplicate counts as delivered; the
\* cache takes a status only once the CSMS has answered.  A send may fail with
\* the connection, before or after the CSMS has seen it, and stays queued.
Remembers(r) == [lastSent EXCEPT ![r.socket] = r.status]

RememberedFirst(r, delivered) == Remembers(r)

LastSentAfter(r, delivered) == IF delivered THEN Remembers(r) ELSE lastSent

SendFront ==
    /\ forwarder = "sending"
    /\ forwarder' = "idle"
    /\ \/ /\ Duplicate(NextReport)
          /\ backlog' = Tail(backlog)
          /\ UNCHANGED <<lastSent, picture>>
       \/ /\ ~Duplicate(NextReport) /\ uplink
          /\ picture' = [picture EXCEPT ![NextReport.socket] = NextReport.status]
          /\ lastSent' = LastSentAfter(NextReport, TRUE)
          /\ backlog' = Tail(backlog)
       \/ /\ ~Duplicate(NextReport) /\ ~uplink
          /\ picture' \in {picture,
                           [picture EXCEPT ![NextReport.socket] = NextReport.status]}
          /\ lastSent' = LastSentAfter(NextReport, FALSE)
          /\ UNCHANGED backlog
    /\ mishaps' = IF Debounced /\ ~uplink /\ picture' # picture
                  THEN mishaps \cup {"unanswered"} ELSE mishaps
    /\ UNCHANGED <<socket, sweeps, uplink, contact, accepted, wasAccepted,
                   handlers, spent>>

-----------------------------------------------------------------------------
\* report_all_connector_statuses begins: the snapshot is taken once.
StartSweep(w) ==
    /\ sweeps' = [sweeps EXCEPT ![w] = AllConnectorStatuses(socket)]
    /\ mishaps' = mishaps \cup
          (IF Debounced /\ backlog # <<>> THEN {"bypassed"} ELSE {})
    /\ spent' = [spent EXCEPT !.owed = FALSE]

\* One report of a sweep: straight to the CSMS, around the filter, and not
\* retried when it fails.
SweepReports ==
    \E w \in Sweepers :
        /\ sweeps[w] # <<>>
        /\ LET r == Head(sweeps[w])
           IN  IF uplink
               THEN /\ picture' = [picture EXCEPT ![r.socket] = r.status]
                    /\ UNCHANGED mishaps
               ELSE mishaps' = mishaps \cup {"failed"} /\ UNCHANGED picture
        /\ sweeps' = [sweeps EXCEPT ![w] = Tail(@)]
        /\ UNCHANGED <<socket, backlog, forwarder, lastSent, uplink, contact,
                       accepted, wasAccepted, handlers, spent>>

\* The watcher of may_send_requests: every transition into accepted sweeps.
AcceptanceSeen ==
    /\ accepted # wasAccepted /\ sweeps["accept"] = <<>>
    /\ wasAccepted' = accepted
    /\ IF accepted THEN StartSweep("accept") ELSE UNCHANGED <<sweeps, mishaps, spent>>
    /\ UNCHANGED <<socket, backlog, forwarder, lastSent, picture, uplink,
                   contact, accepted, handlers>>

\* A reconnect handler may run: the first one left, or any when concurrent.
Runs(h) ==
    /\ h \in ToSet(handlers)
    /\ InOrder => Head(handlers) = h

\* register_until_accepted: an answer refreshes the anchor whatever it says,
\* and the loop ends only with Accepted.  Nothing changes while it fails.
Registers ==
    /\ Runs("register") /\ uplink
    /\ \E answer \in BOOLEAN :
          /\ accepted' = answer
          /\ handlers' = IF answer THEN Remove(handlers, "register")
                         ELSE handlers
          \* A CSMS that keeps a station Pending is bounded like a loss.
          /\ answer \/ spent.drops < MaxDrops
          /\ spent' = IF answer THEN spent ELSE [spent EXCEPT !.drops = @ + 1]
    /\ contact' = "fresh"
    /\ UNCHANGED <<socket, backlog, forwarder, lastSent, picture, sweeps, uplink,
                   wasAccepted, mishaps>>

\* resynchronise_after_outage: sweep only if the anchor is over the threshold.
Resynchronises ==
    /\ Runs("resync") /\ sweeps["resync"] = <<>>
    /\ handlers' = Remove(handlers, "resync")
    /\ IF contact = "stale" THEN StartSweep("resync")
       ELSE UNCHANGED <<sweeps, mishaps, spent>>
    /\ UNCHANGED <<socket, backlog, forwarder, lastSent, picture, uplink,
                   contact, accepted, wasAccepted>>

ConnectionLost ==
    /\ uplink /\ spent.drops < MaxDrops
    /\ uplink' = FALSE
    /\ spent' = [spent EXCEPT !.drops = @ + 1]
    /\ UNCHANGED <<socket, backlog, forwarder, lastSent, picture, sweeps,
                   contact, accepted, wasAccepted, handlers, mishaps>>

\* The outage outlasts OfflineThreshold: outage_seconds exceeds it from now on.
OutageGrows ==
    /\ ~uplink /\ contact = "fresh"
    /\ contact' = "stale"
    /\ UNCHANGED <<socket, backlog, forwarder, lastSent, picture, sweeps, uplink,
                   accepted, wasAccepted, handlers, mishaps, spent>>

\* The connection is back; the handlers of the previous reconnect have ended,
\* except a registration loop, which goes on over the new connection.
Reconnected ==
    /\ ~uplink /\ ToSet(handlers) \subseteq {"register"}
    /\ uplink' = TRUE
    /\ handlers' = OnReconnect
    /\ spent' = [spent EXCEPT !.owed = @ \/ contact = "stale"]
    /\ UNCHANGED <<socket, backlog, forwarder, lastSent, picture, sweeps,
                   contact, accepted, wasAccepted, mishaps>>

-----------------------------------------------------------------------------
StatusInit ==
    /\ socket = [s \in Sockets |-> AtBoot]
    /\ backlog = <<>> /\ forwarder = "idle"
    /\ lastSent = [s \in Sockets |-> "none"]
    /\ picture = [s \in Sockets |-> "none"]
    /\ sweeps = [w \in Sweepers |-> <<>>]
    /\ uplink = TRUE /\ contact = "stale"
    /\ accepted = FALSE /\ wasAccepted = FALSE
    /\ handlers = <<"register">>
    /\ mishaps = {}
    /\ spent = [changes |-> 0, drops |-> 0, owed |-> FALSE]

StatusSteps ==
    \/ TakeFront \/ WindowOver \/ SendFront
    \/ SweepReports \/ AcceptanceSeen
    \/ Registers \/ Resynchronises \/ Reconnected

StatusNext ==
    StatusSteps \/ StatusChanges \/ ConnectionLost \/ OutageGrows

StatusSpec == StatusInit /\ [][StatusNext]_statusVars

-----------------------------------------------------------------------------
StatusTypeOK ==
    /\ socket \in [Sockets -> Statuses]
    /\ backlog \in Seq([socket : Sockets, status : Statuses])
    /\ Len(backlog) <= QueueCap
    /\ forwarder \in {"idle", "settling", "sending"}
    /\ forwarder # "idle" => backlog # <<>>
    /\ lastSent \in [Sockets -> Statuses \cup {"none"}]
    /\ picture \in [Sockets -> Statuses \cup {"none"}]
    /\ contact \in {"fresh", "stale"}

Quiet ==
    /\ backlog = <<>> /\ \A w \in Sweepers : sweeps[w] = <<>>
    /\ uplink /\ accepted /\ wasAccepted /\ handlers = <<>>

\* Debounce, duplicate filter, retries and sweeps together never leave the
\* CSMS with a wrong picture: once everything has been delivered it shows
\* every connector as it is.  The mishaps the code does not repair are named:
\* a queue overflow, a failed sweep report, a sweep overtaken by a change, and
\* under a debounce a sweep around the backlog or a report whose answer was
\* lost, after which the filter takes a needed report for a duplicate.
PictureIsRight ==
    Quiet /\ mishaps = {} => picture = socket

\* availability.rs on report_all_connector_statuses: "Reports the current
\* status of **every** connector to the CSMS".  Nothing but a change during a
\* sweep has happened, and the CSMS is left with the older status.
SweepsAreCurrent ==
    Quiet /\ mishaps \subseteq {"overtaken"} => picture = socket

\* builder.rs on connector_status_resynchronisation, for an outage longer than
\* OfflineThreshold: "the CSMS's picture is too stale to patch and everything
\* is re-reported".  Once its handlers have run, a reconnect owes no sweep.
LongOutagesAreSwept ==
    handlers = <<>> /\ wasAccepted = accepted => ~spent.owed

\* Reports: with nothing left to send, the CSMS's picture of a connector is the
\* connector's status (availability.rs).
ReportsAreRight == StatusTypeOK /\ PictureIsRight

=============================================================================
