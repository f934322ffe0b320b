------------------------------ MODULE MCStation ------------------------------
(***************************************************************************)
(* Small instances of Station: which requests the CSMS may send.           *)
(***************************************************************************)
EXTENDS Station

\* Connector n belongs to EVSE n.
OwnEvse == [c \in Connectors |-> c]

NoEvents == {}

StationPolicies == {DefaultPolicy}

SessionRequests ==
    [op : {"Start"}, evse : {None}, token : IdTokens]
    \cup [op : {"Stop"}, id : {0}]
    \cup [op : {"Unlock"}, connector : Driven]

ReservationRequests ==
    [op : {"Reserve"}, evse : Evses, reservation : Reservations]
    \cup [op : {"Cancel"}, id : ReservationIds]

ResetRequests ==
    [op : {"Reset"}, target : {None}, kind : {"Immediate", "OnIdle"}]

\* Availability changes of what the driver is not using.
AvailabilityRequests ==
    [op : {"Availability"}, connector : Connectors \ Driven, evse : {None},
     available : {FALSE}]

StationRequests ==
    SessionRequests \cup ReservationRequests \cup ResetRequests
    \cup AvailabilityRequests

=============================================================================
