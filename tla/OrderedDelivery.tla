--------------------------- MODULE OrderedDelivery ---------------------------
(***************************************************************************)
(* What the offline queue promises the rest of the crate: every report it  *)
(* takes on is delivered, in the order it was taken on, at least once and  *)
(* again only while its delivery is in doubt; a report it does not keep is *)
(* handed back or given up on, and counted as lost.                        *)
(***************************************************************************)
EXTENDS Naturals, Sequences

CONSTANTS Messages,      \* the reports, numbered in the order they were made
          MayGiveUp      \* whether a cap on attempts is configured

VARIABLES backlog,       \* the reports taken on and not yet delivered for good
          delivered,     \* the reports the CSMS has received, in that order
          lost           \* the reports handed back or given up on

vars == <<backlog, delivered, lost>>

Init ==
    /\ backlog = <<>>
    /\ delivered = <<>>
    /\ lost = {}

TakeOn(m) ==
    /\ backlog' = Append(backlog, m)
    /\ UNCHANGED <<delivered, lost>>

HandBack(m) ==
    /\ lost' = lost \cup {m}
    /\ UNCHANGED <<backlog, delivered>>

\* The CSMS receives the oldest report; the queue learns of it or not.
Deliver ==
    /\ backlog # <<>>
    /\ delivered' = Append(delivered, Head(backlog))
    /\ backlog' \in {backlog, Tail(backlog)}
    /\ UNCHANGED lost

GiveUp ==
    /\ MayGiveUp /\ backlog # <<>>
    /\ lost' = lost \cup {Head(backlog)}
    /\ backlog' = Tail(backlog)
    /\ UNCHANGED delivered

Next ==
    \/ \E m \in Messages : TakeOn(m) \/ HandBack(m)
    \/ Deliver
    \/ GiveUp

Spec == Init /\ [][Next]_vars

=============================================================================
