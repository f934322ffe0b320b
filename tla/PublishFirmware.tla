--------------------------- MODULE PublishFirmware ---------------------------
(***************************************************************************)
(* Publishing firmware on the local network (publish_firmware.rs).  One    *)
(* image at a time is downloaded and handed to the publisher, a later      *)
(* request superseding the current one; several may be published, up to a  *)
(* bound.  Each look at the shared state is a lock section of its own: the *)
(* two handlers and the worker go on between them.  The CSMS has at most   *)
(* one PublishFirmware and one UnpublishFirmware outstanding.              *)
(***************************************************************************)
EXTENDS Integers, Sequences, FiniteSets

CONSTANTS Checksums, MaxPublished,
          PublishRetries, \* the values a CSMS gives retries
          MaxPublishes,   \* bound: PublishFirmware requests accepted
          MaxUnpublishes  \* bound: UnpublishFirmware requests

ASSUME PublishAssumption ==
    /\ MaxPublished \in Nat \ {0} /\ PublishRetries \subseteq Nat
    /\ MaxPublishes \in Nat /\ MaxUnpublishes \in Nat

VARIABLES
    pubState,      \* PublishFirmwareInner: current, inProgress, published
    pubQueue,      \* PublishFirmwareQueue
    pubHandler,    \* handle_publish_firmware: pc, checksum
    pubWorker,     \* run_publish_firmware: pc, ticket, checksum, left
    unpublisher,   \* handle_unpublish_firmware: pc, checksum, requests so far
    served         \* what the publisher really serves

pubVars == <<pubState, pubQueue, pubHandler, pubWorker, unpublisher, served>>

NoTicket  == 0
NoPublish == [pc |-> "idle", ticket |-> NoTicket, left |-> 0]
PubIsCurrent == pubState.inProgress.ticket = pubWorker.ticket
NotInProgress == [ticket |-> NoTicket]
Ongoing(c)  == pubState.inProgress # NotInProgress /\ pubState.inProgress.checksum = c

NoRequest   == [pc |-> "idle"]

\* Admitted by whichever of the three looks is in its favour: the checksum is
\* published already, it is in progress, or there is room for one more.
Admit(c) == [pc |-> "admitted", checksum |-> c]

HasRoomForOneMore == Cardinality(pubState.published) <= MaxPublished
HasRoom == Cardinality(pubState.published) < MaxPublished

HandlePublish ==
    /\ pubHandler.pc = "idle" /\ pubState.current < MaxPublishes
    /\ \E c \in Checksums :
          pubHandler' = IF c \in pubState.published THEN Admit(c)
                        ELSE [pc |-> "not published", checksum |-> c]
    /\ UNCHANGED <<pubState, pubQueue, pubWorker, unpublisher, served>>

LookForOngoing ==
    /\ pubHandler.pc = "not published"
    /\ pubHandler' = IF Ongoing(pubHandler.checksum) THEN Admit(pubHandler.checksum)
                     ELSE [pubHandler EXCEPT !.pc = "not ongoing"]
    /\ UNCHANGED <<pubState, pubQueue, pubWorker, unpublisher, served>>

\* Full: Rejected.
CountPublished ==
    /\ pubHandler.pc = "not ongoing"
    /\ pubHandler' = IF HasRoom THEN Admit(pubHandler.checksum) ELSE NoRequest
    /\ UNCHANGED <<pubState, pubQueue, pubWorker, unpublisher, served>>

\* claim, and the request to the queue; nothing is looked at again.
ClaimPublish ==
    /\ pubHandler.pc = "admitted"
    /\ LET ticket == pubState.current + 1
           c      == pubHandler.checksum
       IN /\ pubState' = [pubState EXCEPT
                !.current = ticket, !.inProgress = [ticket |-> ticket, checksum |-> c]]
          /\ \E n \in PublishRetries :
                pubQueue' = Append(pubQueue, [ticket |-> ticket, checksum |-> c,
                                              retries |-> n])
    /\ pubHandler' = NoRequest
    /\ UNCHANGED <<pubWorker, unpublisher, served>>

TakePublish ==
    /\ pubWorker.pc = "idle" /\ pubQueue # <<>>
    /\ pubQueue' = Tail(pubQueue)
    /\ LET next == Head(pubQueue)
       IN pubWorker' = IF pubState.inProgress.ticket = next.ticket
                       THEN [pc |-> "downloading", ticket |-> next.ticket,
                             checksum |-> next.checksum, left |-> next.retries]
                       ELSE NoPublish
    /\ UNCHANGED <<pubState, pubHandler, unpublisher, served>>

\* The last attempt failed: DownloadFailed is reported, which clears nothing.
PublishDownloadFails ==
    /\ pubWorker.pc = "downloading"
    /\ pubWorker' = IF pubWorker.left > 0
                    THEN [pubWorker EXCEPT !.pc = "retrying", !.left = @ - 1]
                    ELSE NoPublish
    /\ UNCHANGED <<pubState, pubQueue, pubHandler, unpublisher, served>>

PublishRetriesDownload ==
    /\ pubWorker.pc = "retrying"
    /\ pubWorker' = IF PubIsCurrent THEN [pubWorker EXCEPT !.pc = "downloading"]
                    ELSE NoPublish
    /\ UNCHANGED <<pubState, pubQueue, pubHandler, unpublisher, served>>

PublishDownloads ==
    /\ pubWorker.pc = "downloading"
    /\ pubWorker' = IF PubIsCurrent THEN [pubWorker EXCEPT !.pc = "publishing"]
                    ELSE NoPublish
    /\ UNCHANGED <<pubState, pubQueue, pubHandler, unpublisher, served>>

\* publisher.publish(): from here on the ticket is not looked at again.
PublisherServes ==
    /\ pubWorker.pc = "publishing"
    /\ served' = served \cup {pubWorker.checksum}
    /\ pubWorker' = [pubWorker EXCEPT !.pc = "served"]
    /\ UNCHANGED <<pubState, pubQueue, pubHandler, unpublisher>>

\* mark_published: in_progress goes, whoever it names.
MarkPublished ==
    /\ pubWorker.pc = "served"
    /\ pubState' = [pubState EXCEPT !.published = @ \cup {pubWorker.checksum},
                                    !.inProgress = NotInProgress]
    /\ pubWorker' = [pubWorker EXCEPT !.pc = "ending"]
    /\ UNCHANGED <<pubQueue, pubHandler, unpublisher, served>>

\* stop_current, after a publisher that failed: only its own mark goes.
PublishFails ==
    /\ pubWorker.pc = "publishing"
    /\ pubState' = IF PubIsCurrent THEN [pubState EXCEPT !.inProgress = NotInProgress]
                   ELSE pubState
    /\ pubWorker' = [pubWorker EXCEPT !.pc = "ending"]
    /\ UNCHANGED <<pubQueue, pubHandler, unpublisher, served>>

\* record(Published) or record(PublishFailed): in_progress goes once more,
\* whoever has claimed since.
RecordEnd ==
    /\ pubWorker.pc = "ending"
    /\ pubState' = [pubState EXCEPT !.inProgress = NotInProgress]
    /\ pubWorker' = NoPublish
    /\ UNCHANGED <<pubQueue, pubHandler, unpublisher, served>>

\* handle_unpublish_firmware: DownloadOngoing and NoFirmware end it, and so
\* does a publisher that fails, which leaves the bookkeeping alone.
HandleUnpublish ==
    /\ unpublisher.pc = "idle" /\ unpublisher.asked < MaxUnpublishes
    /\ \E c \in Checksums :
          /\ ~Ongoing(c)
          /\ unpublisher' = [pc |-> "not ongoing", checksum |-> c,
                             asked |-> unpublisher.asked + 1]
    /\ UNCHANGED <<pubState, pubQueue, pubHandler, pubWorker, served>>

LookForPublished ==
    /\ unpublisher.pc = "not ongoing"
    /\ unpublisher' = IF unpublisher.checksum \in pubState.published
                      THEN [unpublisher EXCEPT !.pc = "found"]
                      ELSE [pc |-> "idle", asked |-> unpublisher.asked]
    /\ UNCHANGED <<pubState, pubQueue, pubHandler, pubWorker, served>>

TakeDown ==
    /\ unpublisher.pc = "found"
    /\ \/ /\ served' = served \ {unpublisher.checksum}
          /\ unpublisher' = [unpublisher EXCEPT !.pc = "taken down"]
       \/ /\ unpublisher' = [pc |-> "idle", asked |-> unpublisher.asked]
          /\ UNCHANGED served
    /\ UNCHANGED <<pubState, pubQueue, pubHandler, pubWorker>>

MarkUnpublished ==
    /\ unpublisher.pc = "taken down"
    /\ pubState' = [pubState EXCEPT !.published = @ \ {unpublisher.checksum}]
    /\ unpublisher' = [pc |-> "idle", asked |-> unpublisher.asked]
    /\ UNCHANGED <<pubQueue, pubHandler, pubWorker, served>>

-----------------------------------------------------------------------------
PubInit ==
    /\ pubState = [current |-> 0, inProgress |-> NotInProgress, published |-> {}]
    /\ pubQueue = <<>> /\ pubHandler = NoRequest /\ pubWorker = NoPublish
    /\ unpublisher = [pc |-> "idle", asked |-> 0] /\ served = {}

PubSteps ==
    \/ TakePublish \/ PublishDownloadFails \/ PublishRetriesDownload
    \/ PublishDownloads \/ PublisherServes \/ MarkPublished \/ PublishFails
    \/ RecordEnd

Unpublishing == HandleUnpublish \/ LookForPublished \/ TakeDown \/ MarkUnpublished

PubNext ==
    \/ PubSteps \/ Unpublishing
    \/ HandlePublish \/ LookForOngoing \/ CountPublished \/ ClaimPublish

PubSpec == PubInit /\ [][PubNext]_pubVars

-----------------------------------------------------------------------------
\* What is tracked is looked at long before the set grows, and the claim comes
\* after the look, with the worker going on in between.  So the set may exceed
\* its bound, but never by more than the one image that was being published.
PublishedIsBounded ==
    Cardinality(pubState.published) <= MaxPublished + 1

\* What the code says: "refuse a genuinely new checksum once the tracked set is
\* full".  The image admitted before the worker filled the set is one too many.
NoMoreThanFit ==
    Cardinality(pubState.published) <= MaxPublished

\* What the code says of in_progress: it names what is being downloaded or
\* published, "cleared once it reaches a terminal state (published or failed)
\* or is superseded".  So it names the newest request exactly as long as that
\* one is queued or in the worker's hands.
InProgressIsHonest ==
    LET newest == pubState.current
    IN (pubState.inProgress # NotInProgress) =
           \/ pubWorker.ticket = newest /\ pubWorker.pc \notin {"idle", "ending"}
           \/ \E i \in 1 .. Len(pubQueue) : pubQueue[i].ticket = newest
=============================================================================
