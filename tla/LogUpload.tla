----------------------------- MODULE LogUpload ------------------------------
(***************************************************************************)
(* Uploading a log where the CSMS asks for it (diagnostics.rs).  GetLog is *)
(* answered at once and queued under a ticket; one worker runs the uploads *)
(* and reports on each.  A newer GetLog supersedes the running one, whose  *)
(* result should then not be heard.  Every look at the shared state is a   *)
(* lock section of its own, and a GetLog may come between any two.         *)
(***************************************************************************)
EXTENDS Integers, Sequences

CONSTANTS MaxLogs,      \* bound: GetLog requests
          LogRetries    \* the values a CSMS gives retries

ASSUME LogAssumption == MaxLogs \in Nat /\ LogRetries \subseteq Nat

VARIABLES
    logState,      \* LogUploadInner: current, inFlight
    logQueue,      \* LogUploadQueue
    logWorker,     \* run_log_uploads: pc, ticket, attempts left
    logHeard       \* what the CSMS was told of each ticket

logVars == <<logState, logQueue, logWorker, logHeard>>

Tickets   == 1 .. MaxLogs
NoUpload  == [pc |-> "idle", ticket |-> 0, left |-> 0, ok |-> FALSE]
LogIsCurrent == logState.current = logWorker.ticket

ClaimedQuietly == [current |-> logState.current + 1, inFlight |-> logState.inFlight]

\* claim: the ticket, and whether it replaced one in flight.
Claimed == [current |-> logState.current + 1, inFlight |-> TRUE]

\* Between the worker's last look at its ticket and finish.
LookedTooEarly == logWorker.pc = "looked" /\ LogIsCurrent

\* handle_get_log: Accepted, or AcceptedCanceled for what it replaced; the
\* history notes whether the worker had looked for the last time by then.
GetLog ==
    /\ logState.current < MaxLogs
    /\ LET ticket == logState.current + 1
       IN /\ \E n \in LogRetries :
                logQueue' = Append(logQueue, [ticket |-> ticket, retries |-> n])
          /\ logHeard' = [t \in Tickets |->
                IF t = ticket THEN "accepted"
                ELSE IF t = logState.current /\ logState.inFlight
                     THEN IF LookedTooEarly THEN "overtaken" ELSE "canceled"
                     ELSE logHeard[t]]
    /\ logState' = Claimed
    /\ UNCHANGED logWorker

\* One is taken, and dropped when superseded before it started.
TakeUpload ==
    /\ logWorker.pc = "idle" /\ logQueue # <<>>
    /\ logQueue' = Tail(logQueue)
    /\ logWorker' = IF Head(logQueue).ticket = logState.current
                    THEN [pc |-> "uploading", ticket |-> Head(logQueue).ticket,
                          left |-> Head(logQueue).retries, ok |-> FALSE]
                    ELSE NoUpload
    /\ UNCHANGED <<logState, logHeard>>

\* upload_with_retries: between two attempts a superseded upload stops.
UploadFails ==
    /\ logWorker.pc = "uploading"
    /\ logWorker' = IF logWorker.left > 0
                    THEN [logWorker EXCEPT !.pc = "retrying", !.left = @ - 1]
                    ELSE [logWorker EXCEPT !.pc = "finished"]
    /\ UNCHANGED <<logState, logQueue, logHeard>>

UploadRetries ==
    /\ logWorker.pc = "retrying"
    /\ logWorker' = [logWorker EXCEPT !.pc = IF LogIsCurrent THEN "uploading"
                                             ELSE "finished"]
    /\ UNCHANGED <<logState, logQueue, logHeard>>

Uploads ==
    /\ logWorker.pc = "uploading"
    /\ logWorker' = [logWorker EXCEPT !.pc = "finished", !.ok = TRUE]
    /\ UNCHANGED <<logState, logQueue, logHeard>>

LookNoMore ==
    /\ logWorker.pc = "finished"
    /\ logWorker' = [logWorker EXCEPT !.pc = "looked"]
    /\ UNCHANGED <<logState, logQueue, logHeard>>

\* The ticket is looked at again: a superseded upload's result is discarded.
LookAgain ==
    /\ logWorker.pc = "finished"
    /\ logWorker' = IF LogIsCurrent THEN [logWorker EXCEPT !.pc = "looked"] ELSE NoUpload
    /\ UNCHANGED <<logState, logQueue, logHeard>>

ReportThenFinish ==
    /\ logWorker.pc = "looked"
    /\ logWorker' = [logWorker EXCEPT !.pc = "reporting"]
    /\ UNCHANGED <<logState, logQueue, logHeard>>

\* finish clears in_flight if the ticket still is the current one; the result
\* is sent either way.
FinishUpload ==
    /\ logWorker.pc = "looked"
    /\ logState' = IF LogIsCurrent THEN [logState EXCEPT !.inFlight = FALSE] ELSE logState
    /\ logWorker' = [logWorker EXCEPT !.pc = "reporting"]
    /\ UNCHANGED <<logQueue, logHeard>>

ReportUpload ==
    /\ logWorker.pc = "reporting"
    /\ logHeard' = [logHeard EXCEPT ![logWorker.ticket] =
                       IF @ = "canceled" THEN "stale"
                       ELSE IF @ = "overtaken" THEN "too late"
                       ELSE IF logWorker.ok THEN "Uploaded" ELSE "UploadFailure"]
    /\ logWorker' = NoUpload
    /\ UNCHANGED <<logState, logQueue>>

-----------------------------------------------------------------------------
LogInit ==
    /\ logState = [current |-> 0, inFlight |-> FALSE]
    /\ logQueue = <<>> /\ logWorker = NoUpload
    /\ logHeard = [t \in Tickets |-> "none"]

LogSteps ==
    \/ TakeUpload \/ UploadFails \/ UploadRetries \/ Uploads
    \/ LookAgain \/ FinishUpload \/ ReportUpload

LogNext == LogSteps \/ GetLog

LogSpec == LogInit /\ [][LogNext]_logVars

-----------------------------------------------------------------------------
\* However the request that replaces an upload races the end of the transfer,
\* the CSMS is sent no result of what it was told is cancelled, unless the
\* request fell between the worker's last look and finish.
CancelledStaysSilent ==
    \A t \in Tickets : logHeard[t] # "stale"

\* What the code says: a GetLog that arrived meanwhile "has already answered
\* AcceptedCanceled, and reporting this one's result now would tell the CSMS
\* about an upload it believes was cancelled".  One that arrives after the look
\* and before finish does so answer, and the result is reported.
NoCancelledResult ==
    \A t \in Tickets : logHeard[t] \notin {"stale", "too late"}

\* And everything else is answered for: in the end each request was either
\* cancelled by a later one or has its result.
UploadsAnswered ==
    <>[](\A t \in Tickets : logHeard[t] # "accepted")
=============================================================================
