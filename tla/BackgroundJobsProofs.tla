------------------------ MODULE BackgroundJobsProofs ------------------------
(***************************************************************************)
(* Theorems about what the station does for the CSMS in the background:    *)
(* log uploads, firmware updates, published firmware, the display, battery *)
(* swaps and variable monitors, each for every value of its constants, so  *)
(* for any number of requests, EVSEs, checksums, messages and swaps, and   *)
(* for any limits, periods and values a monitor watches.                   *)
(*                                                                         *)
(* The first three are built alike: a handler claims the next ticket and   *)
(* queues the request under it, one worker takes requests in order and     *)
(* looks at its ticket only now and then.  Their inductive invariants say  *)
(* what a ticket means between two looks.                                  *)
(***************************************************************************)
EXTENDS MCBackgroundJobs, SequenceTheorems, FiniteSetTheorems,
        WellFoundedInduction, TLAPS

-----------------------------------------------------------------------------
(* Log uploads. *)

LogPcs   == {"idle", "uploading", "retrying", "finished", "looked", "reporting"}
LogWords == {"none", "accepted", "canceled", "overtaken", "too late", "Uploaded",
             "UploadFailure"}
LogItems == [ticket : Tickets, retries : Nat]

LogTypes ==
    /\ logState \in [current : 0 .. MaxLogs, inFlight : BOOLEAN]
    /\ logQueue \in Seq(LogItems)
    /\ logWorker \in [pc : LogPcs, ticket : 0 .. MaxLogs, left : Nat, ok : BOOLEAN]
    /\ logHeard \in [Tickets -> LogWords]
    /\ logWorker.pc # "idle" => logWorker.ticket \in Tickets

\* Only a superseded ticket is cancelled; what was looked at for the last time
\* was current then, and what is being reported has been taken out of flight,
\* so that no later request cancels it.
LogInv ==
    /\ LogTypes
    /\ logWorker.ticket <= logState.current
    /\ \A i \in 1 .. Len(logQueue) : logQueue[i].ticket <= logState.current
    /\ \A t \in Tickets : logHeard[t] = "canceled" => t < logState.current
    /\ logWorker.pc \in {"looked", "reporting"} =>
          logHeard[logWorker.ticket] # "canceled"
    /\ logWorker.pc = "reporting" /\ LogIsCurrent => ~logState.inFlight

LEMMA LogInitInv == LogInit => LogInv
<1> SUFFICES ASSUME LogInit PROVE LogInv
  OBVIOUS
<1>1. LogTypes
  BY LogAssumption DEF LogInit, LogTypes, LogPcs, LogWords, LogItems, NoUpload,
                       Tickets
<1> QED BY <1>1 DEF LogInit, LogInv, NoUpload

LEMMA LogNextInv ==
  ASSUME LogInv, LogNext
  PROVE  LogInv'
<1> USE LogAssumption DEF Tickets
<1>0. LogTypes
  BY DEF LogInv
<1>1. CASE GetLog
  <2> DEFINE ticket == logState.current + 1
             heard  == [t \in Tickets |->
                IF t = ticket THEN "accepted"
                ELSE IF t = logState.current /\ logState.inFlight
                     THEN IF LookedTooEarly THEN "overtaken" ELSE "canceled"
                     ELSE logHeard[t]]
  <2>1. PICK n \in LogRetries :
           logQueue' = Append(logQueue, [ticket |-> ticket, retries |-> n])
    BY <1>1 DEF GetLog
  <2>2. /\ ticket \in Tickets /\ n \in Nat /\ logHeard' = heard
        /\ logState' = [current |-> ticket, inFlight |-> TRUE]
        /\ logWorker' = logWorker
    BY <1>0, <1>1 DEF GetLog, Claimed, LogTypes
  <2>3. logQueue' \in Seq(LogItems)
    BY <1>0, <2>1, <2>2, AppendProperties DEF LogTypes, LogItems
  <2>4. heard \in [Tickets -> LogWords]
    BY <1>0 DEF LogTypes, LogWords
  <2>5. LogTypes'
    BY <1>0, <2>2, <2>3, <2>4 DEF LogTypes
  <2>6. \A t \in Tickets : heard[t] = "canceled" => t < ticket
    BY <1>0, <2>2 DEF LogInv, LogTypes
  <2>7. logWorker.ticket < ticket
    BY <1>0 DEF LogInv, LogTypes
  <2>8. logWorker.pc \in {"looked", "reporting"} =>
           heard[logWorker.ticket] # "canceled"
    <3> SUFFICES ASSUME logWorker.pc \in {"looked", "reporting"}
                 PROVE  heard[logWorker.ticket] # "canceled"
      OBVIOUS
    <3> DEFINE w == logWorker.ticket
    <3>1. /\ w \in Tickets /\ w # ticket /\ logHeard[w] # "canceled"
          /\ w = logState.current /\ logState.inFlight => LookedTooEarly
      BY <1>0, <2>7 DEF LogInv, LogTypes, LookedTooEarly, LogIsCurrent
    <3> QED BY <3>1
  <2>9. \A i \in 1 .. Len(logQueue') : logQueue'[i].ticket <= ticket
    <3> DEFINE item == [ticket |-> ticket, retries |-> n]
    <3>1. item \in LogItems /\ item.ticket = ticket
      BY <2>2 DEF LogItems
    <3>2. logQueue \in Seq(LogItems) /\ logQueue' = Append(logQueue, item)
      BY <1>0, <2>1 DEF LogTypes
    <3>3. ticket \in Int /\ logState.current < ticket
      BY <1>0 DEF LogTypes
    <3>4. \A i \in 1 .. Len(logQueue) :
             logQueue[i].ticket \in Int /\ logQueue[i].ticket <= logState.current
      <4> TAKE i \in 1 .. Len(logQueue)
      <4>1. logQueue[i] \in LogItems
        BY <3>2, ElementOfSeq
      <4> QED BY <4>1 DEF LogInv, LogItems
    <3>5. logState.current \in Int
      BY <1>0 DEF LogTypes
    <3> HIDE DEF item, ticket
    <3>6. /\ Len(logQueue') = Len(logQueue) + 1 /\ Len(logQueue) \in Nat
          /\ \A i \in 1 .. Len(logQueue) : logQueue'[i] = logQueue[i]
          /\ logQueue'[Len(logQueue) + 1] = item
      BY <3>1, <3>2, AppendProperties, LenProperties
    <3> QED BY <3>1, <3>3, <3>4, <3>5, <3>6
  <2> HIDE DEF heard
  <2>10. logWorker'.pc = "reporting" => ~LogIsCurrent'
    BY <1>0, <2>2, <2>7 DEF LogTypes, LogIsCurrent
  <2>11. logWorker'.ticket <= logState'.current
    BY <1>0, <2>2, <2>7 DEF LogTypes
  <2> QED BY <2>2, <2>5, <2>6, <2>8, <2>9, <2>10, <2>11 DEF LogInv
<1>2. CASE TakeUpload
  <2>1. /\ Head(logQueue) \in LogItems /\ Tail(logQueue) \in Seq(LogItems)
        /\ \A i \in 1 .. Len(Tail(logQueue)) :
              Tail(logQueue)[i].ticket <= logState.current
    BY <1>0, <1>2, HeadTailProperties DEF TakeUpload, LogTypes, LogInv
  <2>2. logWorker' \in [pc : LogPcs, ticket : 0 .. MaxLogs, left : Nat,
                        ok : BOOLEAN]
        /\ (logWorker'.pc # "idle" => logWorker'.ticket \in Tickets)
        /\ logWorker'.pc \notin {"looked", "reporting"}
        /\ logWorker'.ticket <= logState.current
    BY <1>0, <1>2, <2>1 DEF LogTypes, TakeUpload, LogItems, LogPcs, NoUpload
  <2>3. /\ logState' = logState /\ logHeard' = logHeard
        /\ logQueue' = Tail(logQueue)
    BY <1>2 DEF TakeUpload
  <2> QED BY <1>0, <2>1, <2>2, <2>3 DEF LogInv, LogTypes
<1>3. CASE UploadFails \/ UploadRetries \/ Uploads
  <2>1. /\ logState' = logState /\ logHeard' = logHeard /\ logQueue' = logQueue
        /\ logWorker.pc \in {"uploading", "retrying"}
    BY <1>3 DEF UploadFails, UploadRetries, Uploads
  <2>2. /\ logWorker' \in [pc : LogPcs, ticket : 0 .. MaxLogs, left : Nat,
                           ok : BOOLEAN]
        /\ logWorker'.ticket = logWorker.ticket
        /\ logWorker'.pc \notin {"looked", "reporting"}
    <3>1. CASE UploadFails
      <4>1. CASE logWorker.left > 0
        <5>1. logWorker' = [logWorker EXCEPT !.pc = "retrying", !.left = @ - 1]
          BY <3>1, <4>1 DEF UploadFails
        <5>2. logWorker.left - 1 \in Nat
          BY <1>0, <4>1 DEF LogTypes
        <5> QED BY <1>0, <5>1, <5>2 DEF LogTypes, LogPcs
      <4>2. CASE ~(logWorker.left > 0)
        BY <1>0, <3>1, <4>2 DEF UploadFails, LogTypes, LogPcs
      <4> QED BY <4>1, <4>2
    <3>2. CASE UploadRetries \/ Uploads
      BY <1>0, <3>2 DEF UploadRetries, Uploads, LogTypes, LogPcs
    <3> QED BY <1>3, <3>1, <3>2
  <2> QED BY <1>0, <2>1, <2>2 DEF LogInv, LogTypes
<1>4. CASE LookAgain
  <2>1. /\ logState' = logState /\ logHeard' = logHeard /\ logQueue' = logQueue
        /\ logWorker.pc = "finished"
    BY <1>4 DEF LookAgain
  <2>2. CASE LogIsCurrent
    <3>1. logWorker' = [logWorker EXCEPT !.pc = "looked"]
      BY <1>4, <2>2 DEF LookAgain
    <3>2. LogTypes'
      BY <1>0, <2>1, <3>1 DEF LogTypes, LogPcs
    <3>3. /\ logWorker'.ticket = logWorker.ticket /\ logWorker'.pc = "looked"
          /\ logWorker.ticket \in Tickets
          /\ logHeard[logWorker.ticket] # "canceled"
      BY <1>0, <2>1, <2>2, <3>1 DEF LogTypes, LogInv, LogIsCurrent
    <3> QED BY <2>1, <3>2, <3>3 DEF LogInv
  <2>3. CASE ~LogIsCurrent
    <3>1. logWorker' = NoUpload
      BY <1>4, <2>3 DEF LookAgain
    <3> QED BY <1>0, <2>1, <3>1 DEF LogInv, LogTypes, NoUpload, LogPcs
  <2> QED BY <2>2, <2>3
<1>5. CASE FinishUpload
  <2>1. /\ logHeard' = logHeard /\ logQueue' = logQueue
        /\ logWorker.pc = "looked"
        /\ logWorker' = [logWorker EXCEPT !.pc = "reporting"]
    BY <1>5 DEF FinishUpload
  <2>2. /\ logState' \in [current : 0 .. MaxLogs, inFlight : BOOLEAN]
        /\ logState'.current = logState.current
        /\ LogIsCurrent => ~logState'.inFlight
    BY <1>0, <1>5 DEF FinishUpload, LogTypes
  <2>3. LogTypes'
    BY <1>0, <2>1, <2>2 DEF LogTypes, LogPcs
  <2>4. logWorker'.ticket = logWorker.ticket /\ (LogIsCurrent' => LogIsCurrent)
    BY <1>0, <2>1, <2>2 DEF LogTypes, LogIsCurrent
  <2> QED BY <2>1, <2>2, <2>3, <2>4 DEF LogInv
<1>6. CASE ReportUpload
  <2>1. /\ logState' = logState /\ logQueue' = logQueue /\ logWorker' = NoUpload
        /\ logWorker.ticket \in Tickets
        /\ logHeard[logWorker.ticket] # "canceled"
    BY <1>0, <1>6 DEF ReportUpload, LogInv, LogTypes
  <2>2. /\ logHeard' \in [Tickets -> LogWords]
        /\ \A t \in Tickets :
              logHeard'[t] = "canceled" => logHeard[t] = "canceled"
    BY <1>0, <1>6, <2>1 DEF ReportUpload, LogTypes, LogWords
  <2> QED BY <1>0, <2>1, <2>2 DEF LogInv, LogTypes, NoUpload, LogPcs
<1> QED BY <1>1, <1>2, <1>3, <1>4, <1>5, <1>6 DEF LogNext, LogSteps

LEMMA LogStutterInv ==
  ASSUME LogInv, UNCHANGED logVars
  PROVE  LogInv'
  BY DEF LogInv, LogTypes, LogIsCurrent, logVars

\* No upload the CSMS was told is cancelled is reported on, but one replaced
\* between the worker's last look at its ticket and finish (run_log_uploads).
THEOREM CancelledUploadsStaySilent == LogSpec => []CancelledStaysSilent
<1>1. LogInv /\ [LogNext]_logVars => LogInv'
  BY LogNextInv, LogStutterInv
<1>2. LogInv => CancelledStaysSilent
  BY DEF LogInv, LogTypes, LogWords, CancelledStaysSilent
<1> QED BY LogInitInv, <1>1, <1>2, PTL DEF LogSpec

-----------------------------------------------------------------------------
(* Firmware updates. *)

FwPcs == {"idle", "scheduled", "downloading", "retrying", "downloaded",
          "verified", "installLater", "waitIdle", "installing"}
FwStatuses == {"Idle", "DownloadScheduled", "Downloading", "DownloadFailed",
               "Downloaded", "SignatureVerified", "InvalidSignature",
               "InstallScheduled", "Installing", "Installed",
               "InstallationFailed", "InstallRebooting"}
FwStates  == [current : Nat, inProgress : BOOLEAN, status : FwStatuses]
FwItems   == [ticket : Nat, request : Requests]
FwWorkers == [pc : FwPcs, ticket : Nat, attempt : Nat,
              request : Requests \cup {NoUpdate.request}]
EvseModes == {"Available", "Unavailable", "Faulted"}

FwTypes ==
    /\ fwState \in FwStates
    /\ fwQueue \in Seq(FwItems)
    /\ fwWorker \in FwWorkers /\ fwWorker.attempt <= fwWorker.request.retries
    /\ evseStatus \in [Evses -> EvseModes]
    /\ session \in [Evses -> BOOLEAN]
    /\ taken \in SUBSET Evses
    /\ rebooting \in [asked : BOOLEAN, cut : SUBSET Evses]

\* The tickets of a queue lie above what is in hand, up to the newest, in the
\* order they were given out.  Neighbours alone would not do: the queue is
\* taken from at its head.
InTicketOrder(q, low, high) ==
    /\ low <= high
    /\ \A i \in 1 .. Len(q) : low < q[i].ticket /\ q[i].ticket <= high
    /\ \A i, j \in 1 .. Len(q) : i < j => q[i].ticket < q[j].ticket

FwInv ==
    /\ FwTypes
    /\ InTicketOrder(fwQueue, fwWorker.ticket, fwState.current)
    /\ NewestIsInHand
    /\ WithheldOnlyWhileUpdating
    /\ AllowsNew => taken = {}

LEMMA NoUpdateType == NoUpdate \in FwWorkers /\ NoUpdate.ticket = 0
                      /\ NoUpdate.attempt <= NoUpdate.request.retries
  BY DEF NoUpdate, FwWorkers, FwPcs

LEMMA FwInitInv == FwInit => FwInv
<1> SUFFICES ASSUME FwInit PROVE FwInv
  OBVIOUS
<1>1. FwTypes
  BY NoUpdateType DEF FwInit, FwTypes, FwStates, FwStatuses, EvseModes
<1>2. InTicketOrder(fwQueue, fwWorker.ticket, fwState.current)
  BY NoUpdateType DEF FwInit, InTicketOrder
<1> QED BY <1>1, <1>2 DEF FwInit, FwInv, NewestIsInHand,
                          WithheldOnlyWhileUpdating

\* What FirmwareUpdateState::record does to the state.
LEMMA RecordDoes ==
  ASSUME fwState \in FwStates, NEW s \in FwStatuses, Record(s)
  PROVE  /\ fwState' \in FwStates /\ fwState'.current = fwState.current
         /\ fwState'.inProgress = (fwState.inProgress /\ ~Terminal(s))
  BY DEF Record, FwStates

\* A ticket queue grows at its end and shrinks at its head.
LEMMA QueueGrows ==
  ASSUME NEW T, NEW q \in Seq(T), NEW e \in T, NEW low \in Int,
         NEW high \in Int, NEW k \in Int, e.ticket = k, high < k,
         \A i \in 1 .. Len(q) : q[i].ticket \in Int,
         InTicketOrder(q, low, high)
  PROVE  /\ Append(q, e) \in Seq(T)
         /\ InTicketOrder(Append(q, e), low, k)
         /\ \E i \in 1 .. Len(Append(q, e)) : Append(q, e)[i].ticket = k
<1> DEFINE p == Append(q, e)
<1>1. /\ Len(p) = Len(q) + 1 /\ Len(q) \in Nat /\ p \in Seq(T)
      /\ \A i \in 1 .. Len(q) : p[i] = q[i]
      /\ p[Len(q) + 1] = e
  BY AppendProperties, LenProperties
<1> HIDE DEF p
<1>2. ASSUME NEW i \in 1 .. Len(p)
      PROVE  p[i].ticket \in Int /\ low < p[i].ticket /\ p[i].ticket <= k
  <2>1. CASE i = Len(q) + 1
    BY <1>1, <2>1 DEF InTicketOrder
  <2>2. CASE i \in 1 .. Len(q)
    BY <1>1, <2>2 DEF InTicketOrder
  <2> QED BY <1>1, <2>1, <2>2
<1>3. ASSUME NEW i \in 1 .. Len(p), NEW j \in 1 .. Len(p), i < j
      PROVE  p[i].ticket < p[j].ticket
  <2>1. i \in 1 .. Len(q) /\ p[i] = q[i]
    BY <1>1, <1>3
  <2>2. CASE j = Len(q) + 1
    BY <1>1, <2>1, <2>2 DEF InTicketOrder
  <2>3. CASE j \in 1 .. Len(q)
    BY <1>1, <1>3, <2>1, <2>3 DEF InTicketOrder
  <2> QED BY <1>1, <2>2, <2>3
<1>4. InTicketOrder(p, low, k)
  BY <1>2, <1>3 DEF InTicketOrder
<1>5. \E i \in 1 .. Len(p) : p[i].ticket = k
  BY <1>1
<1> QED BY <1>1, <1>4, <1>5 DEF p

LEMMA QueueShrinks ==
  ASSUME NEW T, NEW q \in Seq(T), q # << >>, NEW low \in Int, NEW high \in Int,
         \A i \in 1 .. Len(q) : q[i].ticket \in Int,
         InTicketOrder(q, low, high)
  PROVE  /\ Head(q) \in T /\ Tail(q) \in Seq(T)
         /\ Head(q).ticket \in Int /\ Head(q).ticket <= high
         /\ InTicketOrder(Tail(q), low, high)
         /\ InTicketOrder(Tail(q), Head(q).ticket, high)
         /\ \A i \in 1 .. Len(q) :
               q[i].ticket # Head(q).ticket =>
                  \E j \in 1 .. Len(Tail(q)) : Tail(q)[j] = q[i]
<1> DEFINE p == Tail(q)
<1>1. /\ Head(q) \in T /\ p \in Seq(T) /\ Len(p) = Len(q) - 1
      /\ \A i \in 1 .. Len(p) : p[i] = q[i + 1]
      /\ Len(q) \in Nat /\ Len(q) > 0
  BY HeadTailProperties, LenProperties, EmptySeq
<1>2. Head(q) = q[1] /\ 1 \in 1 .. Len(q)
  BY <1>1
<1> HIDE DEF p
<1>3. ASSUME NEW i \in 1 .. Len(p)
      PROVE  /\ i + 1 \in 1 .. Len(q) /\ p[i] = q[i + 1]
             /\ q[i + 1].ticket \in Int
             /\ low < p[i].ticket /\ Head(q).ticket < p[i].ticket
             /\ p[i].ticket <= high
  <2>1. i + 1 \in 1 .. Len(q) /\ p[i] = q[i + 1] /\ 1 < i + 1
    BY <1>1
  <2> QED BY <1>2, <2>1 DEF InTicketOrder
<1>4. ASSUME NEW i \in 1 .. Len(p), NEW j \in 1 .. Len(p), i < j
      PROVE  p[i].ticket < p[j].ticket
  <2>1. i + 1 < j + 1
    BY <1>4
  <2> QED BY <1>3, <2>1 DEF InTicketOrder
<1>5. Head(q).ticket \in Int /\ Head(q).ticket <= high
  BY <1>2 DEF InTicketOrder
<1>6. InTicketOrder(p, low, high) /\ InTicketOrder(p, Head(q).ticket, high)
  BY <1>3, <1>4, <1>5 DEF InTicketOrder
<1>7. ASSUME NEW i \in 1 .. Len(q), q[i].ticket # Head(q).ticket
      PROVE  \E j \in 1 .. Len(p) : p[j] = q[i]
  <2>1. i # 1
    BY <1>2, <1>7
  <2>2. i - 1 \in 1 .. Len(p) /\ p[i - 1] = q[i]
    BY <1>1, <2>1
  <2> QED BY <2>2
<1> QED BY <1>1, <1>5, <1>6, <1>7 DEF p

\* A lower bound may be lowered.
LEMMA OrderBelow ==
  ASSUME NEW T, NEW q \in Seq(T), NEW low \in Int, NEW high \in Int,
         \A i \in 1 .. Len(q) : q[i].ticket \in Int,
         InTicketOrder(q, low, high), NEW l \in Int, l <= low
  PROVE  InTicketOrder(q, l, high)
  BY DEF InTicketOrder

\* Everything the worker does but take the next update: it goes on with its
\* ticket, or drops it, which it does only when the ticket is superseded, the
\* update has ended or the station is about to reboot; and it hands back every
\* EVSE it withheld as it leaves the two stages that need them.
FwMoves ==
    \/ RetrieveTime \/ DownloadFails \/ DownloadRetries \/ Downloads \/ Verifies
    \/ SchedulesInstall \/ InstallTime \/ WaitForIdle \/ Installs
    \/ InstallReboots

GoesOn ==
    /\ fwWorker' \in FwWorkers /\ fwWorker'.ticket = fwWorker.ticket
    /\ fwWorker'.attempt <= fwWorker'.request.retries
    /\ fwState'.inProgress => fwState.inProgress

DropsIt ==
    /\ fwWorker' = NoUpdate
    /\ fwState'.inProgress /\ ~rebooting'.asked =>
          fwState.inProgress /\ fwWorker.ticket # fwState.current

EvsesInOrder ==
    /\ evseStatus' \in [Evses -> EvseModes] /\ taken' \in SUBSET Evses
    /\ AllowsNew => taken' = taken
    /\ taken' # {} =>
          \/ rebooting'.asked
          \/ fwWorker'.pc \in {"waitIdle", "installing"}

\* Goto and Abandon, with what is recorded beside them.
LEMMA GotoGoesOn ==
  ASSUME FwInv, NEW pc \in FwPcs, Goto(pc),
         fwState'.inProgress => fwState.inProgress
  PROVE  GoesOn /\ fwWorker'.pc = pc
<1>1. fwWorker \in FwWorkers
  BY DEF FwInv, FwTypes
<1>2. /\ fwWorker' \in FwWorkers /\ fwWorker'.ticket = fwWorker.ticket
      /\ fwWorker'.attempt = fwWorker.attempt
      /\ fwWorker'.request = fwWorker.request
      /\ fwWorker'.pc = pc
  BY <1>1 DEF Goto, FwWorkers
<1> QED BY <1>2 DEF GoesOn, FwInv, FwTypes

LEMMA AbandonDrops ==
  ASSUME FwInv, ~IsCurrent, Abandon
  PROVE  DropsIt /\ fwState' = fwState
  BY DEF Abandon, DropsIt, IsCurrent

LEMMA MovesDo ==
  ASSUME FwInv, FwMoves
  PROVE  /\ fwQueue' = fwQueue /\ session' = session /\ fwPast' = fwPast
         /\ fwState' \in FwStates /\ fwState'.current = fwState.current
         /\ rebooting' \in [asked : BOOLEAN, cut : SUBSET Evses]
         /\ rebooting.asked => rebooting'.asked
         /\ GoesOn \/ DropsIt
         /\ EvsesInOrder
<1> DEFINE Beside ==
             /\ fwQueue' = fwQueue /\ session' = session /\ fwPast' = fwPast
             /\ rebooting' = rebooting
           Stays ==
             /\ evseStatus' = evseStatus /\ taken' = taken
           Kept == fwState' \in FwStates /\ fwState'.current = fwState.current
<1>0. /\ fwState \in FwStates /\ fwWorker \in FwWorkers
      /\ fwWorker.attempt <= fwWorker.request.retries
      /\ evseStatus \in [Evses -> EvseModes] /\ taken \in SUBSET Evses
      /\ rebooting \in [asked : BOOLEAN, cut : SUBSET Evses]
      /\ AllowsNew => taken = {}
      /\ taken # {} => rebooting.asked \/ fwWorker.pc \in {"waitIdle", "installing"}
  BY DEF FwInv, FwTypes, WithheldOnlyWhileUpdating
<1>1. ASSUME Beside, Stays, fwWorker.pc \notin {"waitIdle", "installing"}
      PROVE  EvsesInOrder
  BY <1>0, <1>1 DEF EvsesInOrder
<1>2. ASSUME NEW s \in FwStatuses, Record(s)
      PROVE  Kept /\ fwState'.inProgress = (fwState.inProgress /\ ~Terminal(s))
  BY <1>0, <1>2, RecordDoes
<1>3. fwState' = fwState => Kept
  BY <1>0
<1>4. CASE RetrieveTime
  <2>1. Beside /\ Stays /\ fwWorker.pc = "scheduled"
    BY <1>4 DEF RetrieveTime
  <2>2. CASE IsCurrent
    <3>1. Goto("downloading") /\ Record("Downloading")
      BY <1>4, <2>2 DEF RetrieveTime
    <3>2. Kept /\ (fwState'.inProgress => fwState.inProgress)
      BY <1>2, <3>1 DEF FwStatuses
    <3> QED BY <1>0, <1>1, <2>1, <3>1, <3>2, GotoGoesOn DEF FwPcs
  <2>3. CASE ~IsCurrent
    <3>1. Abandon
      BY <1>4, <2>3 DEF RetrieveTime
    <3> QED BY <1>0, <1>1, <1>3, <2>1, <2>3, <3>1, AbandonDrops
  <2> QED BY <2>2, <2>3
<1>5. CASE DownloadFails
  <2>1. Beside /\ Stays /\ fwWorker.pc = "downloading"
    BY <1>5 DEF DownloadFails
  <2>2. CASE fwWorker.attempt < fwWorker.request.retries
    <3>1. /\ fwWorker' = [fwWorker EXCEPT !.pc = "retrying", !.attempt = @ + 1]
          /\ fwState' = fwState
      BY <1>5, <2>2 DEF DownloadFails
    <3>2. fwWorker.request.retries \in Nat /\ fwWorker.attempt \in Nat
      BY <1>0, FirmwareAssumption DEF FwWorkers, NoUpdate
    <3>3. fwWorker' \in FwWorkers /\ fwWorker'.ticket = fwWorker.ticket
          /\ fwWorker'.attempt = fwWorker.attempt + 1
          /\ fwWorker'.request = fwWorker.request
      <4> DEFINE n == fwWorker.attempt + 1
                 w == [fwWorker EXCEPT !.pc = "retrying", !.attempt = n]
      <4>1. n \in Nat
        BY <3>2
      <4>2. fwWorker' = w
        BY <3>1
      <4> HIDE DEF n
      <4>3. w \in FwWorkers /\ w.ticket = fwWorker.ticket /\ w.attempt = n
            /\ w.request = fwWorker.request
        BY <1>0, <4>1 DEF FwWorkers, FwPcs
      <4> QED BY <4>2, <4>3 DEF n
    <3>4. GoesOn
      BY <2>2, <3>1, <3>2, <3>3 DEF GoesOn
    <3> QED BY <1>0, <1>1, <1>3, <2>1, <3>1, <3>4
  <2>3. CASE ~(fwWorker.attempt < fwWorker.request.retries) /\ IsCurrent
    <3>1. fwWorker' = NoUpdate /\ Record("DownloadFailed")
      BY <1>5, <2>3 DEF DownloadFails
    <3>2. Kept /\ ~fwState'.inProgress
      BY <1>2, <3>1 DEF FwStatuses, Terminal
    <3>3. DropsIt
      BY <3>1, <3>2 DEF DropsIt
    <3> QED BY <1>0, <1>1, <2>1, <3>2, <3>3
  <2>4. CASE ~(fwWorker.attempt < fwWorker.request.retries) /\ ~IsCurrent
    <3>1. Abandon
      BY <1>5, <2>4 DEF DownloadFails
    <3> QED BY <1>0, <1>1, <1>3, <2>1, <2>4, <3>1, AbandonDrops
  <2> QED BY <2>2, <2>3, <2>4
<1>6. CASE DownloadRetries
  <2>1. Beside /\ Stays /\ fwWorker.pc = "retrying"
    BY <1>6 DEF DownloadRetries
  <2>2. CASE IsCurrent
    <3>1. Goto("downloading") /\ fwState' = fwState
      BY <1>6, <2>2 DEF DownloadRetries
    <3> QED BY <1>0, <1>1, <1>3, <2>1, <3>1, GotoGoesOn DEF FwPcs
  <2>3. CASE ~IsCurrent
    <3>1. Abandon
      BY <1>6, <2>3 DEF DownloadRetries
    <3> QED BY <1>0, <1>1, <1>3, <2>1, <2>3, <3>1, AbandonDrops
  <2> QED BY <2>2, <2>3
<1>7. CASE Downloads
  <2>1. Beside /\ Stays /\ fwWorker.pc = "downloading"
    BY <1>7 DEF Downloads
  <2>2. CASE IsCurrent
    <3>1. Goto("downloaded") /\ Record("Downloaded")
      BY <1>7, <2>2 DEF Downloads
    <3>2. Kept /\ (fwState'.inProgress => fwState.inProgress)
      BY <1>2, <3>1 DEF FwStatuses
    <3> QED BY <1>0, <1>1, <2>1, <3>1, <3>2, GotoGoesOn DEF FwPcs
  <2>3. CASE ~IsCurrent
    <3>1. Abandon
      BY <1>7, <2>3 DEF Downloads
    <3> QED BY <1>0, <1>1, <1>3, <2>1, <2>3, <3>1, AbandonDrops
  <2> QED BY <2>2, <2>3
<1>8. CASE Verifies
  <2>1. Beside /\ Stays /\ fwWorker.pc = "downloaded"
    BY <1>8 DEF Verifies
  <2>2. CASE Goto("verified") /\ fwState' = fwState
    BY <1>0, <1>1, <1>3, <2>1, <2>2, GotoGoesOn DEF FwPcs
  <2>3. CASE Goto("verified") /\ Record("SignatureVerified")
    <3>1. Kept /\ (fwState'.inProgress => fwState.inProgress)
      BY <1>2, <2>3 DEF FwStatuses
    <3> QED BY <1>0, <1>1, <2>1, <2>3, <3>1, GotoGoesOn DEF FwPcs
  <2>4. CASE fwWorker' = NoUpdate /\ Record("InvalidSignature")
    <3>1. Kept /\ ~fwState'.inProgress
      BY <1>2, <2>4 DEF FwStatuses, Terminal
    <3>2. DropsIt
      BY <2>4, <3>1 DEF DropsIt
    <3> QED BY <1>0, <1>1, <2>1, <3>1, <3>2
  <2>5. CASE ~IsCurrent /\ Abandon
    BY <1>0, <1>1, <1>3, <2>1, <2>5, AbandonDrops
  <2> QED BY <1>8, <2>2, <2>3, <2>4, <2>5 DEF Verifies
<1>9. CASE SchedulesInstall
  <2>1. /\ Beside /\ Stays /\ fwWorker.pc = "verified"
        /\ Goto("installLater") /\ Record("InstallScheduled")
    BY <1>9 DEF SchedulesInstall, Goto
  <2>2. Kept /\ (fwState'.inProgress => fwState.inProgress)
    BY <1>2, <2>1 DEF FwStatuses
  <2> QED BY <1>0, <1>1, <2>1, <2>2, GotoGoesOn DEF FwPcs
<1>10. CASE InstallTime
  <2>1. Beside /\ fwWorker.pc \in {"verified", "installLater"}
    BY <1>10 DEF InstallTime
  <2>2. CASE ~IsCurrent /\ Abandon /\ Stays
    BY <1>0, <1>1, <1>3, <2>1, <2>2, AbandonDrops
  <2>3. CASE Goto("waitIdle") /\ Withhold /\ fwState' = fwState
    <3>1. GoesOn /\ fwWorker'.pc = "waitIdle"
      BY <2>3, GotoGoesOn DEF FwPcs
    <3>2. EvsesInOrder
      BY <1>0, <2>3, <3>1 DEF EvsesInOrder, Withhold, EvseModes
    <3> QED BY <1>0, <1>3, <2>1, <2>3, <3>1, <3>2
  <2> QED BY <1>10, <2>2, <2>3 DEF InstallTime
<1>11. ASSUME GiveBack, Beside
       PROVE  EvsesInOrder
  BY <1>0, <1>11 DEF GiveBack, EvsesInOrder, EvseModes
<1>12. CASE WaitForIdle
  <2>1. Beside /\ fwWorker.pc = "waitIdle"
    BY <1>12 DEF WaitForIdle
  <2>2. CASE ~IsCurrent
    <3>1. Abandon /\ GiveBack
      BY <1>12, <2>2 DEF WaitForIdle
    <3> QED BY <1>0, <1>3, <1>11, <2>1, <2>2, <3>1, AbandonDrops
  <2>3. CASE IsCurrent
    <3>1. Goto("installing") /\ Record("Installing") /\ Stays
      BY <1>12, <2>3 DEF WaitForIdle
    <3>2. Kept /\ (fwState'.inProgress => fwState.inProgress)
      BY <1>2, <3>1 DEF FwStatuses
    <3>3. GoesOn /\ fwWorker'.pc = "installing"
      BY <3>1, <3>2, GotoGoesOn DEF FwPcs
    <3>4. EvsesInOrder
      BY <1>0, <3>1, <3>3 DEF EvsesInOrder
    <3> QED BY <1>0, <2>1, <3>2, <3>3, <3>4
  <2> QED BY <2>2, <2>3
<1>13. CASE Installs
  <2>1. PICK s \in {"Installed", "InstallationFailed"} : Record(s)
    BY <1>13 DEF Installs
  <2>2. Kept /\ ~fwState'.inProgress
    BY <1>2, <2>1 DEF FwStatuses, Terminal
  <2>3. Beside /\ GiveBack /\ fwWorker' = NoUpdate
    BY <1>13 DEF Installs
  <2>4. DropsIt
    BY <2>2, <2>3 DEF DropsIt
  <2> QED BY <1>0, <1>11, <2>2, <2>3, <2>4
<1>14. CASE InstallReboots
  <2>1. /\ Record("InstallRebooting") /\ Stays
        /\ rebooting' = [asked |-> TRUE, cut |-> {e \in Evses : session[e]}]
        /\ fwWorker' = NoUpdate
        /\ fwQueue' = fwQueue /\ session' = session /\ fwPast' = fwPast
    BY <1>14 DEF InstallReboots
  <2>2. Kept
    BY <1>2, <2>1 DEF FwStatuses
  <2>3. rebooting' \in [asked : BOOLEAN, cut : SUBSET Evses] /\ rebooting'.asked
    BY <2>1
  <2>4. DropsIt /\ EvsesInOrder
    BY <1>0, <2>1, <2>3 DEF DropsIt, EvsesInOrder
  <2> QED BY <2>1, <2>2, <2>3, <2>4
<1> QED BY <1>4, <1>5, <1>6, <1>7, <1>8, <1>9, <1>10, <1>12, <1>13, <1>14
        DEF FwMoves

\* What a driver, the CSMS and the hardware do to the EVSEs meanwhile.
LEMMA EvsesDo ==
  ASSUME FwInv, LocalStart \/ RemoteStart \/ SessionEnds \/ EvseChanges
  PROVE  /\ fwState' = fwState /\ fwQueue' = fwQueue /\ fwWorker' = fwWorker
         /\ rebooting' = rebooting
         /\ session' \in [Evses -> BOOLEAN]
         /\ evseStatus' \in [Evses -> EvseModes]
         /\ taken' \subseteq taken
<1>0. /\ session \in [Evses -> BOOLEAN]
      /\ evseStatus \in [Evses -> EvseModes]
  BY DEF FwInv, FwTypes
<1>1. CASE LocalStart
  BY <1>0, <1>1 DEF LocalStart
<1>2. CASE RemoteStart
  BY <1>0, <1>2 DEF RemoteStart
<1>3. CASE SessionEnds
  BY <1>0, <1>3 DEF SessionEnds
<1>4. CASE EvseChanges
  BY <1>0, <1>4 DEF EvseChanges, EvseModes
<1> QED BY <1>1, <1>2, <1>3, <1>4

\* The queue's tickets are numbers.
LEMMA QueueTickets ==
  ASSUME FwInv
  PROVE  \A i \in 1 .. Len(fwQueue) : fwQueue[i].ticket \in Int
<1> TAKE i \in 1 .. Len(fwQueue)
<1>1. fwQueue \in Seq(FwItems)
  BY DEF FwInv, FwTypes
<1>2. fwQueue[i] \in FwItems
  BY <1>1, ElementOfSeq
<1> QED BY <1>2 DEF FwItems

LEMMA FwNextInv ==
  ASSUME FwInv, FwNext
  PROVE  FwInv'
<1>0. /\ FwTypes /\ InTicketOrder(fwQueue, fwWorker.ticket, fwState.current)
      /\ NewestIsInHand /\ WithheldOnlyWhileUpdating
      /\ (AllowsNew => taken = {})
  BY DEF FwInv
<1>t. /\ fwQueue \in Seq(FwItems) /\ fwState \in FwStates
      /\ fwWorker \in FwWorkers
      /\ fwWorker.ticket \in Int /\ fwState.current \in Int
      /\ fwWorker.ticket >= 0
  BY <1>0 DEF FwTypes, FwStates, FwWorkers
<1>q. \A i \in 1 .. Len(fwQueue) : fwQueue[i].ticket \in Int
  BY QueueTickets
<1>1. CASE FwMoves
  <2>1. /\ fwQueue' = fwQueue /\ session' = session /\ fwPast' = fwPast
        /\ fwState' \in FwStates /\ fwState'.current = fwState.current
        /\ rebooting' \in [asked : BOOLEAN, cut : SUBSET Evses]
        /\ rebooting.asked => rebooting'.asked
        /\ GoesOn \/ DropsIt
        /\ EvsesInOrder
    BY <1>1, MovesDo
  <2>2. /\ fwWorker' \in FwWorkers
        /\ fwWorker'.attempt <= fwWorker'.request.retries
        /\ fwWorker'.ticket \in Int /\ fwWorker'.ticket <= fwWorker.ticket
        /\ fwState'.inProgress /\ ~rebooting'.asked =>
              /\ fwState.inProgress
              /\ \/ fwWorker'.ticket = fwWorker.ticket
                 \/ fwWorker.ticket # fwState.current
    <3>1. CASE GoesOn
      BY <1>t, <3>1 DEF GoesOn
    <3>2. CASE DropsIt
      BY <1>t, <3>2, NoUpdateType DEF DropsIt
    <3> QED BY <2>1, <3>1, <3>2
  <2>3. FwTypes'
    BY <1>0, <2>1, <2>2 DEF FwTypes, EvsesInOrder
  <2>4. InTicketOrder(fwQueue', fwWorker'.ticket, fwState'.current)
    BY <1>0, <1>t, <1>q, <2>1, <2>2, OrderBelow
  <2>5. NewestIsInHand'
    BY <1>0, <2>1, <2>2 DEF NewestIsInHand
  <2>6. WithheldOnlyWhileUpdating' /\ (AllowsNew => taken' = {})
    BY <1>0, <2>1 DEF EvsesInOrder, WithheldOnlyWhileUpdating
  <2> QED BY <2>3, <2>4, <2>5, <2>6 DEF FwInv
<1>2. CASE TakeUpdate
  <2> DEFINE next == Head(fwQueue)
  <2>1. /\ fwWorker.pc = "idle" /\ fwQueue # << >> /\ ~rebooting.asked
        /\ fwQueue' = Tail(fwQueue)
        /\ evseStatus' = evseStatus /\ session' = session /\ taken' = taken
        /\ rebooting' = rebooting
    BY <1>2 DEF TakeUpdate
  <2>2. /\ next \in FwItems /\ Tail(fwQueue) \in Seq(FwItems)
        /\ next.ticket <= fwState.current
        /\ InTicketOrder(fwQueue', fwWorker.ticket, fwState.current)
        /\ InTicketOrder(fwQueue', next.ticket, fwState.current)
        /\ \A i \in 1 .. Len(fwQueue) :
              fwQueue[i].ticket # next.ticket =>
                 \E j \in 1 .. Len(fwQueue') : fwQueue'[j] = fwQueue[i]
    BY <1>0, <1>t, <1>q, <2>1, QueueShrinks
  <2>3. CASE next.ticket # fwState.current
    <3>1. fwWorker' = fwWorker /\ fwState' = fwState
      BY <1>2, <2>3 DEF TakeUpdate
    <3>2. FwTypes'
      BY <1>0, <2>1, <2>2, <3>1 DEF FwTypes
    <3>3. NewestIsInHand'
      BY <1>0, <2>1, <2>2, <2>3, <3>1 DEF NewestIsInHand
    <3>4. WithheldOnlyWhileUpdating'
      BY <1>0, <2>1, <3>1 DEF WithheldOnlyWhileUpdating
    <3> QED BY <1>0, <2>1, <2>2, <3>1, <3>2, <3>3, <3>4 DEF FwInv
  <2>4. CASE next.ticket = fwState.current
    <3> DEFINE s == IF next.request.retrieveLater THEN "DownloadScheduled"
                    ELSE "Downloading"
               pc == IF next.request.retrieveLater THEN "scheduled"
                     ELSE "downloading"
               w  == [pc |-> pc, ticket |-> next.ticket, attempt |-> 0,
                      request |-> next.request]
    <3>1. fwWorker' = w /\ Record(s)
      BY <1>2, <2>4 DEF TakeUpdate
    <3>2. next.request \in Requests /\ next.ticket \in Nat
          /\ next.request.retries \in Nat
      BY <2>2, FirmwareAssumption DEF FwItems
    <3>3. pc \in FwPcs /\ pc # "idle" /\ s \in FwStatuses /\ ~Terminal(s)
      BY DEF FwPcs, FwStatuses, Terminal
    <3> HIDE DEF s, pc
    <3>4. w \in FwWorkers /\ w.ticket = next.ticket
          /\ w.attempt <= w.request.retries
      BY <3>2, <3>3 DEF FwWorkers
    <3> HIDE DEF w, next
    <3>5. fwState' \in FwStates /\ fwState'.current = fwState.current
          /\ fwState'.inProgress = fwState.inProgress
      BY <1>t, <3>1, <3>3, RecordDoes DEF FwStates
    <3>6. FwTypes'
      BY <1>0, <2>1, <2>2, <3>1, <3>4, <3>5 DEF FwTypes
    <3>7. NewestIsInHand'
      BY <2>4, <3>1, <3>4, <3>5 DEF NewestIsInHand
    <3>8. WithheldOnlyWhileUpdating'
      BY <1>0, <2>1 DEF WithheldOnlyWhileUpdating
    <3>9. InTicketOrder(fwQueue', fwWorker'.ticket, fwState'.current)
      BY <2>2, <3>1, <3>4, <3>5
    <3> QED BY <1>0, <2>1, <3>6, <3>7, <3>8, <3>9 DEF FwInv
  <2> QED BY <2>3, <2>4
<1>3. CASE UpdateFirmware
  <2> DEFINE k == fwState.current + 1
  <2>1. /\ k \in Nat /\ fwState.current < k
        /\ fwState' = [fwState EXCEPT !.current = k, !.inProgress = TRUE]
        /\ fwWorker' = fwWorker /\ evseStatus' = evseStatus
        /\ session' = session /\ taken' = taken /\ rebooting' = rebooting
    BY <1>t, <1>3 DEF UpdateFirmware, FwStates
  <2>2. PICK r \in Requests :
           fwQueue' = Append(fwQueue, [ticket |-> k, request |-> r])
    BY <1>3 DEF UpdateFirmware
  <2> DEFINE item == [ticket |-> k, request |-> r]
  <2>3. item \in FwItems /\ item.ticket = k
    BY <2>1 DEF FwItems
  <2> HIDE DEF item, k
  <2>4. fwState' \in FwStates /\ fwState'.current = k
    BY <1>t, <2>1 DEF FwStates
  <2>5. /\ fwQueue' \in Seq(FwItems)
        /\ InTicketOrder(fwQueue', fwWorker.ticket, k)
        /\ \E i \in 1 .. Len(fwQueue') : fwQueue'[i].ticket = k
    <3>1. fwQueue' = Append(fwQueue, item)
      BY <2>2 DEF item
    <3> QED BY <1>0, <1>t, <1>q, <2>1, <2>3, <3>1, QueueGrows
  <2>6. FwTypes'
    BY <1>0, <2>1, <2>4, <2>5 DEF FwTypes
  <2>7. NewestIsInHand'
    BY <2>4, <2>5 DEF NewestIsInHand
  <2>8. WithheldOnlyWhileUpdating'
    BY <1>0, <2>1 DEF WithheldOnlyWhileUpdating
  <2> QED BY <1>0, <2>1, <2>4, <2>5, <2>6, <2>7, <2>8 DEF FwInv
<1>4. CASE LocalStart \/ RemoteStart \/ SessionEnds \/ EvseChanges
  <2>1. /\ fwState' = fwState /\ fwQueue' = fwQueue /\ fwWorker' = fwWorker
        /\ rebooting' = rebooting
        /\ session' \in [Evses -> BOOLEAN]
        /\ evseStatus' \in [Evses -> EvseModes]
        /\ taken' \subseteq taken
    BY <1>4, EvsesDo
  <2>2. FwTypes'
    BY <1>0, <2>1 DEF FwTypes
  <2> QED BY <1>0, <2>1, <2>2 DEF FwInv, NewestIsInHand,
                                  WithheldOnlyWhileUpdating
<1> QED BY <1>1, <1>2, <1>3, <1>4 DEF FwNext, FwWorkerSteps, FwMoves

LEMMA FwStutterInv ==
  ASSUME FwInv, UNCHANGED fwVars
  PROVE  FwInv'
  BY DEF FwInv, FwTypes, fwVars, NewestIsInHand, WithheldOnlyWhileUpdating

\* The invariant says what a run checks of the firmware's ticket and EVSEs.
LEMMA FwInvImplies == FwInv => FwTypeOK /\ NewestIsInHand
                               /\ WithheldOnlyWhileUpdating
<1> SUFFICES ASSUME FwInv PROVE FwTypeOK
  BY DEF FwInv
<1>0. /\ FwTypes /\ InTicketOrder(fwQueue, fwWorker.ticket, fwState.current)
      /\ fwWorker.ticket \in Int /\ fwState.current \in Int
      /\ \A i \in 1 .. Len(fwQueue) : fwQueue[i].ticket \in Int
  BY QueueTickets DEF FwInv, FwTypes, FwStates, FwWorkers
<1>1. ASSUME NEW i \in 1 .. Len(fwQueue)
      PROVE  /\ fwQueue[i].ticket \in fwWorker.ticket + 1 .. fwState.current
             /\ i > 1 => fwQueue[i - 1].ticket < fwQueue[i].ticket
  <2>1. fwQueue[i].ticket \in fwWorker.ticket + 1 .. fwState.current
    BY <1>0 DEF InTicketOrder
  <2>2. ASSUME i > 1
        PROVE  fwQueue[i - 1].ticket < fwQueue[i].ticket
    <3>1. i - 1 \in 1 .. Len(fwQueue) /\ i - 1 < i
      BY <2>2
    <3> QED BY <1>0, <3>1 DEF InTicketOrder
  <2> QED BY <2>1, <2>2
<1>2. fwWorker.pc \in FwPcs /\ fwWorker.ticket <= fwState.current
  BY <1>0 DEF FwTypes, FwWorkers, InTicketOrder
<1> QED BY <1>0, <1>1, <1>2 DEF FwTypeOK, FwTypes, FwPcs, EvseModes

\* The invariant of firmware updates holds of every behaviour.
THEOREM FirmwareInvariance == FwSpec => []FwInv
<1>1. FwInv /\ [FwNext]_fwVars => FwInv'
  BY FwNextInv, FwStutterInv
<1> QED BY FwInitInv, <1>1, PTL DEF FwSpec

-----------------------------------------------------------------------------
(* Published firmware. *)

PubTickets == Nat \ {0}
PubItems   == [ticket : PubTickets, checksum : Checksums, retries : Nat]
PubStates  == [current : Nat,
               inProgress : {NotInProgress} \cup
                               [ticket : PubTickets, checksum : Checksums],
               published : SUBSET Checksums]
PubPcs     == {"downloading", "retrying", "publishing", "served", "ending"}
PubAsked   == {"not published", "not ongoing", "admitted"}

PubTypes ==
    /\ pubState \in PubStates
    /\ pubQueue \in Seq(PubItems)
    /\ \/ pubHandler = NoRequest
       \/ pubHandler \in [pc : PubAsked, checksum : Checksums]
    /\ \/ pubWorker = NoPublish
       \/ pubWorker \in [pc : PubPcs, ticket : PubTickets, checksum : Checksums,
                         left : Nat]
    /\ IsFiniteSet(pubState.published)

\* A ticket is of one request.
PubOrder ==
    /\ \A i \in 1 .. Len(pubQueue) : pubQueue[i].ticket <= pubState.current
    /\ pubWorker.ticket <= pubState.current
    /\ pubState.inProgress.ticket <= pubState.current
    /\ \A i \in 1 .. Len(pubQueue) :
          pubState.inProgress.ticket = pubQueue[i].ticket =>
             pubState.inProgress.checksum = pubQueue[i].checksum
    /\ pubWorker.pc # "idle" /\ PubIsCurrent =>
          pubState.inProgress.checksum = pubWorker.checksum

\* What may still join the published images without being counted again: the
\* one in the publisher's hands, the one in progress, and the one a handler has
\* admitted and not claimed yet.
InHands    == IF pubWorker.pc \in {"publishing", "served"}
              THEN {pubWorker.checksum} ELSE {}
InProgress == IF pubState.inProgress # NotInProgress
              THEN {pubState.inProgress.checksum} ELSE {}
Admitted   == IF pubHandler.pc = "admitted" THEN {pubHandler.checksum} ELSE {}
FirstUp    == IF pubWorker.pc = "ending" THEN {}
              ELSE IF InHands # {} THEN InHands ELSE InProgress

Ahead  == pubState.published \cup InHands \cup InProgress
Behind == pubState.published \cup FirstUp \cup Admitted

\* The bound is looked at by the handler alone; what makes it hold but for one
\* is that of those three at most two get through: publishing what is in hand
\* takes what is in progress out of it, so that the worker will drop it, as does
\* whatever ends it, and a claim takes the place of what is in progress.
PubRoom ==
    /\ Cardinality(Ahead) <= MaxPublished + 1
    /\ Cardinality(Behind) <= MaxPublished + 1

PubInv == PubTypes /\ PubOrder /\ PubRoom

\* Nothing in progress is told from a request by its ticket.
LEMMA InProgressTicket ==
  ASSUME PubTypes
  PROVE  /\ pubState.inProgress.ticket \in Nat
         /\ pubState.inProgress # NotInProgress <=>
               pubState.inProgress.ticket \in PubTickets
         /\ pubState.inProgress # NotInProgress =>
               pubState.inProgress.checksum \in Checksums
  BY DEF PubTypes, PubStates, NotInProgress, NoTicket, PubTickets

LEMMA PubInitInv == PubInit => PubInv
<1> SUFFICES ASSUME PubInit PROVE PubInv
  OBVIOUS
<1>1. PubTypes
  BY FS_EmptySet DEF PubInit, PubTypes, PubStates
<1>2. PubOrder
  BY DEF PubInit, PubOrder, NoPublish, NotInProgress, NoTicket
<1>3. Ahead = {} /\ Behind = {}
  BY DEF PubInit, Ahead, Behind, FirstUp, InHands, InProgress, Admitted,
         NoPublish, NoRequest
<1> QED BY <1>1, <1>2, <1>3, FS_EmptySet, PublishAssumption DEF PubInv, PubRoom

\* The sets are finite, and so is what is published beside any two images.
LEMMA AheadIsFinite ==
  ASSUME PubTypes
  PROVE  IsFiniteSet(Ahead) /\ IsFiniteSet(Behind)
<1>1. /\ IsFiniteSet(InHands) /\ IsFiniteSet(InProgress) /\ IsFiniteSet(Admitted)
  BY FS_EmptySet, FS_Singleton DEF InHands, InProgress, Admitted
<1>2. IsFiniteSet(FirstUp) /\ IsFiniteSet(pubState.published)
  BY <1>1, FS_EmptySet DEF FirstUp, PubTypes
<1>3. /\ IsFiniteSet(pubState.published \cup InHands)
      /\ IsFiniteSet(pubState.published \cup FirstUp)
  BY <1>1, <1>2, FS_Union
<1> QED BY <1>1, <1>3, FS_Union DEF Ahead, Behind

\* What stays within one of the two keeps to the bound.
LEMMA WithinFits ==
  ASSUME PubTypes, PubRoom, NEW S, S \subseteq Ahead \/ S \subseteq Behind
  PROVE  Cardinality(S) <= MaxPublished + 1
<1>1. PICK T \in {Ahead, Behind} : S \subseteq T
  OBVIOUS
<1>2. IsFiniteSet(T) /\ Cardinality(T) <= MaxPublished + 1
  BY <1>1, AheadIsFinite DEF PubRoom
<1>3. Cardinality(S) <= Cardinality(T) /\ IsFiniteSet(S)
  BY <1>1, <1>2, FS_Subset
<1>4. Cardinality(S) \in Nat /\ Cardinality(T) \in Nat
  BY <1>2, <1>3, FS_CardinalityType
<1> QED BY <1>2, <1>3, <1>4, PublishAssumption

\* A step of the worker that leaves the bookkeeping and the handler alone, and
\* takes nothing in hand but what is in progress.
LEMMA PubWorkerMoves ==
  ASSUME PubInv, pubState' = pubState, pubQueue' = pubQueue,
         pubHandler' = pubHandler,
         \/ pubWorker' = NoPublish
         \/ /\ pubWorker.pc # "idle" /\ pubWorker'.checksum = pubWorker.checksum
            /\ pubWorker'.ticket = pubWorker.ticket
            /\ pubWorker' \in [pc : PubPcs, ticket : PubTickets,
                               checksum : Checksums, left : Nat],
         pubWorker.pc # "ending", pubWorker'.pc # "ending",
         InHands' \in {InHands, InProgress} \/ InHands' = {},
         InHands # {} => InHands' = InHands
  PROVE  PubInv'
<1>1. PubTypes'
  BY DEF PubInv, PubTypes
<1>2. PubOrder'
  <2>1. CASE pubWorker' = NoPublish
    <3>1. pubWorker'.ticket <= pubState.current /\ pubWorker'.pc = "idle"
      BY <2>1 DEF NoPublish, NoTicket, PubInv, PubTypes, PubStates
    <3> QED BY <3>1 DEF PubInv, PubOrder
  <2>2. CASE pubWorker.pc # "idle"
    BY <2>2, <2>1 DEF PubInv, PubOrder, PubIsCurrent
  <2> QED BY <2>1, <2>2
<1>3. InProgress' = InProgress /\ Admitted' = Admitted
  BY DEF InProgress, Admitted
<1>4. FirstUp' = FirstUp
  BY <1>3 DEF FirstUp
<1>5. Ahead' \subseteq Ahead /\ Behind' = Behind
  BY <1>3, <1>4 DEF Ahead, Behind
<1> HIDE DEF InHands, Ahead, Behind
<1>6. PubRoom'
  BY <1>5, WithinFits DEF PubRoom, PubInv
<1> QED BY <1>1, <1>2, <1>6 DEF PubInv

\* A step of the handler before it claims.
LEMMA PubHandlerLooks ==
  ASSUME PubInv, HandlePublish \/ LookForOngoing \/ CountPublished
  PROVE  PubInv'
<1>0. pubHandler.pc # "idle" =>
        pubHandler \in [pc : PubAsked, checksum : Checksums]
  BY DEF PubInv, PubTypes, NoRequest
<1>1. /\ pubState' = pubState /\ pubQueue' = pubQueue /\ pubWorker' = pubWorker
      /\ \/ pubHandler' = NoRequest
         \/ pubHandler' \in [pc : PubAsked, checksum : Checksums]
  <2>1. CASE HandlePublish
    <3>1. PICK c \in Checksums :
            pubHandler' = IF c \in pubState.published THEN Admit(c)
                          ELSE [pc |-> "not published", checksum |-> c]
      BY <2>1 DEF HandlePublish
    <3>2. pubHandler' \in [pc : PubAsked, checksum : Checksums]
      BY <3>1 DEF Admit, PubAsked
    <3> QED BY <2>1, <3>2 DEF HandlePublish
  <2>2. CASE LookForOngoing
    BY <1>0, <2>2 DEF LookForOngoing, Admit, PubAsked
  <2>3. CASE CountPublished
    BY <1>0, <2>3 DEF CountPublished, Admit, PubAsked
  <2> QED BY <2>1, <2>2, <2>3
<1>2. PubTypes' /\ PubOrder'
  BY <1>1 DEF PubInv, PubTypes, PubOrder, PubIsCurrent
<1>3. InHands' = InHands /\ InProgress' = InProgress
  BY <1>1 DEF InHands, InProgress
<1>4. FirstUp' = FirstUp /\ Ahead' = Ahead
  BY <1>1, <1>3 DEF FirstUp, Ahead
<1>5. Behind' = pubState.published \cup FirstUp \cup Admitted'
  BY <1>1, <1>4 DEF Behind
<1>6. \/ Admitted' = {}
      \/ pubHandler' = [pc |-> "admitted", checksum |-> pubHandler'.checksum]
         /\ Admitted' = {pubHandler'.checksum}
  BY <1>1 DEF Admitted, NoRequest
<1>7. Cardinality(Behind') <= MaxPublished + 1
  <2>1. CASE Behind' \subseteq Ahead \/ Behind' \subseteq Behind
    BY <2>1, WithinFits DEF PubInv
  <2>2. CASE Admitted' = {}
    <3>1. Behind' \subseteq Behind
      BY <2>2, <1>5 DEF Behind
    <3> QED BY <2>1, <3>1
  <2>3. CASE pubHandler'.pc = "admitted" /\ pubHandler'.checksum \in pubState.published
    <3>1. Behind' \subseteq Behind
      BY <2>3, <1>5, <1>6 DEF Behind
    <3> QED BY <2>1, <3>1
  <2>4. CASE pubHandler'.pc = "admitted" /\ Ongoing(pubHandler'.checksum)
    <3>1. Admitted' \subseteq InProgress
      BY <2>4, <1>6 DEF Ongoing, InProgress
    <3>2. Behind' \subseteq Ahead
      BY <3>1, <1>5 DEF Ahead, FirstUp
    <3> QED BY <2>1, <3>2
  <2>5. CASE HasRoom /\ Admitted' = {pubHandler'.checksum}
    <3> DEFINE P == pubState.published
               c == pubHandler'.checksum
    <3>1. IsFiniteSet(P) /\ Cardinality(P) \in Nat
      BY FS_CardinalityType DEF PubInv, PubTypes
    <3>2. \A S, x : IsFiniteSet(S) =>
             /\ IsFiniteSet(S \cup {x}) /\ Cardinality(S \cup {x}) \in Nat
             /\ Cardinality(S \cup {x}) <= Cardinality(S) + 1
      BY FS_AddElement, FS_CardinalityType
    <3>3. \E d : FirstUp = {} \/ FirstUp = {d}
      BY DEF FirstUp, InHands, InProgress
    <3>4. PICK d : FirstUp \subseteq {d} /\ (FirstUp = {} \/ FirstUp = {d})
      BY <3>3
    <3>5. CASE FirstUp = {}
      <4>1. Behind' = P \cup {c}
        BY <1>5, <2>5, <3>5
      <4> HIDE DEF P, c
      <4>2. Cardinality(P) < MaxPublished
        BY <2>5 DEF HasRoom, P
      <4>3. Cardinality(P \cup {c}) <= Cardinality(P) + 1
            /\ Cardinality(P \cup {c}) \in Nat
        BY <3>1, <3>2
      <4> QED BY <3>1, <4>1, <4>2, <4>3, PublishAssumption
    <3>6. CASE FirstUp = {d}
      <4>1. Behind' = (P \cup {d}) \cup {c}
        BY <1>5, <2>5, <3>6
      <4> HIDE DEF P, c
      <4>2. Cardinality(P) < MaxPublished
        BY <2>5 DEF HasRoom, P
      <4>3. Cardinality(P \cup {d}) <= Cardinality(P) + 1
            /\ IsFiniteSet(P \cup {d}) /\ Cardinality(P \cup {d}) \in Nat
        BY <3>1, <3>2
      <4>4. Cardinality((P \cup {d}) \cup {c}) <= Cardinality(P \cup {d}) + 1
            /\ Cardinality((P \cup {d}) \cup {c}) \in Nat
        BY <4>3, <3>2
      <4> QED BY <3>1, <4>1, <4>2, <4>3, <4>4, PublishAssumption
    <3> QED BY <3>4, <3>5, <3>6
  <2>6. \/ Admitted' = {}
        \/ pubHandler'.pc = "admitted" /\ pubHandler'.checksum \in pubState.published
        \/ pubHandler'.pc = "admitted" /\ Ongoing(pubHandler'.checksum)
        \/ HasRoom /\ Admitted' = {pubHandler'.checksum}
    <3>1. CASE HandlePublish
      <4>1. PICK c \in Checksums :
              pubHandler' = IF c \in pubState.published THEN Admit(c)
                            ELSE [pc |-> "not published", checksum |-> c]
        BY <3>1 DEF HandlePublish
      <4> QED BY <4>1 DEF Admit, Admitted
    <3>2. CASE LookForOngoing
      <4>1. pubHandler.pc = "not published"
        BY <3>2 DEF LookForOngoing
      <4>2. pubHandler \in [pc : PubAsked, checksum : Checksums]
        BY <4>1, <1>0
      <4>3. CASE Ongoing(pubHandler.checksum)
        <5>1. pubHandler' = Admit(pubHandler.checksum)
          BY <3>2, <4>3 DEF LookForOngoing
        <5>2. pubHandler'.pc = "admitted" /\ pubHandler'.checksum = pubHandler.checksum
          BY <5>1 DEF Admit
        <5> QED BY <4>3, <5>2
      <4>4. CASE ~Ongoing(pubHandler.checksum)
        <5>1. pubHandler' = [pubHandler EXCEPT !.pc = "not ongoing"]
          BY <3>2, <4>4 DEF LookForOngoing
        <5>2. pubHandler'.pc # "admitted"
          BY <4>2, <5>1
        <5> QED BY <5>2 DEF Admitted
      <4> QED BY <4>3, <4>4
    <3>3. CASE CountPublished
      BY <3>3, <1>6 DEF CountPublished, Admit, Admitted, NoRequest
    <3> QED BY <3>1, <3>2, <3>3
  <2> QED BY <2>2, <2>3, <2>4, <2>5, <2>6
<1> QED BY <1>2, <1>4, <1>7 DEF PubInv, PubRoom

LEMMA PubNextInv ==
  ASSUME PubInv, PubNext
  PROVE  PubInv'
<1> DEFINE Busy == [pc : PubPcs, ticket : PubTickets, checksum : Checksums,
                    left : Nat]
           published == pubState.published
<1>0. /\ PubTypes /\ PubOrder /\ PubRoom
      /\ IsFiniteSet(published) /\ published \in SUBSET Checksums
      /\ pubState.current \in Nat
      /\ pubWorker.pc # "idle" => pubWorker \in Busy
  BY DEF PubInv, PubTypes, PubStates, NoPublish
<1>r. ASSUME PubTypes', PubOrder',
             Ahead' \subseteq Ahead \/ Ahead' \subseteq Behind,
             Behind' \subseteq Ahead \/ Behind' \subseteq Behind
      PROVE  PubInv'
  <2> HIDE DEF Ahead, Behind
  <2> QED BY <1>0, <1>r, WithinFits DEF PubInv, PubRoom
<1>1. CASE ClaimPublish
  <2> DEFINE k == pubState.current + 1
             c == pubHandler.checksum
  <2>0. c \in Checksums
    BY <1>0, <1>1 DEF ClaimPublish, PubTypes, NoRequest
  <2>1. PICK n \in PublishRetries :
          /\ pubState' = [pubState EXCEPT
                !.current = k, !.inProgress = [ticket |-> k, checksum |-> c]]
          /\ pubQueue' = Append(pubQueue, [ticket |-> k, checksum |-> c,
                                           retries |-> n])
    BY <1>0, <1>1 DEF ClaimPublish, PubTypes, PubStates
  <2> DEFINE item == [ticket |-> k, checksum |-> c, retries |-> n]
             ip   == [ticket |-> k, checksum |-> c]
  <2>2. /\ item \in PubItems /\ item.ticket = k /\ item.checksum = c
        /\ ip \in [ticket : PubTickets, checksum : Checksums]
        /\ ip.ticket = k /\ ip.checksum = c
        /\ k \in PubTickets /\ pubState.current < k
    BY <1>0, <2>0, PublishAssumption DEF PubItems, PubTickets
  <2>3. /\ pubState' = [pubState EXCEPT !.current = k, !.inProgress = ip]
        /\ pubQueue' = Append(pubQueue, item)
        /\ pubWorker' = pubWorker /\ pubHandler' = NoRequest
        /\ pubHandler.pc = "admitted"
    BY <1>1, <2>1 DEF ClaimPublish
  <2> HIDE DEF item, ip, k, c
  <2>4. /\ pubState'.current = k /\ pubState'.inProgress = ip
        /\ pubState'.published = published
        /\ k \in Nat
    BY <1>0, <2>2, <2>3 DEF PubTypes, PubStates, PubTickets
  <2>5. /\ Len(pubQueue') = Len(pubQueue) + 1 /\ Len(pubQueue) \in Nat
        /\ pubQueue' \in Seq(PubItems)
        /\ \A i \in 1 .. Len(pubQueue) : pubQueue'[i] = pubQueue[i]
        /\ pubQueue'[Len(pubQueue) + 1] = item
    BY <1>0, <2>2, <2>3, AppendProperties, LenProperties DEF PubTypes
  <2>6. PubTypes'
    <3>1. pubState' \in PubStates
      BY <1>0, <2>2, <2>3, <2>4 DEF PubTypes, PubStates
    <3> QED BY <1>0, <2>3, <2>4, <2>5, <3>1 DEF PubTypes
  <2>7. ASSUME NEW i \in 1 .. Len(pubQueue')
        PROVE  /\ pubQueue'[i].ticket <= k
               /\ k = pubQueue'[i].ticket => c = pubQueue'[i].checksum
    <3>1. CASE i = Len(pubQueue) + 1
      BY <2>2, <2>4, <2>5, <3>1
    <3>2. CASE i \in 1 .. Len(pubQueue)
      <4>1. /\ pubQueue[i] \in PubItems /\ pubQueue'[i] = pubQueue[i]
            /\ pubQueue[i].ticket <= pubState.current
        BY <1>0, <2>5, <3>2, ElementOfSeq DEF PubTypes, PubOrder
      <4>2. pubQueue[i].ticket \in Nat
        BY <4>1 DEF PubItems, PubTickets
      <4> QED BY <1>0, <2>2, <2>4, <4>1, <4>2
    <3> QED BY <2>5, <3>1, <3>2
  <2>8. pubWorker.ticket \in Nat /\ pubWorker.ticket <= pubState.current
    BY <1>0 DEF PubTypes, PubOrder, NoPublish, NoTicket, PubTickets
  <2>9. pubWorker'.ticket < k
    BY <1>0, <2>2, <2>3, <2>4, <2>8
  <2>10. PubOrder'
    <3>1. ~PubIsCurrent'
      BY <2>2, <2>3, <2>4, <2>8, <2>9 DEF PubIsCurrent
    <3>2. pubWorker'.ticket <= k /\ ip.ticket <= k
      BY <2>2, <2>3, <2>4, <2>8, <2>9
    <3> QED BY <2>2, <2>4, <2>7, <3>1, <3>2 DEF PubOrder
  <2>11. InProgress' = {c} /\ InHands' = InHands /\ Admitted = {c} /\ Admitted' = {}
    <3>1. ip # NotInProgress
      BY <2>2 DEF NotInProgress, NoTicket, PubTickets
    <3> QED BY <2>2, <2>3, <2>4, <3>1 DEF InProgress, InHands, Admitted, NoRequest, c
  <2>12. FirstUp' \in {FirstUp, {c}}
    BY <2>3, <2>11 DEF FirstUp
  <2>13. Ahead' \subseteq Behind /\ Behind' \subseteq Behind
    <3>1. pubWorker.pc = "ending" => InHands = {}
      BY DEF InHands
    <3>2. InHands \subseteq FirstUp
      BY <3>1 DEF FirstUp
    <3> QED BY <2>4, <2>11, <2>12, <3>2 DEF Ahead, Behind
  <2> QED BY <1>r, <2>6, <2>10, <2>13
<1>2. CASE TakePublish
  <2> DEFINE next == Head(pubQueue)
  <2>1. /\ pubQueue # << >> /\ pubQueue' = Tail(pubQueue)
        /\ pubState' = pubState /\ pubHandler' = pubHandler
        /\ pubWorker.pc = "idle"
        /\ pubWorker' = IF pubState.inProgress.ticket = next.ticket
                        THEN [pc |-> "downloading", ticket |-> next.ticket,
                              checksum |-> next.checksum, left |-> next.retries]
                        ELSE NoPublish
    BY <1>2 DEF TakePublish
  <2>2. /\ next \in PubItems /\ pubQueue' \in Seq(PubItems)
        /\ next = pubQueue[1] /\ 1 \in 1 .. Len(pubQueue)
        /\ \A i \in 1 .. Len(pubQueue') : /\ pubQueue'[i] = pubQueue[i + 1]
                                          /\ i + 1 \in 1 .. Len(pubQueue)
    BY <1>0, <2>1, HeadTailProperties, EmptySeq, LenProperties DEF PubTypes
  <2>3. /\ pubWorker' = NoPublish \/ pubWorker' \in Busy
        /\ pubWorker'.pc \notin {"publishing", "served", "ending"}
        /\ pubWorker'.ticket <= pubState.current
        /\ pubWorker'.pc # "idle" /\ pubState.inProgress.ticket = pubWorker'.ticket =>
              pubState.inProgress.checksum = pubWorker'.checksum
    <3>1. CASE pubState.inProgress.ticket = next.ticket
      BY <1>0, <2>1, <2>2, <3>1 DEF PubOrder, PubItems, PubPcs
    <3>2. CASE pubState.inProgress.ticket # next.ticket
      BY <1>0, <2>1, <3>2 DEF NoPublish, NoTicket
    <3> QED BY <3>1, <3>2
  <2>4. PubTypes'
    BY <1>0, <2>1, <2>2, <2>3 DEF PubTypes
  <2>5. PubOrder'
    BY <1>0, <2>1, <2>2, <2>3 DEF PubOrder, PubIsCurrent
  <2>6. InHands' = {} /\ InHands = {} /\ InProgress' = InProgress
        /\ Admitted' = Admitted
    BY <2>1, <2>3 DEF InHands, InProgress, Admitted
  <2>7. Ahead' = Ahead /\ Behind' = Behind
    <3>1. FirstUp' = FirstUp
      BY <2>1, <2>3, <2>6 DEF FirstUp
    <3> QED BY <2>1, <2>6, <3>1 DEF Ahead, Behind
  <2> QED BY <1>r, <2>4, <2>5, <2>7
<1>3. CASE PublishDownloadFails
  <2>1. /\ pubState' = pubState /\ pubQueue' = pubQueue
        /\ pubHandler' = pubHandler
        /\ pubWorker.pc = "downloading" /\ pubWorker \in Busy
    BY <1>0, <1>3 DEF PublishDownloadFails
  <2>2. CASE pubWorker.left > 0
    <3> DEFINE n == pubWorker.left - 1
    <3>1. n \in Nat
      BY <2>1, <2>2
    <3>2. pubWorker' = [pubWorker EXCEPT !.pc = "retrying", !.left = n]
      BY <1>3, <2>2 DEF PublishDownloadFails
    <3> HIDE DEF n
    <3>3. /\ pubWorker' \in Busy /\ pubWorker'.checksum = pubWorker.checksum
          /\ pubWorker'.ticket = pubWorker.ticket /\ pubWorker'.pc = "retrying"
      BY <2>1, <3>1, <3>2 DEF PubPcs
    <3>4. InHands' = {} /\ InHands = {}
      BY <2>1, <3>3 DEF InHands
    <3> QED BY <2>1, <3>3, <3>4, PubWorkerMoves
  <2>3. CASE ~(pubWorker.left > 0)
    <3>1. pubWorker' = NoPublish
      BY <1>3, <2>3 DEF PublishDownloadFails
    <3>2. InHands' = {} /\ InHands = {}
      BY <2>1, <3>1 DEF InHands, NoPublish
    <3>3. pubWorker'.pc # "ending"
      BY <3>1 DEF NoPublish
    <3> QED BY <2>1, <3>1, <3>2, <3>3, PubWorkerMoves
  <2> QED BY <2>2, <2>3
<1>4. CASE PublishRetriesDownload \/ PublishDownloads \/ PublisherServes
  <2>1. /\ pubState' = pubState /\ pubQueue' = pubQueue
        /\ pubHandler' = pubHandler
        /\ pubWorker.pc # "idle" /\ pubWorker \in Busy
    BY <1>0, <1>4 DEF PublishRetriesDownload, PublishDownloads, PublisherServes
  <2>2. \/ pubWorker' = NoPublish
        \/ /\ pubWorker' \in Busy /\ pubWorker'.checksum = pubWorker.checksum
           /\ pubWorker'.ticket = pubWorker.ticket
    BY <1>4, <2>1 DEF PublishRetriesDownload, PublishDownloads, PublisherServes,
                      PubPcs
  <2>3. /\ InHands' \in {InHands, InProgress} \/ InHands' = {}
        /\ InHands # {} => InHands' = InHands
    <3>1. CASE PublishRetriesDownload
      BY <3>1, <2>1 DEF PublishRetriesDownload, InHands, NoPublish
    <3>2. CASE PublishDownloads
      <4>1. CASE PubIsCurrent
        <5>1. pubState.inProgress # NotInProgress
              /\ pubState.inProgress.checksum = pubWorker.checksum
          BY <1>0, <2>1, <4>1, InProgressTicket DEF PubIsCurrent, PubOrder
        <5>2. InHands' = {pubWorker.checksum} /\ InHands = {}
          BY <3>2, <4>1, <2>1 DEF PublishDownloads, InHands
        <5> QED BY <5>1, <5>2 DEF InProgress
      <4>2. CASE ~PubIsCurrent
        BY <3>2, <4>2, <2>1 DEF PublishDownloads, InHands, NoPublish
      <4> QED BY <4>1, <4>2
    <3>3. CASE PublisherServes
      BY <3>3, <2>1 DEF PublisherServes, InHands
    <3> QED BY <1>4, <3>1, <3>2, <3>3
  <2>4. pubWorker.pc # "ending" /\ pubWorker'.pc # "ending"
    BY <1>4, <2>1 DEF PublishRetriesDownload, PublishDownloads, PublisherServes,
                      NoPublish
  <2> QED BY <2>1, <2>2, <2>3, <2>4, PubWorkerMoves
<1>5. CASE MarkPublished
  <2> DEFINE more == published \cup {pubWorker.checksum}
  <2>1. /\ pubQueue' = pubQueue /\ pubHandler' = pubHandler
        /\ pubWorker.pc = "served" /\ pubWorker \in Busy
        /\ pubWorker' = [pubWorker EXCEPT !.pc = "ending"]
        /\ pubState' = [pubState EXCEPT !.published = more,
                                        !.inProgress = NotInProgress]
    BY <1>0, <1>5 DEF MarkPublished, PubTypes, PubStates
  <2>2. more \in SUBSET Checksums /\ IsFiniteSet(more)
    BY <1>0, <2>1, FS_AddElement
  <2>3. /\ pubState'.current = pubState.current
        /\ pubState'.inProgress = NotInProgress
        /\ pubState'.published = more /\ pubState' \in PubStates
        /\ pubWorker' \in Busy /\ pubWorker'.ticket = pubWorker.ticket
        /\ pubWorker'.pc = "ending"
    <3> HIDE DEF more
    <3> QED BY <1>0, <2>1, <2>2 DEF PubTypes, PubStates, PubPcs
  <2>4. PubTypes'
    BY <1>0, <2>1, <2>2, <2>3 DEF PubTypes
  <2>5. PubOrder'
    <3>1. \A i \in 1 .. Len(pubQueue) : NotInProgress.ticket # pubQueue[i].ticket
      <4> TAKE i \in 1 .. Len(pubQueue)
      <4>1. pubQueue[i] \in PubItems
        BY <1>0, ElementOfSeq DEF PubTypes
      <4> QED BY <4>1 DEF PubItems, PubTickets, NotInProgress, NoTicket
    <3>2. NotInProgress.ticket <= pubState.current /\ ~PubIsCurrent'
      BY <1>0, <2>3 DEF NotInProgress, NoTicket, PubIsCurrent, PubTickets
    <3> QED BY <1>0, <2>1, <2>3, <3>1, <3>2 DEF PubOrder
  <2>6. /\ InHands = {pubWorker.checksum} /\ InHands' = {} /\ InProgress' = {}
        /\ Admitted' = Admitted
    BY <2>1, <2>3 DEF InHands, InProgress, Admitted
  <2>7. Ahead' \subseteq Ahead /\ Behind' \subseteq Behind
    <3>1. FirstUp' = {} /\ FirstUp = InHands
      BY <2>1, <2>3, <2>6 DEF FirstUp
    <3> QED BY <2>3, <2>6, <3>1 DEF Ahead, Behind
  <2> QED BY <1>r, <2>4, <2>5, <2>7
<1>6. CASE PublishFails \/ RecordEnd
  <2>1. /\ pubQueue' = pubQueue /\ pubHandler' = pubHandler
        /\ pubWorker.pc \in {"publishing", "ending"} /\ pubWorker \in Busy
        /\ \/ pubWorker' = NoPublish
           \/ pubWorker' = [pubWorker EXCEPT !.pc = "ending"]
    BY <1>0, <1>6 DEF PublishFails, RecordEnd
  <2>2. /\ pubState' \in PubStates
        /\ pubState'.current = pubState.current
        /\ pubState'.published = published
        /\ \/ pubState'.inProgress = NotInProgress
           \/ pubState' = pubState /\ ~PubIsCurrent
    BY <1>0, <1>6 DEF PublishFails, RecordEnd, PubTypes, PubStates
  <2>3. /\ \/ pubWorker' = NoPublish
           \/ pubWorker' \in Busy /\ pubWorker'.ticket = pubWorker.ticket
        /\ pubWorker'.pc \in {"idle", "ending"}
    BY <2>1 DEF NoPublish, PubPcs
  <2>4. PubTypes'
    BY <1>0, <2>1, <2>2, <2>3 DEF PubTypes
  <2>5. pubWorker'.ticket <= pubState.current /\ pubWorker'.ticket \in Nat
    BY <1>0, <2>3 DEF PubOrder, NoPublish, NoTicket, PubTickets
  <2>6. PubOrder'
    <3>1. CASE pubState'.inProgress = NotInProgress
      <4>1. \A i \in 1 .. Len(pubQueue) : NotInProgress.ticket # pubQueue[i].ticket
        <5> TAKE i \in 1 .. Len(pubQueue)
        <5>1. pubQueue[i] \in PubItems
          BY <1>0, ElementOfSeq DEF PubTypes
        <5> QED BY <5>1 DEF PubItems, PubTickets, NotInProgress, NoTicket
      <4>2. /\ NotInProgress.ticket <= pubState.current
            /\ pubWorker'.pc # "idle" => ~PubIsCurrent'
        BY <1>0, <2>3, <3>1 DEF NotInProgress, NoTicket, NoPublish, PubIsCurrent,
                                PubTickets
      <4> QED BY <1>0, <2>1, <2>2, <2>5, <3>1, <4>1, <4>2 DEF PubOrder
    <3>2. CASE pubState' = pubState /\ ~PubIsCurrent
      <4>1. pubWorker'.pc # "idle" => ~PubIsCurrent'
        BY <2>3, <3>2 DEF PubIsCurrent, NoPublish
      <4> QED BY <1>0, <2>1, <2>5, <3>2, <4>1 DEF PubOrder
    <3> QED BY <2>2, <3>1, <3>2
  <2>7. InHands' = {} /\ InProgress' \subseteq InProgress /\ Admitted' = Admitted
    BY <2>1, <2>2, <2>3 DEF InHands, InProgress, Admitted
  <2>8. Ahead' \subseteq Ahead
    BY <2>2, <2>7 DEF Ahead
  <2>9. FirstUp' = {}
    <3>1. CASE pubWorker'.pc = "ending"
      BY <3>1 DEF FirstUp
    <3>2. CASE pubWorker'.pc = "idle"
      <4>1. RecordEnd
        <5>1. ~PublishFails
          BY <3>2, <2>1 DEF PublishFails
        <5> QED BY <1>6, <5>1
      <4>2. InProgress' = {}
        BY <2>2, <4>1 DEF RecordEnd, InProgress, PubTypes, PubStates, PubInv
      <4> QED BY <2>7, <4>2 DEF FirstUp
    <3> QED BY <2>3, <3>1, <3>2
  <2>10. Behind' \subseteq Behind
    BY <2>2, <2>7, <2>9 DEF Behind
  <2> QED BY <1>r, <2>4, <2>6, <2>8, <2>10
<1>7. CASE MarkUnpublished
  <2> DEFINE left == published \ {unpublisher.checksum}
  <2>1. /\ pubQueue' = pubQueue /\ pubWorker' = pubWorker
        /\ pubHandler' = pubHandler
        /\ pubState' = [pubState EXCEPT !.published = left]
    BY <1>7 DEF MarkUnpublished
  <2>2. /\ pubState'.current = pubState.current
        /\ pubState'.inProgress = pubState.inProgress
        /\ pubState'.published = left
        /\ pubState' \in PubStates
    BY <1>0, <2>1 DEF PubTypes, PubStates
  <2>3. left \subseteq published /\ IsFiniteSet(left)
    BY <1>0, FS_Subset
  <2>4. PubTypes' /\ PubOrder'
    BY <1>0, <2>1, <2>2, <2>3 DEF PubTypes, PubOrder, PubIsCurrent
  <2>5. InHands' = InHands /\ InProgress' = InProgress /\ Admitted' = Admitted
    BY <2>1, <2>2 DEF InHands, InProgress, Admitted
  <2>6. Ahead' \subseteq Ahead /\ Behind' \subseteq Behind
    <3>1. FirstUp' = FirstUp
      BY <2>1, <2>5 DEF FirstUp
    <3> QED BY <2>2, <2>3, <2>5, <3>1 DEF Ahead, Behind
  <2> QED BY <1>r, <2>4, <2>6
<1>8. CASE HandleUnpublish \/ LookForPublished \/ TakeDown
  <2>1. /\ pubState' = pubState /\ pubQueue' = pubQueue /\ pubWorker' = pubWorker
        /\ pubHandler' = pubHandler
    BY <1>8 DEF HandleUnpublish, LookForPublished, TakeDown
  <2>2. InHands' = InHands /\ InProgress' = InProgress /\ Admitted' = Admitted
    BY <2>1 DEF InHands, InProgress, Admitted
  <2>3. Ahead' = Ahead /\ Behind' = Behind
    BY <2>1, <2>2 DEF Ahead, Behind, FirstUp
  <2> QED BY <1>r, <1>0, <2>1, <2>3 DEF PubTypes, PubOrder, PubIsCurrent
<1>9. CASE HandlePublish \/ LookForOngoing \/ CountPublished
  BY <1>9, PubHandlerLooks
<1> QED BY <1>1, <1>2, <1>3, <1>4, <1>5, <1>6, <1>7, <1>8, <1>9
        DEF PubNext, PubSteps, Unpublishing

LEMMA PubStutterInv ==
  ASSUME PubInv, UNCHANGED pubVars
  PROVE  PubInv'
<1>1. PubTypes' /\ PubOrder'
  BY DEF PubInv, PubTypes, PubOrder, PubIsCurrent, pubVars
<1>2. InHands' = InHands /\ InProgress' = InProgress /\ Admitted' = Admitted
  BY DEF InHands, InProgress, Admitted, pubVars
<1>3. Ahead' = Ahead /\ Behind' = Behind
  BY <1>2 DEF Ahead, Behind, FirstUp, pubVars
<1> QED BY <1>1, <1>3 DEF PubInv, PubRoom

\* What is published exceeds its bound by one at most.
LEMMA RoomBoundsPublished ==
  ASSUME PubInv
  PROVE  PublishedIsBounded
<1>1. pubState.published \subseteq Ahead
  BY DEF Ahead
<1> HIDE DEF Ahead
<1> QED BY <1>1, WithinFits DEF PubInv, PublishedIsBounded

\* The invariant of published firmware holds of every behaviour.
THEOREM PublishInvariance == PubSpec => []PubInv
<1>1. PubInv /\ [PubNext]_pubVars => PubInv'
  BY PubNextInv, PubStutterInv
<1> QED BY PubInitInv, <1>1, PTL DEF PubSpec

-----------------------------------------------------------------------------
\* Whatever supersedes what, firmware management is orderly: the newest update
\* is in hand or queued, EVSEs are withheld only while one needs them, tickets
\* are taken in order, and the images published stay within their bound.
THEOREM FirmwareStaysOrderly == FwSpec /\ PubSpec => []FirmwareIsOrderly
<1>1. FwInv /\ PubInv => FirmwareIsOrderly
  BY FwInvImplies, RoomBoundsPublished DEF FirmwareIsOrderly
<1> QED BY FirmwareInvariance, PublishInvariance, <1>1, PTL

-----------------------------------------------------------------------------
(* The display. *)

\* Of finitely many messages one outranks all: the one the fewest outrank.
LEMMA SomeMessageOutranks ==
  ASSUME NEW S \in SUBSET Message, IsFiniteSet(S), S # {}
  PROVE  \E x \in S : \A y \in S : Outranks(x, y)
<1> DEFINE above(x) == {y \in S : ~Outranks(x, y)}
           rank(x)  == Cardinality(above(x))
           T        == {rank(x) : x \in S}
<1>1. \A x \in S : x.priority \in Int /\ x.id \in Int
  BY DisplayAssumption DEF Message
<1>2. \A x \in S : IsFiniteSet(above(x)) /\ rank(x) \in Nat
  BY FS_Subset, FS_CardinalityType
<1>3. T \subseteq Nat /\ T # {}
  BY <1>2
<1>4. PICK r \in T : \A n \in T : ~(<<n, r>> \in OpToRel(<, Nat))
  BY <1>3, WFMin, NatLessThanWellFounded
<1>5. PICK x \in S : r = rank(x)
  BY <1>4
<1>6. \A y \in S : ~(rank(y) < rank(x))
  BY <1>2, <1>4, <1>5 DEF OpToRel
<1>7. ASSUME NEW y \in S, ~Outranks(x, y)
      PROVE  FALSE
  <2>1. ASSUME NEW z \in S, ~Outranks(y, z)
        PROVE  ~Outranks(x, z)
    BY <1>1, <1>7, <2>1 DEF Outranks
  <2>2. above(y) \in SUBSET above(x)
    BY <2>1
  <2>3. y \in above(x) /\ y \notin above(y)
    BY <1>1, <1>7 DEF Outranks
  <2>4. rank(y) <= rank(x) /\ rank(y) # rank(x)
    BY <1>2, <2>2, <2>3, FS_Subset
  <2>5. rank(y) \in Nat /\ rank(x) \in Nat
    BY <1>2
  <2> QED BY <1>6, <2>4, <2>5
<1> QED BY <1>7

\* The message to show is one of the stored ones, or none.
LEMMA CurrentMessageType ==
  ASSUME stored \in SUBSET Message, IsFiniteSet(stored)
  PROVE  CurrentMessage \in Message \cup {Blank}
<1> DEFINE S == {x \in stored : x.state \in {"Any", CurrentMessageState}}
<1>1. S \in SUBSET Message /\ IsFiniteSet(S)
  BY FS_Subset
<1>2. S # {} => \E x \in S : \A y \in S : Outranks(x, y)
  BY <1>1, SomeMessageOutranks
<1>3. CurrentMessage = IF S = {} THEN Blank
                       ELSE CHOOSE x \in S : \A y \in S : Outranks(x, y)
  BY DEF CurrentMessage
<1> HIDE DEF S
<1> QED BY <1>1, <1>2, <1>3

\* A message is told from the task's being at rest by its state.
LEMMA AtRestIsNoMessage == AtRest \notin Message \cup {Blank}
  BY DisplayAssumption DEF AtRest, Blank, Message

\* What the task has shown, or is about to have shown, is what it last derived;
\* anything that moved since has set fresh.
DisplayInv ==
    /\ DisplayTypeOK /\ IsFiniteSet(stored)
    /\ rendering = AtRest /\ ~spoiled => screen = shown
    /\ ~fresh => CurrentMessage = IF rendering = AtRest THEN shown ELSE rendering

LEMMA DisplayInitInv == DisplayInit => DisplayInv
<1> SUFFICES ASSUME DisplayInit PROVE DisplayInv
  OBVIOUS
<1>1. IsFiniteSet(stored) /\ Cardinality(stored) = 0
  BY FS_EmptySet DEF DisplayInit
<1>2. DisplayTypeOK
  BY <1>1, DisplayAssumption DEF DisplayInit, DisplayTypeOK
<1>3. CurrentMessage = Blank
  BY DEF DisplayInit, CurrentMessage
<1>4. rendering = Blank /\ rendering # AtRest
  BY AtRestIsNoMessage DEF DisplayInit
<1> QED BY <1>1, <1>2, <1>3, <1>4 DEF DisplayInv

LEMMA DisplayNextInv ==
  ASSUME DisplayInv, DisplayNext
  PROVE  DisplayInv'
<1>0. /\ DisplayTypeOK /\ IsFiniteSet(stored) /\ stored \in SUBSET Message
      /\ Cardinality(stored) \in Nat /\ Cardinality(stored) <= MaxMessages
      /\ MaxMessages \in Nat
  BY FS_CardinalityType, DisplayAssumption DEF DisplayInv, DisplayTypeOK
<1>1. ASSUME NEW x \in Message, SetDisplayMessage(x)
      PROVE  DisplayInv'
  <2>1. /\ HasRoomFor(x) /\ stored' = Others(x) \cup {x} /\ fresh' = TRUE
        /\ conditions' = conditions /\ shown' = shown /\ screen' = screen
        /\ rendering' = rendering /\ spoiled' = spoiled
    BY <1>1 DEF SetDisplayMessage
  <2>2. /\ Others(x) \in SUBSET stored /\ IsFiniteSet(Others(x))
        /\ Cardinality(Others(x)) \in Nat
        /\ Cardinality(Others(x)) <= Cardinality(stored)
        /\ Cardinality(stored) = Cardinality(Others(x)) => Others(x) = stored
    <3>1. Others(x) \in SUBSET stored
      BY DEF Others
    <3> QED BY <1>0, <3>1, FS_Subset, FS_CardinalityType
  <2>3. /\ IsFiniteSet(stored')
        /\ Cardinality(stored') = IF x \in Others(x) THEN Cardinality(Others(x))
                                  ELSE Cardinality(Others(x)) + 1
    BY <2>1, <2>2, FS_AddElement
  <2>4. Cardinality(stored') <= MaxMessages
    BY <1>0, <2>1, <2>2, <2>3 DEF HasRoomFor
  <2>5. stored' \subseteq Message /\ \A y, z \in stored' : y.id = z.id => y = z
    BY <1>0, <2>1 DEF Others, DisplayTypeOK
  <2>6. DisplayTypeOK'
    BY <1>0, <2>1, <2>4, <2>5 DEF DisplayTypeOK
  <2> QED BY <2>1, <2>3, <2>6 DEF DisplayInv
<1>2. ASSUME NEW x \in Message, ClearDisplayMessage(x)
      PROVE  DisplayInv'
  <2>1. /\ stored' = stored \ {x} /\ fresh' = TRUE
        /\ conditions' = conditions /\ shown' = shown /\ screen' = screen
        /\ rendering' = rendering /\ spoiled' = spoiled
    BY <1>2 DEF ClearDisplayMessage
  <2>2. stored' \in SUBSET stored
    BY <2>1
  <2>3. IsFiniteSet(stored') /\ Cardinality(stored') <= Cardinality(stored)
        /\ Cardinality(stored') \in Nat
    BY <1>0, <2>2, FS_Subset, FS_CardinalityType
  <2>4. DisplayTypeOK'
    BY <1>0, <2>1, <2>2, <2>3 DEF DisplayTypeOK
  <2> QED BY <2>1, <2>3, <2>4 DEF DisplayInv
<1>3. ASSUME NEW k \in Conditions, ConditionChanges(k)
      PROVE  DisplayInv'
  <2>1. /\ conditions' \subseteq conditions \cup {k} /\ fresh' = TRUE
        /\ stored' = stored /\ shown' = shown /\ screen' = screen
        /\ rendering' = rendering /\ spoiled' = spoiled
    BY <1>3 DEF ConditionChanges
  <2>2. DisplayTypeOK'
    BY <1>0, <2>1 DEF DisplayTypeOK
  <2> QED BY <1>0, <2>1, <2>2 DEF DisplayInv
<1>4. CASE Look
  <2>1. /\ rendering = AtRest /\ fresh' = FALSE
        /\ rendering' = IF CurrentMessage # shown THEN CurrentMessage ELSE AtRest
        /\ stored' = stored /\ conditions' = conditions /\ shown' = shown
        /\ screen' = screen /\ spoiled' = spoiled
    BY <1>4 DEF Look
  <2>2. CurrentMessage \in Message \cup {Blank} /\ CurrentMessage # AtRest
    BY <1>0, CurrentMessageType, AtRestIsNoMessage
  <2>3. CurrentMessage' = CurrentMessage
    BY <2>1 DEF CurrentMessage, CurrentMessageState
  <2>4. DisplayTypeOK'
    BY <1>0, <2>1, <2>2 DEF DisplayTypeOK
  <2> QED BY <1>0, <2>1, <2>2, <2>3, <2>4 DEF DisplayInv
<1>5. ASSUME NEW ok \in BOOLEAN, Rendered(ok)
      PROVE  DisplayInv'
  <2>1. /\ rendering # AtRest /\ shown' = rendering /\ rendering' = AtRest
        /\ screen' = (IF ok THEN rendering ELSE screen) /\ spoiled' = ~ok
        /\ fresh' = fresh
        /\ stored' = stored /\ conditions' = conditions
    BY <1>5 DEF Rendered, SeenBeforeRender
  <2>2. CurrentMessage' = CurrentMessage
    BY <2>1 DEF CurrentMessage, CurrentMessageState
  <2>3. DisplayTypeOK'
    BY <1>0, <2>1 DEF DisplayTypeOK
  <2> QED BY <1>0, <2>1, <2>2, <2>3 DEF DisplayInv
<1> QED BY <1>1, <1>2, <1>3, <1>4, <1>5 DEF DisplayNext

LEMMA DisplayStutterInv ==
  ASSUME DisplayInv, UNCHANGED displayVars
  PROVE  DisplayInv'
  BY DEF DisplayInv, DisplayTypeOK, displayVars, CurrentMessage,
         CurrentMessageState

\* The store keeps its limit, and a task at rest has shown the driver what the
\* present state derives, unless its last render failed.
THEOREM DisplayIsCurrent == DisplaySpec => [](DisplayTypeOK /\ ScreenIsCurrent)
<1>1. DisplayInv /\ [DisplayNext]_displayVars => DisplayInv'
  BY DisplayNextInv, DisplayStutterInv
<1>2. DisplayInv => DisplayTypeOK /\ ScreenIsCurrent
  BY DEF DisplayInv, ScreenIsCurrent
<1> QED BY DisplayInitInv, <1>1, <1>2, PTL DEF DisplaySpec

-----------------------------------------------------------------------------
(* Battery swaps. *)

SwapPcs   == {"stored", "preparing", "accepted", "rejected", "done"}
SwapCalls == [id : SwapIds, pc : SwapPcs]

SwapInv ==
    /\ pendingSwaps \in SUBSET SwapIds /\ IsFiniteSet(pendingSwaps)
    /\ Cardinality(pendingSwaps) <= MaxPending
    /\ calls \in Seq(SwapCalls)
    /\ RejectedLeavesNothing

LEMMA SwapInitInv == SwapInit => SwapInv
  BY FS_EmptySet, BatterySwapAssumption
     DEF SwapInit, SwapInv, RejectedLeavesNothing

\* A handler moves on: what it is for stays vouched for, or has left the store.
LEMMA CallMoves ==
  ASSUME SwapInv, NEW n \in DOMAIN calls, NEW pc \in SwapPcs, Call(n, pc)
  PROVE  /\ calls' \in Seq(SwapCalls) /\ DOMAIN calls' = DOMAIN calls
         /\ \A m \in DOMAIN calls : calls'[m].id = calls[m].id
         /\ \A m \in DOMAIN calls \ {n} : calls'[m] = calls[m]
         /\ calls'[n].pc = pc
<1>1. /\ calls \in Seq(SwapCalls) /\ DOMAIN calls = 1 .. Len(calls)
      /\ \A m \in DOMAIN calls : calls[m] \in SwapCalls
  BY LenProperties, ElementOfSeq DEF SwapInv
<1> DEFINE c == [calls[n] EXCEPT !.pc = pc]
<1>2. c \in SwapCalls /\ c.id = calls[n].id /\ c.pc = pc
  BY <1>1 DEF SwapCalls
<1>3. calls' = [calls EXCEPT ![n] = c]
  BY <1>1 DEF Call
<1> HIDE DEF c
<1>4. /\ calls' \in Seq(SwapCalls) /\ Len(calls') = Len(calls)
      /\ \A m \in 1 .. Len(calls) : calls'[m] = IF m = n THEN c ELSE calls[m]
  BY <1>1, <1>2, <1>3, ExceptSeq
<1>5. DOMAIN calls' = DOMAIN calls
  BY <1>1, <1>3
<1> QED BY <1>1, <1>2, <1>4, <1>5

\* A smaller store keeps its bound.
LEMMA SmallerStore ==
  ASSUME SwapInv, NEW S \in SUBSET pendingSwaps
  PROVE  IsFiniteSet(S) /\ Cardinality(S) <= MaxPending
<1>1. /\ IsFiniteSet(S) /\ Cardinality(S) <= Cardinality(pendingSwaps)
      /\ Cardinality(S) \in Nat /\ Cardinality(pendingSwaps) \in Nat
  BY FS_Subset, FS_CardinalityType DEF SwapInv
<1> QED BY <1>1, BatterySwapAssumption DEF SwapInv

LEMMA SwapNextInv ==
  ASSUME SwapInv, SwapNext
  PROVE  SwapInv'
<1>0. /\ pendingSwaps \in SUBSET SwapIds /\ IsFiniteSet(pendingSwaps)
      /\ Cardinality(pendingSwaps) \in Nat
      /\ Cardinality(pendingSwaps) <= MaxPending
      /\ MaxPending \in Nat /\ calls \in Seq(SwapCalls)
      /\ Len(calls) \in Nat /\ DOMAIN calls = 1 .. Len(calls)
      /\ \A n \in DOMAIN calls : calls[n] \in SwapCalls
      /\ RejectedLeavesNothing
  BY FS_CardinalityType, BatterySwapAssumption, LenProperties, ElementOfSeq
     DEF SwapInv
<1>1. ASSUME NEW id \in SwapIds, RequestBatterySwap(id)
      PROVE  SwapInv'
  <2> DEFINE c == [id |-> id, pc |-> "stored"]
  <2>1. /\ c \in SwapCalls /\ c.id = id /\ c.pc = "stored"
        /\ calls' = Append(calls, c)
    BY <1>1 DEF RequestBatterySwap, SwapCalls, SwapPcs
  <2> HIDE DEF c
  <2>2. /\ calls' \in Seq(SwapCalls) /\ Len(calls') = Len(calls) + 1
        /\ DOMAIN calls' = 1 .. Len(calls) + 1
        /\ \A n \in 1 .. Len(calls) : calls'[n] = calls[n]
        /\ calls'[Len(calls) + 1] = c
    BY <1>0, <2>1, AppendProperties, LenProperties
  <2>3. /\ pendingSwaps' \in {pendingSwaps, pendingSwaps \cup {id}}
        /\ IsFiniteSet(pendingSwaps') /\ Cardinality(pendingSwaps') <= MaxPending
    <3>1. CASE HasRoomForSwap(id)
      <4>1. pendingSwaps' = pendingSwaps \cup {id}
        BY <1>1, <3>1 DEF RequestBatterySwap
      <4>2. /\ IsFiniteSet(pendingSwaps')
            /\ Cardinality(pendingSwaps') = IF id \in pendingSwaps
                 THEN Cardinality(pendingSwaps) ELSE Cardinality(pendingSwaps) + 1
        BY <1>0, <4>1, FS_AddElement
      <4> QED BY <1>0, <3>1, <4>1, <4>2 DEF HasRoomForSwap
    <3>2. CASE ~HasRoomForSwap(id)
      BY <1>0, <1>1, <3>2 DEF RequestBatterySwap
    <3> QED BY <3>1, <3>2
  <2>4. RejectedLeavesNothing'
    <3> SUFFICES ASSUME NEW i \in pendingSwaps'
                 PROVE  \E n \in DOMAIN calls' : /\ calls'[n].id = i
                           /\ calls'[n].pc \in {"stored", "preparing", "accepted"}
      BY DEF RejectedLeavesNothing
    <3>1. CASE i = id
      BY <1>0, <2>1, <2>2, <3>1
    <3>2. CASE i \in pendingSwaps
      <4>1. PICK n \in DOMAIN calls : /\ calls[n].id = i
                       /\ calls[n].pc \in {"stored", "preparing", "accepted"}
        BY <1>0, <3>2 DEF RejectedLeavesNothing
      <4> QED BY <1>0, <2>2, <4>1
    <3> QED BY <2>3, <3>1, <3>2
  <2> QED BY <1>0, <2>2, <2>3, <2>4 DEF SwapInv
<1>2. ASSUME NEW id \in SwapIds, BatterySwapReported(id)
      PROVE  SwapInv'
  <2>1. pendingSwaps' = pendingSwaps \ {id}
    BY <1>2 DEF BatterySwapReported
  <2>2. /\ DOMAIN calls' = DOMAIN calls
        /\ \A n \in DOMAIN calls :
              /\ calls'[n] \in SwapCalls
              /\ calls'[n] = calls[n] \/ calls[n].id = id
    BY <1>0, <1>2 DEF BatterySwapReported, SwapCalls, SwapPcs
  <2>3. calls' \in Seq(SwapCalls)
    BY <1>0, <2>2, <1>2 DEF BatterySwapReported
  <2>4. IsFiniteSet(pendingSwaps') /\ Cardinality(pendingSwaps') <= MaxPending
    BY <2>1, SmallerStore
  <2>5. RejectedLeavesNothing'
    BY <1>0, <2>1, <2>2 DEF RejectedLeavesNothing
  <2> QED BY <1>0, <2>1, <2>3, <2>4, <2>5 DEF SwapInv
<1>3. ASSUME NEW n \in DOMAIN calls, CheckStored(n) \/ Prepared(n)
      PROVE  SwapInv'
  <2>1. PICK pc \in {"preparing", "accepted", "rejected"} :
           Call(n, pc) /\ (pc = "rejected" => calls[n].id \notin pendingSwaps)
    BY <1>3 DEF CheckStored, Prepared
  <2>2. pendingSwaps' = pendingSwaps
    BY <1>3 DEF CheckStored, Prepared
  <2>3. /\ calls' \in Seq(SwapCalls) /\ DOMAIN calls' = DOMAIN calls
        /\ \A m \in DOMAIN calls : calls'[m].id = calls[m].id
        /\ \A m \in DOMAIN calls \ {n} : calls'[m] = calls[m]
        /\ calls'[n].pc = pc
    BY <2>1, CallMoves DEF SwapPcs
  <2>4. RejectedLeavesNothing'
    BY <1>0, <2>1, <2>2, <2>3 DEF RejectedLeavesNothing
  <2> QED BY <1>0, <2>2, <2>3, <2>4 DEF SwapInv
<1>4. ASSUME NEW n \in DOMAIN calls, PrepareFailed(n)
      PROVE  SwapInv'
  <2>1. /\ Call(n, "rejected") /\ pendingSwaps' = pendingSwaps \ {calls[n].id}
    BY <1>4 DEF PrepareFailed, RollBack
  <2>2. /\ calls' \in Seq(SwapCalls) /\ DOMAIN calls' = DOMAIN calls
        /\ \A m \in DOMAIN calls : calls'[m].id = calls[m].id
        /\ \A m \in DOMAIN calls \ {n} : calls'[m] = calls[m]
    BY <2>1, CallMoves DEF SwapPcs
  <2>3. IsFiniteSet(pendingSwaps') /\ Cardinality(pendingSwaps') <= MaxPending
    BY <2>1, SmallerStore
  <2>4. RejectedLeavesNothing'
    BY <1>0, <2>1, <2>2 DEF RejectedLeavesNothing
  <2> QED BY <1>0, <2>1, <2>2, <2>3, <2>4 DEF SwapInv
<1> QED BY <1>1, <1>2, <1>3, <1>4 DEF SwapNext

\* The store keeps its bound, and a swap the station refused leaves nothing in
\* it.
THEOREM RefusedSwapsLeave == SwapSpec => [](SwapTypeOK /\ RejectedLeavesNothing)
<1>1. SwapInv /\ [SwapNext]_swapVars => SwapInv'
  <2>1. SwapInv /\ UNCHANGED swapVars => SwapInv'
    BY DEF SwapInv, RejectedLeavesNothing, swapVars
  <2> QED BY <2>1, SwapNextInv
<1>2. SwapInv => SwapTypeOK /\ RejectedLeavesNothing
  <2> SUFFICES ASSUME SwapInv PROVE SwapTypeOK
    BY DEF SwapInv
  <2>1. ASSUME NEW n \in DOMAIN calls
        PROVE  calls[n].pc \in SwapPcs
    <3>1. calls \in Seq(SwapCalls) /\ n \in 1 .. Len(calls)
      BY LenProperties DEF SwapInv
    <3>2. calls[n] \in SwapCalls
      BY <3>1, ElementOfSeq
    <3> QED BY <3>2 DEF SwapCalls
  <2> QED BY <2>1 DEF SwapInv, SwapTypeOK, SwapPcs
<1> QED BY SwapInitInv, <1>1, <1>2, PTL DEF SwapSpec

-----------------------------------------------------------------------------
(* Variable monitors and event streams. *)

\* The keys of a map are walked in order, each once.
LEMMA WalkInOrder ==
  ASSUME NEW S \in SUBSET Int, IsFiniteSet(S)
  PROVE  /\ Cardinality(S) \in Nat
         /\ \A n \in 1 .. Cardinality(S) : ById(S)[n] \in S
         /\ \A m, n \in 1 .. Cardinality(S) : ById(S)[m] = ById(S)[n] => m = n
<1> DEFINE below(s) == {j \in S : j < s}
           c == Cardinality(S)
           f == [s \in S |-> Cardinality(below(s))]
<1>1. c \in Nat
  BY FS_CardinalityType
<1>2. ASSUME NEW s \in S
      PROVE  /\ IsFiniteSet(below(s)) /\ Cardinality(below(s)) \in Nat
             /\ Cardinality(below(s)) < c
  <2>1. below(s) \subseteq S /\ s \notin below(s)
    OBVIOUS
  <2>2. IsFiniteSet(below(s)) /\ Cardinality(below(s)) \in Nat
    BY <2>1, FS_Subset, FS_CardinalityType
  <2>3. Cardinality(below(s)) <= c /\ (Cardinality(below(s)) = c => below(s) = S)
    BY <2>1, FS_Subset
  <2> QED BY <1>1, <2>1, <2>2, <2>3
<1>3. ASSUME NEW s \in S, NEW t \in S, s < t
      PROVE  Cardinality(below(s)) < Cardinality(below(t))
  <2>0. s \in Int /\ t \in Int /\ \A j \in S : j \in Int /\ (j < s => j < t)
    BY <1>3
  <2>1. below(s) \subseteq below(t) /\ s \in below(t) /\ s \notin below(s)
    <3>1. \A j \in below(s) : j \in S /\ j < t
      BY <2>0
    <3>2. ~(s < s)
      BY <2>0
    <3> QED BY <1>3, <3>1, <3>2
  <2>2. IsFiniteSet(below(t)) /\ Cardinality(below(t)) \in Nat
        /\ Cardinality(below(s)) \in Nat
    BY <1>2
  <2>3. Cardinality(below(s)) <= Cardinality(below(t))
        /\ (Cardinality(below(s)) = Cardinality(below(t)) => below(s) = below(t))
    BY <2>1, <2>2, FS_Subset
  <2> QED BY <2>1, <2>2, <2>3
<1>4. f \in [S -> 0 .. c - 1]
  <2>1. \A s \in S : Cardinality(below(s)) \in 0 .. c - 1
    <3> SUFFICES ASSUME NEW s \in S PROVE Cardinality(below(s)) \in 0 .. c - 1
      OBVIOUS
    <3> HIDE DEF c
    <3> QED BY <1>1, <1>2
  <2> HIDE DEF below, c
  <2> QED BY <2>1
<1>5. \A s, t \in S : f[s] = f[t] => s = t
  <2>1. \A s \in S : f[s] = Cardinality(below(s)) /\ Cardinality(below(s)) \in Nat
    BY <1>2
  <2>2. ASSUME NEW s \in S, NEW t \in S, f[s] = f[t], s # t PROVE FALSE
    <3>1. s < t \/ t < s
      BY <2>2
    <3>2. Cardinality(below(s)) < Cardinality(below(t))
          \/ Cardinality(below(t)) < Cardinality(below(s))
      BY <1>3, <3>1
    <3> QED BY <2>1, <2>2, <3>2
  <2> QED BY <2>2
<1>6. f \in Injection(S, 0 .. c - 1)
  <2>1. DOMAIN f = S
    OBVIOUS
  <2> HIDE DEF f
  <2> QED BY <1>4, <1>5, <2>1 DEF Injection, IsInjective
<1>7. IsFiniteSet(0 .. c - 1) /\ Cardinality(0 .. c - 1) = c
  <2>1. IsFiniteSet(0 .. c - 1)
        /\ Cardinality(0 .. c - 1) = IF 0 > c - 1 THEN 0 ELSE c - 1 - 0 + 1
    BY <1>1, FS_Interval
  <2> QED BY <1>1, <2>1
<1>8. f \in Surjection(S, 0 .. c - 1)
  BY <1>6, <1>7, FS_Injection
<1>9. \A k \in 0 .. c - 1 : \E s \in S : f[s] = k
  BY <1>8 DEF Surjection
<1>10. ASSUME NEW n \in 1 .. c
       PROVE  ById(S)[n] \in S /\ Cardinality(below(ById(S)[n])) = n - 1
  <2>1. n - 1 \in 0 .. c - 1
    BY <1>1
  <2>2. PICK s \in S : f[s] = n - 1
    BY <1>9, <2>1
  <2>3. Cardinality(below(s)) = n - 1
    BY <2>2
  <2>4. ById(S)[n] = CHOOSE i \in S : Cardinality(below(i)) = n - 1
    BY DEF ById
  <2> HIDE DEF below
  <2> QED BY <2>3, <2>4
<1>11. ASSUME NEW m \in 1 .. c, NEW n \in 1 .. c, ById(S)[m] = ById(S)[n]
       PROVE  m = n
  <2>1. m - 1 = n - 1
    BY <1>10, <1>11
  <2> QED BY <1>1, <2>1
<1> QED BY <1>1, <1>10, <1>11

Readings == 0 .. TopValue \cup {NoNumber}
Monitors == [type : MonitorTypes, value : Periods, severity : Severities,
             baseline : Readings]
Opened   == [monitor : Ids, every : Periods]
Things   == [id : Ids, every : Periods, severity : Severities \cup {0}]

MonTypes ==
    /\ nextId \in Nat /\ reading \in Readings
    /\ DOMAIN monitors \subseteq Ids /\ Cardinality(DOMAIN monitors) <= MaxMonitors
    /\ \A i \in DOMAIN monitors : monitors[i] \in Monitors /\ i < nextId
    /\ DOMAIN streams \subseteq Ids /\ Cardinality(DOMAIN streams) <= MaxStreams
    /\ \A i \in DOMAIN streams : streams[i] \in Opened
    /\ sweep \in [due : Seq(Things), since : 0 .. MaxAge]
    /\ reported \in [Ids -> 0 .. Never] /\ told \in [Ids -> Readings]
    /\ failed \in SUBSET Things

\* A delta monitor measures from the value it last spoke of.
BaselineIsTold ==
    \A i \in DOMAIN monitors : monitors[i].type = "Delta" =>
        /\ monitors[i].baseline = told[i]
        /\ reading # NoNumber /\ told[i] # NoNumber
              => Distance(reading, told[i]) < monitors[i].value

\* What a sweep has yet to send is due, and nothing is in it twice.
SweptOnce ==
    /\ \A n \in 1 .. Len(sweep.due) : IsDue(sweep.due[n].id, sweep.due[n].every)
    /\ \A m, n \in 1 .. Len(sweep.due) : sweep.due[m].id = sweep.due[n].id => m = n

MonInv == MonTypes /\ BaselineIsTold /\ SweptOnce /\ FailedStaysDue

LEMMA MonConstants ==
    /\ MaxMonitors \in Nat /\ MaxStreams \in Nat /\ TopValue \in Nat
    /\ MaxId \in Nat /\ MaxAge \in Nat /\ MaxAge > 0
    /\ MaxMonitors > 0 /\ MaxStreams > 0
    /\ NoNumber = -1 /\ Never = MaxAge + 1
    /\ IsFiniteSet(Ids) /\ Ids \subseteq Int /\ Ids \subseteq Nat
    /\ \A p \in Periods : p \in Nat /\ p > 0 /\ p <= MaxAge
<1>1. IsFiniteSet(Ids)
  BY FS_Interval, MonitoringAssumption DEF Ids
<1> QED BY <1>1, MonitoringAssumption DEF NoNumber, Never, Ids, Periods

LEMMA MonInitInv == MonInit => MonInv
<1> SUFFICES ASSUME MonInit PROVE MonInv
  OBVIOUS
<1> USE MonConstants DEF MonInit
<1>1. DOMAIN << >> = {} /\ Cardinality({}) = 0 /\ << >> \in Seq(Things) /\ Len(<< >>) = 0
  BY FS_EmptySet, EmptySeq
<1>2. [i \in Ids |-> Never] \in [Ids -> 0 .. Never]
  OBVIOUS
<1>3. [i \in Ids |-> NoNumber] \in [Ids -> Readings] /\ 0 \in Readings
  BY DEF Readings
<1>4. sweep \in [due : Seq(Things), since : 0 .. MaxAge] /\ sweep.due = << >>
  BY <1>1
<1>5. MonTypes
  BY <1>1, <1>2, <1>3, <1>4 DEF MonTypes
<1>6. BaselineIsTold
  BY <1>1 DEF BaselineIsTold
<1>7. SweptOnce /\ FailedStaysDue
  BY <1>1, <1>4 DEF SweptOnce, FailedStaysDue
<1> QED BY <1>5, <1>6, <1>7 DEF MonInv

\* The requests touch neither what is reported nor what is to be.
LEMMA ReportsFrame ==
  ASSUME SweptOnce, FailedStaysDue, UNCHANGED <<sweep, reported, failed>>
  PROVE  SweptOnce' /\ FailedStaysDue'
  BY DEF SweptOnce, FailedStaysDue, IsDue

\* A map with one key more, or one key less, and its size.
LEMMA MapSize ==
  ASSUME NEW S \in SUBSET Ids, NEW m \in Nat, Cardinality(S) <= m, NEW k \in Ids
  PROVE  /\ S \cup {k} \subseteq Ids /\ S \ {k} \subseteq Ids
         /\ k \in S \/ Cardinality(S) < m => Cardinality(S \cup {k}) <= m
         /\ Cardinality(S \ {k}) <= m
<1>1. IsFiniteSet(S) /\ Cardinality(S) \in Nat
  BY MonConstants, FS_Subset, FS_CardinalityType
<1>2. /\ k \notin S => Cardinality(S \cup {k}) = Cardinality(S) + 1
      /\ k \in S => S \cup {k} = S
  <2>1. Cardinality(S \cup {k}) = IF k \in S THEN Cardinality(S) ELSE Cardinality(S) + 1
    BY <1>1, FS_AddElement
  <2>2. k \in S => S \cup {k} = S
    OBVIOUS
  <2> QED BY <2>1, <2>2
<1>3. Cardinality(S \ {k}) <= Cardinality(S) /\ Cardinality(S \ {k}) \in Nat
  <2>1. S \ {k} \subseteq S
    OBVIOUS
  <2> QED BY <1>1, <2>1, FS_Subset, FS_CardinalityType
<1> QED BY <1>1, <1>2, <1>3

LEMMA SetMonitorInv ==
  ASSUME MonInv, NEW id, NEW type \in MonitorTypes, NEW amount \in Periods,
         NEW severity \in Severities, SetMonitor(id, type, amount, severity)
  PROVE  MonInv'
<1> USE DEF MonInv
<1> DEFINE m == [type |-> type, value |-> amount, severity |-> severity,
                 baseline |-> NoNumber]
<1>1. /\ id \in Ids /\ Precheck(id, type)
      /\ monitors' = Put(monitors, id, m)
      /\ nextId' = IF id >= nextId THEN id + 1 ELSE nextId
      /\ told' = [told EXCEPT ![id] = NoNumber]
      /\ UNCHANGED <<reading, streams, sweep, reported, failed>>
  BY DEF SetMonitor, Order, Requested
<1>2. m \in Monitors
  BY DEF Monitors, Readings
<1>3. /\ DOMAIN monitors' = DOMAIN monitors \cup {id}
      /\ monitors'[id] = m
      /\ \A i \in DOMAIN monitors : i # id => monitors'[i] = monitors[i]
  BY <1>1 DEF Put
<1>4. /\ DOMAIN monitors' \subseteq Ids
      /\ Cardinality(DOMAIN monitors') <= MaxMonitors
  <2>1. id \in DOMAIN monitors \/ Cardinality(DOMAIN monitors) < MaxMonitors
    BY <1>1 DEF Precheck
  <2>2. DOMAIN monitors \subseteq Ids /\ Cardinality(DOMAIN monitors) <= MaxMonitors
    BY DEF MonTypes
  <2> QED BY <1>1, <1>3, <2>1, <2>2, MapSize, MonConstants
<1>5. nextId' \in Nat /\ id < nextId' /\ nextId <= nextId'
  BY <1>1, MonConstants DEF MonTypes
<1>6. ASSUME NEW i \in DOMAIN monitors'
      PROVE  monitors'[i] \in Monitors /\ i < nextId'
  <2>1. CASE i = id
    BY <1>2, <1>3, <1>5, <2>1
  <2>2. CASE i # id
    <3>1. i \in DOMAIN monitors
      BY <1>3, <2>2
    <3>2. i \in Nat /\ i < nextId /\ nextId \in Nat
      BY <3>1, MonConstants DEF MonTypes
    <3> QED BY <1>3, <1>5, <2>2, <3>1, <3>2 DEF MonTypes
  <2> QED BY <2>1, <2>2
<1>7. told' \in [Ids -> Readings] /\ told'[id] = NoNumber
      /\ \A i \in Ids : i # id => told'[i] = told[i]
  BY <1>1 DEF MonTypes, Readings
<1> HIDE DEF m
<1>8. MonTypes'
  BY <1>1, <1>4, <1>5, <1>6, <1>7 DEF MonTypes
<1>9. ASSUME NEW i \in DOMAIN monitors', monitors'[i].type = "Delta"
      PROVE  /\ monitors'[i].baseline = told'[i]
             /\ reading' # NoNumber /\ told'[i] # NoNumber
                   => Distance(reading', told'[i]) < monitors'[i].value
  <2>1. CASE i = id
    BY <1>3, <1>7, <2>1 DEF m
  <2>2. CASE i # id
    <3>1. i \in DOMAIN monitors /\ i \in Ids
      BY <1>3, <1>4, <2>2
    <3> QED BY <1>1, <1>3, <1>7, <1>9, <2>2, <3>1 DEF BaselineIsTold
  <2> QED BY <2>1, <2>2
<1>10. BaselineIsTold'
  BY <1>9 DEF BaselineIsTold
<1>11. SweptOnce' /\ FailedStaysDue'
  BY <1>1, ReportsFrame
<1> QED BY <1>8, <1>10, <1>11

\* Requests that take monitors away, or leave them.
LEMMA FewerMonitorsInv ==
  ASSUME MonInv,
         monitors' = monitors \/ monitors' = << >>
            \/ \E id \in Ids : monitors' = Drop(monitors, {id}),
         UNCHANGED <<nextId, told, reading, sweep, reported, failed>>,
         DOMAIN streams' \subseteq Ids, Cardinality(DOMAIN streams') <= MaxStreams,
         \A i \in DOMAIN streams' : streams'[i] \in Opened
  PROVE  MonInv'
<1> USE DEF MonInv
<1>1. /\ \A i \in DOMAIN monitors' : i \in DOMAIN monitors /\ monitors'[i] = monitors[i]
      /\ Cardinality(DOMAIN monitors') <= MaxMonitors
      /\ DOMAIN monitors' \subseteq Ids
  <2>1. CASE monitors' = monitors
    BY <2>1 DEF MonTypes
  <2>2. CASE monitors' = << >>
    <3>1. DOMAIN monitors' = {} /\ Cardinality({}) = 0
      BY <2>2, FS_EmptySet, EmptySeq
    <3> QED BY <3>1, MonConstants
  <2>3. ASSUME NEW id \in Ids, monitors' = Drop(monitors, {id})
        PROVE  <1>1!1 /\ <1>1!2 /\ <1>1!3
    <3>1. DOMAIN monitors' = DOMAIN monitors \ {id}
          /\ \A i \in DOMAIN monitors' : monitors'[i] = monitors[i]
      BY <2>3 DEF Drop
    <3> QED BY <3>1, MapSize, MonConstants DEF MonTypes
  <2> QED BY <2>1, <2>2, <2>3
<1>2. MonTypes'
  BY <1>1 DEF MonTypes
<1>3. BaselineIsTold'
  BY <1>1 DEF BaselineIsTold
<1>4. SweptOnce' /\ FailedStaysDue'
  BY ReportsFrame
<1> QED BY <1>2, <1>3, <1>4

LEMMA RequestsInv ==
  ASSUME MonInv, MonRequests
  PROVE  MonInv'
<1> USE DEF MonInv
<1>0. /\ DOMAIN streams \subseteq Ids /\ Cardinality(DOMAIN streams) <= MaxStreams
      /\ \A i \in DOMAIN streams : streams[i] \in Opened
  BY DEF MonTypes
<1>1. CASE \E type \in MonitorTypes, amount \in Periods, severity \in Severities :
              \/ SetMonitor(nextId, type, amount, severity)
              \/ \E id \in Ids : SetMonitor(id, type, amount, severity)
  BY <1>1, SetMonitorInv
<1>2. CASE \E id \in Ids : ClearMonitor(id)
  BY <1>0, <1>2, FewerMonitorsInv DEF ClearMonitor, Requested
<1>3. CASE \E base \in {"All", "FactoryDefault"} : SetBase(base)
  BY <1>0, <1>3, FewerMonitorsInv DEF SetBase, Order, Requested
<1>4. CASE \E severity \in Levels : SetLevel(severity)
  BY <1>0, <1>4, FewerMonitorsInv DEF SetLevel, Order, Requested
<1>5. CASE \E id, monitor \in Ids, every \in Periods : OpenStream(id, monitor, every)
  <2>1. PICK id \in Ids, monitor \in Ids, every \in Periods :
           OpenStream(id, monitor, every)
    BY <1>5
  <2> DEFINE x == [monitor |-> monitor, every |-> every]
  <2>2. x \in Opened
    BY DEF Opened
  <2>3. /\ id \in DOMAIN streams \/ Cardinality(DOMAIN streams) < MaxStreams
        /\ streams' = Put(streams, id, x)
        /\ UNCHANGED <<monitors, nextId, told, reading, sweep, reported, failed>>
    BY <2>1 DEF OpenStream, Order, Requested
  <2> HIDE DEF x
  <2>4. /\ DOMAIN streams' = DOMAIN streams \cup {id}
        /\ \A i \in DOMAIN streams' : streams'[i] \in Opened
    BY <1>0, <2>2, <2>3 DEF Put
  <2>5. DOMAIN streams' \subseteq Ids /\ Cardinality(DOMAIN streams') <= MaxStreams
    BY <1>0, <2>3, <2>4, MapSize, MonConstants
  <2> QED BY <2>3, <2>4, <2>5, FewerMonitorsInv
<1>6. CASE \E id \in Ids, every \in Periods : AdjustStream(id, every)
  <2>1. PICK id \in Ids, every \in Periods : AdjustStream(id, every)
    BY <1>6
  <2>2. /\ id \in DOMAIN streams
        /\ streams' = [streams EXCEPT ![id].every = every]
        /\ UNCHANGED <<monitors, nextId, told, reading, sweep, reported, failed>>
    BY <2>1 DEF AdjustStream, Requested
  <2> DEFINE x == [streams[id] EXCEPT !.every = every]
  <2>3. x \in Opened
    BY <1>0, <2>2 DEF Opened
  <2>4. /\ DOMAIN streams' = DOMAIN streams
        /\ \A i \in DOMAIN streams : streams'[i] = IF i = id THEN x ELSE streams[i]
    BY <2>2
  <2> HIDE DEF x
  <2> QED BY <1>0, <2>2, <2>3, <2>4, FewerMonitorsInv
<1>7. CASE \E id \in Ids : CloseStream(id)
  <2>1. PICK id \in Ids : CloseStream(id)
    BY <1>7
  <2>2. /\ streams' = Drop(streams, {id})
        /\ UNCHANGED <<monitors, nextId, told, reading, sweep, reported, failed>>
    BY <2>1 DEF CloseStream, Requested
  <2>3. /\ DOMAIN streams' = DOMAIN streams \ {id}
        /\ \A i \in DOMAIN streams' : streams'[i] \in Opened
    BY <1>0, <2>2 DEF Drop
  <2>4. DOMAIN streams' \subseteq Ids /\ Cardinality(DOMAIN streams') <= MaxStreams
    BY <1>0, <2>3, MapSize, MonConstants
  <2> QED BY <2>2, <2>3, <2>4, FewerMonitorsInv
<1> QED BY <1>1, <1>2, <1>3, <1>4, <1>5, <1>6, <1>7 DEF MonRequests

\* A write leaves every delta monitor measuring from what it last told.
LEMMA WriteInv ==
  ASSUME MonInv, NEW new \in Readings, Write(new)
  PROVE  MonInv'
<1> USE DEF MonInv
<1> DEFINE fired == {i \in DOMAIN monitors : Fires(monitors[i], reading, new)}
<1>1. reading' = new
      /\ UNCHANGED <<nextId, streams, sweep, reported, failed>>
  BY DEF Write
<1>2. SweptOnce' /\ FailedStaysDue'
  BY <1>1, ReportsFrame
<1>3. CASE new = NoNumber
  <2>1. monitors' = monitors /\ told' = told
    BY <1>3 DEF Write
  <2>2. MonTypes'
    BY <1>1, <2>1 DEF MonTypes
  <2>3. BaselineIsTold'
    BY <1>1, <1>3, <2>1 DEF BaselineIsTold
  <2> QED BY <1>2, <2>2, <2>3
<1>4. CASE new # NoNumber
  <2>1. /\ monitors' = [i \in DOMAIN monitors |-> Evaluated(monitors[i], reading, new)]
        /\ told' = [i \in Ids |->
                     IF i \notin DOMAIN monitors THEN told[i]
                     ELSE IF i \in fired THEN new
                     ELSE IF told[i] # NoNumber THEN told[i]
                     ELSE IF reading # NoNumber THEN reading ELSE new]
    BY <1>4 DEF Write
  <2> HIDE DEF fired
  <2>2. /\ new \in Nat
        /\ reading \in Readings /\ DOMAIN monitors \subseteq Ids
        /\ told \in [Ids -> Readings]
    BY <1>4, MonConstants DEF MonTypes, Readings
  <2>3. told' \in [Ids -> Readings]
    BY <2>1, <2>2
  <2>4. ASSUME NEW i \in DOMAIN monitors
        PROVE  Evaluated(monitors[i], reading, new) \in Monitors /\ i < nextId
    <3>1. monitors[i] \in Monitors /\ i < nextId
      BY DEF MonTypes
    <3>2. monitors[i].baseline \in Readings
      BY <3>1 DEF Monitors
    <3>3. Baseline(monitors[i], reading, new) \in Readings
      BY <2>2, <3>2 DEF Baseline
    <3>4. \A b \in Readings : [monitors[i] EXCEPT !.baseline = b] \in Monitors
      BY <3>1 DEF Monitors
    <3> QED BY <3>1, <3>3, <3>4 DEF Evaluated
  <2>5. MonTypes'
    <3>1. DOMAIN monitors' = DOMAIN monitors
          /\ \A i \in DOMAIN monitors : monitors'[i] = Evaluated(monitors[i], reading, new)
      BY <2>1
    <3> QED BY <1>1, <2>2, <2>3, <2>4, <3>1 DEF MonTypes
  <2>6. ASSUME NEW i \in DOMAIN monitors, monitors'[i].type = "Delta"
        PROVE  /\ monitors'[i].baseline = told'[i]
               /\ Distance(new, told'[i]) < monitors'[i].value
    <3> DEFINE m == monitors[i]
               b == Baseline(m, reading, new)
    <3>1. m \in Monitors /\ i \in Ids
      BY <2>2 DEF MonTypes
    <3>2. monitors'[i] = Evaluated(m, reading, new)
      BY <2>1
    <3>3. m.type = "Delta"
      BY <2>6, <3>1, <3>2 DEF Evaluated, Monitors
    <3>4. m.baseline = told[i]
      BY <3>3 DEF BaselineIsTold
    <3>5. m.value \in Nat /\ m.value > 0
      BY <3>1, MonConstants DEF Monitors
    <3>6. i \in fired <=> Fires(m, reading, new)
      BY DEF fired
    <3>7. monitors'[i].baseline = (IF i \in fired THEN new ELSE b)
          /\ monitors'[i].value = m.value
      BY <3>1, <3>2, <3>3, <3>6 DEF Evaluated, Monitors
    <3>8. told'[i] = IF i \in fired THEN new ELSE b
      BY <2>1, <3>1, <3>4 DEF Baseline
    <3>9. Fires(m, reading, new) <=> Distance(new, b) >= m.value
      BY <3>3 DEF Fires
    <3>10. b \in Int /\ Distance(new, b) \in Int /\ Distance(new, new) = 0
      <4>1. m.baseline \in Readings
        BY <3>1 DEF Monitors
      <4>2. b \in Readings
        BY <2>2, <4>1 DEF Baseline
      <4>3. b \in Int
        BY <4>2, MonConstants DEF Readings
      <4> HIDE DEF b
      <4> QED BY <2>2, <4>3 DEF Distance
    <3> HIDE DEF m, b
    <3>11. CASE i \in fired
      BY <3>5, <3>7, <3>8, <3>10, <3>11
    <3>12. CASE i \notin fired
      BY <3>5, <3>6, <3>7, <3>8, <3>9, <3>10, <3>12
    <3> QED BY <3>11, <3>12
  <2>7. BaselineIsTold'
    <3>1. DOMAIN monitors' = DOMAIN monitors
      BY <2>1
    <3> QED BY <1>1, <2>6, <3>1 DEF BaselineIsTold
  <2> QED BY <1>2, <2>5, <2>7
<1> QED BY <1>3, <1>4

\* What a step leaves alone of the monitors and what they tell.
LEMMA TellsFrame ==
  ASSUME BaselineIsTold, UNCHANGED <<monitors, told, reading>>
  PROVE  BaselineIsTold'
  BY DEF BaselineIsTold

LEMMA StartSweepInv ==
  ASSUME MonInv, StartSweep
  PROVE  MonInv'
<1> USE DEF MonInv
<1> DEFINE c == Cardinality(Due)
           d == [n \in 1 .. c |-> Item(ById(Due)[n])]
<1>1. /\ sweep' = [due |-> d, since |-> 0]
      /\ UNCHANGED <<monitors, nextId, reading, streams, sweeper, reported, told, failed>>
  BY DEF StartSweep
<1>2. Due \subseteq Ids
  BY DEF Due, MonTypes
<1>3. /\ c \in Nat
      /\ \A n \in 1 .. c : ById(Due)[n] \in Due
      /\ \A m, n \in 1 .. c : ById(Due)[m] = ById(Due)[n] => m = n
  <2>1. Due \in SUBSET Int /\ IsFiniteSet(Due)
    BY <1>2, MonConstants, FS_Subset
  <2> HIDE DEF c
  <2> QED BY <2>1, WalkInOrder DEF c
<1>4. ASSUME NEW i \in Due
      PROVE  Item(i) \in Things /\ Item(i).id = i /\ IsDue(i, Item(i).every)
  <2>1. i \in Ids /\ Item(i).id = i /\ Item(i).every = Every(i) /\ IsDue(i, Every(i))
    BY <1>2 DEF Due, Item
  <2>2. CASE sweeper = "monitors"
    <3>1. monitors[i] \in Monitors
      BY <2>2 DEF Due, MonTypes
    <3>2. Every(i) \in Periods /\ monitors[i].severity \in Severities
      BY <2>2, <3>1 DEF Every, Monitors
    <3> QED BY <2>1, <2>2, <3>2 DEF Item, Things
  <2>3. CASE sweeper # "monitors"
    <3>1. streams[i] \in Opened
      BY <2>3 DEF Due, MonTypes
    <3>2. Every(i) \in Periods
      BY <2>3, <3>1 DEF Every, Opened
    <3> QED BY <2>1, <2>3, <3>2 DEF Item, Things
  <2> QED BY <2>2, <2>3
<1> HIDE DEF c
<1>5. /\ \A n \in 1 .. c : d[n] \in Things /\ IsDue(d[n].id, d[n].every)
      /\ \A m, n \in 1 .. c : d[m].id = d[n].id => m = n
  BY <1>3, <1>4
<1>6. d \in Seq(Things) /\ Len(d) = c
  BY <1>3, <1>5
<1> HIDE DEF d
<1>7. sweep'.due = d /\ sweep' \in [due : Seq(Things), since : 0 .. MaxAge]
  BY <1>1, <1>6, MonConstants
<1>8. MonTypes'
  BY <1>1, <1>7 DEF MonTypes
<1>9. SweptOnce' /\ FailedStaysDue'
  BY <1>1, <1>5, <1>6, <1>7 DEF SweptOnce, FailedStaysDue, IsDue
<1> QED BY <1>1, <1>8, <1>9, TellsFrame

LEMMA SweepNextInv ==
  ASSUME MonInv, SweepNext
  PROVE  MonInv'
<1> USE DEF MonInv
<1> DEFINE item == Head(sweep.due)
<1>1. /\ sweep.due # << >>
      /\ sweep' = [sweep EXCEPT !.due = Tail(sweep.due)]
      /\ \/ /\ reported' = [reported EXCEPT ![item.id] = sweep.since]
            /\ failed' = {f \in failed : f.id # item.id}
         \/ reported' = reported /\ failed' = failed \cup {item}
      /\ UNCHANGED <<monitors, nextId, reading, streams, told>>
  BY DEF SweepNext, NoteReport
<1>2. /\ sweep.due \in Seq(Things) /\ sweep.since \in 0 .. MaxAge
      /\ reported \in [Ids -> 0 .. Never] /\ failed \in SUBSET Things
      /\ sweep \in [due : Seq(Things), since : 0 .. MaxAge]
  BY DEF MonTypes
<1>3. /\ Len(sweep.due) \in Nat /\ Len(sweep.due) > 0
      /\ item = sweep.due[1] /\ item \in Things
      /\ Tail(sweep.due) \in Seq(Things)
      /\ Len(Tail(sweep.due)) = Len(sweep.due) - 1
      /\ \A n \in 1 .. Len(Tail(sweep.due)) : Tail(sweep.due)[n] = sweep.due[n + 1]
  BY <1>1, <1>2
<1>4. item.id \in Ids /\ IsDue(item.id, item.every)
  <2>1. 1 \in 1 .. Len(sweep.due)
    BY <1>3
  <2> QED BY <1>3, <2>1 DEF SweptOnce, Things
<1>5. sweep'.due = Tail(sweep.due)
      /\ sweep' \in [due : Seq(Things), since : 0 .. MaxAge]
  BY <1>1, <1>2, <1>3
<1> HIDE DEF item
<1>6. /\ reported' \in [Ids -> 0 .. Never] /\ failed' \in SUBSET Things
      /\ \A i \in Ids : i # item.id => reported'[i] = reported[i]
  <2>1. sweep.since \in 0 .. Never
    BY <1>2, MonConstants
  <2> QED BY <1>1, <1>2, <1>3, <1>4, <2>1
<1>7. MonTypes'
  BY <1>1, <1>5, <1>6 DEF MonTypes
<1>8. ASSUME NEW n \in 1 .. Len(sweep'.due)
      PROVE  /\ n + 1 \in 1 .. Len(sweep.due)
             /\ sweep'.due[n] = sweep.due[n + 1]
             /\ sweep'.due[n].id \in Ids /\ sweep'.due[n].id # item.id
             /\ IsDue(sweep.due[n + 1].id, sweep.due[n + 1].every)
  <2>1. n + 1 \in 1 .. Len(sweep.due) /\ 1 \in 1 .. Len(sweep.due) /\ n + 1 # 1
    BY <1>3, <1>5
  <2>2. sweep'.due[n] = sweep.due[n + 1]
    BY <1>3, <1>5
  <2>3. sweep.due[n + 1] \in Things
    BY <1>2, <2>1
  <2> QED BY <1>3, <2>1, <2>2, <2>3 DEF SweptOnce, Things
<1>9. SweptOnce'
  <2>1. ASSUME NEW n \in 1 .. Len(sweep'.due)
        PROVE  \/ reported'[sweep'.due[n].id] = Never
               \/ reported'[sweep'.due[n].id] >= sweep'.due[n].every
    BY <1>6, <1>8 DEF IsDue
  <2>2. ASSUME NEW m \in 1 .. Len(sweep'.due), NEW n \in 1 .. Len(sweep'.due),
               sweep'.due[m].id = sweep'.due[n].id
        PROVE  m = n
    <3>1. sweep.due[m + 1].id = sweep.due[n + 1].id
      BY <1>8, <2>2
    <3>2. m + 1 \in 1 .. Len(sweep.due) /\ n + 1 \in 1 .. Len(sweep.due)
      BY <1>8
    <3>3. m + 1 = n + 1
      BY <3>1, <3>2 DEF SweptOnce
    <3> QED BY <1>3, <1>5, <3>3
  <2> QED BY <2>1, <2>2 DEF SweptOnce, IsDue
<1>10. FailedStaysDue'
  <2>1. CASE /\ reported' = [reported EXCEPT ![item.id] = sweep.since]
             /\ failed' = {f \in failed : f.id # item.id}
    <3>1. \A f \in failed' : f \in failed /\ f.id # item.id /\ f.id \in Ids
      BY <1>2, <2>1 DEF Things
    <3> QED BY <1>6, <3>1 DEF FailedStaysDue, IsDue
  <2>2. CASE reported' = reported /\ failed' = failed \cup {item}
    BY <1>4, <2>2 DEF FailedStaysDue, IsDue
  <2> QED BY <1>1, <2>1, <2>2
<1> QED BY <1>1, <1>7, <1>9, <1>10, TellsFrame

\* What is due stays due as time passes.
LEMMA MonTickInv ==
  ASSUME MonInv, MonTick
  PROVE  MonInv'
<1> USE DEF MonInv
<1>1. /\ reported' = [i \in Ids |-> Older(reported[i])]
      /\ sweep' = [sweep EXCEPT !.since =
                      IF sweep.due = << >> THEN 0 ELSE Older(sweep.since)]
      /\ UNCHANGED <<monitors, nextId, reading, streams, told, failed>>
  BY DEF MonTick
<1>2. /\ reported \in [Ids -> 0 .. Never] /\ failed \in SUBSET Things
      /\ sweep \in [due : Seq(Things), since : 0 .. MaxAge]
  BY DEF MonTypes
<1>3. /\ \A a \in 0 .. Never : /\ Older(a) \in 0 .. Never /\ Older(a) >= a
                               /\ a = Never => Older(a) = Never
      /\ \A a \in 0 .. MaxAge : Older(a) \in 0 .. MaxAge
      /\ 0 \in 0 .. MaxAge
  BY MonConstants DEF Older
<1>4. reported' \in [Ids -> 0 .. Never]
  BY <1>1, <1>2, <1>3
<1>5. sweep'.due = sweep.due /\ sweep' \in [due : Seq(Things), since : 0 .. MaxAge]
  BY <1>1, <1>2, <1>3
<1>6. MonTypes'
  BY <1>1, <1>2, <1>4, <1>5 DEF MonTypes
<1>7. ASSUME NEW x \in Things, IsDue(x.id, x.every)
      PROVE  reported'[x.id] = Never \/ reported'[x.id] >= x.every
  <2>1. x.id \in Ids /\ x.every \in Nat
    BY MonConstants DEF Things
  <2>2. reported[x.id] \in 0 .. Never /\ reported'[x.id] = Older(reported[x.id])
    BY <1>1, <1>2, <2>1
  <2>3. Older(reported[x.id]) \in Int /\ reported[x.id] \in Int
        /\ Older(reported[x.id]) >= reported[x.id]
        /\ (reported[x.id] = Never => Older(reported[x.id]) = Never)
    BY <1>3, <2>2
  <2>4. reported[x.id] = Never \/ reported[x.id] >= x.every
    BY <1>7 DEF IsDue
  <2> QED BY <2>1, <2>2, <2>3, <2>4
<1>8. \A n \in 1 .. Len(sweep.due) : sweep.due[n] \in Things
  BY <1>2
<1>9. SweptOnce'
  BY <1>5, <1>7, <1>8 DEF SweptOnce, IsDue
<1>10. FailedStaysDue'
  BY <1>1, <1>2, <1>7 DEF FailedStaysDue, IsDue
<1> QED BY <1>1, <1>6, <1>9, <1>10, TellsFrame

LEMMA MonStepInv == MonInv /\ [MonNext]_monVars => MonInv'
<1> SUFFICES ASSUME MonInv, [MonNext]_monVars PROVE MonInv'
  OBVIOUS
<1>1. CASE MonRequests
  BY <1>1, RequestsInv
<1>2. CASE \E new \in 0 .. TopValue \cup {NoNumber} : Write(new)
  BY <1>2, WriteInv DEF Readings
<1>3. CASE ReportAlert
  BY <1>3, ReportsFrame, TellsFrame DEF MonInv, MonTypes, ReportAlert
<1>4. CASE StartSweep
  BY <1>4, StartSweepInv
<1>5. CASE SweepNext
  BY <1>5, SweepNextInv
<1>6. CASE MonTick
  BY <1>6, MonTickInv
<1>7. CASE UNCHANGED monVars
  BY <1>7, ReportsFrame, TellsFrame DEF MonInv, MonTypes, monVars
<1> QED BY <1>1, <1>2, <1>3, <1>4, <1>5, <1>6, <1>7 DEF MonNext, MonSteps

LEMMA MonInvReports == MonInv => MonitorsReport
<1> SUFFICES ASSUME MonInv PROVE MonitorsReport
  OBVIOUS
<1>1. MonTypeOK
  BY DEF MonInv, MonTypes, MonTypeOK, Monitors, Readings
<1>2. DriftIsBounded
  BY DEF MonInv, BaselineIsTold, DriftIsBounded
<1> QED BY <1>1, <1>2 DEF MonInv, MonitorsReport

-----------------------------------------------------------------------------
(* The instance the runs check runs one of the specifications at a time, so   *)
(* what is proved of each holds of it.                                        *)

\* The composed jobs keep firmware orderly and cancelled uploads silent.
THEOREM JobsAreOrderly == JobsSpec => [](FirmwareIsOrderly /\ CancelledStaysSilent)
<1>1. JobsInit => FwInit /\ PubInit /\ LogInit
  BY DEF JobsInit
<1>2. [JobsNext]_jobVars => [FwNext]_fwVars /\ [PubNext]_pubVars /\ [LogNext]_logVars
  BY DEF JobsNext, jobVars
<1>3. JobsSpec => FwSpec /\ PubSpec /\ LogSpec
  BY <1>1, <1>2, PTL DEF JobsSpec, FwSpec, PubSpec, LogSpec
<1> QED BY <1>3, FirmwareStaysOrderly, CancelledUploadsStaySilent, PTL

\* However the CSMS sets, replaces and clears monitors while the variable is
\* written and a sweep is under way, a delta monitor never lets the value stray
\* by its delta from the one it last spoke of, and a report that failed stays
\* due (VariableMonitorStore::evaluate, run_variable_monitor_events).
THEOREM MonitorsStayHonest == JobsSpec => []MonitorsReport
<1>1. JobsInit => MonInit
  BY DEF JobsInit
<1>2. [JobsNext]_jobVars => [MonNext]_monVars
  BY DEF JobsNext, jobVars
<1> QED BY <1>1, <1>2, MonInitInv, MonStepInv, MonInvReports, PTL DEF JobsSpec

=============================================================================
