---------------------------- MODULE OfflineQueue ----------------------------
(***************************************************************************)
(* src/offline_queue.rs: a bounded FIFO of reports to the CSMS, drained by *)
(* whichever task gets to it first.  One forwarder pushes every new report *)
(* and flushes; flush-only tasks (the reconnect callback, the retry timer  *)
(* of builder.rs) just flush.                                              *)
(*                                                                         *)
(* The tasks run on a multi-threaded executor, so a step here is one       *)
(* critical section of `pending`, one atomic access, or the completion of  *)
(* the awaited send.  front_attempts is only touched by the task that      *)
(* holds the flush claim and is updated along with the critical section    *)
(* next to it.                                                             *)
(***************************************************************************)
EXTENDS Naturals, Sequences, FiniteSets

CONSTANTS Forwarder,     \* the task of run_with_offline_queue
          Flushers,      \* the flush-only tasks
          Timers,        \* the flushers that a timer starts again and again
          CappedTasks,   \* the tasks that pass a cap on attempts
          MaxAttempts,   \* that cap, OCPPCommCtrlr.MessageAttempts
          Capacity,      \* offline_queue_capacity
          Policy,        \* the OverflowPolicy
          MarksOffline,  \* whether marking_offline registered a stamp
          MaxMessages,   \* bound: reports ever made
          MaxFailures    \* bound: failed sends and withdrawn acceptances

Tasks == {Forwarder} \cup Flushers

ASSUME QueueAssumption ==
    /\ Forwarder \notin Flushers
    /\ Timers \subseteq Flushers /\ CappedTasks \subseteq Tasks
    /\ MaxAttempts \in Nat \ {0}
    /\ Capacity \in Nat \ {0}
    /\ Policy \in {"DropOldest", "DropNewest"}
    /\ MarksOffline \in BOOLEAN
    /\ MaxMessages \in Nat /\ MaxFailures \in Nat

VARIABLES queue,       \* pending
          flushing,    \* the flush claim
          attempts,    \* front_attempts
          accepted,    \* may_send_requests: the CSMS accepted the charge point
          pc,          \* where each task is
          inflight,    \* the message each task peeked last
          made,        \* history: how many reports were made so far
          received,    \* history: what the CSMS received, in order
          lost,        \* history: what push handed back or a flush gave up on
          inDoubt,     \* history: received, but the reply was lost
          tries,       \* history: failed sends of each report
          failures     \* how much of MaxFailures is used up

queueVars   == <<queue, flushing, attempts>>
historyVars == <<made, received, lost, inDoubt, tries, failures>>
vars        == <<queueVars, accepted, pc, inflight, historyVars>>

Ids      == 1..MaxMessages
Messages == [id : Ids, offline : BOOLEAN]

\* At "idle" the forwarder waits for the next report, a flusher for the next
\* reconnect or tick.
Places == {"idle", "gate", "claim", "peek", "sending", "delivered", "failed",
           "release"}

NoMessage == [id |-> 0, offline |-> FALSE]

IdsOf(s) == {s[i].id : i \in 1..Len(s)}

-----------------------------------------------------------------------------
(* OfflineQueue's own operations. *)

\* push: the queue afterwards, and the ids of what overflow handed back.
Push(q, m) ==
    IF Len(q) < Capacity
      THEN [queue |-> Append(q, m), dropped |-> {}]
    ELSE IF Policy = "DropOldest"
      THEN [queue |-> Append(Tail(q), m), dropped |-> {Head(q).id}]
    ELSE [queue |-> q, dropped |-> {m.id}]

MarkBacklogOffline(q) ==
    IF MarksOffline THEN [i \in 1..Len(q) |-> [q[i] EXCEPT !.offline = TRUE]]
    ELSE q

\* VecDeque::pop_front does nothing to an empty queue.
PopFront(q) == IF q = <<>> THEN q ELSE Tail(q)

Goto(t, place) == pc' = [pc EXCEPT ![t] = place]

-----------------------------------------------------------------------------
(* The tasks. *)

Init ==
    /\ queue = <<>> /\ flushing = FALSE /\ attempts = 0
    /\ accepted = FALSE
    /\ pc = [t \in Tasks |-> "idle"]
    /\ inflight = [t \in Tasks |-> NoMessage]
    /\ made = 0 /\ received = <<>> /\ lost = {} /\ inDoubt = {}
    /\ tries = [m \in Ids |-> 0]
    /\ failures = 0

\* The forwarder takes the next report off its channel and pushes it.
Receive ==
    /\ pc[Forwarder] = "idle"
    /\ made < MaxMessages
    /\ LET p == Push(queue, [id |-> made + 1, offline |-> FALSE])
       IN queue' = p.queue /\ lost' = lost \cup p.dropped
    /\ made' = made + 1
    /\ Goto(Forwarder, "gate")
    /\ UNCHANGED <<flushing, attempts, accepted, inflight, received, inDoubt,
                   tries, failures>>

\* A reconnect, or a tick of the retry timer, which skips a charge point that
\* is not accepted.
Trigger(t) ==
    /\ pc[t] = "idle"
    /\ t \in Timers => accepted
    /\ Goto(t, "gate")
    /\ UNCHANGED <<queueVars, accepted, inflight, historyVars>>

\* may_flush: a charge point that is not accepted holds its reports.
Gate(t) ==
    /\ pc[t] = "gate"
    /\ IF accepted
         THEN Goto(t, "claim") /\ UNCHANGED queue
         ELSE Goto(t, "idle") /\ queue' = MarkBacklogOffline(queue)
    /\ UNCHANGED <<flushing, attempts, accepted, inflight, historyVars>>

\* Mutant: the claim is read but not respected.
ClaimIgnored(t) ==
    /\ pc[t] = "claim"
    /\ Goto(t, "peek")
    /\ flushing' = TRUE
    /\ UNCHANGED <<queue, attempts, accepted, inflight, historyVars>>

\* try_begin_flush: leave the work to whoever holds the claim.
Claim(t) ==
    /\ pc[t] = "claim"
    /\ Goto(t, IF flushing THEN "idle" ELSE "peek")
    /\ flushing' = TRUE
    /\ UNCHANGED <<queue, attempts, accepted, inflight, historyVars>>

Peek(t) ==
    /\ pc[t] = "peek"
    /\ IF queue = <<>>
         THEN Goto(t, "release") /\ UNCHANGED inflight
         ELSE Goto(t, "sending") /\ inflight' = [inflight EXCEPT ![t] = Head(queue)]
    /\ UNCHANGED <<queueVars, accepted, historyVars>>

\* The awaited send completes: the CSMS has the report and said so.
SendOk(t) ==
    /\ pc[t] = "sending"
    /\ Goto(t, "delivered")
    /\ received' = Append(received, inflight[t].id)
    /\ UNCHANGED <<queueVars, accepted, inflight, made, lost, inDoubt, tries,
                   failures>>

\* It fails: the report never arrived, or its reply did not.
SendErr(t) ==
    /\ pc[t] = "sending"
    /\ failures < MaxFailures
    /\ Goto(t, "failed")
    /\ \/ UNCHANGED <<received, inDoubt>>
       \/ /\ received' = Append(received, inflight[t].id)
          /\ inDoubt' = inDoubt \cup {inflight[t].id}
    /\ failures' = failures + 1
    /\ UNCHANGED <<queueVars, accepted, inflight, made, lost, tries>>

Pop(t) ==
    /\ pc[t] = "delivered"
    /\ queue' = PopFront(queue)
    /\ attempts' = 0
    /\ Goto(t, "peek")
    /\ UNCHANGED <<flushing, accepted, inflight, historyVars>>

\* Mutants: the failed message is dropped; or put at the back of the queue; or
\* the backlog is not marked.
RetainNothing(t) ==
    /\ pc[t] = "failed"
    /\ queue' = PopFront(queue) /\ attempts' = 0
    /\ Goto(t, "release")
    /\ UNCHANGED <<flushing, accepted, inflight, historyVars>>

RetainBehind(t) ==
    /\ pc[t] = "failed"
    /\ queue' = IF queue = <<>> THEN queue ELSE Append(Tail(queue), Head(queue))
    /\ attempts' = 0
    /\ Goto(t, "release")
    /\ UNCHANGED <<flushing, accepted, inflight, historyVars>>

\* Hold the backlog for the next flush, or give up on the front message.
Retain(t) ==
    /\ pc[t] = "failed"
    /\ LET held   == MarkBacklogOffline(queue)
           giveUp == t \in CappedTasks /\ attempts + 1 >= MaxAttempts
       IN IF giveUp
            THEN /\ queue' = PopFront(held) /\ attempts' = 0
                 /\ lost' = lost \cup IF queue = <<>> THEN {} ELSE {Head(queue).id}
                 /\ Goto(t, "peek")
            ELSE /\ queue' = held /\ attempts' = attempts + 1
                 /\ UNCHANGED lost
                 /\ Goto(t, "release")
    /\ tries' = [tries EXCEPT ![inflight[t].id] = @ + 1]
    /\ UNCHANGED <<flushing, accepted, inflight, made, received, inDoubt,
                   failures>>

\* Mutant: the claim is kept.
ReleaseNothing(t) ==
    /\ pc[t] = "release"
    /\ Goto(t, "idle")
    /\ UNCHANGED <<queueVars, accepted, inflight, historyVars>>

\* end_flush.
Release(t) ==
    /\ pc[t] = "release"
    /\ flushing' = FALSE
    /\ Goto(t, "idle")
    /\ UNCHANGED <<queue, attempts, accepted, inflight, historyVars>>

-----------------------------------------------------------------------------
(* Registration. *)

\* The CSMS accepts the charge point; a later BootNotification may be answered
\* otherwise.
Accept ==
    /\ ~accepted
    /\ accepted' = TRUE
    /\ UNCHANGED <<queueVars, pc, inflight, historyVars>>

Withdraw ==
    /\ accepted
    /\ failures < MaxFailures
    /\ accepted' = FALSE
    /\ failures' = failures + 1
    /\ UNCHANGED <<queueVars, pc, inflight, made, received, lost, inDoubt,
                   tries>>

-----------------------------------------------------------------------------
Send(t)  == SendOk(t) \/ SendErr(t)
Flush(t) == Gate(t) \/ Claim(t) \/ Peek(t) \/ Send(t) \/ Pop(t) \/ Retain(t)
            \/ Release(t)

Next ==
    \/ Receive
    \/ \E t \in Flushers : Trigger(t)
    \/ \E t \in Tasks : Flush(t)
    \/ Accept
    \/ Withdraw

Spec == Init /\ [][Next]_vars

\* The executor polls every task that is ready, a call either completes or
\* runs into the transport's timeout, the timer ticks, and the CSMS accepts a
\* charge point that keeps asking.
Fairness ==
    /\ \A t \in Tasks : WF_vars(Flush(t))
    /\ \A t \in Timers : WF_vars(Trigger(t))
    /\ WF_vars(Accept)

FairSpec == Spec /\ Fairness

-----------------------------------------------------------------------------
(* Properties. *)

TypeOK ==
    /\ queue \in Seq(Messages) /\ Len(queue) <= Capacity
    /\ flushing \in BOOLEAN /\ attempts \in Nat /\ accepted \in BOOLEAN
    /\ pc \in [Tasks -> Places]
    /\ inflight \in [Tasks -> Messages \cup {NoMessage}]
    /\ made \in 0..MaxMessages /\ received \in Seq(Ids)
    /\ lost \subseteq Ids /\ inDoubt \subseteq Ids
    /\ tries \in [Ids -> Nat] /\ failures \in 0..MaxFailures

\* offline_queue.rs, flushing: "makes a concurrent flush skip rather than
\* duplicate".  The CSMS receives a report twice only if its first reply was
\* lost, whichever of the three flushes overlap.
NoDuplicateDelivery ==
    \A i, j \in 1..Len(received) :
        i # j /\ received[i] = received[j] => received[i] \in inDoubt

\* "kept until flush_offline_queue ... successfully delivers them": a report is
\* still queued, or was received, or was handed back or given up on.
NoSilentLoss ==
    1..made \subseteq IdsOf(queue) \cup lost
                      \cup {received[i] : i \in 1..Len(received)}

\* front_attempts "counts attempts at one message rather than at the queue":
\* it is the number of failed sends of whatever is now in front.
AttemptsCountFront ==
    queue # <<>> => attempts = tries[Head(queue).id]

\* E12: what is offered again after a failure is marked as held offline.
RetriedIsMarked ==
    \A t \in Tasks : pc[t] = "sending" /\ tries[inflight[t].id] > 0 =>
        inflight[t].offline

\* The bookkeeping of one flush: the task holding the claim works on the
\* front message, even while others push.
SendsTheFront ==
    \A t \in Tasks : pc[t] \in {"sending", "delivered", "failed"} =>
        queue # <<>> /\ Head(queue).id = inflight[t].id

Settled(m) == m \in lost \cup {received[i] : i \in 1..Len(received)}

\* Every report is eventually received, handed back or given up on, once the
\* CSMS stays reachable: none is left behind by flushes that skip each other.
EveryReportSettles == \A m \in Ids : m <= made ~> Settled(m)

\* The promise, with the message a task has just delivered already gone.
BacklogIds ==
    LET left == IF \E t \in Tasks : pc[t] = "delivered" THEN Tail(queue)
                ELSE queue
    IN [i \in 1..Len(left) |-> left[i].id]

Abstract == INSTANCE OrderedDelivery
                WITH Messages  <- Ids,
                     MayGiveUp <- CappedTasks # {},
                     backlog   <- BacklogIds,
                     delivered <- received,
                     lost      <- lost

ImplementsOrderedDelivery == Abstract!Spec

\* Sends: only the front is ever sent, only a message whose reply was lost is
\* delivered twice, attempts are counted against the message they were made
\* for, and a retried one says so (flush_offline_queue).
SendsAreOrderly ==
    TypeOK /\ SendsTheFront /\ NoDuplicateDelivery /\ AttemptsCountFront /\ RetriedIsMarked

=============================================================================
