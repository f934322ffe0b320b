-------------------------- MODULE OfflineQueueProofs --------------------------
(***************************************************************************)
(* Theorems about OfflineQueue, for every set of flushing tasks, every     *)
(* capacity and every cap on attempts.  What depends on the overflow       *)
(* policy says so: a queue that drops its oldest report may drop the one a *)
(* flush is sending, and then loses another in its place.                  *)
(***************************************************************************)
EXTENDS OfflineQueue, SequenceTheorems, TLAPS

\* The places of a task that has the claim and has not given it back.
Holds(t) == pc[t] \in {"peek", "sending", "delivered", "failed", "release"}

\* The places of a task that works on a report it peeked.
AtFront(t) == pc[t] \in {"sending", "delivered", "failed"}

\* At most one flush is under way, and only while the claim is taken.
OneFlush ==
    /\ \A t \in Tasks : Holds(t) => flushing
    /\ \A t, u \in Tasks : Holds(t) /\ Holds(u) => t = u

PeekedIsReport == \A t \in Tasks : AtFront(t) => inflight[t] \in Messages

ClaimInv == TypeOK /\ OneFlush /\ PeekedIsReport

\* What the queue holds, in terms of what was made, tried and received.
InOrder ==
    /\ \A i, j \in 1..Len(queue) : i < j => queue[i].id < queue[j].id
    /\ \A i \in 1..Len(queue) : queue[i].id <= made

UnmadeIsUntouched ==
    /\ \A m \in Ids : m > made => tries[m] = 0
    /\ \A k \in 1..Len(received) : received[k] <= made

SomeDelivered == \E t \in Tasks : pc[t] = "delivered"

\* A report still queued was received only if its reply was lost, or it is
\* the front one and about to be popped.
QueuedIsOwed ==
    \A i \in 1..Len(queue), k \in 1..Len(received) :
        received[k] = queue[i].id =>
            received[k] \in inDoubt \/ (i = 1 /\ SomeDelivered)

DeliveredIsReceived ==
    \A t \in Tasks : pc[t] = "delivered" =>
        \E k \in 1..Len(received) : received[k] = inflight[t].id

\* Only the front report was ever tried.
OthersUntried ==
    /\ queue = <<>> => attempts = 0
    /\ \A i \in 2..Len(queue) : tries[queue[i].id] = 0

TriedIsMarked ==
    MarksOffline =>
        /\ \A i \in 1..Len(queue) : tries[queue[i].id] > 0 => queue[i].offline
        /\ RetriedIsMarked

OrderInv ==
    /\ SendsTheFront /\ InOrder /\ UnmadeIsUntouched
    /\ QueuedIsOwed /\ DeliveredIsReceived /\ NoDuplicateDelivery
    /\ OthersUntried /\ AttemptsCountFront /\ TriedIsMarked

-----------------------------------------------------------------------------
(* The operations on the queue. *)

\* The front of a queue that is not empty.
LEMMA FrontIsFirst ==
  ASSUME NEW q \in Seq(Messages), q # <<>>
  PROVE  /\ Len(q) \in Nat /\ Len(q) >= 1
         /\ Head(q) = q[1] /\ Head(q) \in Messages
  BY EmptySeq, LenProperties, HeadTailProperties

\* mark_offline on a backlog touches no id and no order.
LEMMA MarkingKeepsIds ==
  ASSUME NEW q \in Seq(Messages)
  PROVE  LET r == MarkBacklogOffline(q)
         IN /\ r \in Seq(Messages) /\ Len(r) = Len(q)
            /\ r = <<>> <=> q = <<>>
            /\ \A i \in 1..Len(q) : /\ r[i].id = q[i].id
                                    /\ q[i].offline => r[i].offline
                                    /\ MarksOffline => r[i].offline
<1> DEFINE r == [i \in 1..Len(q) |-> [q[i] EXCEPT !.offline = TRUE]]
<1>0. Len(q) \in Nat /\ \A i \in 1..Len(q) : q[i] \in Messages
  BY ElementOfSeq, LenProperties
<1>1. ASSUME NEW i \in 1..Len(q)
      PROVE  /\ [q[i] EXCEPT !.offline = TRUE] \in Messages
             /\ [q[i] EXCEPT !.offline = TRUE].id = q[i].id
             /\ [q[i] EXCEPT !.offline = TRUE].offline = TRUE
  BY <1>0 DEF Messages
<1>2. r \in Seq(Messages) /\ Len(r) = Len(q)
  BY <1>0, <1>1
<1>3. \A i \in 1..Len(q) : r[i].id = q[i].id /\ r[i].offline = TRUE
  BY <1>1
<1>4. r = <<>> <=> q = <<>>
  BY <1>2, EmptySeq
<1> QED BY <1>2, <1>3, <1>4 DEF MarkBacklogOffline

\* pop_front keeps the rest, in order.
LEMMA PoppingKeepsRest ==
  ASSUME NEW q \in Seq(Messages), q # <<>>
  PROVE  /\ PopFront(q) \in Seq(Messages)
         /\ Len(PopFront(q)) = Len(q) - 1
         /\ \A i \in 1..Len(PopFront(q)) : PopFront(q)[i] = q[i + 1]
  BY HeadTailProperties DEF PopFront

\* push_back keeps what is queued, in order.
LEMMA AppendingKeepsAll ==
  ASSUME NEW S, NEW q \in Seq(S), NEW m \in S
  PROVE  /\ Append(q, m) \in Seq(S)
         /\ Len(Append(q, m)) = Len(q) + 1
         /\ Append(q, m) # <<>>
         /\ \A i \in 1..Len(q) : Append(q, m)[i] = q[i]
         /\ Append(q, m)[Len(q) + 1] = m
  BY AppendProperties

\* push, whichever the policy, leaves a queue within its capacity.
LEMMA PushType ==
  ASSUME NEW q \in Seq(Messages), Len(q) <= Capacity, NEW m \in Messages
  PROVE  /\ Push(q, m).queue \in Seq(Messages)
         /\ Len(Push(q, m).queue) <= Capacity
         /\ Push(q, m).dropped \subseteq Ids
<1>0. Capacity \in Nat \ {0} /\ Len(q) \in Nat /\ m.id \in Ids
  BY QueueAssumption, LenProperties DEF Messages
<1>1. CASE Len(q) < Capacity
  <2>1. Push(q, m) = [queue |-> Append(q, m), dropped |-> {}]
    BY <1>1 DEF Push
  <2>2. Append(q, m) \in Seq(Messages) /\ Len(Append(q, m)) = Len(q) + 1
    BY AppendingKeepsAll
  <2> QED BY <1>0, <1>1, <2>1, <2>2
<1>2. CASE ~(Len(q) < Capacity) /\ Policy = "DropOldest"
  <2>1. q # <<>>
    BY <1>0, <1>2, EmptySeq
  <2>2. Tail(q) \in Seq(Messages) /\ Len(Tail(q)) = Len(q) - 1 /\ Head(q) \in Messages
    BY <2>1, HeadTailProperties
  <2>3. /\ Append(Tail(q), m) \in Seq(Messages)
        /\ Len(Append(Tail(q), m)) = Len(Tail(q)) + 1
    BY <2>2, AppendingKeepsAll
  <2>4. Push(q, m) = [queue |-> Append(Tail(q), m), dropped |-> {Head(q).id}]
    BY <1>2 DEF Push
  <2>5. Head(q).id \in Ids
    BY <2>2 DEF Messages
  <2> QED BY <1>0, <1>2, <2>2, <2>3, <2>4, <2>5
<1>3. CASE ~(Len(q) < Capacity) /\ Policy # "DropOldest"
  BY <1>0, <1>3 DEF Push
<1> QED BY <1>1, <1>2, <1>3

-----------------------------------------------------------------------------
(* Types and the claim, under every policy. *)

LEMMA ClaimInvInit == Init => ClaimInv
<1> SUFFICES ASSUME Init PROVE ClaimInv
  OBVIOUS
<1>1. TypeOK
  <2>1. queue \in Seq(Messages) /\ Len(queue) <= Capacity /\ received \in Seq(Ids)
    BY QueueAssumption, EmptySeq DEF Init
  <2>2. pc \in [Tasks -> Places] /\ inflight \in [Tasks -> Messages \cup {NoMessage}]
    BY DEF Init, Places
  <2>3. made \in 0..MaxMessages /\ failures \in 0..MaxFailures
        /\ tries \in [Ids -> Nat]
    BY QueueAssumption DEF Init
  <2> QED BY <2>1, <2>2, <2>3 DEF Init, TypeOK
<1> QED BY <1>1 DEF Init, ClaimInv, OneFlush, PeekedIsReport, Holds, AtFront

LEMMA ClaimInvStep == ClaimInv /\ [Next]_vars => ClaimInv'
<1> SUFFICES ASSUME ClaimInv, [Next]_vars
             PROVE  ClaimInv'
  OBVIOUS
<1> USE DEF ClaimInv, OneFlush, PeekedIsReport, Holds, AtFront, Goto, Places
<1>0. Forwarder \in Tasks /\ Flushers \subseteq Tasks
  BY DEF Tasks
<1>1. CASE Receive
  <2>1. [id |-> made + 1, offline |-> FALSE] \in Messages
    BY <1>1, QueueAssumption DEF Receive, TypeOK, Messages, Ids
  <2> DEFINE p == Push(queue, [id |-> made + 1, offline |-> FALSE])
  <2>2. /\ p.queue \in Seq(Messages) /\ Len(p.queue) <= Capacity
        /\ p.dropped \subseteq Ids
    BY <2>1, PushType DEF TypeOK
  <2>3. queue' = p.queue /\ lost' = lost \cup p.dropped
    BY <1>1 DEF Receive
  <2> HIDE DEF p
  <2>4. TypeOK'
    <3>1. made' \in 0..MaxMessages
      BY <1>1, QueueAssumption DEF Receive, TypeOK
    <3>2. pc' \in [Tasks -> Places]
      BY <1>0, <1>1 DEF Receive, TypeOK
    <3> QED BY <1>1, <2>2, <2>3, <3>1, <3>2 DEF Receive, TypeOK
  <2> QED BY <1>0, <1>1, <2>4 DEF Receive, TypeOK
<1>2. ASSUME NEW t \in Flushers, Trigger(t) PROVE ClaimInv'
  BY <1>0, <1>2 DEF Trigger, TypeOK, queueVars, historyVars
<1>3. ASSUME NEW t \in Tasks, Gate(t) PROVE ClaimInv'
  <2>1. queue' \in Seq(Messages) /\ Len(queue') <= Capacity
    BY <1>3, MarkingKeepsIds DEF Gate, TypeOK
  <2>2. TypeOK'
    BY <1>3, <2>1 DEF Gate, TypeOK, historyVars
  <2> QED BY <1>3, <2>2 DEF Gate, TypeOK
<1>4. ASSUME NEW t \in Tasks, Claim(t) PROVE ClaimInv'
  <2>1. TypeOK'
    BY <1>4 DEF Claim, TypeOK, historyVars
  <2> QED BY <1>4, <2>1 DEF Claim, TypeOK
<1>5. ASSUME NEW t \in Tasks, Peek(t) PROVE ClaimInv'
  <2>1. queue # <<>> => Head(queue) \in Messages
    BY FrontIsFirst DEF TypeOK
  <2>2. inflight' \in [Tasks -> Messages \cup {NoMessage}]
    BY <1>5, <2>1 DEF Peek, TypeOK
  <2>3. /\ pc' \in [Tasks -> Places] /\ pc[t] = "peek"
        /\ pc'[t] \in {"sending", "release"}
        /\ \A u \in Tasks : u # t => pc'[u] = pc[u] /\ inflight'[u] = inflight[u]
        /\ (pc'[t] = "sending" => inflight'[t] \in Messages)
    BY <1>5, <2>1 DEF Peek, TypeOK
  <2>4. UNCHANGED <<queueVars, accepted, historyVars>>
    BY <1>5 DEF Peek
  <2>5. TypeOK'
    BY <2>2, <2>3, <2>4 DEF TypeOK, queueVars, historyVars
  <2>6. OneFlush'
    BY <2>3, <2>4 DEF queueVars
  <2>7. PeekedIsReport'
    <3>1. ASSUME NEW u \in Tasks, pc'[u] \in {"sending", "delivered", "failed"}
          PROVE  inflight'[u] \in Messages
      <4>1. CASE u = t
        BY <2>3, <3>1, <4>1
      <4>2. CASE u # t
        BY <2>3, <3>1, <4>2
      <4> QED BY <4>1, <4>2
    <3> QED BY <3>1
  <2> QED BY <2>5, <2>6, <2>7
<1>6. ASSUME NEW t \in Tasks, Send(t) PROVE ClaimInv'
  <2>1. inflight[t].id \in Ids
    BY <1>6 DEF Send, SendOk, SendErr, Messages
  <2>2. Append(received, inflight[t].id) \in Seq(Ids)
    BY <2>1, AppendingKeepsAll DEF TypeOK
  <2>3. TypeOK'
    <3>1. CASE SendOk(t)
      BY <2>2, <3>1 DEF SendOk, TypeOK, queueVars
    <3>2. CASE SendErr(t)
      <4>1. failures' \in 0..MaxFailures
        BY <3>2, QueueAssumption DEF SendErr, TypeOK
      <4>2. received' \in Seq(Ids) /\ inDoubt' \subseteq Ids
        BY <2>1, <2>2, <3>2 DEF SendErr, TypeOK
      <4>3. pc' \in [Tasks -> Places]
        BY <3>2 DEF SendErr, TypeOK
      <4> QED BY <3>2, <4>1, <4>2, <4>3 DEF SendErr, TypeOK, queueVars
    <3> QED BY <1>6, <3>1, <3>2 DEF Send
  <2> QED BY <1>6, <2>3 DEF Send, SendOk, SendErr, TypeOK, queueVars
<1>7. ASSUME NEW t \in Tasks, Pop(t) PROVE ClaimInv'
  <2>1. queue' \in Seq(Messages) /\ Len(queue') <= Capacity
    <3>1. CASE queue = <<>>
      BY <1>7, <3>1 DEF Pop, PopFront, TypeOK
    <3>2. CASE queue # <<>>
      BY <1>7, <3>2, PoppingKeepsRest, FrontIsFirst, QueueAssumption DEF Pop, TypeOK
    <3> QED BY <3>1, <3>2
  <2>2. TypeOK'
    BY <1>7, <2>1 DEF Pop, TypeOK, historyVars
  <2> QED BY <1>7, <2>2 DEF Pop, TypeOK
<1>8. ASSUME NEW t \in Tasks, Retain(t) PROVE ClaimInv'
  <2> DEFINE held == MarkBacklogOffline(queue)
  <2>1. /\ held \in Seq(Messages) /\ Len(held) = Len(queue)
        /\ held = <<>> <=> queue = <<>>
    BY MarkingKeepsIds DEF TypeOK
  <2>2. PopFront(held) \in Seq(Messages) /\ Len(PopFront(held)) <= Capacity
    <3> HIDE DEF held
    <3>1. CASE held = <<>>
      BY <2>1, <3>1 DEF PopFront, TypeOK
    <3>2. CASE held # <<>>
      BY <2>1, <3>2, PoppingKeepsRest, FrontIsFirst, QueueAssumption DEF TypeOK
    <3> QED BY <3>1, <3>2
  <2>3. queue' \in {held, PopFront(held)}
    BY <1>8 DEF Retain
  <2>4. queue' \in Seq(Messages) /\ Len(queue') <= Capacity
    BY <2>1, <2>2, <2>3 DEF TypeOK
  <2>5. lost' \subseteq Ids
    <3>1. queue # <<>> => Head(queue).id \in Ids
      BY FrontIsFirst DEF TypeOK, Messages
    <3>2. lost' \in {lost, lost \cup {}, lost \cup {Head(queue).id}}
          /\ (lost' # lost => queue # <<>>)
      BY <1>8 DEF Retain
    <3> QED BY <3>1, <3>2 DEF TypeOK
  <2>6. attempts' \in Nat /\ tries' \in [Ids -> Nat]
    <3>1. attempts' \in {0, attempts + 1}
      BY <1>8 DEF Retain
    <3>2. tries' = [tries EXCEPT ![inflight[t].id] = @ + 1]
      BY <1>8 DEF Retain
    <3>3. attempts' \in Nat
      BY <3>1 DEF TypeOK
    <3>4. tries' \in [Ids -> Nat]
      <4>1. inflight[t].id \in Ids
        BY <1>8 DEF Retain, Messages
      <4> QED BY <3>2, <4>1 DEF TypeOK
    <3> QED BY <3>3, <3>4
  <2>7. /\ pc' \in [Tasks -> Places] /\ pc'[t] \in {"peek", "release"}
        /\ \A u \in Tasks : u # t => pc'[u] = pc[u]
    BY <1>8 DEF Retain, TypeOK
  <2>8. UNCHANGED <<flushing, accepted, inflight, made, received, inDoubt, failures>>
    BY <1>8 DEF Retain
  <2>9. TypeOK'
    BY <2>4, <2>5, <2>6, <2>7, <2>8 DEF TypeOK
  <2>10. pc[t] = "failed"
    BY <1>8 DEF Retain
  <2> HIDE DEF held
  <2> QED BY <2>7, <2>8, <2>9, <2>10
<1>9. ASSUME NEW t \in Tasks, Release(t) PROVE ClaimInv'
  <2>1. TypeOK'
    BY <1>9 DEF Release, TypeOK, historyVars
  <2> QED BY <1>9, <2>1 DEF Release, TypeOK
<1>10. CASE Accept \/ Withdraw
  <2>1. failures' \in 0..MaxFailures
    BY <1>10, QueueAssumption DEF Accept, Withdraw, TypeOK, historyVars
  <2>2. accepted' \in BOOLEAN
    BY <1>10 DEF Accept, Withdraw
  <2> QED BY <1>10, <2>1, <2>2
          DEF Accept, Withdraw, TypeOK, queueVars, historyVars
<1>11. CASE UNCHANGED vars
  BY <1>11 DEF vars, queueVars, historyVars, TypeOK
<1> QED BY <1>1, <1>2, <1>3, <1>4, <1>5, <1>6, <1>7, <1>8, <1>9, <1>10, <1>11
        DEF Next, Flush

\* Whatever the policy, the queue stays within its capacity and at most one
\* task is between try_begin_flush and end_flush at a time.
THEOREM QueueClaimIsExclusive == Spec => []ClaimInv
<1> QED BY ClaimInvInit, ClaimInvStep, PTL DEF Spec

-----------------------------------------------------------------------------
(* Order and bookkeeping, under "DropNewest". *)

\* Which steps leave the queue and the histories alone, and send nothing new.
Quiet ==
    /\ UNCHANGED <<queue, attempts, made, received, inDoubt, tries>>
    /\ \A t \in Tasks : AtFront(t)' =>
          pc'[t] = pc[t] /\ inflight'[t] = inflight[t]
    /\ \A t \in Tasks : pc[t] = "delivered" => pc'[t] = "delivered"

LEMMA QuietKeepsOrder == OrderInv /\ Quiet => OrderInv'
<1> SUFFICES ASSUME OrderInv, Quiet PROVE OrderInv'
  OBVIOUS
<1> USE DEF OrderInv, Quiet, AtFront
<1>1. SendsTheFront'
  BY DEF SendsTheFront
<1>2. InOrder' /\ UnmadeIsUntouched' /\ NoDuplicateDelivery'
  BY DEF InOrder, UnmadeIsUntouched, NoDuplicateDelivery
<1>3. QueuedIsOwed'
  BY DEF QueuedIsOwed, SomeDelivered
<1>4. DeliveredIsReceived'
  BY DEF DeliveredIsReceived
<1>5. OthersUntried' /\ AttemptsCountFront'
  BY DEF OthersUntried, AttemptsCountFront
<1>6. TriedIsMarked'
  BY DEF TriedIsMarked, RetriedIsMarked
<1> QED BY <1>1, <1>2, <1>3, <1>4, <1>5, <1>6

\* The actions that are quiet.
LEMMA QuietSteps ==
  ASSUME ClaimInv, NEW t \in Tasks,
         \/ Trigger(t) \/ Claim(t) \/ Release(t) \/ Accept \/ Withdraw
         \/ (Gate(t) /\ accepted)
  PROVE  Quiet
<1> USE DEF ClaimInv, TypeOK, Quiet, AtFront, Goto, queueVars, historyVars
<1>1. CASE Trigger(t) \/ Claim(t) \/ Release(t)
  BY <1>1 DEF Trigger, Claim, Release
<1>2. CASE Accept \/ Withdraw
  BY <1>2 DEF Accept, Withdraw
<1>3. CASE Gate(t) /\ accepted
  BY <1>3 DEF Gate
<1> QED BY <1>1, <1>2, <1>3

\* The front of the queue is what the flush sends, and there is one flush.
LEMMA TheFlush ==
  ASSUME ClaimInv, OrderInv, NEW t \in Tasks, AtFront(t)
  PROVE  /\ queue # <<>> /\ queue \in Seq(Messages) /\ Len(queue) \in Nat
         /\ Len(queue) >= 1 /\ Head(queue) = queue[1]
         /\ queue[1].id = inflight[t].id /\ inflight[t].id \in Ids
         /\ \A u \in Tasks : u # t => ~Holds(u) /\ ~AtFront(u) /\ pc[u] # "delivered"
<1>1. queue # <<>> /\ Head(queue).id = inflight[t].id /\ queue \in Seq(Messages)
  BY DEF OrderInv, SendsTheFront, AtFront, ClaimInv, TypeOK
<1>2. inflight[t].id \in Ids
  BY DEF ClaimInv, PeekedIsReport, Messages
<1>3. \A u \in Tasks : u # t => ~Holds(u)
  BY DEF ClaimInv, OneFlush, Holds, AtFront
<1> QED BY <1>1, <1>2, <1>3, FrontIsFirst DEF Holds, AtFront

\* push under "DropNewest": a full queue stays as it is, and the new report is
\* handed back.
LEMMA PushDropNewest ==
  ASSUME Policy = "DropNewest", NEW q \in Seq(Messages), NEW m \in Messages
  PROVE  \/ Push(q, m) = [queue |-> Append(q, m), dropped |-> {}]
         \/ Push(q, m) = [queue |-> q, dropped |-> {m.id}] /\ q # <<>>
<1>1. Capacity >= 1 /\ Capacity \in Nat
  BY QueueAssumption
<1>2. q = <<>> => Len(q) = 0
  BY EmptySeq
<1> QED BY <1>1, <1>2 DEF Push

\* A new report goes behind everything queued, and nobody knows it yet.
LEMMA ReceiveKeepsOrder ==
  ASSUME Policy = "DropNewest", ClaimInv, OrderInv, Receive
  PROVE  OrderInv'
<1> DEFINE m == [id |-> made + 1, offline |-> FALSE]
<1>0. /\ made \in Nat /\ made + 1 \in Ids /\ made + 1 <= MaxMessages
      /\ m \in Messages /\ m.id = made + 1
      /\ queue \in Seq(Messages) /\ Len(queue) \in Nat
      /\ \A i \in 1..Len(queue) : queue[i] \in Messages /\ queue[i].id \in Ids
      /\ received \in Seq(Ids) /\ Len(received) \in Nat
      /\ \A k \in 1..Len(received) : received[k] \in Nat /\ received[k] <= made
  <2>1. made \in Nat /\ made + 1 \in Ids
    BY QueueAssumption DEF Receive, ClaimInv, TypeOK, Ids
  <2>2. queue \in Seq(Messages) /\ received \in Seq(Ids)
    BY DEF ClaimInv, TypeOK
  <2>3. \A i \in 1..Len(queue) : queue[i] \in Messages /\ queue[i].id \in Ids
    <3>1. \A i \in 1..Len(queue) : queue[i] \in Messages
      BY <2>2, ElementOfSeq
    <3> QED BY <3>1 DEF Messages
  <2>4. \A k \in 1..Len(received) : received[k] \in Nat /\ received[k] <= made
    <3>1. \A k \in 1..Len(received) : received[k] \in Ids
      BY <2>2, ElementOfSeq
    <3> QED BY <3>1, QueueAssumption DEF OrderInv, UnmadeIsUntouched, Ids
  <2> QED BY <2>1, <2>2, <2>3, <2>4, LenProperties, QueueAssumption DEF Messages, Ids
<1>1. /\ UNCHANGED <<attempts, inflight, received, inDoubt, tries>>
      /\ made' = made + 1
      /\ \A t \in Tasks : pc'[t] \in {"sending", "delivered", "failed"} \/
                          pc[t] \in {"sending", "delivered", "failed"} =>
            pc'[t] = pc[t]
  <2>1. pc' = [pc EXCEPT ![Forwarder] = "gate"] /\ pc[Forwarder] = "idle"
    BY DEF Receive, Goto
  <2> QED BY <2>1 DEF Receive, ClaimInv, TypeOK
<1>2. \/ queue' = Append(queue, m)
      \/ queue' = queue /\ queue # <<>>
  <2>1. queue' = Push(queue, m).queue
    BY DEF Receive
  <2> HIDE DEF m
  <2> QED BY <1>0, <2>1, PushDropNewest
<1>3. /\ Len(queue) >= 1 => queue # <<>> /\ Head(queue) = queue[1]
      /\ queue # <<>> => Len(queue) >= 1 /\ Head(queue) = queue[1]
  BY <1>0, EmptySeq, FrontIsFirst
<1>4. /\ Len(queue') \in {Len(queue), Len(queue) + 1} /\ Len(queue') \in Nat
      /\ queue' # <<>> /\ Len(queue') >= 1 /\ Head(queue') = queue'[1]
      /\ \A i \in 1..Len(queue) : queue'[i] = queue[i]
      /\ Len(queue') = Len(queue) + 1 => queue'[Len(queue) + 1] = m
  <2>1. CASE queue' = Append(queue, m)
    <3>1. /\ Append(queue, m) \in Seq(Messages) /\ Append(queue, m) # <<>>
          /\ Len(Append(queue, m)) = Len(queue) + 1
          /\ \A i \in 1..Len(queue) : Append(queue, m)[i] = queue[i]
          /\ Append(queue, m)[Len(queue) + 1] = m
      BY <1>0, AppendingKeepsAll
    <3> HIDE DEF m
    <3>2. queue' \in Seq(Messages) /\ queue' # <<>>
      BY <2>1, <3>1
    <3>3. Head(queue') = queue'[1]
      BY <3>2, FrontIsFirst
    <3> QED BY <1>0, <2>1, <3>1, <3>2, <3>3
  <2>2. CASE queue' = queue /\ queue # <<>>
    BY <1>0, <1>3, <2>2
  <2> QED BY <1>2, <2>1, <2>2
<1> HIDE DEF m
<1>5. SendsTheFront'
  BY <1>0, <1>1, <1>3, <1>4 DEF OrderInv, SendsTheFront
<1>6. InOrder'
  <2>1. \A i \in 1..Len(queue') : i \in 1..Len(queue) \/ (queue'[i] = m /\ i = Len(queue) + 1)
    BY <1>0, <1>4
  <2>2. \A i \in 1..Len(queue) : queue[i].id \in Nat /\ queue[i].id <= made
    BY <1>0, QueueAssumption DEF OrderInv, InOrder, Ids
  <2>3. \A i \in 1..Len(queue') : queue'[i].id <= made'
    BY <1>0, <1>1, <1>4, <2>1, <2>2
  <2>4. ASSUME NEW i \in 1..Len(queue'), NEW j \in 1..Len(queue'), i < j
        PROVE  queue'[i].id < queue'[j].id
    <3>1. i \in 1..Len(queue)
      BY <1>0, <1>4, <2>1, <2>4
    <3>2. CASE j \in 1..Len(queue)
      BY <1>4, <2>4, <3>1, <3>2 DEF OrderInv, InOrder
    <3>3. CASE queue'[j] = m
      BY <1>0, <1>4, <2>2, <3>1, <3>3
    <3> QED BY <2>1, <3>2, <3>3
  <2> QED BY <2>3, <2>4 DEF InOrder
<1>7. UnmadeIsUntouched'
  <2>1. \A k \in 1..Len(received) : received[k] <= made + 1
    BY <1>0
  <2>2. \A i \in Ids : i > made + 1 => tries[i] = 0
    BY <1>0, QueueAssumption DEF OrderInv, UnmadeIsUntouched, Ids
  <2> QED BY <1>1, <2>1, <2>2 DEF UnmadeIsUntouched
<1>8. QueuedIsOwed'
  <2> SUFFICES ASSUME NEW i \in 1..Len(queue'), NEW k \in 1..Len(received),
                      received[k] = queue'[i].id
               PROVE  received[k] \in inDoubt \/ (i = 1 /\ SomeDelivered')
    BY <1>1 DEF QueuedIsOwed
  <2>1. SomeDelivered => SomeDelivered'
    BY <1>1 DEF SomeDelivered
  <2>2. received[k] <= made /\ received[k] \in Nat
    BY <1>0
  <2>3. i \in 1..Len(queue)
    BY <1>0, <1>4, <2>2
  <2> QED BY <1>4, <2>1, <2>3 DEF OrderInv, QueuedIsOwed
<1>9. DeliveredIsReceived' /\ NoDuplicateDelivery'
  BY <1>1 DEF OrderInv, DeliveredIsReceived, NoDuplicateDelivery
<1>10. OthersUntried'
  <2>1. \A i \in 2..Len(queue') : i \in 2..Len(queue) \/ (queue'[i] = m /\ i = Len(queue) + 1)
    BY <1>0, <1>4
  <2>2. tries[m.id] = 0
    BY <1>0 DEF OrderInv, UnmadeIsUntouched
  <2> QED BY <1>0, <1>1, <1>4, <2>1, <2>2 DEF OrderInv, OthersUntried
<1>11. AttemptsCountFront'
  <2>1. CASE queue = <<>>
    <3>1. queue'[1] = m
      BY <1>0, <1>2, <1>4, <2>1, EmptySeq
    <3>2. tries[m.id] = 0 /\ attempts = 0
      BY <1>0, <2>1 DEF OrderInv, UnmadeIsUntouched, OthersUntried
    <3> QED BY <1>1, <1>4, <3>1, <3>2 DEF AttemptsCountFront
  <2>2. CASE queue # <<>>
    BY <1>0, <1>1, <1>3, <1>4, <2>2 DEF OrderInv, AttemptsCountFront
  <2> QED BY <2>1, <2>2
<1>12. TriedIsMarked'
  <2>1. \A i \in 1..Len(queue') : i \in 1..Len(queue) \/ queue'[i] = m
    BY <1>0, <1>4
  <2>2. tries[m.id] = 0
    BY <1>0 DEF OrderInv, UnmadeIsUntouched
  <2> QED BY <1>1, <1>4, <2>1, <2>2 DEF OrderInv, TriedIsMarked, RetriedIsMarked
<1> QED BY <1>5, <1>6, <1>7, <1>8, <1>9, <1>10, <1>11, <1>12 DEF OrderInv

\* Holding a backlog back changes only what it says about itself.
LEMMA GateKeepsOrder ==
  ASSUME ClaimInv, OrderInv, NEW t \in Tasks, Gate(t), ~accepted
  PROVE  OrderInv'
<1>1. /\ queue' = MarkBacklogOffline(queue)
      /\ UNCHANGED <<attempts, inflight, made, received, inDoubt, tries>>
      /\ \A u \in Tasks : pc'[u] \in {"sending", "delivered", "failed"} \/
                          pc[u] \in {"sending", "delivered", "failed"} =>
            pc'[u] = pc[u]
  BY DEF Gate, Goto, historyVars, ClaimInv, TypeOK
<1>2. /\ queue \in Seq(Messages) /\ queue' \in Seq(Messages)
      /\ Len(queue') = Len(queue) /\ (queue' = <<>> <=> queue = <<>>)
      /\ \A i \in 1..Len(queue) : /\ queue'[i].id = queue[i].id
                                  /\ queue[i].offline => queue'[i].offline
  BY <1>1, MarkingKeepsIds DEF ClaimInv, TypeOK
<1>3. queue # <<>> => Head(queue).id = queue[1].id /\ Head(queue').id = queue[1].id
  BY <1>2, FrontIsFirst
<1>4. SendsTheFront'
  BY <1>1, <1>2, <1>3 DEF OrderInv, SendsTheFront
<1>5. InOrder' /\ UnmadeIsUntouched'
  BY <1>1, <1>2 DEF OrderInv, InOrder, UnmadeIsUntouched
<1>6. QueuedIsOwed'
  BY <1>1, <1>2 DEF OrderInv, QueuedIsOwed, SomeDelivered
<1>7. DeliveredIsReceived' /\ NoDuplicateDelivery'
  BY <1>1 DEF OrderInv, DeliveredIsReceived, NoDuplicateDelivery
<1>8. OthersUntried'
  <2>1. Len(queue) \in Nat
    BY <1>2, LenProperties
  <2> QED BY <1>1, <1>2, <2>1 DEF OrderInv, OthersUntried
<1>9. AttemptsCountFront'
  BY <1>1, <1>2, <1>3 DEF OrderInv, AttemptsCountFront
<1>10. TriedIsMarked'
  BY <1>1, <1>2 DEF OrderInv, TriedIsMarked, RetriedIsMarked
<1> QED BY <1>4, <1>5, <1>6, <1>7, <1>8, <1>9, <1>10 DEF OrderInv

\* Peeking at the front, by the task that holds the claim.
LEMMA PeekKeepsOrder ==
  ASSUME ClaimInv, OrderInv, NEW t \in Tasks, Peek(t)
  PROVE  OrderInv'
<1>1. /\ UNCHANGED <<queue, attempts, made, received, inDoubt, tries>>
      /\ pc[t] = "peek" /\ pc'[t] \in {"sending", "release"}
      /\ pc'[t] = "sending" =>
            queue # <<>> /\ inflight'[t] = Head(queue)
      /\ \A u \in Tasks : u # t => pc'[u] = pc[u] /\ inflight'[u] = inflight[u]
  BY DEF Peek, Goto, ClaimInv, TypeOK, queueVars, historyVars
<1>2. queue # <<>> => Head(queue) = queue[1] /\ Len(queue) >= 1 /\ Len(queue) \in Nat
  BY FrontIsFirst DEF ClaimInv, TypeOK
<1>3. SendsTheFront'
  <2> SUFFICES ASSUME NEW u \in Tasks, pc'[u] \in {"sending", "delivered", "failed"}
               PROVE  queue' # <<>> /\ Head(queue').id = inflight'[u].id
    BY DEF SendsTheFront
  <2>1. CASE u = t
    BY <1>1, <2>1
  <2>2. CASE u # t
    BY <1>1, <2>2 DEF OrderInv, SendsTheFront
  <2> QED BY <2>1, <2>2
<1>4. InOrder' /\ UnmadeIsUntouched' /\ NoDuplicateDelivery'
  BY <1>1 DEF OrderInv, InOrder, UnmadeIsUntouched, NoDuplicateDelivery
<1>5. QueuedIsOwed'
  <2>1. SomeDelivered => SomeDelivered'
    BY <1>1 DEF SomeDelivered
  <2> QED BY <1>1, <2>1 DEF OrderInv, QueuedIsOwed
<1>6. DeliveredIsReceived'
  BY <1>1 DEF OrderInv, DeliveredIsReceived
<1>7. OthersUntried' /\ AttemptsCountFront'
  BY <1>1 DEF OrderInv, OthersUntried, AttemptsCountFront
<1>8. TriedIsMarked'
  <2> SUFFICES ASSUME MarksOffline, NEW u \in Tasks, pc'[u] = "sending",
                      tries[inflight'[u].id] > 0
               PROVE  inflight'[u].offline
    BY <1>1 DEF OrderInv, TriedIsMarked, RetriedIsMarked
  <2>1. CASE u = t
    BY <1>1, <1>2, <2>1 DEF OrderInv, TriedIsMarked
  <2>2. CASE u # t
    BY <1>1, <2>2 DEF OrderInv, TriedIsMarked, RetriedIsMarked
  <2> QED BY <2>1, <2>2
<1> QED BY <1>3, <1>4, <1>5, <1>6, <1>7, <1>8 DEF OrderInv

\* What the CSMS received, after one more report.
LEMMA OneMoreReceived ==
  ASSUME ClaimInv, NEW m \in Ids
  PROVE  LET r == Append(received, m)
         IN /\ Len(received) \in Nat /\ Len(r) = Len(received) + 1
            /\ \A k \in 1..Len(r) : \/ k \in 1..Len(received) /\ r[k] = received[k]
                                    \/ k = Len(received) + 1 /\ r[k] = m
            /\ \A k \in 1..Len(received) : k \in 1..Len(r) /\ r[k] = received[k]
            /\ \E k \in 1..Len(r) : r[k] = m
<1>1. received \in Seq(Ids) /\ Len(received) \in Nat
  BY LenProperties DEF ClaimInv, TypeOK
<1>2. /\ Len(Append(received, m)) = Len(received) + 1
      /\ \A i \in 1..Len(received) : Append(received, m)[i] = received[i]
      /\ Append(received, m)[Len(received) + 1] = m
  BY <1>1, AppendingKeepsAll
<1> QED BY <1>1, <1>2

\* A delivery, whether or not its reply arrives.
LEMMA SendKeepsOrder ==
  ASSUME ClaimInv, OrderInv, NEW t \in Tasks, Send(t)
  PROVE  OrderInv'
<1> DEFINE m == inflight[t].id
<1>0. pc[t] = "sending" /\ AtFront(t)
  BY DEF Send, SendOk, SendErr, AtFront
<1>1. /\ queue # <<>> /\ Len(queue) \in Nat /\ Len(queue) >= 1
      /\ Head(queue) = queue[1] /\ queue[1].id = m /\ m \in Ids
      /\ \A u \in Tasks : u # t => ~AtFront(u) /\ pc[u] # "delivered"
  BY <1>0, TheFlush
<1>2. /\ UNCHANGED <<queue, attempts, inflight, made, tries>>
      /\ pc'[t] \in {"delivered", "failed"}
      /\ \A u \in Tasks : u # t => pc'[u] = pc[u]
      /\ \/ received' = Append(received, m) /\ inDoubt' = inDoubt /\ pc'[t] = "delivered"
         \/ received' = Append(received, m) /\ inDoubt' = inDoubt \cup {m}
            /\ pc'[t] = "failed"
         \/ received' = received /\ inDoubt' = inDoubt /\ pc'[t] = "failed"
  BY DEF Send, SendOk, SendErr, Goto, ClaimInv, TypeOK, queueVars
<1>3. /\ Len(received) \in Nat
      /\ \A k \in 1..Len(received') :
            \/ k \in 1..Len(received) /\ received'[k] = received[k]
            \/ /\ k = Len(received) + 1 /\ received'[k] = m
               /\ m \in inDoubt' \/ pc'[t] = "delivered"
      /\ pc'[t] = "delivered" => \E k \in 1..Len(received') : received'[k] = m
      /\ inDoubt \subseteq inDoubt'
  <2>1. Len(received) \in Nat
    BY <1>1, OneMoreReceived
  <2>2. CASE received' = received
    BY <1>2, <2>1, <2>2
  <2>3. CASE received' = Append(received, m)
    <3> HIDE DEF m
    <3> QED BY <1>1, <1>2, <2>3, OneMoreReceived
  <2> QED BY <1>2, <2>2, <2>3
\* Before this send, the front report was received only in doubt.
<1>4. \A k \in 1..Len(received) : received[k] = m => m \in inDoubt
  BY <1>0, <1>1 DEF OrderInv, QueuedIsOwed, SomeDelivered
<1> HIDE DEF m
<1>5. SendsTheFront'
  <2> SUFFICES ASSUME NEW u \in Tasks, pc'[u] \in {"sending", "delivered", "failed"}
               PROVE  queue' # <<>> /\ Head(queue').id = inflight'[u].id
    BY DEF SendsTheFront
  <2>1. u = t
    BY <1>1, <1>2 DEF AtFront
  <2> QED BY <1>1, <1>2, <2>1 DEF m
<1>6. InOrder'
  BY <1>2 DEF OrderInv, InOrder
<1>7. UnmadeIsUntouched'
  <2>1. m <= made
    BY <1>1 DEF OrderInv, InOrder
  <2> QED BY <1>2, <1>3, <2>1 DEF OrderInv, UnmadeIsUntouched
<1>8. QueuedIsOwed'
  <2> SUFFICES ASSUME NEW i \in 1..Len(queue), NEW k \in 1..Len(received'),
                      received'[k] = queue[i].id
               PROVE  received'[k] \in inDoubt' \/ (i = 1 /\ SomeDelivered')
    BY <1>2 DEF QueuedIsOwed
  <2>1. pc'[t] = "delivered" => SomeDelivered'
    BY DEF SomeDelivered
  <2>2. CASE k \in 1..Len(received) /\ received'[k] = received[k]
    <3>1. ~SomeDelivered
      BY <1>0, <1>1 DEF SomeDelivered
    <3>2. received[k] \in inDoubt
      BY <2>2, <3>1 DEF OrderInv, QueuedIsOwed
    <3> QED BY <1>3, <2>2, <3>2
  <2>3. CASE k = Len(received) + 1 /\ received'[k] = m
    <3>1. i = 1
      <4>1. i # 1 => queue[1].id < queue[i].id
        BY <1>1 DEF OrderInv, InOrder
      <4>2. queue[1].id = queue[i].id /\ queue[1].id \in Nat
        BY <1>1, <2>3, QueueAssumption DEF Ids
      <4> QED BY <4>1, <4>2
    <3> QED BY <1>3, <2>1, <2>3, <3>1
  <2> QED BY <1>3, <2>2, <2>3
<1>9. DeliveredIsReceived'
  <2> SUFFICES ASSUME NEW u \in Tasks, pc'[u] = "delivered"
               PROVE  \E k \in 1..Len(received') : received'[k] = inflight'[u].id
    BY DEF DeliveredIsReceived
  <2>1. u = t
    BY <1>1, <1>2
  <2> QED BY <1>2, <1>3, <2>1 DEF m
<1>10. NoDuplicateDelivery'
  <2> SUFFICES ASSUME NEW i \in 1..Len(received'), NEW j \in 1..Len(received'),
                      i # j, received'[i] = received'[j]
               PROVE  received'[i] \in inDoubt'
    BY DEF NoDuplicateDelivery
  <2>1. CASE i \in 1..Len(received) /\ j \in 1..Len(received)
    <3>1. received'[i] = received[i] /\ received'[j] = received[j]
      BY <1>3, <2>1
    <3> QED BY <1>3, <2>1, <3>1 DEF OrderInv, NoDuplicateDelivery
  <2>2. CASE i \notin 1..Len(received) \/ j \notin 1..Len(received)
    <3>1. \E k \in 1..Len(received) : received[k] = m /\ received'[i] = m
      BY <1>3, <2>2
    <3> QED BY <1>3, <1>4, <3>1
  <2> QED BY <2>1, <2>2
<1>11. OthersUntried' /\ AttemptsCountFront'
  BY <1>2 DEF OrderInv, OthersUntried, AttemptsCountFront
<1>12. TriedIsMarked'
  <2>1. \A u \in Tasks : pc'[u] # "sending"
    BY <1>1, <1>2 DEF AtFront
  <2> QED BY <1>2, <2>1 DEF OrderInv, TriedIsMarked, RetriedIsMarked
<1> QED BY <1>5, <1>6, <1>7, <1>8, <1>9, <1>10, <1>11, <1>12 DEF OrderInv

\* The front report leaves the queue q, which is the backlog, perhaps marked.
LEMMA PoppedKeepsOrder ==
  ASSUME ClaimInv, OrderInv, NEW q \in Seq(Messages), q # <<>>,
         Len(q) = Len(queue),
         \A i \in 1..Len(queue) : q[i].id = queue[i].id
                                  /\ (queue[i].offline => q[i].offline),
         queue' = PopFront(q), attempts' = 0,
         UNCHANGED <<made, received, inDoubt>>,
         NEW x \in Ids, x = queue[1].id,
         \A m \in Ids : m # x => tries'[m] = tries[m],
         \A u \in Tasks : pc'[u] \notin {"sending", "delivered", "failed"}
  PROVE  OrderInv'
<1>1. /\ Len(queue) \in Nat /\ Len(queue) >= 1
      /\ Len(queue') = Len(queue) - 1 /\ queue' \in Seq(Messages)
      /\ \A i \in 1..Len(queue') : i + 1 \in 1..Len(queue) /\ i + 1 >= 2
                                   /\ queue'[i] = q[i + 1]
  BY PoppingKeepsRest, FrontIsFirst
<1>2. /\ \A i \in 1..Len(queue) : queue[i].id \in Ids /\ queue[i].id \in Nat
      /\ \A i \in 2..Len(queue) : queue[i].id # x
  <2>1. \A i \in 1..Len(queue) : queue[i] \in Messages
    BY ElementOfSeq DEF ClaimInv, TypeOK
  <2>2. \A i \in 1..Len(queue) : queue[i].id \in Ids /\ queue[i].id \in Nat
    BY <2>1, QueueAssumption DEF Messages, Ids
  <2>3. \A i \in 2..Len(queue) : queue[1].id < queue[i].id
    BY <1>1 DEF OrderInv, InOrder
  <2>4. ASSUME NEW i \in 2..Len(queue) PROVE queue[i].id # x
    <3>1. /\ 1 \in 1..Len(queue) /\ i \in 1..Len(queue)
          /\ queue[1].id < queue[i].id
      BY <1>1, <2>3
    <3> QED BY <2>2, <3>1
  <2> QED BY <2>2, <2>4
<1>3. \A i \in 1..Len(queue') : queue'[i].id = queue[i + 1].id
                                 /\ (queue[i + 1].offline => queue'[i].offline)
  BY <1>1
<1>4. SendsTheFront' /\ DeliveredIsReceived'
  BY DEF SendsTheFront, DeliveredIsReceived
<1>5. InOrder'
  BY <1>1, <1>3 DEF OrderInv, InOrder
<1>6. UnmadeIsUntouched'
  <2>1. x <= made
    BY <1>1 DEF OrderInv, InOrder
  <2>2. x \in Nat /\ made \in Nat
    BY QueueAssumption DEF ClaimInv, TypeOK, Ids
  <2> QED BY <2>1, <2>2 DEF OrderInv, UnmadeIsUntouched
<1>7. QueuedIsOwed'
  BY <1>1, <1>2, <1>3 DEF OrderInv, QueuedIsOwed
<1>8. NoDuplicateDelivery'
  BY DEF OrderInv, NoDuplicateDelivery
<1>9. \A i \in 1..Len(queue') : tries'[queue'[i].id] = 0
  BY <1>1, <1>2, <1>3 DEF OrderInv, OthersUntried
<1>10. OthersUntried'
  BY <1>1, <1>9 DEF OthersUntried
<1>11. AttemptsCountFront'
  BY <1>1, <1>9, FrontIsFirst DEF AttemptsCountFront
<1>12. TriedIsMarked'
  BY <1>9 DEF TriedIsMarked, RetriedIsMarked
<1> QED BY <1>4, <1>5, <1>6, <1>7, <1>8, <1>10, <1>11, <1>12 DEF OrderInv

\* A delivered report leaves the queue: it was received.
LEMMA PopKeepsOrder ==
  ASSUME ClaimInv, OrderInv, NEW t \in Tasks, Pop(t)
  PROVE  OrderInv'
<1>0. pc[t] = "delivered" /\ AtFront(t)
  BY DEF Pop, AtFront
<1>1. /\ queue # <<>> /\ queue \in Seq(Messages)
      /\ queue[1].id = inflight[t].id /\ inflight[t].id \in Ids
      /\ \A u \in Tasks : u # t => ~AtFront(u)
  BY <1>0, TheFlush
<1>2. /\ queue' = PopFront(queue) /\ attempts' = 0
      /\ UNCHANGED <<made, received, inDoubt, tries>>
      /\ \A u \in Tasks : pc'[u] \notin {"sending", "delivered", "failed"}
  BY <1>1 DEF Pop, Goto, ClaimInv, TypeOK, historyVars, AtFront
<1> QED BY <1>1, <1>2, PoppedKeepsOrder

\* A failed send: the backlog is held and marked, or its front given up on.
LEMMA RetainKeepsOrder ==
  ASSUME ClaimInv, OrderInv, NEW t \in Tasks, Retain(t)
  PROVE  OrderInv'
<1> DEFINE x == inflight[t].id
           held == MarkBacklogOffline(queue)
<1>0. pc[t] = "failed" /\ AtFront(t)
  BY DEF Retain, AtFront
<1>1. /\ queue # <<>> /\ queue \in Seq(Messages) /\ Len(queue) \in Nat
      /\ Len(queue) >= 1 /\ Head(queue) = queue[1]
      /\ queue[1].id = x /\ x \in Ids
      /\ \A u \in Tasks : u # t => ~AtFront(u)
  BY <1>0, TheFlush
<1>2. /\ held \in Seq(Messages) /\ Len(held) = Len(queue) /\ held # <<>>
      /\ \A i \in 1..Len(queue) : /\ held[i].id = queue[i].id
                                  /\ queue[i].offline => held[i].offline
                                  /\ MarksOffline => held[i].offline
  BY <1>1, MarkingKeepsIds
<1>3. /\ UNCHANGED <<made, received, inDoubt>>
      /\ \A u \in Tasks : pc'[u] \notin {"sending", "delivered", "failed"}
  BY <1>1 DEF Retain, Goto, ClaimInv, TypeOK, AtFront
<1>4. /\ tries'[x] = tries[x] + 1
      /\ \A m \in Ids : m # x => tries'[m] = tries[m]
  BY <1>1 DEF Retain, ClaimInv, TypeOK
<1>5. \/ queue' = PopFront(held) /\ attempts' = 0
      \/ queue' = held /\ attempts' = attempts + 1
  BY DEF Retain
<1> HIDE DEF x, held
<1>6. CASE queue' = PopFront(held) /\ attempts' = 0
  BY <1>1, <1>2, <1>3, <1>4, <1>6, PoppedKeepsOrder
<1>7. CASE queue' = held /\ attempts' = attempts + 1
  <2>1. \A i \in 1..Len(queue) : queue[i].id \in Ids /\ queue[i].id \in Nat
    <3>1. \A i \in 1..Len(queue) : queue[i] \in Messages
      BY <1>1, ElementOfSeq
    <3> QED BY <3>1, QueueAssumption DEF Messages, Ids
  <2>2. ASSUME NEW i \in 2..Len(queue) PROVE queue[i].id # x
    <3>1. /\ 1 \in 1..Len(queue) /\ i \in 1..Len(queue)
          /\ queue[1].id < queue[i].id
      BY <1>1 DEF OrderInv, InOrder
    <3> QED BY <1>1, <2>1, <3>1
  <2>3. SendsTheFront' /\ DeliveredIsReceived'
    BY <1>3 DEF SendsTheFront, DeliveredIsReceived
  <2>4. InOrder'
    BY <1>2, <1>3, <1>7 DEF OrderInv, InOrder
  <2>5. UnmadeIsUntouched'
    <3>1. x <= made
      BY <1>1 DEF OrderInv, InOrder
    <3>2. x \in Nat /\ made \in Nat
      BY <1>1, QueueAssumption DEF ClaimInv, TypeOK, Ids
    <3>3. \A m \in Ids : m > made => m # x
      BY <3>1, <3>2, QueueAssumption DEF Ids
    <3> QED BY <1>3, <1>4, <3>3 DEF OrderInv, UnmadeIsUntouched
  <2>6. QueuedIsOwed'
    <3>1. ~SomeDelivered
      BY <1>0, <1>1 DEF SomeDelivered, AtFront
    <3> QED BY <1>2, <1>3, <1>7, <3>1 DEF OrderInv, QueuedIsOwed
  <2>7. NoDuplicateDelivery'
    BY <1>3 DEF OrderInv, NoDuplicateDelivery
  <2>8. OthersUntried'
    BY <1>1, <1>2, <1>4, <1>7, <2>1, <2>2 DEF OrderInv, OthersUntried
  <2>9. AttemptsCountFront'
    <3>1. Head(held) = held[1]
      BY <1>2, FrontIsFirst
    <3>2. attempts = tries[x]
      BY <1>1 DEF OrderInv, AttemptsCountFront
    <3> QED BY <1>1, <1>2, <1>4, <1>7, <3>1, <3>2 DEF AttemptsCountFront
  <2>10. TriedIsMarked'
    BY <1>2, <1>3, <1>7 DEF TriedIsMarked, RetriedIsMarked
  <2> QED BY <2>3, <2>4, <2>5, <2>6, <2>7, <2>8, <2>9, <2>10 DEF OrderInv
<1> QED BY <1>5, <1>6, <1>7

LEMMA OrderInvInit == Init => OrderInv
<1> SUFFICES ASSUME Init PROVE OrderInv
  OBVIOUS
<1>1. Len(queue) = 0 /\ Len(received) = 0 /\ queue = <<>> /\ attempts = 0
  BY EmptySeq DEF Init
<1>2. \A t \in Tasks : pc[t] = "idle"
  BY DEF Init
<1>3. \A m \in Ids : tries[m] = 0
  BY DEF Init
<1>4. SendsTheFront /\ InOrder /\ UnmadeIsUntouched
  BY <1>1, <1>2, <1>3 DEF SendsTheFront, InOrder, UnmadeIsUntouched
<1>5. QueuedIsOwed /\ DeliveredIsReceived /\ NoDuplicateDelivery
  BY <1>1, <1>2 DEF QueuedIsOwed, DeliveredIsReceived, NoDuplicateDelivery
<1>6. OthersUntried /\ AttemptsCountFront /\ TriedIsMarked
  BY <1>1, <1>2 DEF OthersUntried, AttemptsCountFront, TriedIsMarked, RetriedIsMarked
<1> QED BY <1>4, <1>5, <1>6 DEF OrderInv

LEMMA OrderInvStep ==
  ASSUME Policy = "DropNewest", ClaimInv, OrderInv, [Next]_vars
  PROVE  OrderInv'
<1>1. CASE Receive
  BY <1>1, ReceiveKeepsOrder
<1>2. ASSUME NEW t \in Flushers, Trigger(t) PROVE OrderInv'
  BY <1>2, QuietSteps, QuietKeepsOrder DEF Tasks
<1>3. ASSUME NEW t \in Tasks, Gate(t) PROVE OrderInv'
  BY <1>3, QuietSteps, QuietKeepsOrder, GateKeepsOrder
<1>4. ASSUME NEW t \in Tasks, Claim(t) \/ Release(t) PROVE OrderInv'
  BY <1>4, QuietSteps, QuietKeepsOrder
<1>5. ASSUME NEW t \in Tasks, Peek(t) PROVE OrderInv'
  BY <1>5, PeekKeepsOrder
<1>6. ASSUME NEW t \in Tasks, Send(t) PROVE OrderInv'
  BY <1>6, SendKeepsOrder
<1>7. ASSUME NEW t \in Tasks, Pop(t) PROVE OrderInv'
  BY <1>7, PopKeepsOrder
<1>8. ASSUME NEW t \in Tasks, Retain(t) PROVE OrderInv'
  BY <1>8, RetainKeepsOrder
<1>9. CASE Accept \/ Withdraw
  <2>1. Forwarder \in Tasks
    BY DEF Tasks
  <2> QED BY <1>9, <2>1, QuietSteps, QuietKeepsOrder
<1>10. CASE UNCHANGED vars
  <2>1. Quiet
    BY <1>10 DEF vars, queueVars, historyVars, Quiet
  <2> QED BY <2>1, QuietKeepsOrder
<1> QED BY <1>1, <1>2, <1>3, <1>4, <1>5, <1>6, <1>7, <1>8, <1>9, <1>10
        DEF Next, Flush

\* Under "DropNewest" the queue, the claim and the count of attempts always
\* agree on the front report.
THEOREM QueueInvariant ==
  ASSUME Policy = "DropNewest"
  PROVE  Spec => [](ClaimInv /\ OrderInv)
<1>1. Init => ClaimInv /\ OrderInv
  BY ClaimInvInit, OrderInvInit
<1>2. ClaimInv /\ OrderInv /\ [Next]_vars => (ClaimInv /\ OrderInv)'
  BY ClaimInvStep, OrderInvStep
<1> QED BY <1>1, <1>2, PTL DEF Spec

\* A queue that hands back the newest report and marks its backlog sends in
\* order: only the front, twice only in doubt, with its own count of attempts,
\* and marked when it is retried (flush_offline_queue, from every task).
THEOREM QueueSendsAreOrderly ==
  ASSUME Policy = "DropNewest", MarksOffline
  PROVE  Spec => []SendsAreOrderly
<1>1. ClaimInv /\ OrderInv => SendsAreOrderly
  BY DEF ClaimInv, OrderInv, TriedIsMarked, SendsAreOrderly
<1> QED BY <1>1, QueueInvariant, PTL

-----------------------------------------------------------------------------
(* Nothing is lost in silence. *)

\* A queue that only had ids appended or kept, or its front accounted for,
\* still answers for every report made.
LEMMA NoSilentLossStep ==
  ASSUME Policy = "DropNewest", ClaimInv, OrderInv, NoSilentLoss, [Next]_vars
  PROVE  NoSilentLoss'
<1> DEFINE Known == IdsOf(queue) \cup lost \cup {received[i] : i \in 1..Len(received)}
<1>0. /\ queue \in Seq(Messages) /\ Len(queue) \in Nat /\ made \in Nat
      /\ Len(received) \in Nat /\ received \in Seq(Ids)
  BY LenProperties, QueueAssumption DEF ClaimInv, TypeOK
<1>1. SUFFICES ASSUME NEW x \in 1..made', x \in 1..made => x \in Known
               PROVE  x \in Known'
  BY DEF NoSilentLoss
<1>2. ASSUME UNCHANGED <<made, received, lost>>,
             Len(queue') = Len(queue),
             \A i \in 1..Len(queue) : queue'[i].id = queue[i].id
      PROVE  x \in Known'
  BY <1>1, <1>2 DEF IdsOf
<1>3. CASE Receive
  <2> DEFINE m == [id |-> made + 1, offline |-> FALSE]
  <2>1. /\ made' = made + 1 /\ received' = received
        /\ queue' = Push(queue, m).queue /\ lost' = lost \cup Push(queue, m).dropped
    BY <1>3 DEF Receive
  <2>2. m \in Messages /\ m.id = made + 1
    BY <1>0, <1>3, QueueAssumption DEF Receive, Messages, Ids
  <2> HIDE DEF m
  <2>3. CASE queue' = Append(queue, m) /\ lost' = lost
    <3>1. /\ Len(queue') = Len(queue) + 1
          /\ \A i \in 1..Len(queue) : queue'[i] = queue[i]
          /\ queue'[Len(queue) + 1] = m
      BY <1>0, <2>2, <2>3, AppendingKeepsAll
    <3>2. CASE x = made + 1
      <4>1. Len(queue) + 1 \in 1..Len(queue')
        BY <1>0, <3>1
      <4> QED BY <2>2, <3>1, <3>2, <4>1 DEF IdsOf
    <3>3. CASE x \in 1..made
      <4>1. \A i \in 1..Len(queue) : i \in 1..Len(queue')
        BY <1>0, <3>1
      <4> QED BY <1>1, <2>1, <2>3, <3>1, <3>3, <4>1 DEF IdsOf
    <3> QED BY <1>0, <2>1, <3>2, <3>3
  <2>4. CASE queue' = queue /\ lost' = lost \cup {made + 1}
    <3>1. x \in 1..made \/ x = made + 1
      BY <1>0, <2>1
    <3> QED BY <1>1, <2>1, <2>4, <3>1
  <2> QED BY <1>0, <2>1, <2>2, <2>3, <2>4, PushDropNewest
<1>4. ASSUME NEW t \in Tasks, Gate(t) PROVE x \in Known'
  <2>1. /\ Len(queue') = Len(queue)
        /\ \A i \in 1..Len(queue) : queue'[i].id = queue[i].id
    BY <1>0, <1>4, MarkingKeepsIds DEF Gate
  <2> QED BY <1>2, <1>4, <2>1 DEF Gate, historyVars
<1>5. ASSUME NEW t \in Tasks, Claim(t) \/ Release(t) \/ Peek(t) PROVE x \in Known'
  BY <1>1, <1>5 DEF Claim, Release, Peek, queueVars, historyVars
<1>6. ASSUME NEW t \in Tasks, Send(t) PROVE x \in Known'
  <2>1. /\ UNCHANGED <<queue, made, lost>>
        /\ \/ received' = received
           \/ received' = Append(received, inflight[t].id)
    BY <1>6 DEF Send, SendOk, SendErr, queueVars
  <2>2. inflight[t].id \in Ids
    BY <1>6, TheFlush DEF Send, SendOk, SendErr, AtFront
  <2>3. {received[i] : i \in 1..Len(received)}
          \subseteq {received'[i] : i \in 1..Len(received')}
    BY <2>1, <2>2, OneMoreReceived
  <2> QED BY <1>1, <2>1, <2>3
<1>7. ASSUME NEW t \in Tasks, AtFront(t), NEW q \in Seq(Messages), q # <<>>,
             Len(q) = Len(queue),
             \A i \in 1..Len(queue) : q[i].id = queue[i].id,
             queue' = PopFront(q), UNCHANGED <<made, received>>,
             lost \subseteq lost',
             inflight[t].id \in lost' \cup {received[i] : i \in 1..Len(received)}
      PROVE  x \in Known'
  <2>1. queue[1].id = inflight[t].id
    BY <1>7, TheFlush
  <2>2. /\ Len(queue') = Len(queue) - 1
        /\ \A i \in 1..Len(queue') : queue'[i] = q[i + 1]
    BY <1>7, PoppingKeepsRest
  <2>3. ASSUME NEW i \in 1..Len(queue), i # 1
        PROVE  queue[i].id \in IdsOf(queue')
    <3>1. i - 1 \in 1..Len(queue') /\ (i - 1) + 1 = i
      BY <1>0, <2>2, <2>3
    <3>2. queue'[i - 1].id = queue[i].id
      BY <1>7, <2>2, <3>1
    <3> QED BY <3>1, <3>2 DEF IdsOf
  <2>4. IdsOf(queue) \subseteq IdsOf(queue') \cup {inflight[t].id}
    BY <2>1, <2>3 DEF IdsOf
  <2> QED BY <1>1, <1>7, <2>4
<1>8. ASSUME NEW t \in Tasks, Pop(t) PROVE x \in Known'
  <2>1. AtFront(t) /\ queue # <<>>
    BY <1>8, TheFlush DEF Pop, AtFront
  <2>2. \E k \in 1..Len(received) : received[k] = inflight[t].id
    BY <1>8 DEF Pop, OrderInv, DeliveredIsReceived
  <2>3. queue' = PopFront(queue) /\ UNCHANGED <<made, received, lost>>
    BY <1>8 DEF Pop, historyVars
  <2> QED BY <1>0, <1>7, <2>1, <2>2, <2>3
<1>9. ASSUME NEW t \in Tasks, Retain(t) PROVE x \in Known'
  <2> DEFINE held == MarkBacklogOffline(queue)
  <2>1. AtFront(t) /\ queue # <<>> /\ Head(queue).id = inflight[t].id
    BY <1>9, TheFlush DEF Retain, AtFront
  <2>2. /\ held \in Seq(Messages) /\ Len(held) = Len(queue) /\ held # <<>>
        /\ \A i \in 1..Len(queue) : held[i].id = queue[i].id
    BY <1>0, <2>1, MarkingKeepsIds
  <2>3. /\ UNCHANGED <<made, received>>
        /\ \/ queue' = PopFront(held) /\ lost' = lost \cup {inflight[t].id}
           \/ queue' = held /\ lost' = lost
    BY <1>9, <2>1 DEF Retain
  <2> HIDE DEF held
  <2>4. CASE queue' = PopFront(held) /\ lost' = lost \cup {inflight[t].id}
    BY <1>7, <2>1, <2>2, <2>3, <2>4
  <2>5. CASE queue' = held /\ lost' = lost
    BY <1>2, <2>2, <2>3, <2>5
  <2> QED BY <2>3, <2>4, <2>5
<1>10. CASE (\E t \in Flushers : Trigger(t)) \/ Accept \/ Withdraw \/ UNCHANGED vars
  BY <1>1, <1>10 DEF Trigger, Accept, Withdraw, vars, queueVars, historyVars
<1> QED BY <1>3, <1>4, <1>5, <1>6, <1>8, <1>9, <1>10 DEF Next, Flush

\* Under "DropNewest" every report made is still queued, or was received, or
\* was handed back by push or given up on by the cap (push, pop_delivered).
THEOREM QueueNoSilentLoss ==
  ASSUME Policy = "DropNewest"
  PROVE  Spec => []NoSilentLoss
<1>1. Init => NoSilentLoss
  BY DEF Init, NoSilentLoss
<1>2. ClaimInv /\ OrderInv /\ NoSilentLoss /\ [Next]_vars => NoSilentLoss'
  BY NoSilentLossStep
<1> QED BY <1>1, <1>2, QueueInvariant, PTL DEF Spec

-----------------------------------------------------------------------------
(* The queue implements ordered delivery. *)

IdSeq(s) == [i \in 1..Len(s) |-> s[i].id]

\* What is still owed: a report being popped is no longer.
Owed == IF SomeDelivered THEN Tail(queue) ELSE queue

LEMMA BacklogIsOwed == BacklogIds = IdSeq(Owed) /\ BacklogIds' = IdSeq(Owed')
  BY DEF BacklogIds, IdSeq, Owed, SomeDelivered

LEMMA IdSeqType ==
  ASSUME NEW s \in Seq(Messages)
  PROVE  /\ IdSeq(s) \in Seq(Ids) /\ Len(IdSeq(s)) = Len(s) /\ Len(s) \in Nat
         /\ \A i \in 1..Len(s) : IdSeq(s)[i] = s[i].id
         /\ IdSeq(s) = <<>> <=> s = <<>>
<1>1. Len(s) \in Nat /\ \A i \in 1..Len(s) : s[i] \in Messages
  BY ElementOfSeq, LenProperties
<1>2. \A i \in 1..Len(s) : s[i].id \in Ids
  BY <1>1 DEF Messages
<1>3. IdSeq(s) \in Seq(Ids) /\ Len(IdSeq(s)) = Len(s)
  BY <1>1, <1>2 DEF IdSeq
<1>4. IdSeq(s) = <<>> <=> s = <<>>
  BY <1>3, EmptySeq
<1> QED BY <1>1, <1>3, <1>4 DEF IdSeq

\* Marking a backlog does not change its ids.
LEMMA IdSeqSame ==
  ASSUME NEW s \in Seq(Messages), NEW r \in Seq(Messages), Len(r) = Len(s),
         \A i \in 1..Len(s) : r[i].id = s[i].id
  PROVE  IdSeq(r) = IdSeq(s)
  BY DEF IdSeq

LEMMA IdSeqAppend ==
  ASSUME NEW s \in Seq(Messages), NEW m \in Messages
  PROVE  IdSeq(Append(s, m)) = Append(IdSeq(s), m.id)
<1>0. m.id \in Ids
  BY DEF Messages
<1>1. /\ Append(s, m) \in Seq(Messages) /\ Len(Append(s, m)) = Len(s) + 1
      /\ \A i \in 1..Len(s) : Append(s, m)[i] = s[i]
      /\ Append(s, m)[Len(s) + 1] = m
  BY AppendingKeepsAll
<1>2. /\ IdSeq(s) \in Seq(Ids) /\ Len(IdSeq(s)) = Len(s) /\ Len(s) \in Nat
      /\ \A i \in 1..Len(s) : IdSeq(s)[i] = s[i].id
  BY IdSeqType
<1>3. /\ IdSeq(Append(s, m)) \in Seq(Ids) /\ Len(IdSeq(Append(s, m))) = Len(s) + 1
      /\ \A i \in 1..Len(s) + 1 : IdSeq(Append(s, m))[i] = Append(s, m)[i].id
  BY <1>1, IdSeqType
<1>4. /\ Append(IdSeq(s), m.id) \in Seq(Ids)
      /\ Len(Append(IdSeq(s), m.id)) = Len(s) + 1
      /\ \A i \in 1..Len(s) : Append(IdSeq(s), m.id)[i] = IdSeq(s)[i]
      /\ Append(IdSeq(s), m.id)[Len(s) + 1] = m.id
  BY <1>0, <1>2, AppendingKeepsAll
<1>5. \A i \in 1..Len(s) + 1 : IdSeq(Append(s, m))[i] = Append(IdSeq(s), m.id)[i]
  <2> SUFFICES ASSUME NEW i \in 1..Len(s) + 1
               PROVE  IdSeq(Append(s, m))[i] = Append(IdSeq(s), m.id)[i]
    OBVIOUS
  <2>1. CASE i \in 1..Len(s)
    BY <1>1, <1>2, <1>3, <1>4, <2>1
  <2>2. CASE i = Len(s) + 1
    BY <1>1, <1>3, <1>4, <2>2
  <2> QED BY <1>2, <2>1, <2>2
<1> QED BY <1>3, <1>4, <1>5, SeqEqual

LEMMA IdSeqTail ==
  ASSUME NEW s \in Seq(Messages), s # <<>>
  PROVE  /\ IdSeq(Tail(s)) = Tail(IdSeq(s))
         /\ Head(IdSeq(s)) = Head(s).id /\ IdSeq(s) # <<>>
<1>1. /\ IdSeq(s) \in Seq(Ids) /\ Len(IdSeq(s)) = Len(s) /\ Len(s) \in Nat
      /\ \A i \in 1..Len(s) : IdSeq(s)[i] = s[i].id
      /\ IdSeq(s) # <<>>
  BY IdSeqType
<1>2. /\ Tail(s) \in Seq(Messages) /\ Len(Tail(s)) = Len(s) - 1
      /\ \A i \in 1..Len(s) - 1 : Tail(s)[i] = s[i + 1]
      /\ Head(s) = s[1] /\ Len(s) >= 1
  BY HeadTailProperties, FrontIsFirst
<1>3. /\ Tail(IdSeq(s)) \in Seq(Ids) /\ Len(Tail(IdSeq(s))) = Len(s) - 1
      /\ \A i \in 1..Len(s) - 1 : Tail(IdSeq(s))[i] = IdSeq(s)[i + 1]
  BY <1>1, HeadTailProperties
<1>4. /\ IdSeq(Tail(s)) \in Seq(Ids) /\ Len(IdSeq(Tail(s))) = Len(s) - 1
      /\ \A i \in 1..Len(s) - 1 : IdSeq(Tail(s))[i] = Tail(s)[i].id
  BY <1>2, IdSeqType
<1>5. \A i \in 1..Len(s) - 1 : IdSeq(Tail(s))[i] = Tail(IdSeq(s))[i]
  BY <1>1, <1>2, <1>3, <1>4
<1>6. IdSeq(Tail(s)) = Tail(IdSeq(s))
  BY <1>3, <1>4, <1>5, SeqEqual
<1>7. Head(IdSeq(s)) = IdSeq(s)[1]
  BY <1>1
<1> QED BY <1>1, <1>2, <1>6, <1>7

\* Pushing behind a front that is being popped.
LEMMA TailOfAppend ==
  ASSUME NEW s \in Seq(Messages), s # <<>>, NEW m \in Messages
  PROVE  Tail(Append(s, m)) = Append(Tail(s), m)
<1>1. /\ Append(s, m) \in Seq(Messages) /\ Append(s, m) # <<>>
      /\ Len(Append(s, m)) = Len(s) + 1
      /\ \A i \in 1..Len(s) : Append(s, m)[i] = s[i]
      /\ Append(s, m)[Len(s) + 1] = m
  BY AppendingKeepsAll
<1>2. /\ Tail(s) \in Seq(Messages) /\ Len(Tail(s)) = Len(s) - 1
      /\ \A i \in 1..Len(s) - 1 : Tail(s)[i] = s[i + 1]
      /\ Len(s) >= 1 /\ Len(s) \in Nat
  BY HeadTailProperties, FrontIsFirst
<1>3. /\ Tail(Append(s, m)) \in Seq(Messages) /\ Len(Tail(Append(s, m))) = Len(s)
      /\ \A i \in 1..Len(s) : Tail(Append(s, m))[i] = Append(s, m)[i + 1]
  <2>1. /\ Tail(Append(s, m)) \in Seq(Messages)
        /\ Len(Tail(Append(s, m))) = Len(Append(s, m)) - 1
        /\ \A i \in 1..Len(Tail(Append(s, m))) :
              Tail(Append(s, m))[i] = Append(s, m)[i + 1]
    BY <1>1, HeadTailProperties
  <2>2. Len(Append(s, m)) - 1 = Len(s)
    BY <1>1, <1>2
  <2> QED BY <2>1, <2>2
<1>4. /\ Append(Tail(s), m) \in Seq(Messages) /\ Len(Append(Tail(s), m)) = Len(s)
      /\ \A i \in 1..Len(s) - 1 : Append(Tail(s), m)[i] = Tail(s)[i]
      /\ Append(Tail(s), m)[Len(s)] = m
  <2>1. /\ Append(Tail(s), m) \in Seq(Messages)
        /\ Len(Append(Tail(s), m)) = Len(Tail(s)) + 1
        /\ \A i \in 1..Len(Tail(s)) : Append(Tail(s), m)[i] = Tail(s)[i]
        /\ Append(Tail(s), m)[Len(Tail(s)) + 1] = m
    BY <1>2, AppendingKeepsAll
  <2>2. Len(Tail(s)) + 1 = Len(s)
    BY <1>2
  <2> QED BY <1>2, <2>1, <2>2
<1>5. \A i \in 1..Len(s) : Tail(Append(s, m))[i] = Append(Tail(s), m)[i]
  <2> SUFFICES ASSUME NEW i \in 1..Len(s)
               PROVE  Tail(Append(s, m))[i] = Append(Tail(s), m)[i]
    OBVIOUS
  <2>1. CASE i = Len(s)
    BY <1>1, <1>3, <1>4, <2>1
  <2>2. CASE i # Len(s)
    <3>0. Len(s) \in Nat
      BY <1>2
    <3>1. i \in 1..Len(s) - 1 /\ i + 1 \in 1..Len(s)
      BY <2>2, <3>0
    <3> QED BY <1>1, <1>2, <1>3, <1>4, <3>1
  <2> QED BY <2>1, <2>2
<1> QED BY <1>2, <1>3, <1>4, <1>5, SeqEqual

\* Every step of the queue is one of the promise, or none.
LEMMA OrderedDeliveryStep ==
  ASSUME Policy = "DropNewest", ClaimInv, OrderInv, ClaimInv', OrderInv', [Next]_vars
  PROVE  [Abstract!Next]_<<BacklogIds, received, lost>>
<1>0. /\ queue \in Seq(Messages) /\ queue' \in Seq(Messages)
      /\ SomeDelivered => queue # <<>>
      /\ Owed \in Seq(Messages)
  <2>1. queue \in Seq(Messages) /\ queue' \in Seq(Messages)
    BY DEF ClaimInv, TypeOK
  <2>2. SomeDelivered => queue # <<>>
    BY DEF SomeDelivered, OrderInv, SendsTheFront
  <2> QED BY <2>1, <2>2, HeadTailProperties DEF Owed
<1>1. ASSUME UNCHANGED <<queue, received, lost>>, SomeDelivered' = SomeDelivered
      PROVE  UNCHANGED <<BacklogIds, received, lost>>
  BY <1>1, BacklogIsOwed DEF Owed
<1>2. CASE Receive
  <2> DEFINE m == [id |-> made + 1, offline |-> FALSE]
  <2>1. m \in Messages /\ m.id \in Ids
    BY <1>2, QueueAssumption DEF Receive, ClaimInv, TypeOK, Messages, Ids
  <2>2. /\ queue' = Push(queue, m).queue /\ lost' = lost \cup Push(queue, m).dropped
        /\ received' = received
    BY <1>2 DEF Receive
  <2>3. SomeDelivered' = SomeDelivered
    BY <1>2 DEF Receive, Goto, ClaimInv, TypeOK, SomeDelivered
  <2> HIDE DEF m
  <2>4. CASE queue' = Append(queue, m) /\ lost' = lost
    <3>1. Owed' = Append(Owed, m)
      <4>1. CASE SomeDelivered
        BY <1>0, <2>1, <2>3, <2>4, <4>1, TailOfAppend DEF Owed
      <4>2. CASE ~SomeDelivered
        BY <2>3, <2>4, <4>2 DEF Owed
      <4> QED BY <4>1, <4>2
    <3>2. BacklogIds' = Append(BacklogIds, m.id)
      BY <1>0, <2>1, <3>1, IdSeqAppend, BacklogIsOwed
    <3> QED BY <2>1, <2>2, <2>4, <3>2 DEF Abstract!Next, Abstract!TakeOn
  <2>5. CASE queue' = queue /\ lost' = lost \cup {m.id}
    <3>1. BacklogIds' = BacklogIds
      BY <2>3, <2>5, BacklogIsOwed DEF Owed
    <3> QED BY <2>1, <2>2, <2>5, <3>1 DEF Abstract!Next, Abstract!HandBack
  <2> QED BY <1>0, <2>1, <2>2, <2>4, <2>5, PushDropNewest
<1>3. ASSUME NEW t \in Flushers, Trigger(t)
      PROVE  UNCHANGED <<BacklogIds, received, lost>>
  <2>1. SomeDelivered' = SomeDelivered
    BY <1>3 DEF Trigger, Goto, ClaimInv, TypeOK, SomeDelivered, Tasks
  <2> QED BY <1>1, <1>3, <2>1 DEF Trigger, queueVars, historyVars
<1>4. ASSUME NEW t \in Tasks, Gate(t)
      PROVE  UNCHANGED <<BacklogIds, received, lost>>
  <2>1. SomeDelivered' = SomeDelivered
    BY <1>4 DEF Gate, Goto, ClaimInv, TypeOK, SomeDelivered
  <2>2. UNCHANGED <<received, lost>>
    BY <1>4 DEF Gate, historyVars
  <2>3. CASE queue' = queue
    BY <1>1, <2>1, <2>2, <2>3
  <2>4. CASE queue' = MarkBacklogOffline(queue)
    <3>1. /\ Len(queue') = Len(queue)
          /\ \A i \in 1..Len(queue) : queue'[i].id = queue[i].id
          /\ queue' = <<>> <=> queue = <<>>
      BY <1>0, <2>4, MarkingKeepsIds
    <3>2. IdSeq(queue') = IdSeq(queue)
      BY <1>0, <3>1, IdSeqSame
    <3>3. queue # <<>> => IdSeq(Tail(queue')) = IdSeq(Tail(queue))
      BY <1>0, <3>1, <3>2, IdSeqTail
    <3>4. IdSeq(Owed') = IdSeq(Owed)
      BY <1>0, <2>1, <3>2, <3>3 DEF Owed
    <3> QED BY <2>2, <3>4, BacklogIsOwed
  <2> QED BY <1>4, <2>3, <2>4 DEF Gate
<1>5. ASSUME NEW t \in Tasks, Claim(t) \/ Release(t) \/ Peek(t)
      PROVE  UNCHANGED <<BacklogIds, received, lost>>
  <2>1. SomeDelivered' = SomeDelivered
    BY <1>5 DEF Claim, Release, Peek, Goto, ClaimInv, TypeOK, SomeDelivered
  <2> QED BY <1>1, <1>5, <2>1 DEF Claim, Release, Peek, queueVars, historyVars
\* While a task has the front, what is owed is told by that task alone.
<1>6. ASSUME NEW t \in Tasks, AtFront(t)
      PROVE  /\ queue # <<>> /\ Head(queue).id = inflight[t].id
             /\ SomeDelivered <=> pc[t] = "delivered"
             /\ Head(IdSeq(queue)) = inflight[t].id /\ IdSeq(queue) # <<>>
             /\ IdSeq(Tail(queue)) = Tail(IdSeq(queue))
  <2>1. /\ queue # <<>> /\ Head(queue) = queue[1] /\ queue[1].id = inflight[t].id
        /\ \A u \in Tasks : u # t => pc[u] # "delivered"
    BY <1>6, TheFlush
  <2> QED BY <1>0, <2>1, IdSeqTail DEF SomeDelivered
<1>7. ASSUME NEW t \in Tasks, AtFront(t), \A u \in Tasks : u # t => pc'[u] = pc[u]
      PROVE  SomeDelivered' <=> pc'[t] = "delivered"
  <2>1. \A u \in Tasks : u # t => pc[u] # "delivered"
    BY <1>7, TheFlush
  <2> QED BY <1>7, <2>1 DEF SomeDelivered
<1>8. ASSUME NEW t \in Tasks, Send(t)
      PROVE  [Abstract!Next]_<<BacklogIds, received, lost>>
  <2>1. /\ pc[t] = "sending" /\ AtFront(t)
        /\ UNCHANGED <<queue, lost>>
        /\ \A u \in Tasks : u # t => pc'[u] = pc[u]
    BY <1>8 DEF Send, SendOk, SendErr, AtFront, Goto, ClaimInv, TypeOK, queueVars
  <2>2. BacklogIds = IdSeq(queue)
    BY <1>6, <2>1, BacklogIsOwed DEF Owed
  <2>3. CASE SendOk(t)
    <3>1. pc'[t] = "delivered" /\ received' = Append(received, inflight[t].id)
      BY <2>3 DEF SendOk, Goto, ClaimInv, TypeOK
    <3>2. SomeDelivered'
      BY <1>7, <2>1, <3>1
    <3>3. BacklogIds' = IdSeq(Tail(queue))
      BY <2>1, <3>2, BacklogIsOwed DEF Owed
    <3>4. Abstract!Deliver
      BY <1>6, <2>1, <2>2, <3>1, <3>3 DEF Abstract!Deliver
    <3> QED BY <3>4 DEF Abstract!Next
  <2>4. CASE SendErr(t)
    <3>1. pc'[t] = "failed" /\ received' \in {received, Append(received, inflight[t].id)}
      BY <2>4 DEF SendErr, Goto, ClaimInv, TypeOK
    <3>2. ~SomeDelivered'
      BY <1>7, <2>1, <3>1
    <3>3. BacklogIds' = BacklogIds
      BY <2>1, <2>2, <3>2, BacklogIsOwed DEF Owed
    <3>4. CASE received' = received
      BY <2>1, <3>3, <3>4
    <3>5. CASE received' = Append(received, inflight[t].id)
      BY <1>6, <2>1, <2>2, <3>3, <3>5 DEF Abstract!Next, Abstract!Deliver
    <3> QED BY <3>1, <3>4, <3>5
  <2> QED BY <1>8, <2>3, <2>4 DEF Send
<1>9. ASSUME NEW t \in Tasks, Pop(t)
      PROVE  UNCHANGED <<BacklogIds, received, lost>>
  <2>1. /\ pc[t] = "delivered" /\ AtFront(t) /\ pc'[t] = "peek"
        /\ UNCHANGED <<received, lost>> /\ queue' = PopFront(queue)
        /\ \A u \in Tasks : u # t => pc'[u] = pc[u]
    BY <1>9 DEF Pop, AtFront, Goto, ClaimInv, TypeOK, historyVars
  <2>2. SomeDelivered /\ ~SomeDelivered' /\ queue # <<>>
    BY <1>6, <1>7, <2>1
  <2>3. Owed' = Owed
    BY <2>1, <2>2 DEF Owed, PopFront
  <2> QED BY <2>1, <2>3, BacklogIsOwed
<1>10. ASSUME NEW t \in Tasks, Retain(t)
       PROVE  [Abstract!Next]_<<BacklogIds, received, lost>>
  <2> DEFINE held == MarkBacklogOffline(queue)
  <2>1. /\ pc[t] = "failed" /\ AtFront(t) /\ pc'[t] # "delivered"
        /\ \A u \in Tasks : u # t => pc'[u] = pc[u]
        /\ received' = received
    BY <1>10 DEF Retain, AtFront, Goto, ClaimInv, TypeOK
  <2>2. /\ ~SomeDelivered /\ ~SomeDelivered'
        /\ BacklogIds = IdSeq(queue) /\ BacklogIds' = IdSeq(queue')
    BY <1>6, <1>7, <2>1, BacklogIsOwed DEF Owed
  <2>3. /\ held \in Seq(Messages) /\ held # <<>> /\ IdSeq(held) = IdSeq(queue)
    BY <1>0, <1>6, <2>1, MarkingKeepsIds, IdSeqSame
  <2>4. \/ /\ queue' = PopFront(held) /\ t \in CappedTasks
           /\ lost' = lost \cup {Head(queue).id}
        \/ queue' = held /\ lost' = lost
    BY <1>6, <1>10, <2>1 DEF Retain
  <2> HIDE DEF held
  <2>5. CASE queue' = held /\ lost' = lost
    BY <2>1, <2>2, <2>3, <2>5
  <2>6. CASE /\ queue' = PopFront(held) /\ t \in CappedTasks
             /\ lost' = lost \cup {Head(queue).id}
    <3>1. BacklogIds' = Tail(BacklogIds)
      BY <2>2, <2>3, <2>6, IdSeqTail DEF PopFront
    <3>2. Abstract!GiveUp
      BY <1>6, <2>1, <2>2, <2>6, <3>1 DEF Abstract!GiveUp
    <3> QED BY <3>2 DEF Abstract!Next
  <2> QED BY <2>4, <2>5, <2>6
<1>11. CASE Accept \/ Withdraw \/ UNCHANGED vars
  <2>1. SomeDelivered' = SomeDelivered
    BY <1>11 DEF Accept, Withdraw, vars, SomeDelivered
  <2> QED BY <1>1, <1>11, <2>1 DEF Accept, Withdraw, vars, queueVars, historyVars
<1> QED BY <1>2, <1>3, <1>4, <1>5, <1>8, <1>9, <1>10, <1>11 DEF Next, Flush

\* Under "DropNewest" the queue is an ordered delivery: reports go out in the
\* order they were made, each again only while its front place is kept, and
\* what is not kept is counted as lost (push, flush_offline_queue).
THEOREM QueueImplementsOrderedDelivery ==
  ASSUME Policy = "DropNewest"
  PROVE  Spec => ImplementsOrderedDelivery
<1>1. Init => Abstract!Init
  <2> SUFFICES ASSUME Init PROVE Abstract!Init
    OBVIOUS
  <2>1. ~SomeDelivered /\ queue = <<>>
    BY DEF Init, SomeDelivered
  <2>2. BacklogIds = <<>>
    BY <2>1, BacklogIsOwed, EmptySeq, IdSeqType DEF Owed
  <2> QED BY <2>2 DEF Init, Abstract!Init
<1>2. (ClaimInv /\ OrderInv) /\ (ClaimInv /\ OrderInv)' /\ [Next]_vars
      => [Abstract!Next]_<<BacklogIds, received, lost>>
  BY OrderedDeliveryStep
<1> QED BY <1>1, <1>2, QueueInvariant, PTL
        DEF ImplementsOrderedDelivery, Spec, Abstract!Spec, Abstract!vars
=============================================================================
