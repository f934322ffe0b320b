--------------------------- MODULE PersistedQueue ---------------------------
(***************************************************************************)
(* run_persisted_offline_queue and flush_and_persist_offline_queue of      *)
(* src/persistence.rs: an OfflineQueue whose backlog is mirrored into a    *)
(* QueueStore, and restored from it after a power cut.  The forwarder      *)
(* persists after each push and after each flush, by comparing lengths;    *)
(* a flush-only task persists unconditionally after its flush.             *)
(***************************************************************************)
EXTENDS OfflineQueue

CONSTANTS WriteThreshold,   \* QueueStore::write_threshold
          MaxCrashes        \* bound: power cuts

ASSUME StoreAssumption == WriteThreshold \in Nat /\ MaxCrashes \in Nat

VARIABLES store,       \* the snapshot in durable storage, <<>> when removed
          io,          \* what each task is doing about it
          snapshot,    \* what each task is about to write
          previousLen, \* the forwarder's previous_len
          mutations,   \* the forwarder's mutations_since_write
          storeFailed, \* history: a write was lost
          crashes

storeVars == <<store, io, snapshot, previousLen, mutations, storeFailed, crashes>>
allVars   == <<vars, storeVars>>

\* "dirty": about to look at the queue.  "write": decided to write, snapshot
\* not yet taken.  "storing": the storage call is under way.
IoStates == {"idle", "dirty", "write", "storing"}

PInit ==
    /\ Init
    /\ store = <<>>
    /\ io = [t \in Tasks |-> "idle"]
    /\ snapshot = [t \in Tasks |-> <<>>]
    /\ previousLen = 0 /\ mutations = 0
    /\ storeFailed = FALSE /\ crashes = 0

QueuePersistenceDecision(previous, new, since) ==
    CASE new = previous -> "Skip"
      [] new # previous /\ new = 0 -> "Clear"
      [] new # previous /\ new # 0 /\ previous = 0 -> "Write"
      [] OTHER -> IF since + 1 >= (IF WriteThreshold = 0 THEN 1 ELSE WriteThreshold)
                    THEN "Write" ELSE "Skip"

\* The queue's own steps, which wait for the task's storage call to return and
\* leave the task with something to persist: the forwarder after its push, and
\* every task when its flush is over, whether it ran or was refused.
PReceive ==
    /\ io[Forwarder] = "idle"
    /\ Receive
    /\ io' = [io EXCEPT ![Forwarder] = "dirty"]
    /\ UNCHANGED <<store, snapshot, previousLen, mutations, storeFailed, crashes>>

PTrigger(t) ==
    /\ io[t] = "idle"
    /\ Trigger(t)
    /\ UNCHANGED storeVars

PFlush(t) ==
    /\ io[t] = "idle"
    /\ Flush(t)
    /\ io' = [io EXCEPT ![t] = IF pc'[t] = "idle" THEN "dirty" ELSE "idle"]
    /\ UNCHANGED <<store, snapshot, previousLen, mutations, storeFailed, crashes>>

PRegistration ==
    /\ Accept \/ Withdraw
    /\ UNCHANGED storeVars

\* persist_queue_change, up to its decision.
PersistQueueChange ==
    /\ io[Forwarder] = "dirty"
    /\ LET decision == QueuePersistenceDecision(previousLen, Len(queue), mutations)
       IN /\ io' = [io EXCEPT ![Forwarder] =
                      CASE decision = "Write" -> "write"
                        [] decision = "Clear" -> "storing"
                        [] OTHER              -> "idle"]
          /\ snapshot' = [snapshot EXCEPT ![Forwarder] = <<>>]
          /\ mutations' = IF decision # "Skip" THEN 0
                          ELSE IF Len(queue) # previousLen THEN mutations + 1
                          ELSE mutations
    /\ previousLen' = Len(queue)
    /\ UNCHANGED <<vars, store, storeFailed, crashes>>

\* The snapshot is taken in a critical section of its own: by the forwarder
\* once it decided to write, by a flush-only task always.
TakeSnapshot(t) ==
    /\ io[t] = IF t = Forwarder THEN "write" ELSE "dirty"
    /\ snapshot' = [snapshot EXCEPT ![t] = queue]
    /\ io' = [io EXCEPT ![t] = "storing"]
    /\ UNCHANGED <<vars, store, previousLen, mutations, storeFailed, crashes>>

\* Storage::set, or Storage::remove for an empty snapshot.
Store(t) ==
    /\ io[t] = "storing"
    /\ store' = snapshot[t]
    /\ io' = [io EXCEPT ![t] = "idle"]
    /\ UNCHANGED <<vars, snapshot, previousLen, mutations, storeFailed, crashes>>

\* The write fails: logged, and otherwise as if it had succeeded.
StoreFails(t) ==
    /\ io[t] = "storing"
    /\ failures < MaxFailures
    /\ failures' = failures + 1
    /\ storeFailed' = TRUE
    /\ io' = [io EXCEPT ![t] = "idle"]
    /\ UNCHANGED <<queueVars, accepted, pc, inflight, made, received, lost,
                   inDoubt, tries, store, snapshot, previousLen, mutations,
                   crashes>>

\* Mutant: the backlog is restored newest first.
CrashReversed ==
    /\ crashes < MaxCrashes
    /\ crashes' = crashes + 1
    /\ queue' = [i \in 1..Len(store) |-> store[Len(store) + 1 - i]]
    /\ flushing' = FALSE /\ attempts' = 0 /\ accepted' = FALSE
    /\ pc' = [t \in Tasks |-> "idle"]
    /\ inflight' = [t \in Tasks |-> NoMessage]
    /\ tries' = [m \in Ids |-> 0]
    /\ io' = [t \in Tasks |-> "idle"]
    /\ snapshot' = [t \in Tasks |-> <<>>]
    /\ previousLen' = Len(store) /\ mutations' = 0
    /\ UNCHANGED <<made, received, lost, inDoubt, failures, store, storeFailed>>

\* A power cut, and the boot that follows: restore_offline_queue runs before
\* any task of this queue is spawned.
Crash ==
    /\ crashes < MaxCrashes
    /\ crashes' = crashes + 1
    /\ queue' = MarkBacklogOffline(store)
    /\ flushing' = FALSE /\ attempts' = 0 /\ accepted' = FALSE
    /\ pc' = [t \in Tasks |-> "idle"]
    /\ inflight' = [t \in Tasks |-> NoMessage]
    /\ tries' = [m \in Ids |-> 0]
    /\ io' = [t \in Tasks |-> "idle"]
    /\ snapshot' = [t \in Tasks |-> <<>>]
    /\ previousLen' = Len(store) /\ mutations' = 0
    /\ UNCHANGED <<made, received, lost, inDoubt, failures, store, storeFailed>>

PNext ==
    \/ PReceive
    \/ \E t \in Flushers : PTrigger(t)
    \/ \E t \in Tasks : PFlush(t)
    \/ PRegistration
    \/ PersistQueueChange
    \/ \E t \in Tasks : TakeSnapshot(t) \/ Store(t) \/ StoreFails(t)
    \/ Crash

PSpec == PInit /\ [][PNext]_allVars

-----------------------------------------------------------------------------
(* Properties. *)

PTypeOK ==
    /\ TypeOK
    /\ store \in Seq(Messages) /\ Len(store) <= Capacity
    /\ io \in [Tasks -> IoStates]
    /\ snapshot \in [Tasks -> Seq(Messages)]
    /\ previousLen \in 0..Capacity /\ mutations \in Nat
    /\ storeFailed \in BOOLEAN /\ crashes \in 0..MaxCrashes

\* "restored, in order": across power cuts, a report the CSMS sees for the
\* first time is never older than one it has seen already.
FirstDeliveriesInOrder ==
    \A i, j \in 1..Len(received) :
        i < j /\ received[j] < received[i] =>
            \E k \in 1..(i - 1) : received[k] = received[j]

\* "every push and every successful delivery is reflected into store": with a
\* threshold of one, a charge point at rest has its whole backlog in storage.
BacklogIsDurable ==
    /\ \A t \in Tasks : pc[t] = "idle" /\ io[t] = "idle"
    /\ WriteThreshold <= 1 /\ ~storeFailed
    => IdsOf(queue) \subseteq IdsOf(store)

\* The backlog: what is on disk is a queue the program wrote, and messages are
\* first delivered in the order they were raised, over any number of power cuts
\* (persistence.rs).
BacklogIsReplayed == PTypeOK /\ FirstDeliveriesInOrder

=============================================================================
