------------------------------ MODULE Recovery ------------------------------
(***************************************************************************)
(* Durable transactions across power cuts (persistence.rs): the task that  *)
(* writes a record per connector as transaction events arrive, the counter *)
(* of transaction ids, and the recovery at boot, which reports every       *)
(* interrupted transaction as ended and clears its record.  The reporter   *)
(* towards the CSMS is another task with its own queue of the same events, *)
(* and the power may go, or a write may fail, between any two steps.       *)
(***************************************************************************)
EXTENDS Integers, Sequences, SequencesExt

CONSTANTS
    NumConnectors,
    AtomicMedium,      \* whether a write cut short leaves the old value readable
    MeterThreshold,    \* TransactionStore::meter_write_threshold_wh
    Steps,             \* what a meter advances by between two samples
    MaxIds,            \* bound: transactions started
    MaxEnergy,         \* bound: the meter
    MaxLag,            \* bound: updates the persistence task is behind
    MaxCuts, MaxFailedWrites   \* bounds: power cuts; storage operations that fail

ASSUME RecAssumption ==
    /\ NumConnectors \in Nat /\ AtomicMedium \in BOOLEAN
    /\ MeterThreshold \in Nat \ {0} /\ Steps \subseteq Nat \ {0}
    /\ MaxIds \in Nat /\ MaxEnergy \in Nat /\ MaxLag \in Nat
    /\ MaxCuts \in Nat /\ MaxFailedWrites \in Nat

VARIABLES
    live,          \* EvseState::transactions
    nextTxId,      \* ChargePointState::next_transaction_id
    persistQ,      \* events broadcast to the persistence task, not yet taken
    reportQ,       \* Ended events in the reporter's hands
    writer,        \* run_transaction_persistence: what it is about to do
    shadow,        \* the last record written per connector
    disk,          \* durable: the records and the id counter
    booting,       \* restore_transactions: up, or where it stands
    accounts,      \* ids ever recorded on disk; ids the CSMS was told ended
    mishaps        \* cuts, failures, and what a cut took from the reporter

recVars == <<live, nextTxId, persistQ, reportQ, writer, shadow, disk, booting,
             accounts, mishaps>>

RecConnectors == 1 .. NumConnectors

NoSample == -1
None   == [id |-> -1, energy |-> NoSample]
Nobody == [c \in RecConnectors |-> None]
Up     == booting.pc = "up"

\* The actor broadcasts an event to both tasks; of the reporter's, only Ended
\* matters here.
Broadcast(kind, c, tx) ==
    /\ persistQ' = Append(persistQ, [kind |-> kind, conn |-> c, tx |-> tx])
    /\ reportQ' = IF kind = "Ended" THEN Append(reportQ, tx) ELSE reportQ

StartTx ==
    /\ Up /\ nextTxId < MaxIds
    /\ \E c \in RecConnectors :
          LET tx == [id |-> nextTxId, energy |-> NoSample]
          IN /\ live[c] = None
             /\ live' = [live EXCEPT ![c] = tx]
             /\ Broadcast("Started", c, tx)
    /\ nextTxId' = nextTxId + 1
    /\ UNCHANGED <<writer, shadow, disk, booting, accounts, mishaps>>

\* A meter sample, or a change of charging state.
UpdateTx ==
    /\ Up /\ Len(persistQ) < MaxLag
    /\ \E c \in RecConnectors :
          /\ live[c] # None
          /\ \/ \E n \in Steps :
                   LET tx == [live[c] EXCEPT !.energy = IF @ = NoSample THEN n ELSE @ + n]
                   IN /\ tx.energy <= MaxEnergy
                      /\ live' = [live EXCEPT ![c] = tx]
                      /\ Broadcast("Sample", c, tx)
             \/ /\ Broadcast("Changed", c, live[c])
                /\ UNCHANGED live
    /\ UNCHANGED <<nextTxId, writer, shadow, disk, booting, accounts, mishaps>>

EndTx ==
    /\ Up
    /\ \E c \in RecConnectors :
          /\ live[c] # None
          /\ live' = [live EXCEPT ![c] = None]
          /\ Broadcast("Ended", c, live[c])
    /\ UNCHANGED <<nextTxId, writer, shadow, disk, booting, accounts, mishaps>>

\* persistence_decision.
Decide(previous, event) ==
    CASE event.kind = "Ended" -> "Clear"
      [] event.kind \in {"Started", "Changed"} -> "Write"
      [] OTHER -> IF \/ previous.energy = NoSample
                     \/ event.tx.energy - previous.energy >= MeterThreshold
                     \/ previous.energy - event.tx.energy >= MeterThreshold
                  THEN "Write" ELSE "Skip"

WriterIdle == [pc |-> "idle"]

\* The counter first, then the record that uses the id.
FirstWrite(event) == IF event.kind = "Started" THEN "counter" ELSE "record"

TakeEvent ==
    /\ Up /\ writer.pc = "idle" /\ persistQ # <<>>
    /\ persistQ' = Tail(persistQ)
    /\ LET event    == Head(persistQ)
           decision == Decide(shadow[event.conn], event)
       IN writer' = IF decision = "Skip" THEN WriterIdle
                    ELSE [pc |-> IF decision = "Clear" THEN "clear"
                                 ELSE FirstWrite(event),
                          event |-> event]
    /\ UNCHANGED <<live, nextTxId, reportQ, shadow, disk, booting, accounts, mishaps>>

\* A storage operation succeeds, or fails and is only logged.
Succeeds == UNCHANGED mishaps
Fails    == /\ mishaps.failures < MaxFailedWrites
            /\ mishaps' = [mishaps EXCEPT !.failures = @ + 1]

SaveCounter ==
    /\ Up /\ writer.pc = "counter"
    /\ \/ Succeeds /\ disk' = [disk EXCEPT !.counter = writer.event.tx.id + 1]
       \/ Fails /\ UNCHANGED disk
    /\ writer' = [writer EXCEPT !.pc = "record"]
    /\ UNCHANGED <<live, nextTxId, persistQ, reportQ, shadow, booting, accounts>>

SaveRecord ==
    /\ Up /\ writer.pc = "record"
    /\ \/ /\ Succeeds
          /\ disk' = [disk EXCEPT !.record[writer.event.conn] = writer.event.tx]
          /\ shadow' = [shadow EXCEPT ![writer.event.conn] = writer.event.tx]
          /\ accounts' = [accounts EXCEPT !.recorded = @ \cup {writer.event.tx.id}]
       \/ Fails /\ UNCHANGED <<disk, shadow, accounts>>
    /\ writer' = WriterIdle
    /\ UNCHANGED <<live, nextTxId, persistQ, reportQ, booting>>

\* Whether or not the removal worked, the shadow forgets the record.
ClearRecord ==
    /\ Up /\ writer.pc = "clear"
    /\ \/ Succeeds /\ disk' = [disk EXCEPT !.record[writer.event.conn] = None]
       \/ Fails /\ UNCHANGED disk
    /\ shadow' = [shadow EXCEPT ![writer.event.conn] = None]
    /\ writer' = WriterIdle
    /\ UNCHANGED <<live, nextTxId, persistQ, reportQ, booting, accounts>>

\* The other task: the front event reaches the CSMS.
ReportEnded ==
    /\ Up /\ reportQ # <<>>
    /\ reportQ' = Tail(reportQ)
    /\ accounts' = [accounts EXCEPT !.ended = @ \cup {Head(reportQ).id}]
    /\ UNCHANGED <<live, nextTxId, persistQ, writer, shadow, disk, booting, mishaps>>

-----------------------------------------------------------------------------
\* The power goes: only the disk is left.  On a medium whose writes are not
\* atomic the write it cut short leaves bytes that do not decode, which load
\* takes for no record, and for a counter of zero.
Torn(d) ==
    CASE writer.pc \in {"record", "clear"} ->
            [d EXCEPT !.record[writer.event.conn] = None]
      [] writer.pc = "counter" -> [d EXCEPT !.counter = 0]
      [] OTHER -> d

LosePower ==
    /\ mishaps.cuts < MaxCuts
    /\ mishaps' = [mishaps EXCEPT
          !.cuts = @ + 1,
          !.dropped = @ \cup {reportQ[i].id : i \in 1 .. Len(reportQ)}]
    /\ live' = Nobody /\ nextTxId' = 0 /\ persistQ' = <<>> /\ reportQ' = <<>>
    /\ writer' = WriterIdle /\ shadow' = Nobody
    /\ booting' = [pc |-> "restore", loaded |-> Nobody]
    /\ disk' \in IF AtomicMedium THEN {disk} ELSE {disk, Torn(disk)}
    /\ UNCHANGED accounts

RestoreClearingFirst ==
    /\ booting.pc = "restore"
    /\ nextTxId' = disk.counter
    /\ disk' = [disk EXCEPT !.record = Nobody]
    /\ booting' = [pc |-> "clear", loaded |-> Nobody]
    /\ UNCHANGED <<live, persistQ, reportQ, writer, shadow, accounts, mishaps>>

\* PersistedTransactionsRestored: the counter is a floor, and every record
\* loaded is reported as ended; both tasks get that event.  Reads succeed: the
\* code takes a record it cannot read for none, and such a counter for zero.
OnEach(records) == SetToSeq({c \in RecConnectors : records[c] # None})

RestoreTx ==
    /\ booting.pc = "restore"
    /\ nextTxId' = IF disk.counter > nextTxId THEN disk.counter ELSE nextTxId
    /\ LET found == OnEach(disk.record)
       IN /\ reportQ' = [i \in DOMAIN found |-> disk.record[found[i]]]
          /\ persistQ' = [i \in DOMAIN found |->
                [kind |-> "Ended", conn |-> found[i], tx |-> disk.record[found[i]]]]
    /\ booting' = [pc |-> "clear", loaded |-> disk.record]
    /\ UNCHANGED <<live, writer, shadow, disk, accounts, mishaps>>

\* Only then are the records removed, one by one.
ClearRestored ==
    /\ booting.pc = "clear"
    /\ IF OnEach(booting.loaded) = <<>>
       THEN /\ booting' = [pc |-> "up"]
            /\ UNCHANGED <<disk, mishaps>>
       ELSE LET c == Head(OnEach(booting.loaded))
            IN /\ booting' = [booting EXCEPT !.loaded[c] = None]
               /\ \/ Succeeds /\ disk' = [disk EXCEPT !.record[c] = None]
                  \/ Fails /\ UNCHANGED disk
    /\ UNCHANGED <<live, nextTxId, persistQ, reportQ, writer, shadow, accounts>>

-----------------------------------------------------------------------------
RecInit ==
    /\ live = Nobody /\ nextTxId = 0 /\ persistQ = <<>> /\ reportQ = <<>>
    /\ writer = WriterIdle /\ shadow = Nobody
    /\ disk = [record |-> Nobody, counter |-> 0]
    /\ booting = [pc |-> "up"]
    /\ accounts = [recorded |-> {}, ended |-> {}]
    /\ mishaps = [cuts |-> 0, failures |-> 0, dropped |-> {}]

RecSteps ==
    \/ TakeEvent \/ SaveCounter \/ SaveRecord \/ ClearRecord \/ ReportEnded
    \/ RestoreTx \/ ClearRestored

RecNext == RecSteps \/ StartTx \/ UpdateTx \/ EndTx \/ LosePower

RecSpec == RecInit /\ [][RecNext]_recVars

-----------------------------------------------------------------------------
CaughtUp == Up /\ persistQ = <<>> /\ writer.pc = "idle"

\* What the task remembers having written is what storage holds, as long as
\* nothing failed.
RecTypeOK ==
    /\ \A c \in RecConnectors :
          /\ shadow[c].id < nextTxId /\ disk.record[c].id < MaxIds
          /\ mishaps.failures = 0 /\ CaughtUp => shadow[c] = disk.record[c]
    /\ disk.counter \in 0 .. MaxIds

\* An id whose transaction has a record is never handed out again: the
\* counter on disk is ahead of every record, wherever a cut falls between
\* the two writes.
RecordedIdsStayUsed ==
    mishaps.failures = 0 =>
        \A c \in RecConnectors : disk.record[c].id < disk.counter

\* What a power cut can cost: once the task has caught up, the record of a
\* running transaction is less than a threshold away from the meter.
LossIsBounded ==
    mishaps.failures = 0 /\ CaughtUp =>
        \A c \in RecConnectors :
            live[c] # None => /\ disk.record[c].id = live[c].id
                              /\ live[c].energy - disk.record[c].energy < MeterThreshold

\* "A power cut at any point during a transaction must not lose the energy
\* already delivered": a transaction that was ever recorded is running, on
\* disk, in the reporter's hands or reported as ended, unless the power took
\* it from the reporter's queue.
RecordedIsAccountedFor ==
    \A id \in accounts.recorded :
        \/ \E c \in RecConnectors : id \in {live[c].id, disk.record[c].id}
        \/ \E i \in 1 .. Len(reportQ) : reportQ[i].id = id
        \/ id \in accounts.ended \cup mishaps.dropped

\* Records: no transaction whose start was recorded is lost, none loses more
\* energy than the write threshold, and no recorded id is given out again
\* (persistence.rs).
RecordsSurvive ==
    RecTypeOK /\ RecordedIsAccountedFor /\ LossIsBounded /\ RecordedIdsStayUsed

=============================================================================
