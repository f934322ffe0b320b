-------------------------- MODULE DurabilityProofs --------------------------
(***************************************************************************)
(* Theorems about what a power cut leaves: one record's two slots, the     *)
(* records of running transactions, the security log, the snapshots of the *)
(* persisted stores and the persisted copy of the outgoing queue, for any  *)
(* set of payloads and any number of connectors, ids, entries, values,     *)
(* messages, power cuts and failed writes.                                 *)
(***************************************************************************)
EXTENDS MCDurability, OfflineQueueProofs, SequenceTheorems,
        FiniteSetTheorems, WellFoundedInduction, TLAPS

-----------------------------------------------------------------------------
(* The record format of AtomicStorage: two slots implement one register.    *)

SeqNumbers == 0 .. SeqSpace - 1

\* What encode_record can produce, and so what an intact slot holds.
Values     == [kind : {"value"}, seq : SeqNumbers, payload : Payloads]
Tombstones == [kind : {"tombstone"}, seq : SeqNumbers, payload : {Absent}]
Records    == Values \cup Tombstones

\* The latest of two good slots is exactly one number ahead of the other.
Consecutive(sl) ==
    Valid(sl["a"]) /\ Valid(sl["b"]) =>
        \E s \in Slot : sl[s].seq = (sl[Other(s)].seq + 1) % SeqSpace

\* A write under way follows the record in the slot it leaves alone, and it
\* leaves a good one alone whenever there is one.
WriteIsCurrent ==
    \/ storeOp = NoStore
    \/ /\ storeOp.pc = "writing"
       /\ storeOp.slot \in Slot
       /\ storeOp.record \in Records
       /\ Valid(slots[Other(storeOp.slot)]) =>
             storeOp.record.seq = (slots[Other(storeOp.slot)].seq + 1) % SeqSpace
       /\ Winner(slots) # "none" => Valid(slots[Other(storeOp.slot)])

\* The inductive invariant.
AtomicInv ==
    /\ slots \in [Slot -> Records \cup {Unusable, TornRecord}]
    /\ Consecutive(slots)
    /\ WriteIsCurrent

-----------------------------------------------------------------------------
(* The cycle of sequence numbers. *)

\* The number after x is a number, and not x.
LEMMA NextNumber ==
  ASSUME NEW x \in SeqNumbers
  PROVE  /\ (x + 1) % SeqSpace = IF x = SeqSpace - 1 THEN 0 ELSE x + 1
         /\ (x + 1) % SeqSpace \in SeqNumbers
<1>1. SeqSpace \in Nat /\ SeqSpace >= 5
  BY AtomicAssumption
<1>2. SeqSpace % SeqSpace = 0
  BY <1>1
<1>3. CASE x = SeqSpace - 1
  <2>1. x + 1 = SeqSpace
    BY <1>1, <1>3 DEF SeqNumbers
  <2> QED BY <1>1, <1>2, <1>3, <2>1 DEF SeqNumbers
<1>4. CASE x # SeqSpace - 1
  <2>1. x + 1 \in 0 .. SeqSpace - 1
    BY <1>1, <1>4 DEF SeqNumbers
  <2>2. (x + 1) % SeqSpace = x + 1
    BY <1>1, <2>1
  <2> QED BY <1>1, <1>4, <2>1, <2>2 DEF SeqNumbers
<1> QED BY <1>3, <1>4

\* seq_is_later on neighbours: the number after x is later than x, and x is
\* not later than it, the wrap included.
LEMMA LaterByOne ==
  ASSUME NEW x \in SeqNumbers, NEW y \in SeqNumbers,
         y = (x + 1) % SeqSpace
  PROVE  SeqIsLater(y, x) /\ ~SeqIsLater(x, y)
<1>1. SeqSpace \in Nat /\ SeqSpace >= 5
  BY AtomicAssumption
<1>2. y = IF x = SeqSpace - 1 THEN 0 ELSE x + 1
  BY NextNumber
<1>3. /\ 1 < (SeqSpace - 1) \div 2
      /\ ~(SeqSpace - 1 < (SeqSpace - 1) \div 2)
  BY <1>1
<1>4. /\ (1 - SeqSpace) % SeqSpace = 1
      /\ (-1) % SeqSpace = SeqSpace - 1
      /\ 1 % SeqSpace = 1
      /\ (SeqSpace - 1) % SeqSpace = SeqSpace - 1
  BY <1>1
<1>5. CASE x = SeqSpace - 1
  <2>1. y - x = 1 - SeqSpace /\ x - y = SeqSpace - 1
    BY <1>1, <1>2, <1>5 DEF SeqNumbers
  <2> QED BY <1>1, <1>3, <1>4, <2>1 DEF SeqIsLater
<1>6. CASE x # SeqSpace - 1
  <2>1. y - x = 1 /\ x - y = -1
    BY <1>1, <1>2, <1>6 DEF SeqNumbers
  <2> QED BY <1>1, <1>3, <1>4, <2>1 DEF SeqIsLater
<1> QED BY <1>5, <1>6

-----------------------------------------------------------------------------
(* The slots. *)

\* What is usable among the contents of a slot.
LEMMA ValidRecords ==
  /\ \A r \in Records : Valid(r) /\ r.seq \in SeqNumbers
                        /\ r.payload \in Payloads \cup {Absent}
                        /\ (r.kind = "value" => r.payload \in Payloads)
                        /\ (r.kind # "value" => r.payload = Absent)
  /\ ~Valid(Unusable) /\ ~Valid(TornRecord)
  BY DEF Records, Values, Tombstones, Valid, Unusable, TornRecord

\* What wins is a good record.
LEMMA WinnerType ==
  ASSUME NEW sl
  PROVE  /\ Winner(sl) \in Slot \cup {"none"}
         /\ Winner(sl) # "none" => Winner(sl) \in Slot /\ Valid(sl[Winner(sl)])
         /\ Winner(sl) = "none" => \A s \in Slot : ~Valid(sl[s])
  BY DEF Winner, Slot

\* What a call sees past failed reads: no record because there is none, or a
\* good record that one of the slots really holds.
LEMMA SeenRecords ==
  ASSUME NEW sl \in [Slot -> Records \cup {Unusable, TornRecord}],
         NEW failed \in SUBSET Slot, ~Errors(sl, failed)
  PROVE  IF Winner(Seen(sl, failed)) = "none" THEN Winner(sl) = "none"
         ELSE LET w == Winner(Seen(sl, failed))
              IN /\ w \in Slot /\ Valid(sl[w]) /\ sl[w] \in Records
                 /\ Seen(sl, failed)[w] = sl[w]
<1> DEFINE seen == Seen(sl, failed)
<1>1. \A s \in Slot : seen[s] = IF s \in failed THEN ReadError ELSE sl[s]
  BY DEF Seen
<1>2. ~Valid(ReadError)
  BY DEF Valid, ReadError
<1>3. Winner(seen) # "none" => Winner(seen) \in Slot /\ Valid(seen[Winner(seen)])
  BY WinnerType
<1>4. ASSUME Winner(seen) = "none" PROVE Winner(sl) = "none"
  <2>1. failed = {}
    BY <1>4 DEF Errors
  <2>2. seen["a"] = sl["a"] /\ seen["b"] = sl["b"]
    BY <1>1, <2>1 DEF Slot
  <2> QED BY <1>4, <2>2 DEF Winner
<1>5. ASSUME Winner(seen) # "none"
      PROVE  /\ Winner(seen) \in Slot /\ Valid(sl[Winner(seen)])
             /\ sl[Winner(seen)] \in Records /\ seen[Winner(seen)] = sl[Winner(seen)]
  <2>1. seen[Winner(seen)] = sl[Winner(seen)]
    BY <1>1, <1>2, <1>3, <1>5
  <2> QED BY <1>3, <1>5, <2>1, ValidRecords
<1> QED BY <1>4, <1>5

\* The slot and the number a write gets follow the record it leaves alone.
LEMMA TargetType ==
  ASSUME NEW sl \in [Slot -> Records \cup {Unusable, TornRecord}],
         NEW failed \in SUBSET Slot, ~Errors(sl, failed)
  PROVE  LET t == Target(Seen(sl, failed))
         IN /\ t.slot \in Slot /\ t.seq \in SeqNumbers
            /\ Valid(sl[Other(t.slot)]) => t.seq = (sl[Other(t.slot)].seq + 1) % SeqSpace
            /\ Winner(sl) # "none" => Valid(sl[Other(t.slot)])
<1> DEFINE seen == Seen(sl, failed)
           w == Winner(seen)
<1>1. CASE w = "none"
  <2>1. Target(seen) = [slot |-> "a", seq |-> 0]
    BY <1>1 DEF Target
  <2>2. Winner(sl) = "none" /\ \A s \in Slot : ~Valid(sl[s])
    BY <1>1, SeenRecords, WinnerType
  <2>3. 0 \in SeqNumbers
    BY AtomicAssumption DEF SeqNumbers
  <2> QED BY <2>1, <2>2, <2>3 DEF Slot, Other
<1>2. CASE w # "none"
  <2>1. w \in Slot /\ Valid(sl[w]) /\ sl[w] \in Records /\ seen[w] = sl[w]
    BY <1>2, SeenRecords
  <2>2. Target(seen) = [slot |-> Other(w), seq |-> (sl[w].seq + 1) % SeqSpace]
    BY <1>2, <2>1 DEF Target
  <2>3. (sl[w].seq + 1) % SeqSpace \in SeqNumbers
    BY <2>1, ValidRecords, NextNumber
  <2>4. Other(Other(w)) = w /\ Other(w) \in Slot
    BY <2>1 DEF Other, Slot
  <2> QED BY <2>1, <2>2, <2>3, <2>4
<1> QED BY <1>1, <1>2

\* The core of it: a record that follows the one in the other slot wins, the
\* two slots stay one number apart, and the other slot is what is behind it.
LEMMA WriteWins ==
  ASSUME NEW sl \in [Slot -> Records \cup {Unusable, TornRecord}],
         NEW t \in Slot, NEW r \in Records,
         Valid(sl[Other(t)]) => r.seq = (sl[Other(t)].seq + 1) % SeqSpace
  PROVE  LET after == [sl EXCEPT ![t] = r]
         IN /\ Winner(after) = t
            /\ Consecutive(after)
            /\ StorageGet(after) = r.payload
            /\ Older(after) = IF Valid(sl[Other(t)]) THEN sl[Other(t)].payload ELSE Nothing
<1> DEFINE after == [sl EXCEPT ![t] = r]
<1>1. t \in Slot /\ after \in [Slot -> Records \cup {Unusable, TornRecord}]
      /\ after[t] = r /\ after[Other(t)] = sl[Other(t)]
  BY DEF Slot, Other
<1>2. Valid(after[t])
  BY <1>1, ValidRecords
<1>3. Valid(sl[Other(t)]) => sl[Other(t)] \in Records
  BY ValidRecords DEF Other, Slot
<1>4. Valid(sl[Other(t)]) =>
         SeqIsLater(r.seq, sl[Other(t)].seq) /\ ~SeqIsLater(sl[Other(t)].seq, r.seq)
  BY <1>3, ValidRecords, LaterByOne
<1> HIDE DEF after
<1>5. Winner(after) = t
  <2>1. CASE t = "a"
    BY <1>1, <1>2, <1>4, <2>1 DEF Winner, Other
  <2>2. CASE t = "b"
    BY <1>1, <1>2, <1>4, <2>2 DEF Winner, Other
  <2> QED BY <1>1, <2>1, <2>2 DEF Slot
<1>6. Consecutive(after)
  <2>1. Valid(after["a"]) /\ Valid(after["b"]) => Valid(sl[Other(t)])
    BY <1>1 DEF Other, Slot
  <2> QED BY <1>1, <2>1 DEF Consecutive
<1>7. t # "none"
  BY <1>1 DEF Slot
<1>8. StorageGet(after) = r.payload
  BY <1>1, <1>5, <1>7, ValidRecords DEF StorageGet
<1>9. Older(after) = IF Valid(sl[Other(t)]) THEN sl[Other(t)].payload ELSE Nothing
  BY <1>1, <1>5, <1>7 DEF Older
<1> QED BY <1>5, <1>6, <1>8, <1>9 DEF after

\* A torn slot with a good one beside it leaves that one's record to be read;
\* when nothing was good, nothing still is.
LEMMA TearLeavesTheOther ==
  ASSUME NEW sl \in [Slot -> Records \cup {Unusable, TornRecord}],
         NEW t \in Slot, Winner(sl) # "none" => Valid(sl[Other(t)])
  PROVE  LET after == [sl EXCEPT ![t] = TornRecord]
         IN /\ Consecutive(after)
            /\ Older(after) = Nothing
            /\ StorageGet(after) = IF t = Winner(sl) THEN Older(sl) ELSE StorageGet(sl)
<1> DEFINE after == [sl EXCEPT ![t] = TornRecord]
           o == Other(t)
<1>1. /\ o \in Slot /\ t # o /\ Other(o) = t /\ t # "none" /\ o # "none"
      /\ after[t] = TornRecord /\ after[o] = sl[o]
  BY DEF Slot, Other
<1>2. ~Valid(after[t])
  BY <1>1, ValidRecords
<1> HIDE DEF after, o
<1>3. Consecutive(after)
  BY <1>2 DEF Consecutive, Slot
<1>4. CASE Winner(sl) = "none"
  <2>1. ~Valid(sl[o])
    BY <1>1, <1>4, WinnerType
  <2>2. Winner(after) = "none"
    BY <1>1, <1>2, <2>1, WinnerType DEF Slot
  <2> QED BY <1>1, <1>3, <1>4, <2>2 DEF after, Older, StorageGet
<1>5. CASE Winner(sl) # "none"
  <2>1. Valid(sl[o])
    BY <1>5 DEF o
  <2>2. Winner(after) = o
    BY <1>1, <1>2, <2>1, WinnerType DEF Slot
  <2>3. Older(after) = Nothing
    BY <1>1, <1>2, <2>2 DEF Older
  <2>4. /\ StorageGet(after) = IF sl[o].kind = "value" THEN sl[o].payload ELSE Absent
        /\ StorageGet(after) = sl[o].payload
    <3>1. sl[o] \in Records
      BY <1>1, <2>1, ValidRecords
    <3> QED BY <1>1, <2>2, <3>1, ValidRecords DEF StorageGet
  <2>5. CASE t = Winner(sl)
    <3>1. Older(sl) = sl[o].payload
      BY <1>5, <2>1, <2>5 DEF Older, o
    <3> QED BY <1>3, <2>3, <2>4, <2>5, <3>1 DEF after
  <2>6. CASE t # Winner(sl)
    <3>1. Winner(sl) = o
      BY <1>1, <1>5, <2>6, WinnerType DEF Slot
    <3>2. StorageGet(sl) = IF sl[o].kind = "value" THEN sl[o].payload ELSE Absent
      BY <1>1, <3>1 DEF StorageGet
    <3> QED BY <1>3, <2>3, <2>4, <2>6, <3>2 DEF after
  <2> QED BY <2>5, <2>6
<1> QED BY <1>4, <1>5

-----------------------------------------------------------------------------
(* The invariant. *)

LEMMA AtomicInvInit == AtomicInit => AtomicInv
<1> SUFFICES ASSUME AtomicInit PROVE AtomicInv
  OBVIOUS
<1>1. ~Valid(slots["a"])
  BY ValidRecords DEF AtomicInit, Slot
<1> QED BY <1>1 DEF AtomicInit, AtomicInv, WriteIsCurrent, Consecutive, Slot

\* What the invariant says of a write under way.
LEMMA Writing ==
  ASSUME AtomicInv, storeOp.pc = "writing"
  PROVE  /\ storeOp.slot \in Slot /\ storeOp.record \in Records
         /\ Valid(slots[Other(storeOp.slot)]) =>
               storeOp.record.seq = (slots[Other(storeOp.slot)].seq + 1) % SeqSpace
         /\ Winner(slots) # "none" => Valid(slots[Other(storeOp.slot)])
  BY DEF AtomicInv, WriteIsCurrent, NoStore

LEMMA AtomicInvStep == AtomicInv /\ [AtomicNext]_atomicVars => AtomicInv'
<1> SUFFICES ASSUME AtomicInv, [AtomicNext]_atomicVars
             PROVE  AtomicInv'
  OBVIOUS
<1>0. slots \in [Slot -> Records \cup {Unusable, TornRecord}]
  BY DEF AtomicInv
<1>1. ASSUME NEW k, NEW p, NEW failed \in SUBSET Slot, BeginWrite(k, p, failed),
             \A n \in SeqNumbers : [kind |-> k, seq |-> n, payload |-> p] \in Records
      PROVE  AtomicInv'
  <2>1. slots' = slots
    BY <1>1 DEF BeginWrite
  <2>2. CASE Errors(slots, failed)
    BY <1>1, <2>1, <2>2 DEF BeginWrite, AtomicInv, WriteIsCurrent, Consecutive
  <2>3. CASE ~Errors(slots, failed)
    <3> DEFINE t == Target(Seen(slots, failed))
    <3>1. storeOp' = [pc |-> "writing", slot |-> t.slot,
                      record |-> [kind |-> k, seq |-> t.seq, payload |-> p]]
      BY <1>1, <2>3 DEF BeginWrite
    <3>2. /\ t.slot \in Slot /\ t.seq \in SeqNumbers
          /\ Valid(slots[Other(t.slot)]) => t.seq = (slots[Other(t.slot)].seq + 1) % SeqSpace
          /\ Winner(slots) # "none" => Valid(slots[Other(t.slot)])
      BY <1>0, <2>3, TargetType
    <3> HIDE DEF t
    <3>3. WriteIsCurrent'
      BY <1>1, <2>1, <3>1, <3>2 DEF WriteIsCurrent
    <3> QED BY <2>1, <3>3 DEF AtomicInv, Consecutive
  <2> QED BY <2>2, <2>3
<1>2. CASE StorageSet
  <2>1. \A p \in Payloads : \A n \in SeqNumbers :
           [kind |-> "value", seq |-> n, payload |-> p] \in Records
    BY DEF Records, Values
  <2> QED BY <1>1, <1>2, <2>1 DEF StorageSet
<1>3. CASE StorageRemove
  <2>1. \A n \in SeqNumbers : [kind |-> "tombstone", seq |-> n, payload |-> Absent] \in Records
    BY DEF Records, Tombstones
  <2> QED BY <1>1, <1>3, <2>1 DEF StorageRemove
<1>4. ASSUME storeOp.pc = "writing", storeOp' = NoStore,
             slots' = [slots EXCEPT ![storeOp.slot] = storeOp.record]
      PROVE  AtomicInv'
  <2>1. Consecutive(slots')
    BY <1>0, <1>4, Writing, WriteWins
  <2>2. slots' \in [Slot -> Records \cup {Unusable, TornRecord}]
    BY <1>0, <1>4, Writing
  <2> QED BY <1>4, <2>1, <2>2 DEF AtomicInv, WriteIsCurrent, Consecutive
<1>5. CASE Written
  BY <1>4, <1>5 DEF Written
<1>6. CASE WriteRefused
  BY <1>6 DEF WriteRefused, AtomicInv, WriteIsCurrent, Consecutive
<1>7. CASE PowerCut
  <2>1. CASE slots' = [slots EXCEPT ![storeOp.slot] = storeOp.record]
    BY <1>4, <1>7, <2>1 DEF PowerCut
  <2>2. CASE slots' = [slots EXCEPT ![storeOp.slot] = TornRecord]
    <3>1. Consecutive(slots')
      BY <1>0, <1>7, <2>2, Writing, TearLeavesTheOther DEF PowerCut
    <3>2. slots' \in [Slot -> Records \cup {Unusable, TornRecord}]
      BY <1>0, <2>2
    <3> QED BY <1>7, <3>1, <3>2 DEF PowerCut, AtomicInv, WriteIsCurrent, Consecutive
  <2> QED BY <1>7, <2>1, <2>2 DEF PowerCut
<1>8. CASE StorageRead \/ UNCHANGED atomicVars
  BY <1>8 DEF StorageRead, atomicVars, AtomicInv, WriteIsCurrent, Consecutive
<1> QED BY <1>2, <1>3, <1>5, <1>6, <1>7, <1>8 DEF AtomicNext

\* In every reachable state of the storage, whatever reads failed, the slots are
\* well formed and one number apart, and a write under way leaves alone a good
\* record, which its own number follows (write_record).
THEOREM AtomicStorageInvariant == AtomicSpec => []AtomicInv
<1> QED BY AtomicInvInit, AtomicInvStep, PTL DEF AtomicSpec

LEMMA AtomicInvHolds == AtomicInv => AtomicTypeOK
<1> SUFFICES ASSUME AtomicInv PROVE AtomicTypeOK
  OBVIOUS
<1>0. slots \in [Slot -> Records \cup {Unusable, TornRecord}]
  BY DEF AtomicInv
<1>1. \A s \in Slot : Valid(slots[s]) => slots[s].seq \in 0 .. SeqSpace - 1
  BY <1>0, ValidRecords DEF SeqNumbers
<1>2. storeOp.pc = "writing" /\ Winner(slots) # "none" => Valid(slots[Other(storeOp.slot)])
  BY Writing
<1> QED BY <1>1, <1>2 DEF AtomicTypeOK, AtomicInv, Consecutive

\* A power cut in a write never reaches the only good record, even when the
\* write was begun after the latest one could not be read (read_slots,
\* write_record).
THEOREM AtomicStorageTypeOK == AtomicSpec => []AtomicTypeOK
<1> QED BY AtomicInvHolds, AtomicStorageInvariant, PTL

-----------------------------------------------------------------------------
(* The refinement. *)

Pending == IF storeOp.pc = "idle" THEN Nothing ELSE storeOp.record.payload

\* The register's variables, as they are read from the storage's.
RegisterVars == <<StorageGet(slots), Older(slots), Pending, Blind, answer, got>>

\* Every step of the storage is a step of the register, or none.
LEMMA RegisterStep ==
  AtomicInv /\ AtomicInv' /\ [AtomicNext]_atomicVars
  => [Register!RegNext]_RegisterVars
<1> SUFFICES ASSUME AtomicInv, AtomicInv', [AtomicNext]_atomicVars
             PROVE  [Register!RegNext]_RegisterVars
  OBVIOUS
<1>0. slots \in [Slot -> Records \cup {Unusable, TornRecord}] /\ Consecutive(slots)
  BY DEF AtomicInv
<1>1. ASSUME NEW k, NEW p \in Payloads \cup {Absent}, NEW failed \in SUBSET Slot,
             BeginWrite(k, p, failed)
      PROVE  Register!RegNext
  <2>1. slots' = slots /\ got' = got /\ Pending = Nothing
    BY <1>1 DEF BeginWrite, Pending
  <2>2. CASE Errors(slots, failed)
    <3>1. storeOp' = storeOp /\ answer' = "failed"
      BY <1>1, <2>2 DEF BeginWrite
    <3>2. Register!Refuses
      BY <2>1, <3>1 DEF Register!Refuses, Pending, Blind
    <3> QED BY <3>2 DEF Register!RegNext
  <2>3. CASE ~Errors(slots, failed)
    <3>1. storeOp'.pc = "writing" /\ Pending' = p /\ answer' = answer
      BY <1>1, <2>3 DEF BeginWrite, Pending
    <3>2. ASSUME Blind' PROVE Older(slots) # Nothing
      <4>1. storeOp'.slot \in Slot /\ storeOp'.slot = Winner(slots) /\ Winner(slots) # "none"
        BY <2>1, <3>1, <3>2 DEF Blind, AtomicInv, WriteIsCurrent, NoStore, Slot
      <4>2. Valid(slots[Other(Winner(slots))]) /\ Other(Winner(slots)) \in Slot
        BY <2>1, <3>1, <4>1 DEF AtomicInv, WriteIsCurrent, NoStore, Other, Slot
      <4>3. Older(slots) = slots[Other(Winner(slots))].payload
        BY <4>1, <4>2 DEF Older
      <4>4. slots[Other(Winner(slots))] \in Records
        BY <1>0, <4>2, ValidRecords
      <4> QED BY <4>3, <4>4, ValidRecords, AtomicAssumption
    <3>3. Register!Begins
      BY <2>1, <3>1, <3>2 DEF Register!Begins, Pending
    <3> QED BY <3>3 DEF Register!RegNext
  <2> QED BY <2>2, <2>3
<1>2. CASE StorageSet \/ StorageRemove
  <2>1. Register!RegNext
    BY <1>1, <1>2 DEF StorageSet, StorageRemove
  <2> QED BY <2>1
<1>3. CASE StorageRead
  <2>1. PICK failed \in SUBSET Slot :
           got' = IF Errors(slots, failed) THEN Nothing ELSE StorageGet(Seen(slots, failed))
    BY <1>3 DEF StorageRead
  <2>2. ASSUME ~Errors(slots, failed)
        PROVE  StorageGet(Seen(slots, failed)) \in {StorageGet(slots), Older(slots)}
    <3> DEFINE seen == Seen(slots, failed)
               w == Winner(seen)
    <3>1. CASE w = "none"
      <4>1. Winner(slots) = "none"
        BY <1>0, <2>2, <3>1, SeenRecords
      <4> QED BY <3>1, <4>1 DEF StorageGet
    <3>2. CASE w # "none"
      <4>1. /\ w \in Slot /\ Valid(slots[w]) /\ slots[w] \in Records /\ seen[w] = slots[w]
        BY <1>0, <2>2, <3>2, SeenRecords
      <4> HIDE DEF seen, w
      <4>2. StorageGet(seen) = slots[w].payload
        BY <3>2, <4>1, ValidRecords DEF StorageGet, w
      <4>3. Winner(slots) \in Slot /\ Winner(slots) # "none"
        BY <4>1, WinnerType DEF Slot
      <4>4. CASE Winner(slots) = w
        BY <3>2, <4>1, <4>2, <4>4, ValidRecords DEF StorageGet, seen
      <4>5. CASE Winner(slots) # w
        <5>1. Other(Winner(slots)) = w
          BY <4>1, <4>3, <4>5 DEF Other, Slot
        <5> QED BY <4>1, <4>2, <4>3, <5>1 DEF Older, seen
      <4> QED BY <4>4, <4>5
    <3> QED BY <3>1, <3>2
  <2>3. Register!Reads
    BY <1>3, <2>1, <2>2 DEF StorageRead, Register!Reads, Pending, Blind
  <2> QED BY <2>3 DEF Register!RegNext
<1>4. ASSUME storeOp.pc = "writing"
      PROVE  /\ Pending = storeOp.record.payload
             /\ Pending # Nothing
             /\ (storeOp' = NoStore => Pending' = Nothing /\ ~Blind')
  BY <1>4, Writing, ValidRecords, AtomicAssumption DEF NoStore, Pending, Blind
<1>5. ASSUME storeOp.pc = "writing", storeOp' = NoStore, answer' \in {"ok", "cut"},
             slots' = [slots EXCEPT ![storeOp.slot] = storeOp.record], got' = got
      PROVE  Register!RegNext
  <2> DEFINE s == storeOp.slot
  <2>1. /\ s \in Slot /\ storeOp.record \in Records
        /\ Valid(slots[Other(s)]) => storeOp.record.seq = (slots[Other(s)].seq + 1) % SeqSpace
        /\ Winner(slots) # "none" => Valid(slots[Other(s)])
    BY <1>5, Writing
  <2>2. /\ StorageGet(slots') = Pending
        /\ Older(slots') = IF Valid(slots[Other(s)]) THEN slots[Other(s)].payload ELSE Nothing
    BY <1>0, <1>4, <1>5, <2>1, WriteWins
  <2>3. CASE Blind
    <3>1. Winner(slots) = s /\ Winner(slots) # "none"
      BY <2>1, <2>3 DEF Blind, Slot
    <3>2. Older(slots') = Older(slots)
      BY <2>1, <2>2, <3>1 DEF Older
    <3>3. Register!TakesEffect
      BY <1>4, <1>5, <2>2, <2>3, <3>2 DEF Register!TakesEffect, Pending
    <3> QED BY <3>3 DEF Register!RegNext
  <2>4. CASE ~Blind
    <3>1. Older(slots') \in {StorageGet(slots), Nothing}
      <4>1. CASE ~Valid(slots[Other(s)])
        BY <2>2, <4>1
      <4>2. CASE Valid(slots[Other(s)])
        <5>1. Winner(slots) = Other(s) /\ Other(s) # "none" /\ Other(s) \in Slot
          BY <1>5, <2>1, <2>4, <4>2, WinnerType DEF Blind, Other, Slot
        <5>2. slots[Other(s)] \in Records
          BY <1>0, <4>2, <5>1, ValidRecords
        <5> QED BY <2>2, <4>2, <5>1, <5>2, ValidRecords DEF StorageGet
      <4> QED BY <4>1, <4>2
    <3>2. Register!TakesEffect
      BY <1>4, <1>5, <2>2, <2>4, <3>1 DEF Register!TakesEffect, Pending
    <3> QED BY <3>2 DEF Register!RegNext
  <2> QED BY <2>3, <2>4
<1>6. CASE Written
  <2>1. Register!RegNext
    BY <1>5, <1>6 DEF Written
  <2> QED BY <2>1
<1>7. CASE WriteRefused
  <2>1. Register!HasNoEffect
    BY <1>4, <1>7 DEF WriteRefused, Register!HasNoEffect, Pending
  <2> QED BY <2>1 DEF Register!RegNext
<1>8. CASE PowerCut
  <2>1. CASE slots' = [slots EXCEPT ![storeOp.slot] = storeOp.record]
    <3>1. Register!RegNext
      BY <1>5, <1>8, <2>1 DEF PowerCut
    <3> QED BY <3>1
  <2>2. CASE slots' = [slots EXCEPT ![storeOp.slot] = TornRecord]
    <3>1. /\ Older(slots') = Nothing
          /\ StorageGet(slots') = IF storeOp.slot = Winner(slots) THEN Older(slots)
                                  ELSE StorageGet(slots)
      BY <1>0, <1>8, <2>2, Writing, TearLeavesTheOther DEF PowerCut
    <3>2. Blind <=> storeOp.slot = Winner(slots)
      BY <1>8 DEF PowerCut, Blind
    <3>3. StorageGet(slots') = IF Blind THEN Older(slots) ELSE StorageGet(slots)
      BY <3>1, <3>2
    <3>4. Register!IsCutShort
      BY <1>4, <1>8, <3>1, <3>3 DEF PowerCut, Register!IsCutShort, Pending
    <3> QED BY <3>4 DEF Register!RegNext
  <2> QED BY <1>8, <2>1, <2>2 DEF PowerCut
<1>9. CASE UNCHANGED atomicVars
  BY <1>9 DEF atomicVars, RegisterVars, Pending, Blind, Older, StorageGet, Winner
<1> QED BY <1>2, <1>3, <1>6, <1>7, <1>8, <1>9 DEF AtomicNext

\* Two slots, a sequence number and a checksum implement a register with one
\* value behind the current one, for every set of payloads and every sequence
\* space of five numbers or more, across every wrap of the number: a read
\* returns what was written last or, when a slot cannot be read, the value
\* before it, and only a write begun without seeing the latest record can, cut
\* short, lose it (AtomicStorage's set, get, remove).
THEOREM AtomicStorageImplementsRegister == AtomicSpec => AtomicRegister
<1>1. AtomicInit => Register!RegInit
  <2> SUFFICES ASSUME AtomicInit PROVE Register!RegInit
    OBVIOUS
  <2>1. ~Valid(slots["a"]) /\ ~Valid(slots["b"])
    BY ValidRecords DEF AtomicInit, Slot
  <2>2. Winner(slots) = "none"
    BY <2>1 DEF Winner
  <2>3. StorageGet(slots) = Absent /\ Older(slots) = Nothing
    BY <2>2 DEF StorageGet, Older
  <2> QED BY <2>2, <2>3 DEF AtomicInit, NoStore, Register!RegInit, Blind
<1>2. AtomicInv /\ AtomicInv' /\ [AtomicNext]_atomicVars
      => [Register!RegNext]_<<StorageGet(slots), Older(slots),
             IF storeOp.pc = "idle" THEN Nothing ELSE storeOp.record.payload,
             Blind, answer, got>>
  BY RegisterStep DEF Pending, RegisterVars
<1> QED BY <1>1, <1>2, AtomicStorageInvariant, PTL
        DEF AtomicRegister, AtomicSpec, Register!RegSpec

-----------------------------------------------------------------------------
(* The records of running transactions (Recovery).                          *)

OpenTxs   == [id : Nat, energy : Int]
Txs       == OpenTxs \cup {None}
TxEvents  == [kind : {"Started", "Sample", "Changed", "Ended"},
              conn : RecConnectors, tx : OpenTxs]
Writers   == [pc : {"idle"}] \cup [pc : {"counter", "record", "clear"}, event : TxEvents]
RecStages == [pc : {"up"}] \cup
             [pc : {"restore", "clear"}, loaded : [RecConnectors -> Txs]]
Disks       == [record : [RecConnectors -> Txs], counter : 0 .. MaxIds]
AccountSets == [recorded : SUBSET Nat, ended : SUBSET Nat]
MishapSets  == [cuts : Nat, failures : Nat, dropped : SUBSET Nat]

RecTypes ==
    /\ live \in [RecConnectors -> Txs] /\ shadow \in [RecConnectors -> Txs]
    /\ nextTxId \in 0 .. MaxIds
    /\ persistQ \in Seq(TxEvents) /\ reportQ \in Seq(OpenTxs)
    /\ writer \in Writers /\ booting \in RecStages
    /\ disk \in Disks
    /\ accounts \in AccountSets
    /\ mishaps \in MishapSets
    /\ writer.pc # "idle" => (writer.pc = "clear" <=> writer.event.kind = "Ended")
    /\ writer.pc = "counter" => writer.event.kind = "Started"
    /\ ~Up => live = Nobody /\ shadow = Nobody /\ writer.pc = "idle"
    /\ booting.pc = "restore" => persistQ = <<>> /\ reportQ = <<>>

\* The events on their way to the disk, the one in the writer's hands first.
Underway == {i \in 0 .. Len(persistQ) : i = 0 => writer.pc # "idle"}
At(i)  == IF i = 0 THEN writer.event ELSE persistQ[i]

LEMMA NoneIsNoTx == None \notin OpenTxs /\ None.id = -1 /\ NoSample \in Int
  BY DEF None, OpenTxs, NoSample

\* What a task does to the queue of events, said of the places: none is added,
\* and the ones left keep their order.
Shifted(s) == \A i \in Underway' : i + s \in Underway /\ At(i)' = At(i + s)

LEMMA PlacesAreEvents ==
  ASSUME RecTypes
  PROVE  /\ \A i \in Underway : At(i) \in TxEvents
         /\ Underway \subseteq Nat
<1>1. Len(persistQ) \in Nat
  BY LenProperties DEF RecTypes
<1>2. ASSUME NEW i \in Underway PROVE At(i) \in TxEvents
  <2>1. CASE i = 0
    BY <1>2, <2>1 DEF Underway, At, RecTypes, Writers
  <2>2. CASE i # 0
    <3>1. i \in 1 .. Len(persistQ) /\ At(i) = persistQ[i]
      BY <1>1, <1>2, <2>2 DEF Underway, At
    <3>2. persistQ[i] \in TxEvents
      BY <3>1, ElementOfSeq DEF RecTypes
    <3> QED BY <3>1, <3>2
  <2> QED BY <2>1, <2>2
<1> QED BY <1>1, <1>2 DEF Underway

\* An event broadcast takes the next place, and the others keep theirs.
LEMMA BroadcastPlaces ==
  ASSUME RecTypes, UNCHANGED writer,
         NEW k \in {"Started", "Sample", "Changed", "Ended"}, NEW c \in RecConnectors,
         NEW tx \in OpenTxs, Broadcast(k, c, tx)
  PROVE  /\ persistQ' \in Seq(TxEvents) /\ reportQ' \in Seq(OpenTxs)
         /\ Len(persistQ) + 1 \in Nat
         /\ Underway' = Underway \cup {Len(persistQ) + 1}
         /\ \A i \in Underway : At(i)' = At(i) /\ i < Len(persistQ) + 1
         /\ \A n \in Underway' \ Underway : At(n)' = [kind |-> k, conn |-> c, tx |-> tx]
         /\ k # "Ended" => reportQ' = reportQ
         /\ \A i \in 1 .. Len(reportQ) : reportQ'[i] = reportQ[i]
         /\ Len(reportQ') >= Len(reportQ)
         /\ k = "Ended" => reportQ'[Len(reportQ')] = tx /\ Len(reportQ') \in 1 .. Len(reportQ')
<1> DEFINE e == [kind |-> k, conn |-> c, tx |-> tx]
<1>1. e \in TxEvents
  BY DEF TxEvents
<1> HIDE DEF e
<1>2. /\ persistQ' = Append(persistQ, e)
      /\ reportQ' = IF k = "Ended" THEN Append(reportQ, tx) ELSE reportQ
  BY DEF Broadcast, e
<1>3. /\ Len(persistQ) \in Nat /\ Len(reportQ) \in Nat
      /\ persistQ \in Seq(TxEvents) /\ reportQ \in Seq(OpenTxs)
  BY LenProperties DEF RecTypes
<1>4. /\ persistQ' \in Seq(TxEvents) /\ Len(persistQ') = Len(persistQ) + 1
      /\ \A i \in 1 .. Len(persistQ) : persistQ'[i] = persistQ[i]
      /\ persistQ'[Len(persistQ) + 1] = e
  BY <1>1, <1>2, <1>3, AppendProperties
<1>5. /\ Append(reportQ, tx) \in Seq(OpenTxs)
      /\ Len(Append(reportQ, tx)) = Len(reportQ) + 1
      /\ \A i \in 1 .. Len(reportQ) : Append(reportQ, tx)[i] = reportQ[i]
      /\ Append(reportQ, tx)[Len(reportQ) + 1] = tx
  BY <1>3, AppendProperties
<1>6. Underway' = Underway \cup {Len(persistQ) + 1}
  BY <1>3, <1>4 DEF Underway
<1>7. \A i \in Underway : At(i)' = At(i) /\ i < Len(persistQ) + 1
  BY <1>3, <1>4 DEF Underway, At
<1>8. \A n \in Underway' \ Underway : At(n)' = e
  BY <1>3, <1>4, <1>6 DEF At
<1>9. reportQ' \in Seq(OpenTxs) /\ (\A i \in 1 .. Len(reportQ) : reportQ'[i] = reportQ[i])
      /\ Len(reportQ') >= Len(reportQ)
      /\ (k = "Ended" => reportQ'[Len(reportQ')] = tx /\ Len(reportQ') \in 1 .. Len(reportQ'))
  BY <1>2, <1>3, <1>5
<1> QED BY <1>2, <1>3, <1>4, <1>6, <1>7, <1>8, <1>9 DEF e

\* The front event goes into the writer's hands, or is let go at once.
LEMMA TakenPlaces ==
  ASSUME RecTypes, TakeEvent
  PROVE  /\ 1 \in Underway /\ At(1) = Head(persistQ) /\ persistQ' \in Seq(TxEvents)
         /\ \A i \in Underway : i >= 1
         /\ Shifted(1)
         /\ writer'.pc # "idle" => \A i \in Underway : i - 1 \in Underway' /\ At(i - 1)' = At(i)
         /\ writer'.pc = "idle" => \A i \in Underway : i > 1 => i - 1 \in Underway' /\ At(i - 1)' = At(i)
         /\ writer'.pc = "idle" => \A i \in Underway' : i >= 1
         /\ writer' \in Writers
<1>1. /\ persistQ \in Seq(TxEvents) /\ persistQ # <<>> /\ writer.pc = "idle"
      /\ persistQ' = Tail(persistQ)
  BY DEF RecTypes, TakeEvent
<1>2. Len(persistQ) \in Nat /\ Len(persistQ) >= 1
  BY <1>1, EmptySeq, LenProperties
<1>3. /\ persistQ' \in Seq(TxEvents) /\ Len(persistQ') = Len(persistQ) - 1
      /\ \A i \in 1 .. Len(persistQ') : persistQ'[i] = persistQ[i + 1]
      /\ Head(persistQ) \in TxEvents /\ Head(persistQ) = persistQ[1]
  BY <1>1, <1>2, HeadTailProperties
<1>4. Underway = 1 .. Len(persistQ)
  BY <1>1, <1>2 DEF Underway
<1>5. /\ 1 \in Underway /\ At(1) = persistQ[1]
      /\ \A i \in Underway : At(i) = persistQ[i]
  BY <1>2, <1>4 DEF At
<1>6. /\ writer' \in Writers
      /\ writer'.pc # "idle" => writer'.event = Head(persistQ)
  <2> DEFINE e == Head(persistQ)
             d == Decide(shadow[e.conn], e)
  <2>1. writer' = IF d = "Skip" THEN WriterIdle
                  ELSE [pc |-> IF d = "Clear" THEN "clear" ELSE FirstWrite(e), event |-> e]
    BY DEF TakeEvent
  <2>2. e \in TxEvents
    BY <1>3
  <2> HIDE DEF e, d
  <2>3. writer' \in Writers /\ (writer'.pc # "idle" => writer'.event = e)
    BY <2>1, <2>2 DEF WriterIdle, Writers, FirstWrite
  <2> QED BY <2>3 DEF e
<1>7. \A i \in Underway' : i + 1 \in Underway /\ At(i)' = At(i + 1)
  <2> TAKE i \in Underway'
  <2>1. i \in 0 .. Len(persistQ) - 1 /\ i + 1 \in 1 .. Len(persistQ)
    BY <1>2, <1>3 DEF Underway
  <2>2. CASE i = 0
    BY <1>3, <1>4, <1>5, <1>6, <2>1, <2>2 DEF At, Underway
  <2>3. CASE i # 0
    BY <1>2, <1>3, <1>4, <1>5, <2>1, <2>3 DEF At
  <2> QED BY <2>2, <2>3
<1>8. ASSUME NEW i \in Underway, i > 1 \/ writer'.pc # "idle"
      PROVE  i - 1 \in Underway' /\ At(i - 1)' = At(i)
  <2>1. i \in 1 .. Len(persistQ) /\ i - 1 \in 0 .. Len(persistQ')
    BY <1>2, <1>3, <1>4
  <2>2. i - 1 \in Underway'
    BY <1>2, <1>3, <1>8, <2>1 DEF Underway
  <2>3. (i - 1) + 1 = i
    BY <2>1
  <2> QED BY <1>7, <2>2, <2>3
<1>9. writer'.pc = "idle" => \A i \in Underway' : i >= 1
  BY <1>2, <1>3 DEF Underway
<1> QED BY <1>2, <1>3, <1>4, <1>5, <1>6, <1>7, <1>8, <1>9 DEF Shifted

\* The writer is done with its event.
LEMMA WrittenPlaces ==
  ASSUME RecTypes, writer.pc # "idle", writer' = WriterIdle, UNCHANGED persistQ
  PROVE  /\ 0 \in Underway /\ At(0) = writer.event
         /\ Underway' = Underway \ {0}
         /\ \A i \in Underway' : i > 0 /\ At(i)' = At(i)
         /\ Shifted(0)
<1>1. Len(persistQ) \in Nat
  BY LenProperties DEF RecTypes
<1> QED BY <1>1 DEF Underway, At, WriterIdle, Shifted

\* Nothing moves.
LEMMA StillPlaces ==
  ASSUME RecTypes, UNCHANGED persistQ,
         writer' = writer \/ (writer.pc # "idle" /\ writer'.pc # "idle" /\ writer'.event = writer.event)
  PROVE  Underway' = Underway /\ (\A i \in Underway : At(i)' = At(i)) /\ Shifted(0)
<1>1. Len(persistQ) \in Nat
  BY LenProperties DEF RecTypes
<1>2. Underway' = Underway /\ (\A i \in Underway : At(i)' = At(i))
  BY <1>1 DEF Underway, At
<1> QED BY <1>1, <1>2 DEF Shifted, Underway
-----------------------------------------------------------------------------
\* OnEach lists the connectors that have a record, each in one place.
LEMMA OnEachLists ==
  ASSUME NEW r \in [RecConnectors -> Txs]
  PROVE  /\ OnEach(r) \in Seq(RecConnectors)
         /\ \A i \in 1 .. Len(OnEach(r)) : r[OnEach(r)[i]] # None
         /\ \A c \in RecConnectors :
               r[c] # None => \E i \in 1 .. Len(OnEach(r)) : OnEach(r)[i] = c
<1> DEFINE S == {c \in RecConnectors : r[c] # None}
           n == Cardinality(S)
           f == SetToSeq(S)
<1>1. S \in SUBSET RecConnectors
  OBVIOUS
<1>2. IsFiniteSet(RecConnectors)
  BY RecAssumption, FS_Interval DEF RecConnectors
<1>3. IsFiniteSet(S)
  BY <1>1, <1>2, FS_Subset
<1> HIDE DEF S
<1>4. n \in Nat /\ ExistsBijection(1 .. n, S)
  BY <1>3, FS_CardinalityType
<1>5. \E g \in [1 .. n -> S] : IsInjective(g)
  BY <1>4 DEF ExistsBijection, Bijection, Injection
<1>6. f \in [1 .. n -> S] /\ IsInjective(f)
  BY <1>5 DEF SetToSeq
<1> HIDE DEF f
<1>7. f \in Injection(1 .. n, S)
  BY <1>6 DEF Injection
<1>8. Cardinality(1 .. n) = n
  BY <1>4, FS_Interval
<1> HIDE DEF n
<1>9. f \in Surjection(1 .. n, S)
  BY <1>3, <1>7, <1>8, FS_Injection DEF n
<1>10. f \in Seq(RecConnectors) /\ Len(f) = n
  BY <1>1, <1>4, <1>6
<1>11. OnEach(r) = f
  BY DEF OnEach, f, S
<1>12. \A c \in S : \E i \in 1 .. n : f[i] = c
  BY <1>9 DEF Surjection
<1>13. \A i \in 1 .. n : f[i] \in S
  BY <1>6
<1> HIDE DEF S
<1> QED BY <1>10, <1>11, <1>12, <1>13 DEF S

\* What RestoreTx hands to the two tasks: one end for each record.
LEMMA RestoredEvents ==
  ASSUME RecTypes, RestoreTx
  PROVE  /\ persistQ' \in Seq(TxEvents) /\ reportQ' \in Seq(OpenTxs)
         /\ Underway' = 1 .. Len(persistQ') /\ Len(reportQ') = Len(persistQ')
         /\ Len(persistQ') \in Nat
         /\ \A i \in Underway' :
               /\ At(i)'.kind = "Ended" /\ At(i)'.tx = reportQ'[i]
               /\ At(i)'.conn \in RecConnectors
               /\ disk.record[At(i)'.conn] = At(i)'.tx
         /\ \A c \in RecConnectors : disk.record[c] # None =>
               \E i \in 1 .. Len(reportQ') : reportQ'[i] = disk.record[c]
<1> DEFINE found == OnEach(disk.record)
           ev(i) == [kind |-> "Ended", conn |-> found[i], tx |-> disk.record[found[i]]]
<1>1. disk.record \in [RecConnectors -> Txs]
  BY DEF RecTypes, Disks
<1>2. /\ found \in Seq(RecConnectors)
      /\ \A i \in 1 .. Len(found) : disk.record[found[i]] # None
      /\ \A c \in RecConnectors :
            disk.record[c] # None => \E i \in 1 .. Len(found) : found[i] = c
  BY <1>1, OnEachLists
<1>3. /\ reportQ' = [i \in DOMAIN found |-> disk.record[found[i]]]
      /\ persistQ' = [i \in DOMAIN found |-> ev(i)]
  BY DEF RestoreTx
<1> HIDE DEF found
<1>4. Len(found) \in Nat /\ DOMAIN found = 1 .. Len(found)
  BY <1>2, LenProperties
<1>5. \A i \in 1 .. Len(found) : found[i] \in RecConnectors
  BY <1>2
<1>6. \A i \in 1 .. Len(found) : disk.record[found[i]] \in OpenTxs
  BY <1>1, <1>2, <1>5 DEF Txs
<1>7. \A i \in 1 .. Len(found) : ev(i) \in TxEvents
  BY <1>5, <1>6 DEF TxEvents
<1>8. persistQ' \in Seq(TxEvents) /\ Len(persistQ') = Len(found)
      /\ \A i \in 1 .. Len(found) : persistQ'[i] = ev(i)
  <2> HIDE DEF ev
  <2> QED BY <1>3, <1>4, <1>7
<1>9. reportQ' \in Seq(OpenTxs) /\ Len(reportQ') = Len(found)
      /\ \A i \in 1 .. Len(found) : reportQ'[i] = disk.record[found[i]]
  BY <1>3, <1>4, <1>6
<1>10. writer'.pc = "idle"
  BY DEF RecTypes, RestoreTx, Up
<1>11. Underway' = 1 .. Len(persistQ')
  BY <1>4, <1>8, <1>10 DEF Underway
<1>12. \A i \in Underway' : At(i)' = ev(i)
  BY <1>4, <1>8, <1>11 DEF At
<1> QED BY <1>2, <1>4, <1>5, <1>8, <1>9, <1>11, <1>12

\* Ids are given out from the counter, one connector each.
IdsFit ==
    /\ \A c \in RecConnectors :
          /\ live[c].id < nextTxId /\ shadow[c].id < nextTxId
          /\ disk.record[c].id < MaxIds
          /\ \A d \in RecConnectors : live[c] # None /\ live[c].id = live[d].id => c = d
    /\ \A i \in Underway : At(i).kind # "Ended" => At(i).tx.id < nextTxId

\* One record of the disk is written, and the operation fails or succeeds.
LEMMA DiskTypes ==
  ASSUME RecTypes
  PROVE  /\ \A c \in RecConnectors, x \in Txs : [disk EXCEPT !.record[c] = x] \in Disks
         /\ \A n \in 0 .. MaxIds : [disk EXCEPT !.counter = n] \in Disks
         /\ Succeeds \/ Fails => mishaps' \in MishapSets
         /\ None \in Txs /\ disk \in Disks
         /\ \A i \in 1 .. Len(reportQ) : reportQ[i].id \in Nat
<1>1. disk \in Disks /\ mishaps \in MishapSets /\ reportQ \in Seq(OpenTxs)
  BY DEF RecTypes
<1>2. \A c \in RecConnectors, x \in Txs : [disk EXCEPT !.record[c] = x] \in Disks
  BY <1>1 DEF Disks
<1>3. \A n \in 0 .. MaxIds : [disk EXCEPT !.counter = n] \in Disks
  BY <1>1 DEF Disks
<1>4. Succeeds \/ Fails => mishaps' \in MishapSets
  <2> DEFINE n == mishaps.failures + 1
  <2>1. n \in Nat /\ mishaps.failures \in Nat
    BY <1>1 DEF MishapSets
  <2>2. Fails => mishaps' = [mishaps EXCEPT !.failures = n]
    BY DEF Fails
  <2> HIDE DEF n
  <2> QED BY <1>1, <2>1, <2>2 DEF MishapSets, Succeeds
<1>5. ASSUME NEW i \in 1 .. Len(reportQ) PROVE reportQ[i].id \in Nat
  <2>1. reportQ[i] \in OpenTxs
    BY <1>1, ElementOfSeq
  <2> QED BY <2>1 DEF OpenTxs
<1> QED BY <1>1, <1>2, <1>3, <1>4, <1>5 DEF Txs

\* A sample or a change of state is news of one open transaction.
LEMMA UpdatesOpenOne ==
  ASSUME RecTypes, UpdateTx
  PROVE  \E c \in RecConnectors, k \in {"Sample", "Changed"}, tx \in OpenTxs :
            /\ live' = [live EXCEPT ![c] = tx] /\ Broadcast(k, c, tx)
            /\ live[c] \in OpenTxs /\ tx.id = live[c].id
<1> USE RecAssumption, NoneIsNoTx
<1>1. PICK c \in RecConnectors : live[c] # None /\
         \/ \E n \in Steps :
               LET tx == [live[c] EXCEPT !.energy = IF @ = NoSample THEN n ELSE @ + n]
               IN live' = [live EXCEPT ![c] = tx] /\ Broadcast("Sample", c, tx)
         \/ Broadcast("Changed", c, live[c]) /\ UNCHANGED live
  BY DEF UpdateTx
<1>2. live[c] \in OpenTxs
  BY <1>1 DEF RecTypes, Txs
<1>3. CASE Broadcast("Changed", c, live[c]) /\ UNCHANGED live
  <2>1. live' = [live EXCEPT ![c] = live[c]]
    BY <1>3 DEF RecTypes
  <2> QED BY <1>2, <1>3, <2>1
<1>4. ASSUME NEW n \in Steps,
             LET tx == [live[c] EXCEPT !.energy = IF @ = NoSample THEN n ELSE @ + n]
             IN live' = [live EXCEPT ![c] = tx] /\ Broadcast("Sample", c, tx)
      PROVE  \E tx \in OpenTxs :
                /\ live' = [live EXCEPT ![c] = tx] /\ Broadcast("Sample", c, tx)
                /\ tx.id = live[c].id
  <2> DEFINE w  == IF live[c].energy = NoSample THEN n ELSE live[c].energy + n
             tx == [live[c] EXCEPT !.energy = IF @ = NoSample THEN n ELSE @ + n]
  <2>1. w \in Int
    BY <1>2 DEF OpenTxs
  <2>2. tx \in OpenTxs /\ tx.id = live[c].id
    BY <1>2, <2>1 DEF OpenTxs
  <2>3. live' = [live EXCEPT ![c] = tx] /\ Broadcast("Sample", c, tx)
    BY <1>4
  <2> HIDE DEF tx
  <2> QED BY <2>2, <2>3
<1> QED BY <1>1, <1>2, <1>3, <1>4

LEMMA RecTypesStep ==
  ASSUME RecTypes, IdsFit, RecNext
  PROVE  RecTypes'
<1> USE RecAssumption, NoneIsNoTx
<1>1. CASE StartTx
  <2>1. PICK c \in RecConnectors :
          /\ live' = [live EXCEPT ![c] = [id |-> nextTxId, energy |-> NoSample]]
          /\ Broadcast("Started", c, [id |-> nextTxId, energy |-> NoSample])
    BY <1>1 DEF StartTx
  <2>2. [id |-> nextTxId, energy |-> NoSample] \in OpenTxs /\ nextTxId' \in 0 .. MaxIds
    BY <1>1 DEF StartTx, OpenTxs, RecTypes
  <2>3. live' \in [RecConnectors -> Txs]
    BY <2>1, <2>2 DEF RecTypes, Txs
  <2>4. persistQ' \in Seq(TxEvents) /\ reportQ' \in Seq(OpenTxs)
    <3>1. UNCHANGED writer
      BY <1>1 DEF StartTx
    <3> QED BY <2>1, <2>2, <3>1, BroadcastPlaces
  <2> QED BY <1>1, <2>2, <2>3, <2>4 DEF StartTx, RecTypes, Up
<1>2. CASE UpdateTx
  <2>1. PICK c \in RecConnectors, k \in {"Sample", "Changed"}, tx \in OpenTxs :
          live' = [live EXCEPT ![c] = tx] /\ Broadcast(k, c, tx)
    BY <1>2, UpdatesOpenOne
  <2>2. persistQ' \in Seq(TxEvents) /\ reportQ' \in Seq(OpenTxs)
    <3>1. UNCHANGED writer
      BY <1>2 DEF UpdateTx
    <3> QED BY <2>1, <3>1, BroadcastPlaces
  <2>3. live' \in [RecConnectors -> Txs]
    BY <2>1 DEF RecTypes, Txs
  <2> QED BY <1>2, <2>2, <2>3 DEF UpdateTx, RecTypes, Up
<1>3. CASE EndTx
  <2>1. PICK c \in RecConnectors : 
          live[c] # None /\ live' = [live EXCEPT ![c] = None] /\ Broadcast("Ended", c, live[c])
    BY <1>3 DEF EndTx
  <2>2. live[c] \in OpenTxs /\ live' \in [RecConnectors -> Txs]
    BY <2>1 DEF RecTypes, Txs
  <2>3. persistQ' \in Seq(TxEvents) /\ reportQ' \in Seq(OpenTxs)
    <3>1. UNCHANGED writer
      BY <1>3 DEF EndTx
    <3> QED BY <2>1, <2>2, <3>1, BroadcastPlaces
  <2> QED BY <1>3, <2>2, <2>3 DEF EndTx, RecTypes, Up
<1>4. CASE TakeEvent
  <2> DEFINE e == Head(persistQ)
             d == Decide(shadow[e.conn], e)
  <2>1. /\ writer' = IF d = "Skip" THEN WriterIdle
                     ELSE [pc |-> IF d = "Clear" THEN "clear" ELSE FirstWrite(e), event |-> e]
        /\ d = "Clear" <=> e.kind = "Ended"
    BY <1>4 DEF TakeEvent, Decide
  <2>2. writer' \in Writers /\ persistQ' \in Seq(TxEvents)
    BY <1>4, TakenPlaces
  <2> HIDE DEF e, d
  <2>3. /\ writer'.pc # "idle" => (writer'.pc = "clear" <=> writer'.event.kind = "Ended")
        /\ writer'.pc = "counter" => writer'.event.kind = "Started"
    BY <2>1 DEF WriterIdle, FirstWrite
  <2> QED BY <1>4, <2>2, <2>3 DEF TakeEvent, RecTypes, Up
<1>5. CASE SaveCounter
  <2>1. writer.event \in TxEvents /\ writer.event.kind = "Started"
        /\ writer' = [writer EXCEPT !.pc = "record"]
        /\ writer \in [pc : {"counter", "record", "clear"}, event : TxEvents]
    BY <1>5 DEF SaveCounter, RecTypes, Writers
  <2>2. writer' \in Writers /\ writer'.event = writer.event /\ writer'.pc = "record"
    BY <2>1 DEF Writers
  <2>3. disk' \in Disks
        /\ mishaps' \in MishapSets
    <3>1. writer.event.tx.id + 1 \in 0 .. MaxIds
      <4>1. 0 \in Underway /\ At(0) = writer.event
        BY <1>5, LenProperties DEF SaveCounter, Underway, At, RecTypes
      <4>2. writer.event.tx.id < nextTxId /\ nextTxId \in 0 .. MaxIds
        BY <2>1, <4>1 DEF IdsFit, RecTypes
      <4> QED BY <2>1, <4>2 DEF TxEvents, OpenTxs
    <3>2. Succeeds \/ Fails
      BY <1>5 DEF SaveCounter
    <3> QED BY <1>5, <3>1, <3>2, DiskTypes DEF SaveCounter, RecTypes
  <2> QED BY <1>5, <2>1, <2>2, <2>3 DEF SaveCounter, RecTypes, Up
<1>6. CASE SaveRecord
  <2>1. writer.event \in TxEvents
    BY <1>6 DEF SaveRecord, RecTypes, Writers
  <2>2. writer.event.conn \in RecConnectors /\ writer.event.tx \in Txs
        /\ writer.event.tx.id \in Nat
    BY <2>1 DEF TxEvents, Txs, OpenTxs
  <2>3. /\ disk' \in Disks
        /\ mishaps' \in MishapSets
        /\ accounts' \in AccountSets
        /\ shadow' \in [RecConnectors -> Txs]
    <3>1. Succeeds \/ Fails
      BY <1>6 DEF SaveRecord
    <3>2. disk' \in Disks /\ mishaps' \in MishapSets
      BY <1>6, <2>2, <3>1, DiskTypes DEF SaveRecord
    <3>3. accounts' \in AccountSets
      <4> DEFINE n == accounts.recorded \cup {writer.event.tx.id}
      <4>1. accounts \in AccountSets /\ n \in SUBSET Nat
        BY <2>2 DEF RecTypes, AccountSets
      <4>2. accounts' = accounts \/ accounts' = [accounts EXCEPT !.recorded = n]
        BY <1>6 DEF SaveRecord
      <4> HIDE DEF n
      <4> QED BY <4>1, <4>2 DEF AccountSets
    <3>4. shadow' \in [RecConnectors -> Txs]
      BY <1>6, <2>2 DEF SaveRecord, RecTypes
    <3> QED BY <3>2, <3>3, <3>4
  <2>4. writer' = [pc |-> "idle"] /\ writer' \in Writers
    BY <1>6 DEF SaveRecord, Writers, WriterIdle
  <2> QED BY <1>6, <2>3, <2>4 DEF SaveRecord, RecTypes, Up
<1>7. CASE ClearRecord
  <2>1. writer.event \in TxEvents
    BY <1>7 DEF ClearRecord, RecTypes, Writers
  <2>2. writer.event.conn \in RecConnectors /\ None \in Txs
    BY <2>1 DEF TxEvents, Txs
  <2>3. /\ disk' \in Disks
        /\ mishaps' \in MishapSets
        /\ shadow' \in [RecConnectors -> Txs]
    <3>1. Succeeds \/ Fails
      BY <1>7 DEF ClearRecord
    <3>2. disk' \in Disks /\ mishaps' \in MishapSets
      BY <1>7, <2>2, <3>1, DiskTypes DEF ClearRecord
    <3>3. shadow' \in [RecConnectors -> Txs]
      BY <1>7, <2>2 DEF ClearRecord, RecTypes
    <3> QED BY <3>2, <3>3
  <2>4. writer' = [pc |-> "idle"] /\ writer' \in Writers
    BY <1>7 DEF ClearRecord, Writers, WriterIdle
  <2> QED BY <1>7, <2>3, <2>4 DEF ClearRecord, RecTypes, Up
<1>8. CASE ReportEnded
  <2>1. reportQ \in Seq(OpenTxs) /\ reportQ # <<>>
    BY <1>8 DEF ReportEnded, RecTypes
  <2>2. reportQ' \in Seq(OpenTxs) /\ Head(reportQ) \in OpenTxs
    BY <1>8, <2>1, HeadTailProperties DEF ReportEnded
  <2>3. accounts' \in AccountSets
    BY <1>8, <2>2 DEF ReportEnded, RecTypes, OpenTxs, AccountSets
  <2> QED BY <1>8, <2>2, <2>3 DEF ReportEnded, RecTypes, Up
<1>9. CASE RestoreTx
  <2>1. persistQ' \in Seq(TxEvents) /\ reportQ' \in Seq(OpenTxs)
    BY <1>9, RestoredEvents
  <2>2. booting' \in RecStages /\ booting'.pc = "clear" /\ booting.pc = "restore"
    BY <1>9 DEF RestoreTx, RecTypes, RecStages, Disks
  <2>3. nextTxId' \in 0 .. MaxIds
    BY <1>9 DEF RestoreTx, RecTypes, Disks
  <2> QED BY <1>9, <2>1, <2>2, <2>3 DEF RestoreTx, RecTypes, Up
<1>10. CASE ClearRestored
  <2>1. booting.loaded \in [RecConnectors -> Txs] /\ booting.pc = "clear"
        /\ booting \in [pc : {"restore", "clear"}, loaded : [RecConnectors -> Txs]]
    BY <1>10 DEF ClearRestored, RecTypes, RecStages
  <2>2. CASE booting' = [pc |-> "up"] /\ UNCHANGED <<disk, mishaps>>
    <3>1. booting' \in RecStages /\ booting'.pc = "up"
      BY <2>2 DEF RecStages
    <3> QED BY <1>10, <2>1, <2>2, <3>1 DEF ClearRestored, RecTypes, Up
  <2>3. CASE \E c \in RecConnectors :
               /\ booting' = [booting EXCEPT !.loaded[c] = None]
               /\ \/ Succeeds /\ disk' = [disk EXCEPT !.record[c] = None]
                  \/ Fails /\ UNCHANGED disk
    <3>1. booting' \in RecStages /\ booting'.pc = "clear"
      BY <2>1, <2>3 DEF RecStages, Txs
    <3>2. /\ disk' \in Disks
          /\ mishaps' \in MishapSets
      BY <2>3, DiskTypes
    <3> QED BY <1>10, <2>1, <3>1, <3>2 DEF ClearRestored, RecTypes, Up
  <2>4. CASE OnEach(booting.loaded) # <<>>
    <3>1. Head(OnEach(booting.loaded)) \in RecConnectors
      BY <2>1, <2>4, OnEachLists, HeadTailProperties
    <3> QED BY <1>10, <2>3, <2>4, <3>1 DEF ClearRestored
  <2> QED BY <1>10, <2>2, <2>4 DEF ClearRestored
<1>11. CASE LosePower
  <2>1. Nobody \in [RecConnectors -> Txs]
    BY DEF Nobody, Txs
  <2>2. booting' \in RecStages /\ booting'.pc = "restore"
    BY <1>11, <2>1 DEF LosePower, RecStages
  <2>3. \A i \in 1 .. Len(reportQ) : reportQ[i].id \in Nat
    BY DiskTypes
  <2>4. mishaps' \in MishapSets
    <3> DEFINE n    == mishaps.cuts + 1
               taken == {reportQ[i].id : i \in 1 .. Len(reportQ)}
    <3>1. mishaps' = [mishaps EXCEPT !.cuts = n, !.dropped = mishaps.dropped \cup taken]
      BY <1>11 DEF LosePower
    <3>2. n \in Nat /\ taken \in SUBSET Nat /\ mishaps \in MishapSets
      BY <2>3 DEF RecTypes, MishapSets
    <3> HIDE DEF n, taken
    <3> QED BY <3>1, <3>2 DEF MishapSets
  <2>5. Torn(disk) \in Disks
    <3>1. writer.pc # "idle" => writer.event.conn \in RecConnectors
      BY DEF RecTypes, Writers, TxEvents
    <3> QED BY <3>1, DiskTypes, RecAssumption DEF Torn
  <2>6. disk' \in Disks
    BY <1>11, <2>5 DEF LosePower, RecTypes
  <2>7. writer' = [pc |-> "idle"] /\ writer' \in Writers
    BY <1>11 DEF LosePower, WriterIdle, Writers
  <2> QED BY <1>11, <2>1, <2>2, <2>4, <2>6, <2>7 DEF LosePower, RecTypes, Up
<1> QED BY <1>1, <1>2, <1>3, <1>4, <1>5, <1>6, <1>7, <1>8, <1>9, <1>10, <1>11
        DEF RecNext, RecSteps
LEMMA IdsFitStep ==
  ASSUME RecTypes, RecTypes', IdsFit, RecNext
  PROVE  IdsFit'
<1> USE RecAssumption, NoneIsNoTx
<1>0. /\ nextTxId \in Nat /\ nextTxId <= MaxIds
      /\ \A c \in RecConnectors : live[c] \in Txs /\ shadow[c] \in Txs /\ disk.record[c] \in Txs
      /\ \A i \in Underway : At(i) \in TxEvents
      /\ \A x \in Txs : x.id \in Int
  <2>1. \A i \in Underway : At(i) \in TxEvents
    BY PlacesAreEvents
  <2>2. \A x \in Txs : x.id \in Int
    BY DEF Txs, OpenTxs
  <2> QED BY <2>1, <2>2 DEF RecTypes, Disks
<1>1. CASE StartTx
  <2>1. PICK c \in RecConnectors :
          /\ live' = [live EXCEPT ![c] = [id |-> nextTxId, energy |-> NoSample]]
          /\ Broadcast("Started", c, [id |-> nextTxId, energy |-> NoSample])
    BY <1>1 DEF StartTx
  <2>2. [id |-> nextTxId, energy |-> NoSample] \in OpenTxs /\ UNCHANGED <<writer, shadow, disk>>
        /\ nextTxId' = nextTxId + 1
    BY <1>1 DEF StartTx, OpenTxs, RecTypes
  <2>3. /\ Underway \subseteq Underway' /\ \A i \in Underway : At(i)' = At(i)
        /\ \A i \in Underway' \ Underway : At(i)'.tx.id = nextTxId
    BY <2>1, <2>2, BroadcastPlaces
  <2>4. \A d \in RecConnectors : live'[d].id = IF d = c THEN nextTxId ELSE live[d].id
    BY <2>1 DEF RecTypes
  <2>5. \A d \in RecConnectors : live'[d] # None => d = c \/ live[d] # None
    BY <2>1 DEF RecTypes
  <2>6. \A i \in Underway' : At(i)'.kind # "Ended" => At(i)'.tx.id < nextTxId'
    BY <1>0, <2>2, <2>3 DEF IdsFit, TxEvents, OpenTxs
  <2>7. \A d \in RecConnectors : live'[d].id < nextTxId' /\ shadow'[d].id < nextTxId'
                                 /\ disk.record'[d].id < MaxIds
    BY <1>0, <2>2, <2>4 DEF IdsFit
  <2>8. \A d, f \in RecConnectors : live'[d] # None /\ live'[d].id = live'[f].id => d = f
    BY <1>0, <2>4, <2>5 DEF IdsFit
  <2> QED BY <2>6, <2>7, <2>8 DEF IdsFit
<1>2. CASE UpdateTx
  <2>1. PICK c \in RecConnectors, k \in {"Sample", "Changed"}, tx \in OpenTxs :
          /\ live' = [live EXCEPT ![c] = tx] /\ Broadcast(k, c, tx)
          /\ live[c] \in OpenTxs /\ tx.id = live[c].id
    BY <1>2, UpdatesOpenOne
  <2>2. UNCHANGED <<writer, shadow, disk, nextTxId>>
    BY <1>2 DEF UpdateTx
  <2>3. /\ Underway \subseteq Underway' /\ \A i \in Underway : At(i)' = At(i)
        /\ \A i \in Underway' \ Underway : At(i)'.tx.id = live[c].id
    BY <2>1, <2>2, BroadcastPlaces
  <2>4. \A d \in RecConnectors :
           /\ live'[d].id = live[d].id
           /\ live'[d] # None => live[d] # None
    BY <2>1 DEF RecTypes
  <2>6. \A i \in Underway' : At(i)'.kind # "Ended" => At(i)'.tx.id < nextTxId'
    BY <1>0, <2>1, <2>2, <2>3 DEF IdsFit, TxEvents, OpenTxs
  <2> QED BY <2>2, <2>4, <2>6 DEF IdsFit
<1>3. CASE EndTx
  <2>1. PICK c \in RecConnectors : 
          live[c] # None /\ live' = [live EXCEPT ![c] = None] /\ Broadcast("Ended", c, live[c])
    BY <1>3 DEF EndTx
  <2>2. UNCHANGED <<writer, shadow, disk, nextTxId>> /\ live[c] \in OpenTxs
    BY <1>3, <2>1 DEF EndTx, RecTypes, Txs
  <2>3. /\ Underway \subseteq Underway' /\ \A i \in Underway : At(i)' = At(i)
        /\ \A i \in Underway' \ Underway : At(i)'.kind = "Ended"
    BY <2>1, <2>2, BroadcastPlaces
  <2>4. \A d \in RecConnectors :
           /\ live'[d].id = IF d = c THEN -1 ELSE live[d].id
           /\ live'[d] # None => d # c /\ live[d] # None
    BY <2>1 DEF RecTypes
  <2>5. \A d \in RecConnectors : live[d] # None => live[d].id \in Nat
    BY <1>0 DEF Txs, OpenTxs
  <2> QED BY <1>0, <2>2, <2>3, <2>4, <2>5 DEF IdsFit
<1>4. CASE TakeEvent
  <2>1. Shifted(1) /\ UNCHANGED <<live, nextTxId, shadow, disk>>
    BY <1>4, TakenPlaces DEF TakeEvent
  <2> QED BY <2>1 DEF IdsFit, Shifted
<1>5. CASE SaveCounter
  <2>1. /\ Underway' = Underway /\ (\A i \in Underway : At(i)' = At(i))
        /\ disk'.record = disk.record /\ UNCHANGED <<live, nextTxId, shadow>>
    <3>1. UNCHANGED persistQ /\ writer.pc # "idle" /\ writer'.pc # "idle" /\ writer'.event = writer.event
      BY <1>5 DEF SaveCounter, RecTypes, Writers
    <3> QED BY <1>5, <3>1, StillPlaces DEF SaveCounter, RecTypes, Disks
  <2> QED BY <2>1 DEF IdsFit
<1>6. CASE SaveRecord \/ ClearRecord
  <2> DEFINE e == writer.event
  <2>1. writer.pc # "idle" /\ writer' = WriterIdle /\ UNCHANGED <<persistQ, live, nextTxId>>
    BY <1>6 DEF SaveRecord, ClearRecord
  <2>2. 0 \in Underway /\ At(0) = e /\ Shifted(0) /\ e \in TxEvents
    BY <1>0, <2>1, WrittenPlaces
  <2>3. SaveRecord => e.kind # "Ended"
    BY <2>1 DEF RecTypes, SaveRecord
  <2>4. SaveRecord => e.tx.id < nextTxId
    BY <2>2, <2>3 DEF IdsFit
  <2>5. \A c \in RecConnectors :
           /\ disk.record'[c] \in {disk.record[c], None} \/ (SaveRecord /\ disk.record'[c] = e.tx)
           /\ shadow'[c] \in {shadow[c], None} \/ (SaveRecord /\ shadow'[c] = e.tx)
    <3>1. /\ disk \in Disks /\ shadow \in [RecConnectors -> Txs]
          /\ \/ disk' = [disk EXCEPT !.record[e.conn] = e.tx]
                /\ shadow' = [shadow EXCEPT ![e.conn] = e.tx] /\ SaveRecord
             \/ disk' = [disk EXCEPT !.record[e.conn] = None]
                /\ shadow' = [shadow EXCEPT ![e.conn] = None]
             \/ disk' = disk /\ shadow' = [shadow EXCEPT ![e.conn] = None]
             \/ UNCHANGED <<disk, shadow>>
      BY <1>6 DEF SaveRecord, ClearRecord, RecTypes
    <3> HIDE DEF e
    <3> QED BY <3>1 DEF Disks
  <2> HIDE DEF e
  <2>6. \A c \in RecConnectors : shadow'[c].id < nextTxId /\ disk.record'[c].id < MaxIds
    BY <1>0, <2>2, <2>4, <2>5 DEF IdsFit, TxEvents, OpenTxs
  <2>7. \A i \in Underway' : At(i)'.kind # "Ended" => At(i)'.tx.id < nextTxId'
    BY <2>1, <2>2 DEF IdsFit, Shifted
  <2> QED BY <2>1, <2>6, <2>7 DEF IdsFit
<1>7. CASE ReportEnded
  <2>1. /\ Underway' = Underway /\ (\A i \in Underway : At(i)' = At(i))
        /\ UNCHANGED <<live, nextTxId, shadow, disk>>
    BY <1>7, StillPlaces DEF ReportEnded
  <2> QED BY <2>1 DEF IdsFit
<1>8. CASE RestoreTx
  <2>1. live' = Nobody /\ shadow' = Nobody /\ disk' = disk /\ \A i \in Underway' : At(i)'.kind = "Ended"
    BY <1>8, RestoredEvents DEF RestoreTx, RecTypes, Up
  <2>2. nextTxId' \in Nat
    BY DEF RecTypes
  <2> QED BY <2>1, <2>2 DEF IdsFit, Nobody
<1>9. CASE ClearRestored
  <2>1. /\ Underway' = Underway /\ (\A i \in Underway : At(i)' = At(i))
        /\ UNCHANGED <<live, nextTxId, shadow>>
    BY <1>9, StillPlaces DEF ClearRestored
  <2>2. \A c \in RecConnectors : disk.record'[c] \in {disk.record[c], None}
    <3>1. disk \in Disks /\ (disk' = disk \/ \E c \in RecConnectors : disk' = [disk EXCEPT !.record[c] = None])
      <4>1. OnEach(booting.loaded) # <<>> => Head(OnEach(booting.loaded)) \in RecConnectors
        <5>1. booting.loaded \in [RecConnectors -> Txs]
          BY <1>9 DEF ClearRestored, RecTypes, RecStages
        <5> QED BY <5>1, OnEachLists, HeadTailProperties
      <4> QED BY <1>9, <4>1 DEF ClearRestored, RecTypes
    <3> QED BY <3>1 DEF Disks
  <2>3. \A c \in RecConnectors : disk.record'[c].id < MaxIds
    BY <1>0, <2>2 DEF IdsFit
  <2> QED BY <2>1, <2>3 DEF IdsFit
<1>10. CASE LosePower
  <2>1. live' = Nobody /\ shadow' = Nobody /\ nextTxId' = 0 /\ Underway' = {}
    BY <1>10 DEF LosePower, Underway, WriterIdle
  <2>2. \A c \in RecConnectors : disk.record'[c] \in {disk.record[c], None}
    <3>1. disk \in Disks /\ disk' \in {disk, Torn(disk)}
      BY <1>10 DEF LosePower, RecTypes
    <3> QED BY <3>1 DEF Torn, Disks
  <2>3. \A c \in RecConnectors : disk.record'[c].id < MaxIds
    BY <1>0, <2>2 DEF IdsFit
  <2> QED BY <2>1, <2>3 DEF IdsFit, Nobody
<1> QED BY <1>1, <1>2, <1>3, <1>4, <1>5, <1>6, <1>7, <1>8, <1>9, <1>10
        DEF RecNext, RecSteps
-----------------------------------------------------------------------------
\* A transaction the CSMS is being told the end of, was told, or can no longer
\* be told because the power took the report.
Reported(id) ==
    \/ \E i \in 1 .. Len(reportQ) : reportQ[i].id = id
    \/ id \in accounts.ended \cup mishaps.dropped

Unreported(c) == live[c] # None /\ ~Reported(live[c].id)

KnownIds == accounts.recorded \cup {At(i).tx.id : i \in Underway}

\* What is recorded of a running transaction is on disk, and nothing under way
\* will overwrite or remove it.
RunningIsOnDisk ==
    \A c \in RecConnectors :
        Unreported(c) /\ live[c].id \in accounts.recorded =>
            /\ disk.record[c].id = live[c].id
            /\ \A i \in Underway :
                  At(i).conn = c => At(i).tx.id = live[c].id /\ At(i).kind # "Ended"

\* From its first event under way on, a running transaction is the only one its
\* connector has events of, and no other connector has any of it.
RunningHasTheLastWord ==
    \A c \in RecConnectors : Unreported(c) =>
        \A i \in Underway : At(i).tx.id = live[c].id =>
            /\ At(i).conn = c
            /\ \A j \in Underway :
                  i <= j /\ At(j).conn = c => At(j).tx.id = live[c].id /\ At(j).kind # "Ended"

\* Up, every id heard of is running or reported; booting, every id recorded is
\* on disk or reported.
KnownIsHeld ==
    booting.pc # "restore" =>
        \A id \in KnownIds :
            /\ Reported(id) \/ \E c \in RecConnectors : live[c] # None /\ live[c].id = id
            /\ id >= nextTxId => Reported(id)

RestorableIsOnDisk ==
    booting.pc = "restore" =>
        \A id \in accounts.recorded :
            \/ Reported(id)
            \/ \E c \in RecConnectors : disk.record[c] # None /\ disk.record[c].id = id

RecOpen == RunningIsOnDisk /\ RunningHasTheLastWord /\ KnownIsHeld /\ RestorableIsOnDisk

\* No step takes a report back.
LEMMA ReportsStay ==
  ASSUME RecTypes, RecNext, NEW id, Reported(id)
  PROVE  Reported(id)'
<1>1. CASE StartTx \/ UpdateTx \/ EndTx
  <2>1. PICK c \in RecConnectors, k \in {"Started", "Sample", "Changed", "Ended"}, tx \in OpenTxs :
           Broadcast(k, c, tx)
    <3>1. CASE StartTx
      <4>1. [id |-> nextTxId, energy |-> NoSample] \in OpenTxs
        BY NoneIsNoTx DEF RecTypes, OpenTxs
      <4> QED BY <3>1, <4>1 DEF StartTx
    <3>2. CASE UpdateTx
      BY <3>2, UpdatesOpenOne
    <3>3. CASE EndTx
      <4>1. PICK c \in RecConnectors : live[c] # None /\ Broadcast("Ended", c, live[c])
        BY <3>3 DEF EndTx
      <4>2. live[c] \in OpenTxs
        BY <4>1 DEF RecTypes, Txs
      <4> QED BY <4>1, <4>2
    <3> QED BY <1>1, <3>1, <3>2, <3>3
  <2>2. UNCHANGED <<writer, accounts, mishaps>>
    BY <1>1 DEF StartTx, UpdateTx, EndTx
  <2>3. /\ \A i \in 1 .. Len(reportQ) : reportQ'[i] = reportQ[i]
        /\ Len(reportQ') >= Len(reportQ) /\ reportQ' \in Seq(OpenTxs)
    BY <2>1, <2>2, BroadcastPlaces
  <2>4. Len(reportQ) \in Nat /\ Len(reportQ') \in Nat
    BY <2>3, LenProperties DEF RecTypes
  <2>5. \A i \in 1 .. Len(reportQ) : i \in 1 .. Len(reportQ')
    BY <2>3, <2>4
  <2> QED BY <2>2, <2>3, <2>5 DEF Reported
<1>2. CASE ReportEnded
  <2>1. /\ reportQ \in Seq(OpenTxs) /\ reportQ # <<>> /\ reportQ' = Tail(reportQ)
        /\ UNCHANGED mishaps
        /\ accounts \in AccountSets
        /\ accounts' = [accounts EXCEPT !.ended = accounts.ended \cup {Head(reportQ).id}]
    BY <1>2 DEF ReportEnded, RecTypes
  <2>2. /\ Len(reportQ) \in Nat /\ Len(reportQ) >= 1 /\ Head(reportQ) = reportQ[1]
        /\ Len(reportQ') = Len(reportQ) - 1
        /\ \A i \in 1 .. Len(reportQ') : reportQ'[i] = reportQ[i + 1]
    BY <2>1, EmptySeq, LenProperties, HeadTailProperties
  <2>3. accounts'.ended = accounts.ended \cup {reportQ[1].id}
    BY <2>1, <2>2 DEF AccountSets
  <2>4. ASSUME NEW i \in 1 .. Len(reportQ), reportQ[i].id = id
        PROVE  Reported(id)'
    <3>1. CASE i = 1
      BY <2>3, <2>4, <3>1 DEF Reported
    <3>2. CASE i # 1
      <4>1. i - 1 \in 1 .. Len(reportQ') /\ (i - 1) + 1 = i
        BY <2>2, <3>2
      <4> QED BY <2>2, <2>4, <4>1 DEF Reported
    <3> QED BY <3>1, <3>2
  <2> QED BY <2>1, <2>3, <2>4 DEF Reported
<1>3. CASE LosePower
  <2> DEFINE n     == mishaps.cuts + 1
             fallen == {reportQ[i].id : i \in 1 .. Len(reportQ)}
  <2>1. /\ mishaps' = [mishaps EXCEPT !.cuts = n, !.dropped = mishaps.dropped \cup fallen]
        /\ mishaps \in MishapSets /\ UNCHANGED accounts
    BY <1>3 DEF LosePower, RecTypes
  <2>2. mishaps'.dropped = mishaps.dropped \cup fallen
    <3> HIDE DEF n, fallen
    <3> QED BY <2>1 DEF MishapSets
  <2> QED BY <2>1, <2>2 DEF Reported
<1>4. CASE RestoreTx
  BY <1>4 DEF RestoreTx, Reported, RecTypes
<1>5. CASE TakeEvent \/ SaveCounter \/ SaveRecord \/ ClearRecord \/ ClearRestored
  <2>1. accounts'.ended = accounts.ended /\ mishaps'.dropped = mishaps.dropped
        /\ UNCHANGED reportQ
    <3>1. /\ accounts \in AccountSets /\ mishaps \in MishapSets /\ UNCHANGED reportQ
          /\ accounts' = accounts
             \/ accounts' = [accounts EXCEPT !.recorded = accounts.recorded \cup {writer.event.tx.id}]
          /\ mishaps' = mishaps \/ mishaps' = [mishaps EXCEPT !.failures = mishaps.failures + 1]
      BY <1>5 DEF TakeEvent, SaveCounter, SaveRecord, ClearRecord, ClearRestored,
                  Succeeds, Fails, RecTypes
    <3> DEFINE n == mishaps.failures + 1
               s == accounts.recorded \cup {writer.event.tx.id}
    <3>2. /\ accounts' = accounts \/ accounts' = [accounts EXCEPT !.recorded = s]
          /\ mishaps' = mishaps \/ mishaps' = [mishaps EXCEPT !.failures = n]
      BY <3>1
    <3> HIDE DEF n, s
    <3> QED BY <3>1, <3>2 DEF AccountSets, MishapSets
  <2> QED BY <2>1 DEF Reported
<1> QED BY <1>1, <1>2, <1>3, <1>4, <1>5 DEF RecNext, RecSteps

\* The steps that add no event, no id and no connector.
LEMMA QuietKeepsOpen ==
  ASSUME RecTypes, RecTypes', RecOpen, UNCHANGED <<live, nextTxId>>,
         booting.pc # "restore", booting'.pc # "restore",
         NEW s \in {0, 1}, Shifted(s),
         \A id : Reported(id) => Reported(id)',
         accounts'.recorded = accounts.recorded,
         \A c \in RecConnectors :
            Unreported(c) /\ live[c].id \in accounts.recorded =>
                disk.record'[c] = disk.record[c]
  PROVE  RecOpen'
<1>0. Underway \subseteq Nat /\ Underway' \subseteq Nat
  BY LenProperties DEF Underway, RecTypes
<1>1. \A c \in RecConnectors : Unreported(c)' => Unreported(c)
  BY DEF Unreported
<1>2. \A i \in Underway' : i + s \in Underway /\ At(i)' = At(i + s)
  BY DEF Shifted
<1>3. KnownIds' \subseteq KnownIds
  BY <1>2 DEF KnownIds
<1>4. RunningIsOnDisk'
  BY <1>1, <1>2 DEF RecOpen, RunningIsOnDisk
<1>5. RunningHasTheLastWord'
  <2> SUFFICES ASSUME NEW c \in RecConnectors, Unreported(c)',
                      NEW i \in Underway', At(i)'.tx.id = live'[c].id
               PROVE  /\ At(i)'.conn = c
                      /\ \A j \in Underway' :
                            i <= j /\ At(j)'.conn = c =>
                                At(j)'.tx.id = live'[c].id /\ At(j)'.kind # "Ended"
    BY DEF RunningHasTheLastWord
  <2>1. i + s \in Underway /\ At(i + s).tx.id = live[c].id /\ Unreported(c)
    BY <1>1, <1>2
  <2>2. /\ At(i + s).conn = c
        /\ \A j \in Underway : i + s <= j /\ At(j).conn = c =>
              At(j).tx.id = live[c].id /\ At(j).kind # "Ended"
    BY <2>1 DEF RecOpen, RunningHasTheLastWord
  <2>3. \A j \in Underway' : i <= j => i + s <= j + s
    BY <1>0
  <2> QED BY <1>2, <2>2, <2>3
<1>6. KnownIsHeld'
  BY <1>3 DEF RecOpen, KnownIsHeld
<1> QED BY <1>4, <1>5, <1>6 DEF RecOpen, RestorableIsOnDisk
LEMMA StartKeepsOpen ==
  ASSUME RecTypes, RecTypes', IdsFit, RecOpen, StartTx,
         \A id : Reported(id) => Reported(id)'
  PROVE  RecOpen'
<1> USE NoneIsNoTx
<1>1. PICK c \in RecConnectors :
        /\ live[c] = None
        /\ live' = [live EXCEPT ![c] = [id |-> nextTxId, energy |-> NoSample]]
        /\ Broadcast("Started", c, [id |-> nextTxId, energy |-> NoSample])
  BY DEF StartTx
<1>2. /\ [id |-> nextTxId, energy |-> NoSample] \in OpenTxs /\ nextTxId \in Nat
      /\ nextTxId' = nextTxId + 1
      /\ UNCHANGED <<writer, disk, accounts, booting>> /\ booting.pc = "up"
  BY DEF StartTx, OpenTxs, RecTypes, Up
<1>3. /\ Underway \subseteq Underway' /\ \A i \in Underway : At(i)' = At(i)
      /\ \A i \in Underway' \ Underway :
            /\ At(i)' = [kind |-> "Started", conn |-> c, tx |-> [id |-> nextTxId, energy |-> NoSample]]
            /\ \A j \in Underway : ~(i <= j)
      /\ \A i, j \in Underway' \ Underway : i = j
  BY <1>1, <1>2, BroadcastPlaces, PlacesAreEvents
<1>4. /\ \A d \in RecConnectors : d # c => live'[d] = live[d]
      /\ live'[c].id = nextTxId /\ live'[c] # None
  BY <1>1, <1>2 DEF RecTypes
<1>5. \A d \in RecConnectors : d # c /\ Unreported(d)' => Unreported(d) /\ live[d].id < nextTxId
  BY <1>4 DEF Unreported, IdsFit
<1>6. Unreported(c)' => /\ nextTxId \notin accounts.recorded
                        /\ \A i \in Underway : At(i).tx.id # nextTxId
  <2>1. Unreported(c)' => ~Reported(nextTxId)
    BY <1>4 DEF Unreported
  <2>2. \A id \in KnownIds : id >= nextTxId => Reported(id)
    BY <1>2 DEF RecOpen, KnownIsHeld
  <2> QED BY <1>2, <2>1, <2>2 DEF KnownIds
<1>7. RunningIsOnDisk'
  <2> SUFFICES ASSUME NEW d \in RecConnectors, Unreported(d)', live'[d].id \in accounts'.recorded
               PROVE  /\ disk'.record[d].id = live'[d].id
                      /\ \A i \in Underway' : At(i)'.conn = d =>
                            At(i)'.tx.id = live'[d].id /\ At(i)'.kind # "Ended"
    BY DEF RunningIsOnDisk
  <2>1. d # c
    BY <1>2, <1>4, <1>6
  <2>2. Unreported(d) /\ live'[d] = live[d]
    BY <1>4, <1>5, <2>1
  <2> QED BY <1>2, <1>3, <2>1, <2>2 DEF RecOpen, RunningIsOnDisk
<1>8. RunningHasTheLastWord'
  <2> SUFFICES ASSUME NEW d \in RecConnectors, Unreported(d)',
                      NEW i \in Underway', At(i)'.tx.id = live'[d].id
               PROVE  /\ At(i)'.conn = d
                      /\ \A j \in Underway' :
                            i <= j /\ At(j)'.conn = d =>
                                At(j)'.tx.id = live'[d].id /\ At(j)'.kind # "Ended"
    BY DEF RunningHasTheLastWord
  <2>1. CASE d = c
    <3>1. i \notin Underway
      BY <1>3, <1>4, <1>6, <2>1
    <3> QED BY <1>3, <1>4, <2>1, <3>1
  <2>2. CASE d # c
    <3>1. Unreported(d) /\ live'[d] = live[d] /\ live[d].id < nextTxId
      BY <1>4, <1>5, <2>2
    <3>2. i \in Underway
      BY <1>2, <1>3, <3>1
    <3>3. At(i).conn = d /\ \A j \in Underway : i <= j /\ At(j).conn = d =>
             At(j).tx.id = live[d].id /\ At(j).kind # "Ended"
      BY <1>3, <3>1, <3>2 DEF RecOpen, RunningHasTheLastWord
    <3> QED BY <1>3, <2>2, <3>1, <3>2, <3>3
  <2> QED BY <2>1, <2>2
<1>9. KnownIsHeld'
  <2> SUFFICES ASSUME NEW id \in KnownIds'
               PROVE  /\ Reported(id)' \/ \E d \in RecConnectors : live'[d] # None /\ live'[d].id = id
                      /\ id >= nextTxId' => Reported(id)'
    BY DEF KnownIsHeld
  <2>1. id \in KnownIds \/ id = nextTxId
    BY <1>2, <1>3 DEF KnownIds
  <2>2. CASE id = nextTxId
    BY <1>2, <1>4, <2>2
  <2>3. CASE id \in KnownIds
    <3>1. /\ Reported(id) \/ \E d \in RecConnectors : live[d] # None /\ live[d].id = id
          /\ id >= nextTxId => Reported(id)
      BY <1>2, <2>3 DEF RecOpen, KnownIsHeld
    <3>2. id \in Int
      <4>1. \A i \in Underway : At(i) \in TxEvents
        BY PlacesAreEvents
      <4> QED BY <2>3, <4>1 DEF KnownIds, RecTypes, AccountSets, TxEvents, OpenTxs
    <3>3. id >= nextTxId' => id >= nextTxId
      BY <1>2, <3>2
    <3>4. \A d \in RecConnectors : live[d] # None => d # c /\ live'[d] = live[d]
      BY <1>1, <1>4
    <3> QED BY <3>1, <3>3, <3>4
  <2> QED BY <2>1, <2>2, <2>3
<1> QED BY <1>2, <1>7, <1>8, <1>9 DEF RecOpen, RestorableIsOnDisk

LEMMA UpdateKeepsOpen ==
  ASSUME RecTypes, RecTypes', IdsFit, RecOpen, UpdateTx,
         \A id : Reported(id) => Reported(id)'
  PROVE  RecOpen'
<1> USE NoneIsNoTx
<1>1. PICK c \in RecConnectors, k \in {"Sample", "Changed"}, tx \in OpenTxs :
        /\ live' = [live EXCEPT ![c] = tx] /\ Broadcast(k, c, tx)
        /\ live[c] \in OpenTxs /\ tx.id = live[c].id
  BY UpdatesOpenOne
<1>2. UNCHANGED <<writer, disk, accounts, booting, nextTxId>> /\ booting.pc = "up"
  BY DEF UpdateTx, Up
<1>3. /\ Underway \subseteq Underway' /\ \A i \in Underway : At(i)' = At(i)
      /\ \A i \in Underway' \ Underway :
            /\ At(i)' = [kind |-> k, conn |-> c, tx |-> tx]
            /\ \A j \in Underway : ~(i <= j)
      /\ \A i, j \in Underway' \ Underway : i = j
  BY <1>1, <1>2, BroadcastPlaces, PlacesAreEvents
<1>4. \A d \in RecConnectors : live'[d].id = live[d].id /\ (live'[d] # None <=> live[d] # None)
  BY <1>1 DEF RecTypes
<1>5. \A d \in RecConnectors : Unreported(d)' => Unreported(d)
  BY <1>4 DEF Unreported
<1>6. \A d \in RecConnectors : Unreported(d) /\ live[d].id = live[c].id => d = c
  BY DEF Unreported, IdsFit
<1>7. \A i \in Underway' \ Underway :
         /\ At(i)'.conn = c /\ At(i)'.tx.id = live[c].id /\ At(i)'.kind # "Ended"
         /\ \A j \in Underway : ~(i <= j)
  BY <1>1, <1>3
<1>8. RunningIsOnDisk'
  BY <1>2, <1>3, <1>4, <1>5, <1>7 DEF RecOpen, RunningIsOnDisk
<1>9. RunningHasTheLastWord'
  <2> SUFFICES ASSUME NEW d \in RecConnectors, Unreported(d)',
                      NEW i \in Underway', At(i)'.tx.id = live'[d].id
               PROVE  /\ At(i)'.conn = d
                      /\ \A j \in Underway' :
                            i <= j /\ At(j)'.conn = d =>
                                At(j)'.tx.id = live'[d].id /\ At(j)'.kind # "Ended"
    BY DEF RunningHasTheLastWord
  <2>1. Unreported(d) /\ live'[d].id = live[d].id
    BY <1>4, <1>5
  <2>2. CASE i \in Underway
    <3>1. At(i).conn = d /\ \A j \in Underway : i <= j /\ At(j).conn = d =>
             At(j).tx.id = live[d].id /\ At(j).kind # "Ended"
      BY <1>3, <2>1, <2>2 DEF RecOpen, RunningHasTheLastWord
    <3> QED BY <1>3, <1>7, <2>1, <2>2, <3>1
  <2>3. CASE i \notin Underway
    <3>1. d = c
      BY <1>6, <1>7, <2>1, <2>3
    <3> QED BY <1>7, <2>1, <2>3, <3>1
  <2> QED BY <2>2, <2>3
<1>10. KnownIsHeld'
  <2>1. live[c] # None
    BY <1>1
  <2>2. \A id \in KnownIds' : id \in KnownIds \/ id = live[c].id
    BY <1>2, <1>3, <1>7 DEF KnownIds
  <2>3. live[c].id < nextTxId /\ live[c].id \in Nat /\ nextTxId \in Nat
    BY <1>1 DEF IdsFit, RecTypes, OpenTxs
  <2> QED BY <1>2, <1>4, <2>1, <2>2, <2>3 DEF RecOpen, KnownIsHeld
<1> QED BY <1>2, <1>8, <1>9, <1>10 DEF RecOpen, RestorableIsOnDisk

LEMMA EndKeepsOpen ==
  ASSUME RecTypes, RecTypes', IdsFit, RecOpen, EndTx,
         \A id : Reported(id) => Reported(id)'
  PROVE  RecOpen'
<1> USE NoneIsNoTx
<1>1. PICK c \in RecConnectors :
        live[c] # None /\ live' = [live EXCEPT ![c] = None] /\ Broadcast("Ended", c, live[c])
  BY DEF EndTx
<1>2. UNCHANGED <<writer, disk, accounts, booting, nextTxId>> /\ booting.pc = "up"
      /\ live[c] \in OpenTxs
  BY <1>1 DEF EndTx, Up, RecTypes, Txs
<1>3. /\ Underway \subseteq Underway' /\ \A i \in Underway : At(i)' = At(i)
      /\ \A i \in Underway' \ Underway :
            /\ At(i)' = [kind |-> "Ended", conn |-> c, tx |-> live[c]]
            /\ \A j \in Underway : ~(i <= j)
  BY <1>1, <1>2, BroadcastPlaces, PlacesAreEvents
<1>4. \A id : id = live[c].id => Reported(id)'
  <2>1. reportQ'[Len(reportQ')] = live[c] /\ Len(reportQ') \in 1 .. Len(reportQ')
    BY <1>1, <1>2, BroadcastPlaces
  <2> QED BY <2>1 DEF Reported
<1>5. \A d \in RecConnectors :
         /\ d # c => live'[d] = live[d]
         /\ live'[d] # None => d # c
         /\ Unreported(d)' => d # c /\ Unreported(d) /\ live[d].id # live[c].id
  <2>1. \A d \in RecConnectors : (d # c => live'[d] = live[d]) /\ (live'[d] # None => d # c)
    BY <1>1 DEF RecTypes
  <2> QED BY <2>1 DEF Unreported, IdsFit
<1>6. RunningIsOnDisk'
  BY <1>2, <1>3, <1>5 DEF RecOpen, RunningIsOnDisk
<1>7. RunningHasTheLastWord'
  <2> SUFFICES ASSUME NEW d \in RecConnectors, Unreported(d)',
                      NEW i \in Underway', At(i)'.tx.id = live'[d].id
               PROVE  /\ At(i)'.conn = d
                      /\ \A j \in Underway' :
                            i <= j /\ At(j)'.conn = d =>
                                At(j)'.tx.id = live'[d].id /\ At(j)'.kind # "Ended"
    BY DEF RunningHasTheLastWord
  <2>1. d # c /\ Unreported(d) /\ live'[d] = live[d] /\ live[d].id # live[c].id
    BY <1>5
  <2>2. i \in Underway
    BY <1>3, <2>1
  <2>3. At(i).conn = d /\ \A j \in Underway : i <= j /\ At(j).conn = d =>
           At(j).tx.id = live[d].id /\ At(j).kind # "Ended"
    BY <1>3, <2>1, <2>2 DEF RecOpen, RunningHasTheLastWord
  <2> QED BY <1>3, <2>1, <2>2, <2>3
<1>8. KnownIsHeld'
  <2> SUFFICES ASSUME NEW id \in KnownIds'
               PROVE  /\ Reported(id)' \/ \E d \in RecConnectors : live'[d] # None /\ live'[d].id = id
                      /\ id >= nextTxId' => Reported(id)'
    BY DEF KnownIsHeld
  <2>1. id \in KnownIds \/ id = live[c].id
    BY <1>2, <1>3 DEF KnownIds
  <2>2. CASE id = live[c].id
    BY <1>4, <2>2
  <2>3. CASE id \in KnownIds
    <3>1. /\ Reported(id) \/ \E d \in RecConnectors : live[d] # None /\ live[d].id = id
          /\ id >= nextTxId => Reported(id)
      BY <1>2, <2>3 DEF RecOpen, KnownIsHeld
    <3> QED BY <1>2, <1>4, <1>5, <3>1
  <2> QED BY <2>1, <2>2, <2>3
<1> QED BY <1>2, <1>6, <1>7, <1>8 DEF RecOpen, RestorableIsOnDisk
LEMMA SaveKeepsOpen ==
  ASSUME RecTypes, RecTypes', RecOpen, SaveRecord,
         \A id : Reported(id) => Reported(id)'
  PROVE  RecOpen'
<1> DEFINE e == writer.event
<1>1. /\ writer.pc = "record" /\ writer' = WriterIdle /\ UNCHANGED <<persistQ, live, nextTxId, booting>>
      /\ booting.pc = "up"
  BY DEF SaveRecord, Up
<1>2. /\ 0 \in Underway /\ At(0) = e /\ Underway' = Underway \ {0} /\ Shifted(0)
      /\ \A i \in Underway' : At(i)' = At(i)
      /\ \A i \in Underway : 0 <= i
      /\ e \in TxEvents /\ e.kind # "Ended"
  BY <1>1, WrittenPlaces, PlacesAreEvents DEF RecTypes
<1>3. CASE UNCHANGED <<disk, accounts>>
  BY <1>1, <1>2, <1>3, QuietKeepsOpen
<1>4. CASE disk' = [disk EXCEPT !.record[e.conn] = e.tx]
           /\ accounts' = [accounts EXCEPT !.recorded = accounts.recorded \cup {e.tx.id}]
  <2>1. /\ \A c \in RecConnectors : disk'.record[c] = IF c = e.conn THEN e.tx ELSE disk.record[c]
        /\ accounts'.recorded = accounts.recorded \cup {e.tx.id}
    <3>1. disk \in Disks /\ accounts \in AccountSets
      BY DEF RecTypes
    <3> DEFINE s == accounts.recorded \cup {e.tx.id}
    <3> HIDE DEF e, s
    <3>2. accounts' = [accounts EXCEPT !.recorded = s]
      BY <1>4 DEF s
    <3>3. \A c \in RecConnectors : disk'.record[c] = IF c = e.conn THEN e.tx ELSE disk.record[c]
      BY <1>4, <3>1 DEF Disks
    <3>4. accounts'.recorded = s
      BY <3>1, <3>2 DEF AccountSets
    <3> QED BY <3>3, <3>4 DEF s
  <2> HIDE DEF e
  <2>2. \A c \in RecConnectors : Unreported(c)' => Unreported(c)
    BY <1>1 DEF Unreported
  <2>3. KnownIds' \subseteq KnownIds
    BY <1>2, <2>1 DEF KnownIds
  <2>4. RunningIsOnDisk'
    <3> SUFFICES ASSUME NEW c \in RecConnectors, Unreported(c)', live'[c].id \in accounts'.recorded
                 PROVE  /\ disk'.record[c].id = live'[c].id
                        /\ \A i \in Underway' : At(i)'.conn = c =>
                              At(i)'.tx.id = live'[c].id /\ At(i)'.kind # "Ended"
      BY DEF RunningIsOnDisk
    <3>1. Unreported(c) /\ live' = live
      BY <1>1, <2>2
    <3>2. CASE live[c].id \in accounts.recorded
      <4>1. /\ disk.record[c].id = live[c].id
            /\ \A i \in Underway : At(i).conn = c => At(i).tx.id = live[c].id /\ At(i).kind # "Ended"
        BY <3>1, <3>2 DEF RecOpen, RunningIsOnDisk
      <4>2. c = e.conn => e.tx.id = live[c].id
        BY <1>2, <4>1
      <4> QED BY <1>2, <2>1, <3>1, <4>1, <4>2
    <3>3. CASE live[c].id = e.tx.id
      <4>1. /\ e.conn = c
            /\ \A j \in Underway : At(j).conn = c => At(j).tx.id = live[c].id /\ At(j).kind # "Ended"
        BY <1>2, <3>1, <3>3 DEF RecOpen, RunningHasTheLastWord
      <4> QED BY <1>2, <2>1, <3>1, <3>3, <4>1
    <3> QED BY <1>1, <2>1, <3>2, <3>3
  <2>5. RunningHasTheLastWord'
    BY <1>1, <1>2, <2>2 DEF RecOpen, RunningHasTheLastWord
  <2>6. KnownIsHeld'
    BY <1>1, <2>3 DEF RecOpen, KnownIsHeld
  <2> QED BY <1>1, <2>4, <2>5, <2>6 DEF RecOpen, RestorableIsOnDisk
<1> QED BY <1>3, <1>4 DEF SaveRecord

LEMMA ClearKeepsOpen ==
  ASSUME RecTypes, RecTypes', RecOpen, ClearRecord,
         \A id : Reported(id) => Reported(id)'
  PROVE  RecOpen'
<1> DEFINE e == writer.event
<1>1. /\ writer.pc = "clear" /\ writer' = WriterIdle
      /\ UNCHANGED <<persistQ, live, nextTxId, booting, accounts>>
      /\ booting.pc = "up"
  BY DEF ClearRecord, Up
<1>2. /\ 0 \in Underway /\ At(0) = e /\ Shifted(0)
      /\ e \in TxEvents /\ e.kind = "Ended"
  BY <1>1, WrittenPlaces, PlacesAreEvents DEF RecTypes
<1>3. disk' = disk \/ disk' = [disk EXCEPT !.record[e.conn] = None]
  BY DEF ClearRecord
<1>4. disk \in Disks
  BY DEF RecTypes
<1> HIDE DEF e
<1>5. \A c \in RecConnectors : c # e.conn => disk'.record[c] = disk.record[c]
  BY <1>3, <1>4 DEF Disks
<1>6. \A c \in RecConnectors :
         Unreported(c) /\ live[c].id \in accounts.recorded => disk'.record[c] = disk.record[c]
  BY <1>2, <1>5 DEF RecOpen, RunningIsOnDisk
<1> QED BY <1>1, <1>2, <1>6, QuietKeepsOpen

\* What is recorded survives the power, and is reported at the next boot.
LEMMA CutKeepsOpen ==
  ASSUME RecTypes, RecTypes', RecOpen, LosePower, AtomicMedium,
         \A id : Reported(id) => Reported(id)'
  PROVE  RecOpen'
<1>1. /\ booting'.pc = "restore" /\ live' = Nobody /\ disk' = disk /\ UNCHANGED accounts
      /\ Underway' = {}
  BY DEF LosePower, Underway, WriterIdle
<1>2. \A c \in RecConnectors : ~Unreported(c)'
  BY <1>1 DEF Unreported, Nobody
<1>3. ASSUME NEW id \in accounts.recorded
      PROVE  Reported(id)' \/ \E c \in RecConnectors : disk.record[c] # None /\ disk.record[c].id = id
  <2>1. CASE booting.pc = "restore"
    BY <2>1 DEF RecOpen, RestorableIsOnDisk
  <2>2. CASE booting.pc # "restore"
    <3>1. Reported(id) \/ \E c \in RecConnectors : live[c] # None /\ live[c].id = id
      BY <2>2 DEF RecOpen, KnownIsHeld, KnownIds
    <3>2. ASSUME NEW c \in RecConnectors, live[c] # None, live[c].id = id, ~Reported(id)
          PROVE  disk.record[c] # None /\ disk.record[c].id = id
      <4>1. disk.record[c].id = id
        BY <3>2 DEF RecOpen, RunningIsOnDisk, Unreported
      <4>2. id \in Nat
        BY DEF RecTypes, AccountSets
      <4> QED BY <4>1, <4>2, NoneIsNoTx
    <3> QED BY <3>1, <3>2
  <2> QED BY <2>1, <2>2
<1> QED BY <1>1, <1>2, <1>3
        DEF RecOpen, RunningIsOnDisk, RunningHasTheLastWord, KnownIsHeld, RestorableIsOnDisk

LEMMA RestoreKeepsOpen ==
  ASSUME RecTypes, RecTypes', RecOpen, RestoreTx,
         \A id : Reported(id) => Reported(id)'
  PROVE  RecOpen'
<1>1. /\ booting.pc = "restore" /\ booting'.pc = "clear" /\ live' = Nobody
      /\ UNCHANGED <<disk, accounts>>
  BY DEF RestoreTx, RecTypes, Up
<1>2. \A c \in RecConnectors : ~Unreported(c)'
  BY <1>1 DEF Unreported, Nobody
<1>3. ASSUME NEW id \in KnownIds' PROVE Reported(id)'
  <2>1. CASE id \in accounts.recorded
    <3>1. Reported(id) \/ \E c \in RecConnectors : disk.record[c] # None /\ disk.record[c].id = id
      BY <1>1, <2>1 DEF RecOpen, RestorableIsOnDisk
    <3>2. \A c \in RecConnectors : disk.record[c] # None =>
             \E i \in 1 .. Len(reportQ') : reportQ'[i] = disk.record[c]
      BY RestoredEvents
    <3> QED BY <3>1, <3>2 DEF Reported
  <2>2. CASE id \in {At(i)'.tx.id : i \in Underway'}
    <3>1. /\ Underway' = 1 .. Len(persistQ') /\ Len(reportQ') = Len(persistQ')
          /\ \A i \in Underway' : At(i)'.tx = reportQ'[i]
      BY RestoredEvents
    <3> QED BY <2>2, <3>1 DEF Reported
  <2> QED BY <1>1, <2>1, <2>2 DEF KnownIds
<1> QED BY <1>1, <1>2, <1>3
        DEF RecOpen, RunningIsOnDisk, RunningHasTheLastWord, KnownIsHeld, RestorableIsOnDisk

LEMMA RecOpenStep ==
  ASSUME RecTypes, RecTypes', IdsFit, RecOpen, AtomicMedium, RecNext
  PROVE  RecOpen'
<1>1. \A id : Reported(id) => Reported(id)'
  BY ReportsStay
<1>2. CASE StartTx
  BY <1>1, <1>2, StartKeepsOpen
<1>3. CASE UpdateTx
  BY <1>1, <1>3, UpdateKeepsOpen
<1>4. CASE EndTx
  BY <1>1, <1>4, EndKeepsOpen
<1>5. CASE TakeEvent
  <2>1. Shifted(1) /\ booting.pc = "up"
        /\ UNCHANGED <<live, nextTxId, disk, accounts, booting>>
    BY <1>5, TakenPlaces DEF TakeEvent, Up
  <2> QED BY <1>1, <2>1, QuietKeepsOpen
<1>6. CASE SaveCounter
  <2>1. Shifted(0)
    <3>1. UNCHANGED persistQ /\ writer.pc # "idle" /\ writer'.pc # "idle" /\ writer'.event = writer.event
      BY <1>6 DEF SaveCounter, RecTypes, Writers
    <3> QED BY <3>1, StillPlaces
  <2>2. disk'.record = disk.record /\ booting.pc = "up"
        /\ UNCHANGED <<live, nextTxId, accounts, booting>>
    BY <1>6 DEF SaveCounter, RecTypes, Disks, Up
  <2> QED BY <1>1, <2>1, <2>2, QuietKeepsOpen
<1>7. CASE SaveRecord
  BY <1>1, <1>7, SaveKeepsOpen
<1>8. CASE ClearRecord
  BY <1>1, <1>8, ClearKeepsOpen
<1>9. CASE ReportEnded
  <2>1. Shifted(0) /\ UNCHANGED <<live, nextTxId, disk, booting>> /\ booting.pc = "up"
    BY <1>9, StillPlaces DEF ReportEnded, Up
  <2>2. accounts'.recorded = accounts.recorded
    <3> DEFINE s == accounts.ended \cup {Head(reportQ).id}
    <3>1. accounts \in AccountSets /\ accounts' = [accounts EXCEPT !.ended = s]
      BY <1>9 DEF ReportEnded, RecTypes
    <3> HIDE DEF s
    <3> QED BY <3>1 DEF AccountSets
  <2> QED BY <1>1, <2>1, <2>2, QuietKeepsOpen
<1>10. CASE RestoreTx
  BY <1>1, <1>10, RestoreKeepsOpen
<1>11. CASE ClearRestored
  <2>1. Shifted(0) /\ UNCHANGED <<live, nextTxId, accounts>>
    BY <1>11, StillPlaces DEF ClearRestored
  <2>2. booting.pc = "clear" /\ booting'.pc # "restore" /\ live = Nobody
    BY <1>11 DEF ClearRestored, RecTypes, RecStages, Up
  <2>3. \A c \in RecConnectors : ~Unreported(c)
    BY <2>2 DEF Unreported, Nobody
  <2> QED BY <1>1, <2>1, <2>2, <2>3, QuietKeepsOpen
<1>12. CASE LosePower
  BY <1>1, <1>12, CutKeepsOpen
<1> QED BY <1>2, <1>3, <1>4, <1>5, <1>6, <1>7, <1>8, <1>9, <1>10, <1>11, <1>12
        DEF RecNext, RecSteps
-----------------------------------------------------------------------------
\* As long as no storage operation failed: what the writer remembers is what the
\* disk holds ...
ShadowIsDisk ==
    /\ Up => shadow = disk.record
    /\ booting.pc = "clear" => booting.loaded = disk.record

\* ... the counter on disk is behind every start under way, ahead of every
\* record, and of every write under way unless a start comes first ...
CounterIsAhead ==
    /\ booting.pc # "restore" => disk.counter <= nextTxId
    /\ \A i \in Underway :
          At(i).kind = "Started" /\ (i = 0 => writer.pc = "counter") =>
              disk.counter <= At(i).tx.id
    /\ \A i, j \in Underway :
          i < j /\ At(i).kind = "Started" /\ At(j).kind = "Started" =>
              At(i).tx.id < At(j).tx.id
    /\ \A j \in Underway :
          At(j).kind \in {"Sample", "Changed"} =>
              \/ At(j).tx.id < disk.counter
              \/ \E i \in Underway :
                    i < j /\ At(i).kind = "Started" /\ At(i).tx.id = At(j).tx.id
    /\ writer.pc = "record" => writer.event.tx.id < disk.counter
    /\ \A c \in RecConnectors : disk.record[c].id < disk.counter

\* ... and the last event of a connector tells its transaction as it is: on its
\* way, or else on disk, but for less than a threshold.
LastAbout(c, i) ==
    /\ i \in Underway /\ At(i).conn = c
    /\ \A j \in Underway : i < j => At(j).conn # c

Continues(j) ==
    LET c == At(j).conn IN
    \/ /\ \A i \in Underway : i < j => At(i).conn # c
       /\ shadow[c].id = At(j).tx.id
    \/ \E i \in Underway :
          /\ i < j /\ At(i).conn = c
          /\ \A k \in Underway : i < k /\ k < j => At(k).conn # c
          /\ At(i).tx.id = At(j).tx.id /\ At(i).kind # "Ended"

RecordsAreClose ==
    /\ \A c \in RecConnectors :
          live[c] # None /\ (\A i \in Underway : At(i).conn # c) =>
              /\ disk.record[c].id = live[c].id
              /\ live[c].energy - disk.record[c].energy < MeterThreshold
    /\ \A c \in RecConnectors, i \in Underway :
          live[c] # None /\ LastAbout(c, i) => At(i).tx = live[c] /\ At(i).kind # "Ended"
    /\ \A j \in Underway : At(j).kind \in {"Sample", "Changed"} => Continues(j)

FairWeather ==
    mishaps.failures = 0 => ShadowIsDisk /\ CounterIsAhead /\ RecordsAreClose

\* Of the events of a connector one is the last.
LEMMA SomeIsLast ==
  ASSUME RecTypes, NEW c, NEW i \in Underway, At(i).conn = c
  PROVE  \E l \in Underway : i <= l /\ LastAbout(c, l)
<1> DEFINE n    == Len(persistQ)
           S    == {k \in Underway : At(k).conn = c /\ i <= k}
           Gaps == {n - k : k \in S}
<1>1. n \in Nat /\ \A k \in Underway : k \in 0 .. n
  BY LenProperties DEF RecTypes, Underway
<1>2. i \in S /\ \A k \in S : n - k \in Nat
  BY <1>1
<1>3. Gaps \subseteq Nat /\ Gaps # {}
  BY <1>2
<1>4. PICK g \in Gaps : \A h \in Gaps : ~(<<h, g>> \in OpToRel(<, Nat))
  <2> HIDE DEF Gaps
  <2> QED BY <1>3, NatLessThanWellFounded, WFMin
<1>5. PICK l \in S : g = n - l
  OBVIOUS
<1>6. \A k \in S : ~(n - k < n - l)
  BY <1>2, <1>4, <1>5 DEF OpToRel
<1>7. \A k \in Underway : l < k => At(k).conn # c
  <2> TAKE k \in Underway
  <2> HAVE l < k
  <2>1. k \in S => n - k < n - l
    BY <1>1, <1>5
  <2>2. At(k).conn = c => k \in S
    BY <1>1, <1>5
  <2> QED BY <1>6, <2>1, <2>2
<1> QED BY <1>5, <1>7 DEF LastAbout

\* Fair weather does not return.
LEMMA FailuresStay ==
  ASSUME RecTypes, RecNext, mishaps'.failures = 0
  PROVE  mishaps.failures = 0 /\ (Fails => FALSE)
<1> DEFINE n == mishaps.failures + 1
           m == mishaps.cuts + 1
           d == mishaps.dropped \cup {reportQ[i].id : i \in 1 .. Len(reportQ)}
<1>1. mishaps \in MishapSets
  BY DEF RecTypes
<1>2. \/ mishaps' = mishaps
      \/ mishaps' = [mishaps EXCEPT !.failures = n]
      \/ mishaps' = [mishaps EXCEPT !.cuts = m, !.dropped = d]
  BY DEF RecNext, RecSteps, StartTx, UpdateTx, EndTx, TakeEvent, SaveCounter, SaveRecord,
         ClearRecord, ReportEnded, RestoreTx, ClearRestored, LosePower, Succeeds, Fails
<1>3. Fails => mishaps' = [mishaps EXCEPT !.failures = n]
  BY DEF Fails
<1>4. n \in Nat /\ n # 0
  BY <1>1 DEF MishapSets
<1> HIDE DEF n, m, d
<1> QED BY <1>1, <1>2, <1>3, <1>4 DEF MishapSets
\* Grown(c, k, tx): the queue grew by an event of this kind about c.
Grown(c, k, tx) ==
    /\ UNCHANGED <<writer, shadow, disk, booting>> /\ booting.pc = "up"
    /\ Underway \subseteq Underway' /\ \A i \in Underway : At(i)' = At(i)
    /\ \E n \in Underway' : 
          /\ n \notin Underway /\ \A i \in Underway : i < n /\ ~(n < i)
          /\ \A i \in Underway' : i \in Underway \/ i = n
    /\ \A i \in Underway' : i \notin Underway => At(i)' = [kind |-> k, conn |-> c, tx |-> tx]

LEMMA BroadcastGrows ==
  ASSUME RecTypes, UNCHANGED <<writer, shadow, disk, booting>>, booting.pc = "up",
         NEW k \in {"Started", "Sample", "Changed", "Ended"}, NEW c \in RecConnectors,
         NEW tx \in OpenTxs, Broadcast(k, c, tx)
  PROVE  Grown(c, k, tx) /\ \A i \in Underway' : i \notin Underway => i # 0
<1> DEFINE n == Len(persistQ) + 1
<1>1. /\ Underway' = Underway \cup {n} /\ n \in Nat
      /\ \A i \in Underway : At(i)' = At(i) /\ i < n
      /\ \A i \in Underway' \ Underway : At(i)' = [kind |-> k, conn |-> c, tx |-> tx]
  BY BroadcastPlaces
<1>2. Underway \subseteq Nat /\ n # 0
  BY PlacesAreEvents, LenProperties DEF RecTypes
<1> HIDE DEF n
<1>3. n \notin Underway /\ \A i \in Underway : i < n /\ ~(n < i)
  BY <1>1, <1>2
<1> QED BY <1>1, <1>2, <1>3 DEF Grown

\* What the older events were continues to hold of them, and the connectors that
\* had nothing to say still have not.
LEMMA GrownContinues ==
  ASSUME NEW c, NEW k, NEW tx, Grown(c, k, tx)
  PROVE  /\ \A j \in Underway : Continues(j) => Continues(j)'
         /\ \A d : \A i \in Underway' : LastAbout(d, i)' =>
               \/ d # c /\ i \in Underway /\ LastAbout(d, i)
               \/ d = c /\ i \notin Underway
<1>1. ASSUME NEW j \in Underway, Continues(j) PROVE Continues(j)'
  <2>1. PICK n \in Underway' :
           /\ n \notin Underway /\ \A i \in Underway : i < n /\ ~(n < i)
           /\ \A i \in Underway' : i \in Underway \/ i = n
    BY DEF Grown
  <2>2. \A i \in Underway' : i < j => i \in Underway
    BY <2>1
  <2>3. \A i \in Underway : i \in Underway' /\ At(i)' = At(i)
    BY DEF Grown
  <2>4. shadow' = shadow
    BY DEF Grown
  <2> QED BY <1>1, <2>2, <2>3, <2>4 DEF Continues
<1>2. ASSUME NEW d, NEW i \in Underway', LastAbout(d, i)'
      PROVE  \/ d # c /\ i \in Underway /\ LastAbout(d, i)
             \/ d = c /\ i \notin Underway
  <2>1. PICK n \in Underway' :
           /\ n \notin Underway /\ \A m \in Underway : m < n /\ ~(n < m)
           /\ \A m \in Underway' : m \in Underway \/ m = n
    BY DEF Grown
  <2>2. At(n)'.conn = c
    BY <2>1 DEF Grown
  <2>3. CASE i \in Underway
    <3>1. d # c
      BY <1>2, <2>1, <2>2, <2>3 DEF LastAbout
    <3> QED BY <1>2, <2>3, <3>1 DEF LastAbout, Grown
  <2>4. CASE i \notin Underway
    BY <1>2, <2>1, <2>2, <2>4 DEF LastAbout
  <2> QED BY <2>3, <2>4
<1> QED BY <1>1, <1>2

FairParts == ShadowIsDisk /\ CounterIsAhead /\ RecordsAreClose

LEMMA StartKeepsFair ==
  ASSUME RecTypes, RecTypes', IdsFit, FairParts, StartTx
  PROVE  FairParts'
<1> USE NoneIsNoTx
<1>1. PICK c \in RecConnectors :
        /\ live' = [live EXCEPT ![c] = [id |-> nextTxId, energy |-> NoSample]]
        /\ Broadcast("Started", c, [id |-> nextTxId, energy |-> NoSample])
  BY DEF StartTx
<1> DEFINE tx == [id |-> nextTxId, energy |-> NoSample]
<1>2. tx \in OpenTxs /\ nextTxId \in Nat /\ nextTxId' = nextTxId + 1
      /\ UNCHANGED <<writer, shadow, disk, booting>> /\ booting.pc = "up"
      /\ disk.counter \in Nat
  BY RecAssumption DEF StartTx, OpenTxs, RecTypes, Up, Disks
<1>3. Grown(c, "Started", tx) /\ \A i \in Underway' : i \notin Underway => i # 0
  BY <1>1, <1>2, BroadcastGrows
<1>4. \A d \in RecConnectors : live'[d] = IF d = c THEN tx ELSE live[d]
  BY <1>1 DEF RecTypes
<1>5. tx.id = nextTxId /\ tx \in OpenTxs
  BY <1>2
<1> HIDE DEF tx
<1>6. /\ \A i \in Underway : i \in Underway' /\ At(i)' = At(i)
      /\ \A i \in Underway' : i \notin Underway => 
            /\ At(i)'.kind = "Started" /\ At(i)'.conn = c /\ At(i)'.tx = tx
            /\ \A j \in Underway : ~(i < j)
            /\ \A j \in Underway' : j \notin Underway => ~(i < j)
  <2>1. Underway' \subseteq Nat
    BY PlacesAreEvents, LenProperties DEF RecTypes, Underway
  <2>2. \A i \in Underway' : ~(i < i)
    BY <2>1
  <2> QED BY <1>3, <2>2 DEF Grown
<1>7. ShadowIsDisk'
  BY <1>2 DEF FairParts, ShadowIsDisk, Up
<1>8. CounterIsAhead'
  <2>1. disk.counter <= nextTxId /\ disk'.counter <= nextTxId'
    BY <1>2 DEF FairParts, CounterIsAhead
  <2>2. \A i \in Underway : At(i).kind = "Started" => At(i).tx.id < nextTxId
    BY DEF IdsFit
  <2>3. \A i \in Underway' :
          At(i)'.kind = "Started" /\ (i = 0 => writer'.pc = "counter") =>
              disk'.counter <= At(i)'.tx.id
    BY <1>2, <1>5, <1>6, <2>1 DEF FairParts, CounterIsAhead
  <2>4. \A i, j \in Underway' :
          i < j /\ At(i)'.kind = "Started" /\ At(j)'.kind = "Started" =>
              At(i)'.tx.id < At(j)'.tx.id
    BY <1>5, <1>6, <2>2 DEF FairParts, CounterIsAhead
  <2>5. \A j \in Underway' :
          At(j)'.kind \in {"Sample", "Changed"} =>
              \/ At(j)'.tx.id < disk'.counter
              \/ \E i \in Underway' :
                    i < j /\ At(i)'.kind = "Started" /\ At(i)'.tx.id = At(j)'.tx.id
    BY <1>2, <1>6 DEF FairParts, CounterIsAhead
  <2> QED BY <1>2, <2>1, <2>3, <2>4, <2>5 DEF FairParts, CounterIsAhead
<1>9. RecordsAreClose'
  <2>0. \E n \in Underway' : n \notin Underway
    BY <1>3 DEF Grown
  <2>1. ASSUME NEW d \in RecConnectors, live'[d] # None, \A i \in Underway' : At(i)'.conn # d
        PROVE  /\ disk'.record[d].id = live'[d].id
               /\ live'[d].energy - disk'.record[d].energy < MeterThreshold
    <3>1. d # c
      BY <1>6, <2>0, <2>1
    <3> QED BY <1>2, <1>4, <1>6, <2>1, <3>1 DEF FairParts, RecordsAreClose
  <2>2. ASSUME NEW d \in RecConnectors, NEW i \in Underway', live'[d] # None, LastAbout(d, i)'
        PROVE  At(i)'.tx = live'[d] /\ At(i)'.kind # "Ended"
    <3>1. \/ d # c /\ i \in Underway /\ LastAbout(d, i)
          \/ d = c /\ i \notin Underway
      BY <1>3, <2>2, GrownContinues
    <3> QED BY <1>4, <1>6, <2>2, <3>1 DEF FairParts, RecordsAreClose
  <2>3. ASSUME NEW j \in Underway', At(j)'.kind \in {"Sample", "Changed"}
        PROVE  Continues(j)'
    BY <1>3, <1>6, <2>3, GrownContinues DEF FairParts, RecordsAreClose
  <2> QED BY <2>1, <2>2, <2>3 DEF RecordsAreClose
<1> QED BY <1>7, <1>8, <1>9 DEF FairParts

LEMMA EndKeepsFair ==
  ASSUME RecTypes, RecTypes', FairParts, EndTx
  PROVE  FairParts'
<1> USE NoneIsNoTx
<1>1. PICK c \in RecConnectors :
        live[c] # None /\ live' = [live EXCEPT ![c] = None] /\ Broadcast("Ended", c, live[c])
  BY DEF EndTx
<1>2. UNCHANGED <<writer, shadow, disk, booting, nextTxId>> /\ booting.pc = "up" /\ live[c] \in OpenTxs
  BY <1>1 DEF EndTx, RecTypes, Up, Txs
<1>3. Grown(c, "Ended", live[c])
  BY <1>1, <1>2, BroadcastGrows
<1>4. \A d \in RecConnectors : live'[d] = IF d = c THEN None ELSE live[d]
  BY <1>1 DEF RecTypes
<1>6. /\ \A i \in Underway : i \in Underway' /\ At(i)' = At(i)
      /\ \A i \in Underway' : i \notin Underway => At(i)'.kind = "Ended" /\ At(i)'.conn = c
  BY <1>3 DEF Grown
<1>7. ShadowIsDisk'
  BY <1>2 DEF FairParts, ShadowIsDisk, Up
<1>8. CounterIsAhead'
  BY <1>2, <1>6 DEF FairParts, CounterIsAhead
<1>9. RecordsAreClose'
  <2>1. ASSUME NEW d \in RecConnectors, live'[d] # None, \A i \in Underway' : At(i)'.conn # d
        PROVE  /\ disk'.record[d].id = live'[d].id
               /\ live'[d].energy - disk'.record[d].energy < MeterThreshold
    BY <1>2, <1>4, <1>6, <2>1 DEF FairParts, RecordsAreClose
  <2>2. ASSUME NEW d \in RecConnectors, NEW i \in Underway', live'[d] # None, LastAbout(d, i)'
        PROVE  At(i)'.tx = live'[d] /\ At(i)'.kind # "Ended"
    <3>1. \/ d # c /\ i \in Underway /\ LastAbout(d, i)
          \/ d = c /\ i \notin Underway
      BY <1>3, <2>2, GrownContinues
    <3> QED BY <1>4, <1>6, <2>2, <3>1 DEF FairParts, RecordsAreClose
  <2>3. ASSUME NEW j \in Underway', At(j)'.kind \in {"Sample", "Changed"}
        PROVE  Continues(j)'
    BY <1>3, <1>6, <2>3, GrownContinues DEF FairParts, RecordsAreClose
  <2> QED BY <2>1, <2>2, <2>3 DEF RecordsAreClose
<1> QED BY <1>7, <1>8, <1>9 DEF FairParts

LEMMA UpdateKeepsFair ==
  ASSUME RecTypes, RecTypes', FairParts, UpdateTx
  PROVE  FairParts'
<1> USE NoneIsNoTx
<1>1. PICK c \in RecConnectors, k \in {"Sample", "Changed"}, tx \in OpenTxs :
        /\ live' = [live EXCEPT ![c] = tx] /\ Broadcast(k, c, tx)
        /\ live[c] \in OpenTxs /\ tx.id = live[c].id
  BY UpdatesOpenOne
<1>2. UNCHANGED <<writer, shadow, disk, booting, nextTxId>> /\ booting.pc = "up"
  BY <1>1 DEF UpdateTx, Up
<1>3. Grown(c, k, tx)
  BY <1>1, <1>2, BroadcastGrows
<1>4. \A d \in RecConnectors : live'[d] = IF d = c THEN tx ELSE live[d]
  BY <1>1 DEF RecTypes
<1>5. PICK n \in Underway' :
        /\ n \notin Underway /\ \A i \in Underway : i < n
        /\ \A i \in Underway' : i \in Underway \/ i = n
  BY <1>3 DEF Grown
<1>6. /\ \A i \in Underway : i \in Underway' /\ At(i)' = At(i)
      /\ At(n)'.kind = k /\ At(n)'.conn = c /\ At(n)'.tx = tx
  BY <1>3, <1>5 DEF Grown
<1>7. ShadowIsDisk'
  BY <1>2 DEF FairParts, ShadowIsDisk, Up
\* The event before it, if one is under way, is its transaction's; if none is,
\* the disk has the transaction already.
<1>8. /\ Continues(n)'
      /\ \/ At(n)'.tx.id < disk.counter
         \/ \E i \in Underway' : i < n /\ At(i)'.kind = "Started" /\ At(i)'.tx.id = At(n)'.tx.id
  <2>1. CASE \A i \in Underway : At(i).conn # c
    <3>1. disk.record[c].id = live[c].id /\ shadow = disk.record
      BY <1>1, <1>2, <2>1 DEF FairParts, RecordsAreClose, ShadowIsDisk, Up
    <3>2. disk.record[c].id < disk.counter
      BY DEF FairParts, CounterIsAhead
    <3>3. Underway' \subseteq Nat
      BY LenProperties DEF RecTypes, Underway
    <3>4. \A i \in Underway' : i < n => At(i)'.conn # c
      BY <1>5, <1>6, <2>1, <3>3
    <3>5. shadow'[c].id = At(n)'.tx.id
      BY <1>1, <1>2, <1>6, <3>1
    <3> QED BY <1>1, <1>6, <3>1, <3>2, <3>4, <3>5 DEF Continues
  <2>2. CASE \E i \in Underway : At(i).conn = c
    <3>1. PICK l \in Underway : LastAbout(c, l)
      BY <2>2, SomeIsLast
    <3>2. At(l).tx = live[c] /\ At(l).kind # "Ended" /\ At(l) \in TxEvents
      BY <1>1, <3>1, PlacesAreEvents DEF FairParts, RecordsAreClose
    <3>3. Continues(n)'
      <4>1. l < n /\ At(l)'.conn = c /\ l \in Underway' /\ At(l)'.tx.id = At(n)'.tx.id
            /\ At(l)'.kind # "Ended"
        BY <1>1, <1>5, <1>6, <3>1, <3>2 DEF LastAbout
      <4>2. \A m \in Underway' : l < m /\ m < n => At(m)'.conn # c
        <5> TAKE m \in Underway'
        <5> HAVE l < m /\ m < n
        <5>1. m # n
          <6>1. Underway' \subseteq Nat
            BY LenProperties DEF RecTypes, Underway
          <6> QED BY <6>1
        <5> QED BY <1>5, <1>6, <3>1, <5>1 DEF LastAbout
      <4> QED BY <1>6, <4>1, <4>2 DEF Continues
    <3>4. \/ At(n)'.tx.id < disk.counter
          \/ \E i \in Underway' : i < n /\ At(i)'.kind = "Started" /\ At(i)'.tx.id = At(n)'.tx.id
      <4>1. At(n)'.tx.id = At(l).tx.id
        BY <1>1, <1>6, <3>2
      <4>2. CASE At(l).kind = "Started"
        BY <1>5, <1>6, <4>1, <4>2
      <4>3. CASE At(l).kind # "Started"
        <5>1. At(l).kind \in {"Sample", "Changed"}
          BY <3>2, <4>3 DEF TxEvents
        <5>2. \/ At(l).tx.id < disk.counter
              \/ \E i \in Underway : i < l /\ At(i).kind = "Started" /\ At(i).tx.id = At(l).tx.id
          BY <5>1 DEF FairParts, CounterIsAhead
        <5> QED BY <1>5, <1>6, <4>1, <5>2
      <4> QED BY <4>2, <4>3
    <3> QED BY <3>3, <3>4
  <2> QED BY <2>1, <2>2
<1>9. CounterIsAhead'
  <2>1. \A j \in Underway' :
          At(j)'.kind \in {"Sample", "Changed"} =>
              \/ At(j)'.tx.id < disk'.counter
              \/ \E i \in Underway' :
                    i < j /\ At(i)'.kind = "Started" /\ At(i)'.tx.id = At(j)'.tx.id
    BY <1>2, <1>5, <1>6, <1>8 DEF FairParts, CounterIsAhead
  <2>2. \A i \in Underway' : At(i)'.kind = "Started" => i \in Underway /\ At(i).kind = "Started"
    BY <1>5, <1>6
  <2> QED BY <1>2, <1>6, <2>1, <2>2 DEF FairParts, CounterIsAhead
<1>10. RecordsAreClose'
  <2>1. ASSUME NEW d \in RecConnectors, live'[d] # None, \A i \in Underway' : At(i)'.conn # d
        PROVE  /\ disk'.record[d].id = live'[d].id
               /\ live'[d].energy - disk'.record[d].energy < MeterThreshold
    BY <1>2, <1>4, <1>6, <2>1 DEF FairParts, RecordsAreClose
  <2>2. ASSUME NEW d \in RecConnectors, NEW i \in Underway', live'[d] # None, LastAbout(d, i)'
        PROVE  At(i)'.tx = live'[d] /\ At(i)'.kind # "Ended"
    <3>1. \/ d # c /\ i \in Underway /\ LastAbout(d, i)
          \/ d = c /\ i = n
      BY <1>3, <1>5, <2>2, GrownContinues
    <3> QED BY <1>1, <1>4, <1>6, <2>2, <3>1 DEF FairParts, RecordsAreClose
  <2>3. ASSUME NEW j \in Underway', At(j)'.kind \in {"Sample", "Changed"}
        PROVE  Continues(j)'
    BY <1>3, <1>5, <1>6, <1>8, <2>3, GrownContinues DEF FairParts, RecordsAreClose
  <2> QED BY <2>1, <2>2, <2>3 DEF RecordsAreClose
<1> QED BY <1>7, <1>9, <1>10 DEF FairParts
\* The writer takes the front event, or skips a sample close to the record.
LEMMA TakeKeepsFair ==
  ASSUME RecTypes, RecTypes', FairParts, TakeEvent
  PROVE  FairParts'
<1> USE NoneIsNoTx
<1> DEFINE e == Head(persistQ)
           d == Decide(shadow[e.conn], e)
<1>1. /\ UNCHANGED <<live, shadow, disk, booting, nextTxId>> /\ booting.pc = "up"
      /\ writer' = IF d = "Skip" THEN WriterIdle
                   ELSE [pc |-> IF d = "Clear" THEN "clear" ELSE FirstWrite(e), event |-> e]
  BY DEF TakeEvent, Up
<1>2. /\ 1 \in Underway /\ At(1) = e /\ Shifted(1)
      /\ \A i \in Underway : i >= 1
      /\ writer'.pc # "idle" => \A i \in Underway : i - 1 \in Underway' /\ At(i - 1)' = At(i)
      /\ writer'.pc = "idle" => \A i \in Underway : i > 1 => i - 1 \in Underway' /\ At(i - 1)' = At(i)
      /\ writer'.pc = "idle" => \A i \in Underway' : i >= 1
  BY TakenPlaces
<1>3. e \in TxEvents /\ Underway \subseteq Nat /\ Underway' \subseteq Nat
  BY <1>2, PlacesAreEvents, LenProperties DEF RecTypes, Underway
<1>4. /\ d = "Skip" =>
            /\ e.kind = "Sample" /\ shadow[e.conn].energy # NoSample
            /\ e.tx.energy - shadow[e.conn].energy < MeterThreshold
      /\ writer'.pc = "record" => e.kind \in {"Sample", "Changed"} /\ writer'.event = e
      /\ writer'.pc = "idle" <=> d = "Skip"
      /\ writer'.pc = "counter" <=> e.kind = "Started"
  <2>1. /\ d = "Skip" =>
            /\ e.kind = "Sample" /\ shadow[e.conn].energy # NoSample
            /\ ~(e.tx.energy - shadow[e.conn].energy >= MeterThreshold)
        /\ d \in {"Write", "Clear", "Skip"}
        /\ d = "Clear" <=> e.kind = "Ended"
        /\ e.kind = "Started" => d = "Write"
    BY <1>3 DEF Decide, TxEvents
  <2>2. shadow[e.conn].energy \in Int /\ e.tx.energy \in Int
    <3>1. shadow[e.conn] \in Txs /\ e.tx \in OpenTxs
      BY <1>3 DEF RecTypes, TxEvents
    <3>2. None.energy \in Int
      BY DEF None
    <3> QED BY <3>1, <3>2 DEF Txs, OpenTxs
  <2> HIDE DEF d, e
  <2>3. /\ writer'.pc = "record" => e.kind \in {"Sample", "Changed"} /\ writer'.event = e
        /\ writer'.pc = "idle" <=> d = "Skip"
        /\ writer'.pc = "counter" <=> e.kind = "Started"
    BY <1>1, <1>3, <2>1 DEF WriterIdle, FirstWrite, TxEvents
  <2> QED BY <2>1, <2>2, <2>3, RecAssumption
<1>5. \A i \in Underway' : i + 1 \in Underway /\ At(i)' = At(i + 1)
  BY <1>2 DEF Shifted
<1> HIDE DEF e, d
\* Who comes first in the queue has only the shadow before it.
<1>6. e.kind \in {"Sample", "Changed"} => shadow[e.conn].id = e.tx.id
  <2>1. ASSUME e.kind \in {"Sample", "Changed"} PROVE shadow[e.conn].id = e.tx.id
    <3>1. Continues(1)
      BY <1>2, <2>1 DEF FairParts, RecordsAreClose
    <3>2. \A i \in Underway : ~(i < 1)
      BY <1>2, <1>3
    <3> QED BY <1>2, <3>1, <3>2 DEF Continues
  <2> QED BY <2>1
<1>7. e.kind \in {"Sample", "Changed"} => e.tx.id < disk.counter
  <2>1. \A i \in Underway : ~(i < 1)
    BY <1>2, <1>3
  <2> QED BY <1>2, <2>1 DEF FairParts, CounterIsAhead
<1>8. ShadowIsDisk'
  BY <1>1 DEF FairParts, ShadowIsDisk, Up
<1>9. CounterIsAhead'
  <2>1. \A i \in Underway' : At(i)'.kind = "Started" => disk'.counter <= At(i)'.tx.id
    <3> SUFFICES ASSUME NEW i \in Underway', At(i)'.kind = "Started"
                 PROVE  disk'.counter <= At(i)'.tx.id
      OBVIOUS
    <3>1. i + 1 # 0
      BY <1>3
    <3> QED BY <1>1, <1>5, <3>1 DEF FairParts, CounterIsAhead
  <2>2. \A i, j \in Underway' : i < j => i + 1 < j + 1
    BY <1>3
  <2>3. \A i, j \in Underway' :
          i < j /\ At(i)'.kind = "Started" /\ At(j)'.kind = "Started" =>
              At(i)'.tx.id < At(j)'.tx.id
    BY <1>5, <2>2 DEF FairParts, CounterIsAhead
  <2>4. ASSUME NEW j \in Underway', At(j)'.kind \in {"Sample", "Changed"}
        PROVE  \/ At(j)'.tx.id < disk'.counter
               \/ \E i \in Underway' :
                     i < j /\ At(i)'.kind = "Started" /\ At(i)'.tx.id = At(j)'.tx.id
    <3>1. \/ At(j + 1).tx.id < disk.counter
          \/ \E i \in Underway : i < j + 1 /\ At(i).kind = "Started" /\ At(i).tx.id = At(j + 1).tx.id
      BY <1>5, <2>4 DEF FairParts, CounterIsAhead
    <3>2. ASSUME NEW i \in Underway, i < j + 1, At(i).kind = "Started"
          PROVE  i - 1 \in Underway' /\ i - 1 < j /\ At(i - 1)' = At(i)
      <4>1. i - 1 < j
        BY <1>3, <3>2
      <4>2. i > 1 \/ writer'.pc # "idle"
        <5>1. i = 1 => e.kind = "Started"
          BY <1>2, <3>2
        <5>2. i = 1 \/ i > 1
          BY <1>2, <1>3
        <5> QED BY <1>4, <5>1, <5>2
      <4> QED BY <1>2, <4>1, <4>2
    <3> QED BY <1>1, <1>5, <2>4, <3>1, <3>2
  <2> QED BY <1>1, <1>4, <1>7, <2>1, <2>3, <2>4 DEF FairParts, CounterIsAhead
<1>10. RecordsAreClose'
  <2>1. ASSUME NEW c \in RecConnectors, live'[c] # None, \A i \in Underway' : At(i)'.conn # c
        PROVE  /\ disk'.record[c].id = live'[c].id
               /\ live'[c].energy - disk'.record[c].energy < MeterThreshold
    <3>1. CASE \A i \in Underway : At(i).conn # c
      BY <1>1, <2>1, <3>1 DEF FairParts, RecordsAreClose
    <3>2. CASE \E i \in Underway : At(i).conn = c
      <4>1. PICK i \in Underway : At(i).conn = c
        BY <3>2
      <4>2. \A j \in Underway : j = 1 \/ At(j).conn # c
        <5> TAKE j \in Underway
        <5>1. j = 1 \/ j > 1
          BY <1>2, <1>3
        <5> QED BY <1>2, <2>1, <5>1
      <4>3. writer'.pc = "idle" /\ e.conn = c
        BY <1>2, <2>1, <4>1, <4>2
      <4>4. LastAbout(c, 1)
        <5>1. \A j \in Underway : 1 < j => j # 1
          BY <1>3
        <5> QED BY <1>2, <4>2, <4>3, <5>1 DEF LastAbout
      <4>5. e.tx = live[c]
        BY <1>1, <1>2, <2>1, <4>4 DEF FairParts, RecordsAreClose
      <4> QED BY <1>1, <1>4, <1>6, <4>3, <4>5 DEF FairParts, ShadowIsDisk, Up
    <3> QED BY <3>1, <3>2
  <2>2. ASSUME NEW c \in RecConnectors, NEW i \in Underway', live'[c] # None, LastAbout(c, i)'
        PROVE  At(i)'.tx = live'[c] /\ At(i)'.kind # "Ended"
    <3>1. LastAbout(c, i + 1)
      <4>1. i + 1 \in Underway /\ At(i + 1).conn = c /\ i \in Nat
        BY <1>3, <1>5, <2>2 DEF LastAbout
      <4>2. ASSUME NEW j \in Underway, i + 1 < j PROVE At(j).conn # c
        <5>1. j > 1 /\ i < j - 1
          BY <1>3, <4>1, <4>2
        <5> QED BY <1>2, <2>2, <5>1 DEF LastAbout
      <4> QED BY <4>1, <4>2 DEF LastAbout
    <3> QED BY <1>1, <1>5, <2>2, <3>1 DEF FairParts, RecordsAreClose
  <2>3. ASSUME NEW j \in Underway', At(j)'.kind \in {"Sample", "Changed"}
        PROVE  Continues(j)'
    <3> DEFINE c == At(j + 1).conn
    <3>1. j + 1 \in Underway /\ At(j)' = At(j + 1) /\ Continues(j + 1) /\ j \in Nat
      BY <1>3, <1>5, <2>3 DEF FairParts, RecordsAreClose
    <3>2. \A i \in Underway' : i < j => i + 1 < j + 1
      BY <1>3
    <3>3. CASE /\ \A i \in Underway : i < j + 1 => At(i).conn # c
               /\ shadow[c].id = At(j + 1).tx.id
      <4>1. \A i \in Underway' : i < j => At(i)'.conn # c
        BY <1>5, <3>2, <3>3
      <4> QED BY <1>1, <3>1, <3>3, <4>1 DEF Continues
    <3>4. ASSUME NEW i \in Underway, i < j + 1, At(i).conn = c,
                 \A k \in Underway : i < k /\ k < j + 1 => At(k).conn # c,
                 At(i).tx.id = At(j + 1).tx.id, At(i).kind # "Ended"
          PROVE  Continues(j)'
      <4>1. \A k \in Underway' : i < k + 1 /\ k < j => At(k)'.conn # c
        BY <1>5, <3>2, <3>4
      <4>2. CASE i > 1 \/ writer'.pc # "idle"
        <5>1. i - 1 \in Underway' /\ At(i - 1)' = At(i)
          BY <1>2, <4>2
        <5>2. i - 1 < j /\ \A k \in Underway' : i - 1 < k => i < k + 1
          BY <1>3, <3>1, <3>4
        <5> QED BY <3>1, <3>4, <4>1, <5>1, <5>2 DEF Continues
      <4>3. CASE i = 1 /\ writer'.pc = "idle"
        <5>1. \A k \in Underway' : i < k + 1
          BY <1>2, <1>3, <4>3
        <5>2. \A k \in Underway' : k < j => At(k)'.conn # c
          BY <4>1, <5>1
        <5>3. e.conn = c /\ e.tx.id = At(j + 1).tx.id /\ e.kind = "Sample"
          BY <1>2, <1>4, <3>4, <4>3
        <5>4. shadow'[c].id = At(j)'.tx.id
          BY <1>1, <1>6, <3>1, <5>3
        <5> QED BY <3>1, <5>2, <5>4 DEF Continues
      <4>4. i = 1 \/ i > 1
        BY <1>2, <1>3
      <4> QED BY <4>2, <4>3, <4>4
    <3> QED BY <3>1, <3>3, <3>4 DEF Continues
  <2> QED BY <2>1, <2>2, <2>3 DEF RecordsAreClose
<1> QED BY <1>8, <1>9, <1>10 DEF FairParts

\* A write of the id counter: past the transaction about to be recorded.
LEMMA CounterKeepsFair ==
  ASSUME RecTypes, RecTypes', IdsFit, FairParts, SaveCounter, ~Fails
  PROVE  FairParts'
<1> DEFINE n == writer.event.tx.id + 1
<1>1. /\ writer.pc = "counter" /\ writer' = [writer EXCEPT !.pc = "record"]
      /\ booting.pc = "up" /\ writer \in Writers /\ writer.event \in TxEvents
      /\ disk' = [disk EXCEPT !.counter = n] /\ disk \in Disks
      /\ UNCHANGED <<live, nextTxId, persistQ, shadow, booting>>
  BY DEF SaveCounter, RecTypes, Up, Writers
<1>2. writer'.pc = "record" /\ writer'.event = writer.event /\ writer.event.kind = "Started"
  BY <1>1 DEF Writers, RecTypes
<1>3. Underway' = Underway /\ \A i \in Underway : At(i)' = At(i)
  BY <1>1, <1>2, StillPlaces
<1>4. 0 \in Underway /\ At(0) = writer.event /\ writer.event.tx.id \in Nat /\ n \in Nat
  <2>1. writer.event.tx \in OpenTxs
    BY <1>1 DEF TxEvents
  <2> QED BY <1>1, <2>1, LenProperties DEF Underway, At, OpenTxs, RecTypes
<1>5. /\ disk.counter <= writer.event.tx.id /\ writer.event.tx.id < nextTxId
      /\ disk.counter \in Nat /\ nextTxId \in Nat
  <2>1. disk.counter <= writer.event.tx.id
    BY <1>1, <1>2, <1>4 DEF FairParts, CounterIsAhead
  <2>2. writer.event.tx.id < nextTxId
    BY <1>2, <1>4 DEF IdsFit
  <2> QED BY <1>1, <2>1, <2>2, RecAssumption DEF Disks, RecTypes
<1>6. disk'.counter = n /\ disk'.record = disk.record
  <2> HIDE DEF n
  <2> QED BY <1>1, <1>4 DEF Disks
<1>7. ShadowIsDisk'
  BY <1>1, <1>6 DEF FairParts, ShadowIsDisk, Up
<1>8. \A i \in Underway : At(i).tx.id \in Nat
  BY PlacesAreEvents DEF TxEvents, OpenTxs
<1>9. CounterIsAhead'
  <2>1. ASSUME NEW i \in Underway, At(i).kind = "Started", i # 0
        PROVE  disk'.counter <= At(i).tx.id
    <3>1. 0 < i
      BY <2>1, PlacesAreEvents
    <3>2. writer.event.tx.id < At(i).tx.id
      BY <1>2, <1>4, <2>1, <3>1 DEF FairParts, CounterIsAhead
    <3> QED BY <1>4, <1>6, <1>8, <3>2
  <2>2. ASSUME NEW j \in Underway, At(j).kind \in {"Sample", "Changed"}
        PROVE  \/ At(j).tx.id < disk'.counter
               \/ \E i \in Underway :
                     i < j /\ At(i).kind = "Started" /\ At(i).tx.id = At(j).tx.id
    BY <1>4, <1>5, <1>6, <1>8, <2>2 DEF FairParts, CounterIsAhead
  <2>3. \A c \in RecConnectors : disk'.record[c].id < disk'.counter
    <3> TAKE c \in RecConnectors
    <3>1. disk.record[c].id < disk.counter
      BY DEF FairParts, CounterIsAhead
    <3>2. disk.record[c].id \in Int
      <4>1. disk.record[c] \in Txs
        BY <1>1 DEF Disks
      <4> QED BY <4>1, NoneIsNoTx DEF Txs, OpenTxs
    <3> QED BY <1>4, <1>5, <1>6, <3>1, <3>2
  <2>4. disk'.counter <= nextTxId
    BY <1>4, <1>5, <1>6
  <2>5. writer'.event.tx.id < disk'.counter
    BY <1>2, <1>4, <1>6
  <2>6. \A i, j \in Underway :
          i < j /\ At(i).kind = "Started" /\ At(j).kind = "Started" => At(i).tx.id < At(j).tx.id
    BY DEF FairParts, CounterIsAhead
  <2> QED BY <1>1, <1>2, <1>3, <2>1, <2>2, <2>3, <2>4, <2>5, <2>6 DEF CounterIsAhead
<1>10. RecordsAreClose'
  <2>1. \A j \in Underway : Continues(j) => Continues(j)'
    BY <1>1, <1>3 DEF Continues
  <2>2. \A c, i : LastAbout(c, i)' => LastAbout(c, i)
    BY <1>3 DEF LastAbout
  <2> QED BY <1>1, <1>3, <1>6, <2>1, <2>2 DEF FairParts, RecordsAreClose
<1> QED BY <1>7, <1>9, <1>10 DEF FairParts

\* A record written: the writer's shadow of it and the disk agree again.
LEMMA SaveKeepsFair ==
  ASSUME RecTypes, RecTypes', FairParts, SaveRecord, ~Fails
  PROVE  FairParts'
<1> DEFINE e == writer.event
<1>1. /\ writer.pc = "record" /\ writer' = WriterIdle /\ booting.pc = "up"
      /\ writer \in Writers /\ e \in TxEvents /\ e.kind # "Ended"
      /\ disk' = [disk EXCEPT !.record[e.conn] = e.tx] /\ disk \in Disks
      /\ shadow' = [shadow EXCEPT ![e.conn] = e.tx] /\ shadow \in [RecConnectors -> Txs]
      /\ UNCHANGED <<live, nextTxId, persistQ, booting>>
  BY DEF SaveRecord, RecTypes, Up, Writers
<1>2. /\ 0 \in Underway /\ At(0) = e /\ Underway' = Underway \ {0}
      /\ \A i \in Underway' : i > 0 /\ At(i)' = At(i)
  BY <1>1, WrittenPlaces
<1> HIDE DEF e
<1>3. e.conn \in RecConnectors /\ e.tx \in OpenTxs /\ e.kind \in {"Started", "Sample", "Changed"}
  BY <1>1 DEF TxEvents
<1>4. /\ disk'.counter = disk.counter
      /\ \A c \in RecConnectors : disk'.record[c] = IF c = e.conn THEN e.tx ELSE disk.record[c]
      /\ \A c \in RecConnectors : shadow'[c] = IF c = e.conn THEN e.tx ELSE shadow[c]
      /\ disk'.record \in [RecConnectors -> Txs] /\ shadow' \in [RecConnectors -> Txs]
  BY <1>1, <1>3 DEF Disks, RecTypes
<1>5. e.tx.id < disk.counter
  BY <1>1 DEF FairParts, CounterIsAhead, e
<1>6. ShadowIsDisk'
  <2>1. shadow = disk.record
    BY <1>1 DEF FairParts, ShadowIsDisk, Up
  <2> QED BY <1>1, <1>4, <2>1 DEF ShadowIsDisk
<1>7. CounterIsAhead'
  <2>1. ASSUME NEW j \in Underway', At(j)'.kind \in {"Sample", "Changed"}
        PROVE  \/ At(j)'.tx.id < disk'.counter
               \/ \E i \in Underway' :
                     i < j /\ At(i)'.kind = "Started" /\ At(i)'.tx.id = At(j)'.tx.id
    <3>1. \/ At(j).tx.id < disk.counter
          \/ \E i \in Underway : i < j /\ At(i).kind = "Started" /\ At(i).tx.id = At(j).tx.id
      BY <1>2, <2>1 DEF FairParts, CounterIsAhead
    <3> QED BY <1>2, <1>4, <1>5, <2>1, <3>1
  <2>2. \A c \in RecConnectors : disk'.record[c].id < disk'.counter
    BY <1>4, <1>5 DEF FairParts, CounterIsAhead
  <2>3. \A i \in Underway' : At(i)'.kind = "Started" => disk'.counter <= At(i)'.tx.id
    <3> TAKE i \in Underway'
    <3>1. i # 0
      BY <1>2
    <3> QED BY <1>2, <1>4, <3>1 DEF FairParts, CounterIsAhead
  <2> QED BY <1>1, <1>2, <1>4, <2>1, <2>2, <2>3 DEF FairParts, CounterIsAhead, WriterIdle
<1>8. RecordsAreClose'
  <2>1. ASSUME NEW c \in RecConnectors, live'[c] # None, \A i \in Underway' : At(i)'.conn # c
        PROVE  /\ disk'.record[c].id = live'[c].id
               /\ live'[c].energy - disk'.record[c].energy < MeterThreshold
    <3>1. CASE c = e.conn
      <4>1. \A j \in Underway : 0 < j => At(j).conn # c
        BY <1>2, <2>1
      <4>2. LastAbout(c, 0)
        BY <1>2, <3>1, <4>1 DEF LastAbout
      <4>3. e.tx = live[c]
        BY <1>1, <1>2, <2>1, <4>2 DEF FairParts, RecordsAreClose
      <4>4. e.tx.energy \in Int
        BY <1>3 DEF OpenTxs
      <4> QED BY <1>1, <1>4, <3>1, <4>3, <4>4, RecAssumption
    <3>2. CASE c # e.conn
      <4>1. \A j \in Underway : At(j).conn # c
        BY <1>2, <2>1, <3>2
      <4> QED BY <1>1, <1>4, <2>1, <3>2, <4>1 DEF FairParts, RecordsAreClose
    <3> QED BY <3>1, <3>2
  <2>2. ASSUME NEW c \in RecConnectors, NEW i \in Underway', live'[c] # None, LastAbout(c, i)'
        PROVE  At(i)'.tx = live'[c] /\ At(i)'.kind # "Ended"
    <3>1. i > 0 /\ i \in Nat
      BY <1>2, PlacesAreEvents
    <3>2. LastAbout(c, i)
      BY <1>2, <2>2, <3>1 DEF LastAbout
    <3> QED BY <1>1, <1>2, <2>2, <3>2 DEF FairParts, RecordsAreClose
  <2>3. ASSUME NEW j \in Underway', At(j)'.kind \in {"Sample", "Changed"}
        PROVE  Continues(j)'
    <3> DEFINE c == At(j).conn
    <3>1. j \in Underway /\ At(j)' = At(j) /\ Continues(j) /\ 0 < j /\ c \in RecConnectors
      <4>1. j \in Underway /\ At(j)' = At(j) /\ 0 < j
        BY <1>2, PlacesAreEvents
      <4>2. c \in RecConnectors
        BY <4>1, PlacesAreEvents DEF TxEvents
      <4> QED BY <2>3, <4>1, <4>2 DEF FairParts, RecordsAreClose
    <3>2. CASE /\ \A i \in Underway : i < j => At(i).conn # c
               /\ shadow[c].id = At(j).tx.id
      BY <1>2, <1>4, <3>1, <3>2 DEF Continues
    <3>3. ASSUME NEW i \in Underway, i < j, At(i).conn = c,
                 \A k \in Underway : i < k /\ k < j => At(k).conn # c,
                 At(i).tx.id = At(j).tx.id, At(i).kind # "Ended"
          PROVE  Continues(j)'
      <4>1. CASE i = 0
        <5>1. \A k \in Underway' : k < j => At(k)'.conn # c
          BY <1>2, <3>3, <4>1
        <5>2. shadow'[c].id = At(j)'.tx.id
          BY <1>2, <1>4, <3>1, <3>3, <4>1
        <5> QED BY <3>1, <5>1, <5>2 DEF Continues
      <4>2. CASE i # 0
        BY <1>2, <3>1, <3>3, <4>2 DEF Continues
      <4> QED BY <4>1, <4>2
    <3> QED BY <3>1, <3>2, <3>3 DEF Continues
  <2> QED BY <2>1, <2>2, <2>3 DEF RecordsAreClose
<1> QED BY <1>6, <1>7, <1>8 DEF FairParts

\* A record removed: its transaction has ended, and what follows is another's.
LEMMA ClearKeepsFair ==
  ASSUME RecTypes, RecTypes', FairParts, ClearRecord, ~Fails
  PROVE  FairParts'
<1> USE NoneIsNoTx
<1> DEFINE e == writer.event
<1>1. /\ writer.pc = "clear" /\ writer' = WriterIdle /\ booting.pc = "up"
      /\ writer \in Writers /\ e \in TxEvents /\ e.kind = "Ended"
      /\ disk' = [disk EXCEPT !.record[e.conn] = None] /\ disk \in Disks
      /\ shadow' = [shadow EXCEPT ![e.conn] = None] /\ shadow \in [RecConnectors -> Txs]
      /\ UNCHANGED <<live, nextTxId, persistQ, booting>>
  BY DEF ClearRecord, RecTypes, Up, Writers
<1>2. /\ 0 \in Underway /\ At(0) = e /\ Underway' = Underway \ {0}
      /\ \A i \in Underway' : i > 0 /\ At(i)' = At(i)
  BY <1>1, WrittenPlaces
<1> HIDE DEF e
<1>3. e.conn \in RecConnectors /\ None \in Txs
  BY <1>1 DEF TxEvents, Txs
<1>4. /\ disk'.counter = disk.counter /\ disk.counter \in Nat
      /\ \A c \in RecConnectors : disk'.record[c] = IF c = e.conn THEN None ELSE disk.record[c]
      /\ \A c \in RecConnectors : shadow'[c] = IF c = e.conn THEN None ELSE shadow[c]
      /\ disk'.record \in [RecConnectors -> Txs] /\ shadow' \in [RecConnectors -> Txs]
  BY <1>1, <1>3, RecAssumption DEF Disks, RecTypes
<1>6. ShadowIsDisk'
  <2>1. shadow = disk.record
    BY <1>1 DEF FairParts, ShadowIsDisk, Up
  <2> QED BY <1>1, <1>4, <2>1 DEF ShadowIsDisk
<1>7. CounterIsAhead'
  <2>1. ASSUME NEW j \in Underway', At(j)'.kind \in {"Sample", "Changed"}
        PROVE  \/ At(j)'.tx.id < disk'.counter
               \/ \E i \in Underway' :
                     i < j /\ At(i)'.kind = "Started" /\ At(i)'.tx.id = At(j)'.tx.id
    <3>1. \/ At(j).tx.id < disk.counter
          \/ \E i \in Underway : i < j /\ At(i).kind = "Started" /\ At(i).tx.id = At(j).tx.id
      BY <1>2, <2>1 DEF FairParts, CounterIsAhead
    <3> QED BY <1>1, <1>2, <1>4, <2>1, <3>1
  <2>2. \A c \in RecConnectors : disk'.record[c].id < disk'.counter
    BY <1>4 DEF FairParts, CounterIsAhead
  <2>3. \A i \in Underway' : At(i)'.kind = "Started" => disk'.counter <= At(i)'.tx.id
    <3> TAKE i \in Underway'
    <3>1. i # 0
      BY <1>2
    <3> QED BY <1>2, <1>4, <3>1 DEF FairParts, CounterIsAhead
  <2> QED BY <1>1, <1>2, <1>4, <2>1, <2>2, <2>3 DEF FairParts, CounterIsAhead, WriterIdle
<1>8. RecordsAreClose'
  <2>1. ASSUME NEW c \in RecConnectors, live'[c] # None, \A i \in Underway' : At(i)'.conn # c
        PROVE  /\ disk'.record[c].id = live'[c].id
               /\ live'[c].energy - disk'.record[c].energy < MeterThreshold
    <3>1. CASE c = e.conn
      <4>1. \A j \in Underway : 0 < j => At(j).conn # c
        BY <1>2, <2>1
      <4>2. LastAbout(c, 0)
        BY <1>2, <3>1, <4>1 DEF LastAbout
      <4>3. e.kind # "Ended"
        BY <1>1, <1>2, <2>1, <4>2 DEF FairParts, RecordsAreClose
      <4> QED BY <1>1, <4>3
    <3>2. CASE c # e.conn
      <4>1. \A j \in Underway : At(j).conn # c
        BY <1>2, <2>1, <3>2
      <4> QED BY <1>1, <1>4, <2>1, <3>2, <4>1 DEF FairParts, RecordsAreClose
    <3> QED BY <3>1, <3>2
  <2>2. ASSUME NEW c \in RecConnectors, NEW i \in Underway', live'[c] # None, LastAbout(c, i)'
        PROVE  At(i)'.tx = live'[c] /\ At(i)'.kind # "Ended"
    <3>1. i > 0 /\ i \in Nat
      BY <1>2, PlacesAreEvents
    <3>2. LastAbout(c, i)
      BY <1>2, <2>2, <3>1 DEF LastAbout
    <3> QED BY <1>1, <1>2, <2>2, <3>2 DEF FairParts, RecordsAreClose
  <2>3. ASSUME NEW j \in Underway', At(j)'.kind \in {"Sample", "Changed"}
        PROVE  Continues(j)'
    <3> DEFINE c == At(j).conn
    <3>1. j \in Underway /\ At(j)' = At(j) /\ Continues(j) /\ 0 < j /\ c \in RecConnectors
      <4>1. j \in Underway /\ At(j)' = At(j) /\ 0 < j
        BY <1>2, PlacesAreEvents
      <4>2. c \in RecConnectors
        BY <4>1, PlacesAreEvents DEF TxEvents
      <4> QED BY <2>3, <4>1, <4>2 DEF FairParts, RecordsAreClose
    <3>2. CASE /\ \A i \in Underway : i < j => At(i).conn # c
               /\ shadow[c].id = At(j).tx.id
      BY <1>2, <1>4, <3>1, <3>2 DEF Continues
    <3>3. ASSUME NEW i \in Underway, i < j, At(i).conn = c,
                 \A k \in Underway : i < k /\ k < j => At(k).conn # c,
                 At(i).tx.id = At(j).tx.id, At(i).kind # "Ended"
          PROVE  Continues(j)'
      <4>1. i # 0
        BY <1>1, <1>2, <3>3
      <4> QED BY <1>2, <3>1, <3>3, <4>1 DEF Continues
    <3> QED BY <3>1, <3>2, <3>3 DEF Continues
  <2> QED BY <2>1, <2>2, <2>3 DEF RecordsAreClose
<1> QED BY <1>6, <1>7, <1>8 DEF FairParts

\* The boot: what was loaded is reported, and removed as it is on disk.
LEMMA RestoreKeepsFair ==
  ASSUME RecTypes, RecTypes', FairParts, RestoreTx
  PROVE  FairParts'
<1>1. /\ booting.pc = "restore" /\ booting' = [pc |-> "clear", loaded |-> disk.record]
      /\ live' = Nobody /\ UNCHANGED disk /\ writer'.pc = "idle"
      /\ disk.counter <= nextTxId'
  <2>1. disk.counter \in Int /\ nextTxId \in Int
    BY RecAssumption DEF RecTypes, Disks
  <2> QED BY <2>1 DEF RestoreTx, RecTypes, Up
<1>2. \A i \in Underway' : At(i)'.kind = "Ended"
  BY RestoredEvents
<1>3. ShadowIsDisk'
  BY <1>1 DEF ShadowIsDisk, Up
<1>4. CounterIsAhead'
  BY <1>1, <1>2 DEF FairParts, CounterIsAhead
<1>5. RecordsAreClose'
  <2>1. \A c \in RecConnectors : live'[c] = None
    BY <1>1 DEF Nobody
  <2> QED BY <1>2, <2>1 DEF RecordsAreClose
<1> QED BY <1>3, <1>4, <1>5 DEF FairParts

LEMMA BootKeepsFair ==
  ASSUME RecTypes, RecTypes', FairParts, ClearRestored, ~Fails
  PROVE  FairParts'
<1> USE NoneIsNoTx
<1>1. /\ booting.pc = "clear" /\ booting.loaded = disk.record /\ booting.loaded \in [RecConnectors -> Txs]
      /\ live = Nobody /\ shadow = Nobody /\ writer.pc = "idle"
      /\ UNCHANGED <<live, nextTxId, persistQ, writer, shadow>>
      /\ disk \in Disks /\ booting \in RecStages
  BY DEF ClearRestored, FairParts, ShadowIsDisk, RecTypes, RecStages, Up
<1>2. Underway' = Underway /\ \A i \in Underway : At(i)' = At(i)
  BY <1>1, StillPlaces
<1>3. /\ disk'.counter = disk.counter /\ booting'.pc # "restore" /\ ShadowIsDisk'
      /\ \A c \in RecConnectors : disk'.record[c] \in {disk.record[c], None}
  <2>1. CASE OnEach(booting.loaded) = <<>>
    <3>1. booting' = [pc |-> "up"] /\ UNCHANGED disk
      BY <2>1 DEF ClearRestored
    <3>2. \A c \in RecConnectors : disk.record[c] = None
      <4>1. Len(OnEach(booting.loaded)) = 0
        BY <2>1
      <4>2. \A c \in RecConnectors :
               booting.loaded[c] # None => \E i \in 1 .. Len(OnEach(booting.loaded)) : OnEach(booting.loaded)[i] = c
        BY <1>1, OnEachLists
      <4>3. \A c \in RecConnectors : booting.loaded[c] = None
        BY <4>1, <4>2
      <4> QED BY <1>1, <4>3
    <3>3. disk.record = Nobody
      BY <1>1, <3>2 DEF Nobody, Disks
    <3> QED BY <1>1, <3>1, <3>3 DEF ShadowIsDisk, Up
  <2>2. CASE OnEach(booting.loaded) # <<>>
    <3> DEFINE l == OnEach(booting.loaded)
               c == Head(l)
    <3>1. l \in Seq(RecConnectors)
      BY <1>1, OnEachLists
    <3>2. c \in RecConnectors
      <4> HIDE DEF l
      <4> QED BY <2>2, <3>1, HeadTailProperties DEF l
    <3>3. booting' = [booting EXCEPT !.loaded[c] = None] /\ disk' = [disk EXCEPT !.record[c] = None]
      BY <2>2 DEF ClearRestored
    <3> HIDE DEF c
    <3>4. booting'.pc = "clear" /\ booting'.loaded = [booting.loaded EXCEPT ![c] = None]
      BY <1>1, <3>2, <3>3 DEF RecStages
    <3>5. disk'.counter = disk.counter /\ disk'.record = [disk.record EXCEPT ![c] = None]
      BY <1>1, <3>2, <3>3 DEF Disks
    <3>6. \A d \in RecConnectors : disk'.record[d] \in {disk.record[d], None}
      BY <1>1, <3>2, <3>5 DEF Disks
    <3> QED BY <1>1, <3>4, <3>5, <3>6 DEF ShadowIsDisk, Up
  <2> QED BY <2>1, <2>2
<1>4. CounterIsAhead'
  <2>1. \A c \in RecConnectors : disk'.record[c].id < disk'.counter
    <3>1. disk.counter \in Nat
      BY <1>1, RecAssumption DEF Disks
    <3> QED BY <1>3, <3>1 DEF FairParts, CounterIsAhead
  <2> QED BY <1>1, <1>2, <1>3, <2>1 DEF FairParts, CounterIsAhead
<1>5. RecordsAreClose'
  <2>1. \A c \in RecConnectors : live'[c] = None
    BY <1>1 DEF Nobody
  <2>2. \A j \in Underway : Continues(j) => Continues(j)'
    BY <1>1, <1>2 DEF Continues
  <2> QED BY <1>2, <2>1, <2>2 DEF FairParts, RecordsAreClose
<1> QED BY <1>3, <1>4, <1>5 DEF FairParts

LEMMA CutKeepsFair ==
  ASSUME RecTypes, RecTypes', FairParts, LosePower, AtomicMedium
  PROVE  FairParts'
<1>1. /\ booting'.pc = "restore" /\ live' = Nobody /\ disk' = disk
      /\ Underway' = {} /\ writer'.pc = "idle"
  BY DEF LosePower, Underway, WriterIdle
<1>2. \A c \in RecConnectors : live'[c] = None
  BY <1>1 DEF Nobody
<1> QED BY <1>1, <1>2
        DEF FairParts, ShadowIsDisk, CounterIsAhead, RecordsAreClose, Up

LEMMA FairWeatherStep ==
  ASSUME RecTypes, RecTypes', IdsFit, FairWeather, AtomicMedium, RecNext
  PROVE  FairWeather'
<1> SUFFICES ASSUME mishaps'.failures = 0 PROVE FairParts'
  BY DEF FairWeather, FairParts
<1>1. FairParts /\ ~Fails
  BY FailuresStay DEF FairWeather, FairParts
<1>2. CASE StartTx
  BY <1>1, <1>2, StartKeepsFair
<1>3. CASE UpdateTx
  BY <1>1, <1>3, UpdateKeepsFair
<1>4. CASE EndTx
  BY <1>1, <1>4, EndKeepsFair
<1>5. CASE TakeEvent
  BY <1>1, <1>5, TakeKeepsFair
<1>6. CASE SaveCounter
  BY <1>1, <1>6, CounterKeepsFair
<1>7. CASE SaveRecord
  BY <1>1, <1>7, SaveKeepsFair
<1>8. CASE ClearRecord
  BY <1>1, <1>8, ClearKeepsFair
<1>9. CASE ReportEnded
  BY <1>1, <1>9 DEF ReportEnded, FairParts, ShadowIsDisk, CounterIsAhead, RecordsAreClose,
                    LastAbout, Continues, Underway, At, Up
<1>10. CASE RestoreTx
  BY <1>1, <1>10, RestoreKeepsFair
<1>11. CASE ClearRestored
  BY <1>1, <1>11, BootKeepsFair
<1>12. CASE LosePower
  BY <1>1, <1>12, CutKeepsFair
<1> QED BY <1>2, <1>3, <1>4, <1>5, <1>6, <1>7, <1>8, <1>9, <1>10, <1>11, <1>12
        DEF RecNext, RecSteps
-----------------------------------------------------------------------------
\* The inductive invariant of the recovery: whatever fails, and however often the
\* power goes, no recorded transaction is lost sight of; and as long as no storage
\* operation failed, counter and records on disk are as close as they should be.
RecInv == RecTypes /\ IdsFit /\ RecOpen /\ FairWeather

LEMMA RecInvInit == RecInit => RecInv
<1> SUFFICES ASSUME RecInit PROVE RecInv
  OBVIOUS
<1> USE RecAssumption, NoneIsNoTx
<1>1. /\ live = Nobody /\ shadow = Nobody /\ nextTxId = 0 /\ persistQ = <<>> /\ reportQ = <<>>
      /\ writer = WriterIdle /\ writer.pc = "idle" /\ booting = [pc |-> "up"]
      /\ disk = [record |-> Nobody, counter |-> 0]
      /\ accounts = [recorded |-> {}, ended |-> {}]
      /\ mishaps = [cuts |-> 0, failures |-> 0, dropped |-> {}]
  BY DEF RecInit, WriterIdle
<1>2. Nobody \in [RecConnectors -> Txs] /\ \A c \in RecConnectors : Nobody[c] = None
  BY DEF Nobody, Txs
<1>3. Underway = {}
  BY <1>1 DEF Underway
<1>4. RecTypes
  BY <1>1, <1>2 DEF RecTypes, Writers, WriterIdle, RecStages, Disks, AccountSets, MishapSets, Up
<1>5. IdsFit
  BY <1>1, <1>2, <1>3 DEF IdsFit
<1>6. RecOpen
  BY <1>1, <1>2, <1>3 DEF RecOpen, RunningIsOnDisk, RunningHasTheLastWord, KnownIsHeld,
                          RestorableIsOnDisk, Unreported, KnownIds
<1>7. FairWeather
  BY <1>1, <1>2, <1>3 DEF FairWeather, ShadowIsDisk, CounterIsAhead, RecordsAreClose
<1> QED BY <1>4, <1>5, <1>6, <1>7 DEF RecInv

LEMMA RecInvStep ==
  ASSUME RecInv, AtomicMedium, [RecNext]_recVars
  PROVE  RecInv'
<1>1. CASE RecNext
  <2>1. RecTypes'
    BY <1>1, RecTypesStep DEF RecInv
  <2>2. IdsFit'
    BY <1>1, <2>1, IdsFitStep DEF RecInv
  <2>3. RecOpen'
    BY <1>1, <2>1, <2>2, RecOpenStep DEF RecInv
  <2>4. FairWeather'
    BY <1>1, <2>1, FairWeatherStep DEF RecInv
  <2> QED BY <2>1, <2>2, <2>3, <2>4 DEF RecInv
<1>2. CASE UNCHANGED recVars
  <2>1. Underway' = Underway /\ \A i : At(i)' = At(i)
    BY <1>2 DEF recVars, Underway, At
  <2>2. \A j : Continues(j)' <=> Continues(j)
    BY <1>2, <2>1 DEF recVars, Continues
  <2>3. \A c, i : LastAbout(c, i)' <=> LastAbout(c, i)
    BY <2>1 DEF LastAbout
  <2>4. \A id : Reported(id)' <=> Reported(id)
    BY <1>2 DEF recVars, Reported
  <2>5. RecTypes' /\ IdsFit'
    BY <1>2, <2>1 DEF recVars, RecInv, RecTypes, IdsFit, Up
  <2>6. RecOpen'
    <3>1. \A c \in RecConnectors : Unreported(c)' => Unreported(c)
      BY <1>2, <2>4 DEF recVars, Unreported
    <3>2. KnownIds' = KnownIds
      BY <1>2, <2>1 DEF recVars, KnownIds
    <3> QED BY <1>2, <2>1, <2>4, <3>1, <3>2
            DEF recVars, RecInv, RecOpen, RunningIsOnDisk, RunningHasTheLastWord, KnownIsHeld,
                RestorableIsOnDisk
  <2>7. FairWeather'
    BY <1>2, <2>1, <2>2, <2>3
       DEF recVars, RecInv, FairWeather, ShadowIsDisk, CounterIsAhead, RecordsAreClose, Up
  <2> QED BY <2>5, <2>6, <2>7 DEF RecInv
<1> QED BY <1>1, <1>2

LEMMA RecInvSurvives == RecInv => RecordsSurvive
<1> SUFFICES ASSUME RecInv PROVE RecordsSurvive
  OBVIOUS
<1> USE RecAssumption, NoneIsNoTx
<1>1. CaughtUp => Underway = {}
  BY LenProperties DEF CaughtUp, Underway, RecInv, RecTypes
<1>2. RecTypeOK
  BY DEF RecTypeOK, RecInv, IdsFit, RecTypes, Disks, FairWeather, ShadowIsDisk, CaughtUp
<1>3. RecordedIsAccountedFor
  <2> SUFFICES ASSUME NEW id \in accounts.recorded
               PROVE  Reported(id) \/ \E c \in RecConnectors : id \in {live[c].id, disk.record[c].id}
    BY DEF RecordedIsAccountedFor, Reported
  <2>1. CASE booting.pc = "restore"
    BY <2>1 DEF RecInv, RecOpen, RestorableIsOnDisk
  <2>2. CASE booting.pc # "restore"
    BY <2>2 DEF RecInv, RecOpen, KnownIsHeld, KnownIds
  <2> QED BY <2>1, <2>2
<1>4. LossIsBounded
  BY <1>1 DEF LossIsBounded, RecInv, FairWeather, RecordsAreClose
<1>5. RecordedIdsStayUsed
  BY DEF RecordedIdsStayUsed, RecInv, FairWeather, CounterIsAhead
<1> QED BY <1>2, <1>3, <1>4, <1>5 DEF RecordsSurvive

\* On a medium whose writes are atomic the recovery keeps its invariant, for any
\* number of connectors, ids, power cuts and failed writes (persistence.rs).
THEOREM RecoveryInvariance ==
  ASSUME AtomicMedium
  PROVE  RecSpec => []RecInv
<1>1. RecInit => RecInv
  BY RecInvInit
<1>2. RecInv /\ [RecNext]_recVars => RecInv'
  BY RecInvStep
<1> QED BY <1>1, <1>2, PTL DEF RecSpec

\* No recorded transaction is lost, none loses a threshold of energy, and no
\* recorded id is handed out again (persistence.rs, restore_transactions).
THEOREM RecordsSurviveCuts ==
  ASSUME AtomicMedium
  PROVE  RecSpec => []RecordsSurvive
<1>1. RecSpec => []RecInv
  BY RecoveryInvariance
<1>2. RecInv => RecordsSurvive
  BY RecInvSurvives
<1> QED BY <1>1, <1>2, PTL

-----------------------------------------------------------------------------
(* The security log (SecurityLog).  Restoring it replays the stored entries *)
(* through the bounded log, which gives back what was stored.               *)

\* What FoldLeft computes, as a function of the entries replayed so far.
Replay(s, n, f) ==
    f = [t \in SUBSET (1 .. n) |->
            IF t = {} THEN << >> ELSE Record(f[t \ {Max(t)}], s[Max(t)])]

LEMMA MaxIs ==
  ASSUME NEW n \in Nat, NEW t \in SUBSET (1 .. n + 1), n + 1 \in t
  PROVE  Max(t) = n + 1
<1>1. \A y \in t : n + 1 >= y
  OBVIOUS
<1>2. \A x \in t : (\A y \in t : x >= y) => x = n + 1
  OBVIOUS
<1> QED BY <1>1, <1>2 DEF Max

LEMMA ReplayExists ==
  ASSUME NEW s, NEW n \in Nat
  PROVE  \E f : Replay(s, n, f)
<1> DEFINE Bad == {k \in Nat : ~\E f : Replay(s, k, f)}
<1> SUFFICES Bad = {}
  OBVIOUS
<1> SUFFICES ASSUME Bad # {} PROVE FALSE
  OBVIOUS
<1>1. PICK b \in Bad : \A k \in Bad : ~(<<k, b>> \in OpToRel(<, Nat))
  <2>1. Bad \subseteq Nat
    OBVIOUS
  <2> HIDE DEF Bad
  <2> QED BY <2>1, NatLessThanWellFounded, WFMin
<1>2. CASE b = 0
  <2> DEFINE g == [t \in {{}} |-> << >>]
  <2>1. SUBSET (1 .. 0) = {{}}
    OBVIOUS
  <2>2. Replay(s, 0, g)
    BY <2>1 DEF Replay
  <2> QED BY <1>2, <2>2
<1>3. CASE b # 0
  <2> DEFINE n0 == b - 1
  <2>1. n0 \in Nat /\ b = n0 + 1
    BY <1>3
  <2>2. <<n0, b>> \in OpToRel(<, Nat)
    BY <2>1 DEF OpToRel
  <2>3. PICK f : Replay(s, n0, f)
    BY <1>1, <2>1, <2>2
  <2> HIDE DEF n0
  <2> DEFINE g == [t \in SUBSET (1 .. b) |-> IF b \in t THEN Record(f[t \ {b}], s[b]) ELSE f[t]]
  <2>4. ASSUME NEW t \in SUBSET (1 .. b)
        PROVE  g[t] = IF t = {} THEN << >> ELSE Record(g[t \ {Max(t)}], s[Max(t)])
    <3>1. CASE b \in t
      <4>1. Max(t) = b /\ t # {}
        BY <2>1, <3>1, MaxIs
      <4>2. b \notin t \ {b} /\ t \ {b} \in SUBSET (1 .. b)
        OBVIOUS
      <4>3. g[t \ {b}] = f[t \ {b}]
        BY <4>2
      <4> QED BY <3>1, <4>1, <4>3
    <3>2. CASE b \notin t
      <4>1. t \in SUBSET (1 .. n0)
        BY <2>1, <3>2
      <4>2. f[t] = IF t = {} THEN << >> ELSE Record(f[t \ {Max(t)}], s[Max(t)])
        BY <2>3, <4>1 DEF Replay
      <4>3. b \notin t \ {Max(t)} /\ t \ {Max(t)} \in SUBSET (1 .. b)
        BY <3>2
      <4>4. g[t \ {Max(t)}] = f[t \ {Max(t)}]
        BY <4>3
      <4> QED BY <3>2, <4>2, <4>4
    <3> QED BY <3>1, <3>2
  <2>5. Replay(s, b, g)
    <3> DEFINE h == [t \in SUBSET (1 .. b) |->
                      IF t = {} THEN << >> ELSE Record(g[t \ {Max(t)}], s[Max(t)])]
    <3>1. \A t \in SUBSET (1 .. b) : g[t] = h[t]
      BY <2>4
    <3>2. g = h
      BY <3>1
    <3> QED BY <3>2 DEF Replay
  <2> QED BY <1>1, <2>5
<1> QED BY <1>2, <1>3

LEMMA ReplayKeeps ==
  ASSUME NEW S, NEW s \in Seq(S), Len(s) <= LogCapacity
  PROVE  FoldLeft(Record, << >>, s) = s
<1> DEFINE n == Len(s)
           iter == CHOOSE f : Replay(s, n, f)
<1>1. n \in Nat /\ DOMAIN s = 1 .. n /\ LogCapacity \in Nat /\ n <= LogCapacity
  BY LenProperties, SecurityLogAssumption
<1>2. Replay(s, n, iter)
  <2> HIDE DEF n
  <2> QED BY <1>1, ReplayExists
<1>3. FoldLeft(Record, << >>, s) = iter[1 .. n]
  <2>1. FoldLeft(Record, << >>, s) =
         (CHOOSE f : f = [t \in SUBSET DOMAIN s |->
            IF t = {} THEN << >> ELSE Record(f[t \ {Max(t)}], s[Max(t)])])[DOMAIN s]
    BY DEF FoldLeft, MapThenFoldSet
  <2> QED BY <1>1, <2>1 DEF Replay
<1> HIDE DEF iter
<1> DEFINE Bad == {k \in 0 .. n : iter[1 .. k] # SubSeq(s, 1, k)}
<1>4. Bad = {}
  <2> SUFFICES ASSUME Bad # {} PROVE FALSE
    OBVIOUS
  <2>1. PICK b \in Bad : \A k \in Bad : ~(<<k, b>> \in OpToRel(<, Nat))
    <3>1. Bad \subseteq Nat
      BY <1>1
    <3> HIDE DEF Bad
    <3> QED BY <3>1, NatLessThanWellFounded, WFMin
  <2>2. b \in 0 .. n /\ b \in Nat /\ iter[1 .. b] # SubSeq(s, 1, b)
    BY <1>1
  <2>3. CASE b = 0
    <3>1. 1 .. b = {} /\ {} \in SUBSET (1 .. n)
      BY <2>3
    <3>2. iter[1 .. b] = << >>
      BY <1>2, <3>1 DEF Replay
    <3>3. SubSeq(s, 1, b) = << >>
      BY <2>3
    <3> QED BY <2>2, <3>2, <3>3
  <2>4. CASE b # 0
    <3> DEFINE m == b - 1
    <3>1. m \in Nat /\ b = m + 1 /\ m \in 0 .. n /\ b \in 1 .. n
      BY <1>1, <2>2, <2>4
    <3>2. <<m, b>> \in OpToRel(<, Nat)
      BY <3>1, <2>2 DEF OpToRel
    <3>3. iter[1 .. m] = SubSeq(s, 1, m)
      BY <2>1, <3>1, <3>2
    <3> HIDE DEF m
    <3>4. Max(1 .. b) = b /\ (1 .. b) \ {b} = 1 .. m /\ 1 .. b # {} /\ 1 .. b \in SUBSET (1 .. n)
      <4>1. (1 .. b) \in SUBSET (1 .. m + 1) /\ m + 1 \in 1 .. b
        BY <3>1
      <4>2. Max(1 .. b) = b
        BY <3>1, <4>1, MaxIs
      <4>3. \A x : x \in (1 .. b) \ {b} <=> x \in 1 .. m
        BY <3>1
      <4>4. (1 .. b) \ {b} = 1 .. m
        BY <4>3
      <4>5. b \in 1 .. b /\ \A x \in 1 .. b : x \in 1 .. n
        BY <1>1, <3>1
      <4> QED BY <4>2, <4>4, <4>5
    <3>5. iter[1 .. b] = Record(iter[1 .. m], s[b])
      BY <1>2, <3>4 DEF Replay
    <3>6. SubSeq(s, 1, m) \in Seq(S) /\ Len(SubSeq(s, 1, m)) = m
          /\ \A i \in 1 .. m : SubSeq(s, 1, m)[i] = s[i]
      BY <1>1, <3>1, SubSeqProperties
    <3>7. m < LogCapacity
      BY <1>1, <3>1
    <3>8. Record(iter[1 .. m], s[b]) = Append(SubSeq(s, 1, m), s[b])
      BY <3>3, <3>6, <3>7, <1>1, <3>1 DEF Record
    <3>9. SubSeq(s, 1, b) \in Seq(S) /\ Len(SubSeq(s, 1, b)) = b
          /\ \A i \in 1 .. b : SubSeq(s, 1, b)[i] = s[i]
      BY <1>1, <3>1, SubSeqProperties
    <3>10. s[b] \in S
      BY <3>1, <1>1, ElementOfSeq
    <3>11. Append(SubSeq(s, 1, m), s[b]) = SubSeq(s, 1, b)
      <4> DEFINE p == SubSeq(s, 1, m)
                 q == SubSeq(s, 1, b)
                 e == s[b]
      <4>1. /\ p \in Seq(S) /\ Len(p) = m /\ \A i \in 1 .. m : p[i] = s[i]
            /\ q \in Seq(S) /\ Len(q) = b /\ \A i \in 1 .. b : q[i] = s[i]
            /\ e \in S /\ e = s[b]
        BY <3>6, <3>9, <3>10
      <4> HIDE DEF p, q, e
      <4>2. Append(p, e) \in Seq(S) /\ Len(Append(p, e)) = m + 1
            /\ (\A i \in 1 .. m : Append(p, e)[i] = p[i]) /\ Append(p, e)[m + 1] = e
        BY <4>1, AppendProperties
      <4>3. ASSUME NEW i \in 1 .. b PROVE Append(p, e)[i] = q[i]
        <5>1. CASE i \in 1 .. m
          <6>1. Append(p, e)[i] = p[i]
            BY <4>2, <5>1
          <6>2. p[i] = s[i] /\ q[i] = s[i]
            BY <4>1, <5>1
          <6> QED BY <6>1, <6>2
        <5>2. CASE i = b
          <6>1. q[b] = s[b] /\ Append(p, e)[b] = e
            BY <3>1, <4>1, <4>2, <5>2
          <6> QED BY <4>1, <5>2, <6>1
        <5>3. i \in 1 .. m \/ i = b
          BY <3>1
        <5> QED BY <5>1, <5>2, <5>3
      <4> DEFINE w == Append(p, e)
      <4>5. /\ w \in Seq(S) /\ q \in Seq(S) /\ Len(w) = Len(q)
            /\ \A i \in 1 .. Len(w) : w[i] = q[i]
        BY <3>1, <4>1, <4>2, <4>3
      <4> HIDE DEF w
      <4>6. w = q
        BY <4>5, SeqEqual
      <4>4. Append(p, e) = q
        BY <4>6 DEF w
      <4> QED BY <4>4 DEF p, q, e
    <3> QED BY <2>2, <3>5, <3>8, <3>11
  <2> QED BY <2>3, <2>4
<1>5. iter[1 .. n] = SubSeq(s, 1, n)
  BY <1>1, <1>4
<1>6. SubSeq(s, 1, n) = s
  BY <1>1, SubSeqFull
<1> QED BY <1>3, <1>5, <1>6

Logs(n) == Seq(0 .. n)

\* A log that is neither behind a write under way nor waiting for one is the one
\* on disk, unless that write failed; whoever cleared it still has to say so.
SecLogInv ==
    /\ raised \in Nat
    /\ kept \in Logs(raised) /\ Len(kept) <= LogCapacity
    /\ onDisk \in Logs(raised) /\ Len(onDisk) <= LogCapacity
    /\ inbox \in Logs(raised)
    /\ recorder \in [pc : {"recv", "recorded", "saving"}, snapshot : Logs(raised)]
    /\ Len(recorder.snapshot) <= LogCapacity
    /\ clearer \in {"idle", "removing", "reporting"}
    /\ clearer = "idle" /\ inbox = << >> =>
          /\ recorder.pc = "saving" => recorder.snapshot = kept
          /\ recorder.pc = "recv" /\ ~unsaved => onDisk = kept

LEMMA RecordTypes ==
  ASSUME NEW S, NEW log \in Seq(S), Len(log) <= LogCapacity, NEW e \in S
  PROVE  Record(log, e) \in Seq(S) /\ Len(Record(log, e)) <= LogCapacity
<1>1. Len(log) \in Nat /\ LogCapacity \in Nat \ {0}
  BY LenProperties, SecurityLogAssumption
<1>2. CASE Len(log) >= LogCapacity
  <2>1. log # << >>
    BY <1>1, <1>2, EmptySeq
  <2>2. Tail(log) \in Seq(S) /\ Len(Tail(log)) = Len(log) - 1
    BY <2>1, HeadTailProperties
  <2>3. Append(Tail(log), e) \in Seq(S) /\ Len(Append(Tail(log), e)) = Len(Tail(log)) + 1
    BY <2>2, AppendProperties
  <2> QED BY <1>1, <1>2, <2>2, <2>3 DEF Record
<1>3. CASE ~(Len(log) >= LogCapacity)
  <2>1. Append(log, e) \in Seq(S) /\ Len(Append(log, e)) = Len(log) + 1
    BY AppendProperties
  <2> QED BY <1>1, <1>3, <2>1 DEF Record
<1> QED BY <1>2, <1>3

LEMMA MoreLogs ==
  ASSUME NEW n \in Nat
  PROVE  /\ \A s \in Logs(n) : s \in Logs(n + 1) /\ Len(s) \in Nat
         /\ << >> \in Logs(n) /\ Len(<< >>) = 0
         /\ \A s \in Logs(n), e \in 0 .. n : Append(s, e) \in Logs(n) /\ Append(s, e) # << >>
         /\ \A s \in Logs(n) : s # << >> => Tail(s) \in Logs(n) /\ Head(s) \in 0 .. n
<1>1. ASSUME NEW s \in Logs(n) PROVE s \in Logs(n + 1) /\ Len(s) \in Nat
  <2>1. \A i \in 1 .. Len(s) : s[i] \in 0 .. n + 1
    <3> TAKE i \in 1 .. Len(s)
    <3>1. s[i] \in 0 .. n
      BY ElementOfSeq DEF Logs
    <3> QED BY <3>1
  <2>2. Len(s) \in Nat /\ s = [i \in 1 .. Len(s) |-> s[i]]
    BY LenProperties DEF Logs
  <2> QED BY <2>1, <2>2 DEF Logs
<1>2. << >> \in Logs(n) /\ Len(<< >>) = 0
  BY DEF Logs
<1>3. ASSUME NEW s \in Logs(n), NEW e \in 0 .. n
      PROVE  Append(s, e) \in Logs(n) /\ Append(s, e) # << >>
  BY AppendProperties DEF Logs
<1>4. ASSUME NEW s \in Logs(n), s # << >> PROVE Tail(s) \in Logs(n) /\ Head(s) \in 0 .. n
  BY <1>4, HeadTailProperties DEF Logs
<1> QED BY <1>1, <1>2, <1>3, <1>4

LEMMA SecLogInvInit == SecLogInit => SecLogInv
<1> SUFFICES ASSUME SecLogInit PROVE SecLogInv
  OBVIOUS
<1>1. << >> \in Logs(0) /\ Len(<< >>) = 0 /\ LogCapacity \in Nat
  BY MoreLogs, SecurityLogAssumption
<1> HIDE DEF Logs
<1> QED BY <1>1 DEF SecLogInit, SecLogInv, Waiting

LEMMA SecLogInvStep == SecLogInv /\ [SecLogNext]_seclogVars => SecLogInv'
<1> SUFFICES ASSUME SecLogInv, [SecLogNext]_seclogVars PROVE SecLogInv'
  OBVIOUS
<1>0. /\ raised \in Nat /\ LogCapacity \in Nat /\ Len(<< >>) = 0
      /\ << >> \in Logs(raised)
      /\ \A s \in Logs(raised), e \in 0 .. raised : Append(s, e) \in Logs(raised) /\ Append(s, e) # << >>
      /\ \A s \in Logs(raised) : s # << >> => Tail(s) \in Logs(raised) /\ Head(s) \in 0 .. raised
  BY MoreLogs, SecurityLogAssumption DEF SecLogInv
<1>1. CASE RaiseSecurityEvent
  <2>1. /\ raised' = raised + 1 /\ inbox' = Append(inbox, raised + 1)
        /\ UNCHANGED <<kept, onDisk, recorder, clearer, unsaved>>
    BY <1>1 DEF RaiseSecurityEvent
  <2>2. \A s \in Logs(raised) : s \in Logs(raised + 1)
    BY <1>0, MoreLogs
  <2>3. inbox' \in Logs(raised + 1) /\ inbox' # << >>
    <3>1. raised + 1 \in Nat /\ raised + 1 \in 0 .. raised + 1 /\ inbox \in Logs(raised + 1)
      BY <1>0, <2>2 DEF SecLogInv
    <3> DEFINE n == raised + 1
    <3>2. n \in Nat /\ n \in 0 .. n /\ inbox \in Logs(n)
      BY <3>1
    <3> HIDE DEF n
    <3>3. Append(inbox, n) \in Logs(n) /\ Append(inbox, n) # << >>
      BY <3>2, MoreLogs
    <3> QED BY <2>1, <3>3 DEF n
  <2> QED BY <1>0, <2>1, <2>2, <2>3 DEF SecLogInv
<1>2. CASE RecordEvent
  <2>1. /\ inbox # << >> /\ inbox' = Tail(inbox) /\ kept' = Record(kept, Head(inbox))
        /\ recorder' = [recorder EXCEPT !.pc = "recorded"]
        /\ UNCHANGED <<onDisk, clearer, unsaved, raised>>
    BY <1>2 DEF RecordEvent
  <2>2. inbox' \in Logs(raised) /\ Head(inbox) \in 0 .. raised
    BY <1>0, <2>1 DEF SecLogInv
  <2>3. kept' \in Logs(raised) /\ Len(kept') <= LogCapacity
    BY <2>1, <2>2, RecordTypes DEF SecLogInv, Logs
  <2> QED BY <1>0, <2>1, <2>2, <2>3 DEF SecLogInv
<1>3. CASE TakeEntries
  BY <1>0, <1>3 DEF TakeEntries, SecLogInv
<1>4. CASE SaveLog
  BY <1>0, <1>4 DEF SaveLog, SecLogInv, Waiting
<1>5. CASE ClearEntries
  BY <1>0, <1>5 DEF ClearEntries, SecLogInv
<1>6. CASE RemoveStored
  BY <1>0, <1>6 DEF RemoveStored, SecLogInv
<1>7. CASE ReportCleared
  <2>1. Cleared \in 0 .. raised
    BY <1>0 DEF Cleared
  <2> QED BY <1>0, <1>7, <2>1 DEF ReportCleared, ReportedClear, SecLogInv
<1>8. CASE Blackout
  <2>1. kept' = FoldLeft(Record, << >>, onDisk) /\ UNCHANGED <<onDisk, raised>>
        /\ inbox' = << >> /\ recorder' = Waiting /\ clearer' = "idle"
    BY <1>8 DEF Blackout
  <2>2. kept' = onDisk
    BY <2>1, ReplayKeeps DEF SecLogInv, Logs
  <2> QED BY <1>0, <2>1, <2>2 DEF SecLogInv, Waiting
<1>9. CASE UNCHANGED seclogVars
  BY <1>9 DEF seclogVars, SecLogInv
<1> QED BY <1>1, <1>2, <1>3, <1>4, <1>5, <1>6, <1>7, <1>8, <1>9 DEF SecLogNext

LEMMA SecLogInvHolds == SecLogInv => SecLogTypeOK /\ LogIsDurable
  BY DEF SecLogInv, SecLogTypeOK, LogIsDurable, Logs, Waiting

\* The stored security log is the live one whenever both tasks rest, however
\* clears, writes, failures and power cuts interleave (security.rs).
THEOREM SecurityLogInvariance == SecLogSpec => []SecLogInv
<1> QED BY SecLogInvInit, SecLogInvStep, PTL DEF SecLogSpec

-----------------------------------------------------------------------------
(* The snapshots of the other stores (Snapshots).                           *)

Sets      == [set : SUBSET Entries, version : Nat]
SaveSlots == Sets \cup {NeverSaved}
UseCounts == [edits : Nat, outages : Nat, lost : Nat]

\* What settles a task: nothing it has seen is unwritten, unless it is being
\* written or put off, and what it thinks is on disk is on disk unless the write
\* failed or it has forgotten what it had written.
SnapInv ==
    /\ SnapTypeOK
    /\ held \in Sets /\ stored \in Sets /\ lastSaved \in SaveSlots /\ writing \in SaveSlots
    /\ stage = "restoring" => writing = NotWriting
    /\ stage = "up" /\ ~stale /\ writing # NotWriting => held = writing
    /\ stage = "up" /\ ~stale /\ writing = NotWriting /\ skipped = 0 =>
          ~Differs \/ held.set = {}
    /\ stage = "up" /\ ~lostWrite =>
          lastSaved \in {stored, IF kind = "list" THEN NeverSaved ELSE Nowhere}

LEMMA SnapInvInit == SnapInit => SnapInv
<1> SUFFICES ASSUME SnapInit PROVE SnapInv
  OBVIOUS
<1>1. Nowhere \in Sets /\ NotWriting \in SaveSlots /\ NeverSaved \in SaveSlots
  BY DEF Nowhere, NotWriting, NeverSaved, Sets, SaveSlots
<1>2. NotWriting = NeverSaved /\ Nowhere.set = {}
  BY DEF NotWriting, NeverSaved, Nowhere
<1> QED BY <1>1, <1>2 DEF SnapInit, SnapInv, SnapTypeOK, Nowhere, SaveSlots

LEMMA SnapInvStep == SnapInv /\ [SnapNext]_snapVars => SnapInv'
<1> SUFFICES ASSUME SnapInv, [SnapNext]_snapVars PROVE SnapInv'
  OBVIOUS
<1> USE SnapshotAssumption
<1>0. /\ NotWriting = NeverSaved /\ NotWriting \in SaveSlots /\ NotWriting \notin Sets
      /\ Nowhere \in Sets /\ Nowhere.set = {}
  BY DEF NotWriting, NeverSaved, Nowhere, Sets, SaveSlots
<1>1. CASE Edit
  <2>1. held' \in Sets
    <3>1. PICK s \in SUBSET Entries, v \in EditedVersions : held' = [set |-> s, version |-> v]
      BY <1>1 DEF Edit
    <3>2. v \in Nat
      BY <3>1 DEF EditedVersions, SnapInv, Sets
    <3> QED BY <3>1, <3>2 DEF Sets
  <2>2. held'.set \subseteq Entries
    BY <2>1 DEF Sets
  <2> QED BY <1>1, <2>1, <2>2 DEF Edit, SnapInv, SnapTypeOK
<1>2. CASE UnrelatedChange
  BY <1>2 DEF UnrelatedChange, SnapInv, SnapTypeOK
<1>3. CASE PassExpiry \/ Occupy \/ Vacate
  <2>1. UNCHANGED <<kind, held, stale, lastSaved, skipped, writing, stored, stage, lostWrite>>
    BY <1>3 DEF PassExpiry, Occupy, Vacate
  <2>2. Differs' <=> Differs
    BY <2>1 DEF Differs, AuthorizationCacheDiffers, ChargingProfilesDiffer, NetworkProfilesDiffer,
                ReservationsDiffer, LocalListDiffers, DeviceModelDiffers
  <2> QED BY <2>1, <2>2 DEF SnapInv, SnapTypeOK
<1>4. CASE LookUp
  <2>1. /\ stage = "up" /\ writing = NotWriting /\ stale'= FALSE
        /\ \/ ~Differs /\ UNCHANGED <<writing, skipped>>
           \/ DecideWrite /\ writing' = held /\ UNCHANGED skipped
           \/ ~DecideWrite /\ skipped' = skipped + 1 /\ UNCHANGED writing
        /\ UNCHANGED <<kind, held, lastSaved, stored, stage, lostWrite>>
    BY <1>4 DEF LookUp
  <2>2. ~Differs => ~Differs'
    BY <2>1 DEF Differs, AuthorizationCacheDiffers, ChargingProfilesDiffer, NetworkProfilesDiffer,
                ReservationsDiffer, LocalListDiffers, DeviceModelDiffers
  <2>3. ~DecideWrite => kind = "model" /\ skipped + 1 < ModelThreshold /\ skipped + 1 \in Nat /\ skipped + 1 # 0
    BY DEF DecideWrite, SnapInv, SnapTypeOK
  <2>4. held.set \subseteq Entries /\ held \in SaveSlots /\ held # NotWriting
    BY <1>0 DEF SnapInv, Sets, SaveSlots
  <2>5. CASE ~Differs /\ UNCHANGED <<writing, skipped>>
    BY <1>0, <2>1, <2>2, <2>5 DEF SnapInv, SnapTypeOK
  <2>6. CASE DecideWrite /\ writing' = held /\ UNCHANGED skipped
    BY <2>1, <2>4, <2>6 DEF SnapInv, SnapTypeOK
  <2>7. CASE ~DecideWrite /\ skipped' = skipped + 1 /\ UNCHANGED writing
    BY <2>1, <2>3, <2>7 DEF SnapInv, SnapTypeOK
  <2> QED BY <2>1, <2>5, <2>6, <2>7
<1>5. ASSUME NEW reached \in BOOLEAN, Save(reached) PROVE SnapInv'
  <2>1. /\ writing # NotWriting /\ stored' = (IF reached THEN writing ELSE stored)
        /\ lostWrite' = ~reached /\ lastSaved' = writing /\ writing' = NotWriting /\ skipped' = 0
        /\ UNCHANGED <<kind, held, stale, stage>>
    BY <1>5 DEF Save
  <2>2. writing \in Sets /\ writing.set \subseteq Entries /\ stage = "up"
    BY <1>0, <2>1 DEF SnapInv, SaveSlots, Sets, SnapTypeOK
  <2>3. stage' = "up" /\ ~stale' => ~Differs'
    BY <2>1, <2>2
       DEF SnapInv, SnapTypeOK, SnapshotKinds, Differs, AuthorizationCacheDiffers, ChargingProfilesDiffer,
           NetworkProfilesDiffer, ReservationsDiffer, LocalListDiffers, DeviceModelDiffers
  <2>4. stored' \in Sets /\ stored'.set \subseteq Entries /\ lastSaved' \in SaveSlots
    BY <2>1, <2>2 DEF SnapInv, SnapTypeOK, SaveSlots
  <2>5. SnapTypeOK'
    BY <1>0, <2>1, <2>2, <2>4 DEF SnapInv, SnapTypeOK
  <2>6. ~lostWrite' => lastSaved' = stored'
    BY <2>1
  <2>7. held' \in Sets /\ writing' \in SaveSlots /\ writing' = NotWriting
    BY <1>0, <2>1 DEF SnapInv
  <2>8. stage' = "up"
    BY <2>1, <2>2
  <2> QED BY <2>3, <2>4, <2>5, <2>6, <2>7, <2>8 DEF SnapInv
<1>6. CASE Outage
  BY <1>0, <1>6 DEF Outage, SnapInv, SnapTypeOK
<1>7. ASSUME NEW synced \in BOOLEAN, Restore(synced) PROVE SnapInv'
  <2>1. /\ stage = "restoring" /\ stage' = "up" /\ stale' = TRUE
        /\ held' = Restored(synced) /\ lastSaved' = FreshLast
        /\ stored' = (IF kind = "reservations" THEN KeptReservations(synced) ELSE stored)
        /\ UNCHANGED <<kind, skipped, writing, lostWrite>>
    BY <1>7 DEF Restore
  <2>2. KeptReservations(synced) \in Sets
    BY DEF KeptReservations, SnapInv, Sets
  <2>3. Restored(synced) \in Sets
    BY <1>0, <2>2
       DEF Restored, RestoreAuthorizationCache, RestoreChargingProfiles, RestoreNetworkProfiles,
           RestoreReservations, RestoreLocalList, RestoreDeviceModel, SnapInv, SnapTypeOK, SnapshotKinds, Sets
  <2>4. stored' \in Sets
    BY <2>1, <2>2 DEF SnapInv
  <2>5. held'.set \subseteq Entries /\ stored'.set \subseteq Entries
    BY <2>1, <2>3, <2>4 DEF Sets
  <2>6. /\ lastSaved' \in {stored', IF kind = "list" THEN NeverSaved ELSE Nowhere}
        /\ lastSaved' \in SaveSlots
    BY <1>0, <2>1, <2>4 DEF FreshLast, SaveSlots, SnapInv, SnapTypeOK, SnapshotKinds
  <2> QED BY <1>0, <2>1, <2>3, <2>4, <2>5, <2>6 DEF SnapInv, SnapTypeOK
<1>8. CASE UNCHANGED snapVars
  BY <1>8 DEF snapVars, SnapInv, SnapTypeOK, Differs, AuthorizationCacheDiffers, ChargingProfilesDiffer,
              NetworkProfilesDiffer, ReservationsDiffer, LocalListDiffers, DeviceModelDiffers
<1> QED BY <1>1, <1>2, <1>3, <1>4, <1>5, <1>6, <1>7, <1>8 DEF SnapNext

LEMMA SnapInvHolds == SnapInv => SnapTypeOK /\ HeldIsDurable
<1> SUFFICES ASSUME SnapInv, AtRest, held.set # {}
             PROVE  IF kind = "list" THEN stored.version = held.version ELSE stored = held
  BY DEF SnapInv, HeldIsDurable
<1>1. ~Differs /\ lastSaved \in {stored, IF kind = "list" THEN NeverSaved ELSE Nowhere}
  BY DEF SnapInv, AtRest
<1>2. IF kind = "list" THEN held.version = lastSaved.version ELSE held = lastSaved
  BY <1>1, SnapshotAssumption
     DEF SnapInv, SnapTypeOK, SnapshotKinds, Differs, AuthorizationCacheDiffers, ChargingProfilesDiffer,
         NetworkProfilesDiffer, ReservationsDiffer, LocalListDiffers, DeviceModelDiffers
<1>3. held.version \in Nat /\ NeverSaved.version \notin Nat /\ Nowhere.set = {}
  BY DEF SnapInv, Sets, NeverSaved, Nowhere
<1> QED BY <1>1, <1>2, <1>3

\* Whichever store, edits and failures: once its task has settled, a set that
\* holds anything is on disk as it is (persistence.rs).
THEOREM SnapshotInvariance == SnapSpec => []SnapInv
<1> QED BY SnapInvInit, SnapInvStep, PTL DEF SnapSpec

-----------------------------------------------------------------------------
(* The queue of reports and its copies (PersistedQueue).  A queue that      *)
(* drops nothing it holds and gives up on nothing is only ever emptied from *)
(* the front, of what the CSMS has: so a copy of it, however old, holds     *)
(* only reports that were received or are still queued.                     *)

Sent(m)  == \E k \in 1 .. Len(received) : received[k] = m
Waits(m) == \E i \in 1 .. Len(queue) : queue[i].id = m

SendInv == ClaimInv /\ SendsTheFront /\ DeliveredIsReceived

Copies(s) ==
    /\ \A i, j \in 1 .. Len(s) : i < j => s[i].id < s[j].id
    /\ \A i \in 1 .. Len(s) : s[i].id <= made /\ (Sent(s[i].id) \/ Waits(s[i].id))

Orderly ==
    /\ InOrder
    /\ \A k \in 1 .. Len(received) : received[k] <= made
    /\ \A i \in 1 .. Len(queue) :
          Sent(queue[i].id) \/ \A k \in 1 .. Len(received) : received[k] < queue[i].id
    /\ FirstDeliveriesInOrder

\* What a step of the queue can do to what is queued and what was received.
Stays ==
    /\ Len(queue') = Len(queue) /\ \A i \in 1 .. Len(queue) : queue'[i].id = queue[i].id
    /\ UNCHANGED <<made, received>>

Pushed ==
    /\ made' = made + 1 /\ UNCHANGED received
    /\ \/ UNCHANGED queue
       \/ /\ Len(queue') = Len(queue) + 1 /\ queue'[Len(queue) + 1].id = made + 1
          /\ \A i \in 1 .. Len(queue) : queue'[i] = queue[i]

Delivered ==
    /\ UNCHANGED <<queue, made>> /\ Len(queue) >= 1
    /\ Len(received') = Len(received) + 1 /\ received'[Len(received) + 1] = queue[1].id
    /\ \A k \in 1 .. Len(received) : received'[k] = received[k]

Popped ==
    /\ UNCHANGED <<made, received>> /\ Len(queue) >= 1 /\ Len(queue') = Len(queue) - 1
    /\ \A i \in 1 .. Len(queue') : queue'[i].id = queue[i + 1].id
    /\ Sent(queue[1].id)

LEMMA QueueTypes ==
  ASSUME TypeOK
  PROVE  /\ Len(queue) \in Nat /\ Len(received) \in Nat /\ made \in Nat
         /\ \A i \in 1 .. Len(queue) : queue[i].id \in Nat /\ queue[i].id \in Ids
         /\ \A k \in 1 .. Len(received) : received[k] \in Nat
<1>1. queue \in Seq(Messages) /\ received \in Seq(Ids) /\ made \in Nat /\ Ids \subseteq Nat
  BY QueueAssumption DEF TypeOK, Ids
<1>2. \A i \in 1 .. Len(queue) : queue[i] \in Messages
  BY <1>1, ElementOfSeq
<1>3. \A k \in 1 .. Len(received) : received[k] \in Ids
  BY <1>1, ElementOfSeq
<1> QED BY <1>1, <1>2, <1>3, LenProperties DEF Messages

LEMMA StaysOrderly ==
  ASSUME TypeOK, TypeOK', Orderly, Stays
  PROVE  /\ Orderly'
         /\ \A m : Sent(m) \/ Waits(m) => Sent(m)' \/ Waits(m)'
<1>1. InOrder'
  BY DEF Stays, Orderly, InOrder
<1>2. FirstDeliveriesInOrder'
  BY DEF Stays, Orderly, FirstDeliveriesInOrder
<1>3. \A m : (Sent(m)' <=> Sent(m)) /\ (Waits(m)' <=> Waits(m))
  BY DEF Stays, Sent, Waits
<1> QED BY <1>1, <1>2, <1>3 DEF Orderly, Stays, Sent

LEMMA PushedOrderly ==
  ASSUME TypeOK, TypeOK', Orderly, Pushed
  PROVE  /\ Orderly'
         /\ \A m : Sent(m) \/ Waits(m) => Sent(m)' \/ Waits(m)'
<1> DEFINE n == Len(queue)
<1>0. /\ n \in Nat /\ made \in Nat /\ Len(received) \in Nat
      /\ \A i \in 1 .. n : queue[i].id \in Nat
      /\ \A k \in 1 .. Len(received) : received[k] \in Nat
  BY QueueTypes
<1>1. \A i \in 1 .. Len(queue') :
         \/ i \in 1 .. n /\ queue'[i] = queue[i]
         \/ i = n + 1 /\ queue'[i].id = made + 1
  BY <1>0 DEF Pushed
<1>2. \A m : (Sent(m)' <=> Sent(m)) /\ (Waits(m) => Waits(m)')
  BY <1>0, <1>1 DEF Pushed, Sent, Waits
<1>3. InOrder'
  <2>1. ASSUME NEW i \in 1 .. Len(queue') PROVE queue'[i].id <= made'
    BY <1>0, <1>1 DEF Pushed, Orderly, InOrder
  <2>2. ASSUME NEW i \in 1 .. Len(queue'), NEW j \in 1 .. Len(queue'), i < j
        PROVE  queue'[i].id < queue'[j].id
    <3>1. i \in 1 .. n /\ queue'[i] = queue[i] /\ queue[i].id <= made
      BY <1>0, <1>1, <2>2 DEF Pushed, Orderly, InOrder
    <3>2. CASE j \in 1 .. n /\ queue'[j] = queue[j]
      BY <2>2, <3>1, <3>2 DEF Orderly, InOrder
    <3>3. CASE j = n + 1 /\ queue'[j].id = made + 1
      BY <1>0, <3>1, <3>3
    <3> QED BY <1>1, <3>2, <3>3
  <2> QED BY <2>1, <2>2 DEF InOrder
<1>4. FirstDeliveriesInOrder'
  BY DEF Pushed, Orderly, FirstDeliveriesInOrder
<1>5. \A k \in 1 .. Len(received') : received'[k] <= made'
  BY <1>0 DEF Pushed, Orderly
<1>6. ASSUME NEW i \in 1 .. Len(queue')
      PROVE  \/ \E k \in 1 .. Len(received') : received'[k] = queue'[i].id
             \/ \A k \in 1 .. Len(received') : received'[k] < queue'[i].id
  <2>1. CASE i \in 1 .. n /\ queue'[i] = queue[i]
    BY <2>1 DEF Pushed, Orderly, Sent
  <2>2. CASE i = n + 1 /\ queue'[i].id = made + 1
    <3>1. \A k \in 1 .. Len(received) : received[k] < made + 1
      BY <1>0 DEF Orderly
    <3> QED BY <2>2, <3>1 DEF Pushed
  <2> QED BY <1>1, <2>1, <2>2
<1> QED BY <1>2, <1>3, <1>4, <1>5, <1>6 DEF Orderly, Sent

LEMMA DeliveredOrderly ==
  ASSUME TypeOK, TypeOK', Orderly, Delivered
  PROVE  /\ Orderly'
         /\ \A m : Sent(m) \/ Waits(m) => Sent(m)' \/ Waits(m)'
<1> DEFINE r == queue[1].id
           l == Len(received)
<1>0. /\ Len(queue) \in Nat /\ made \in Nat /\ l \in Nat
      /\ \A i \in 1 .. Len(queue) : queue[i].id \in Nat
      /\ \A k \in 1 .. l : received[k] \in Nat
      /\ r \in Nat /\ 1 \in 1 .. Len(queue)
  BY QueueTypes DEF Delivered
<1>1. /\ \A k \in 1 .. Len(received') :
            \/ k \in 1 .. l /\ received'[k] = received[k]
            \/ k = l + 1 /\ received'[k] = r
      /\ \A k \in 1 .. l : k \in 1 .. Len(received') /\ received'[k] = received[k]
      /\ l + 1 \in 1 .. Len(received') /\ received'[l + 1] = r
      /\ UNCHANGED <<queue, made>>
  BY <1>0 DEF Delivered
<1> HIDE DEF r, l
<1>2. \A m : (Sent(m) => Sent(m)') /\ (Waits(m)' <=> Waits(m))
  BY <1>1 DEF Sent, Waits, l
<1>3. InOrder'
  BY <1>1 DEF Orderly, InOrder
<1>4. r <= made /\ \A i \in 1 .. Len(queue) : i = 1 \/ r < queue[i].id
  BY <1>0 DEF Orderly, InOrder, r
<1>5. \A k \in 1 .. Len(received') : received'[k] <= made'
  BY <1>1, <1>4 DEF Orderly, l
<1>6. ASSUME NEW i \in 1 .. Len(queue')
      PROVE  \/ \E k \in 1 .. Len(received') : received'[k] = queue'[i].id
             \/ \A k \in 1 .. Len(received') : received'[k] < queue'[i].id
  <2>1. i \in 1 .. Len(queue) /\ queue'[i] = queue[i]
    BY <1>1
  <2>2. CASE i = 1
    BY <1>1, <2>1, <2>2 DEF r
  <2>3. CASE i # 1
    BY <1>1, <1>4, <2>1, <2>3 DEF Orderly, Sent, l
  <2> QED BY <2>2, <2>3
<1>7. FirstDeliveriesInOrder'
  <2> SUFFICES ASSUME NEW i \in 1 .. Len(received'), NEW j \in 1 .. Len(received'),
                      i < j, received'[j] < received'[i]
               PROVE  \E k \in 1 .. (i - 1) : received'[k] = received'[j]
    BY DEF FirstDeliveriesInOrder
  <2>1. i \in 1 .. l /\ received'[i] = received[i]
    BY <1>0, <1>1
  <2>2. \A k \in 1 .. (i - 1) : k \in 1 .. l /\ received'[k] = received[k]
    BY <1>0, <1>1, <2>1
  <2>3. CASE j \in 1 .. l
    <3>1. received'[j] = received[j]
      BY <1>1, <2>3
    <3>2. \E k \in 1 .. (i - 1) : received[k] = received[j]
      BY <2>1, <2>3, <3>1 DEF Orderly, FirstDeliveriesInOrder, l
    <3> QED BY <2>2, <3>1, <3>2
  <2>4. CASE j \notin 1 .. l
    <3>1. received'[j] = r
      BY <1>1, <2>4
    <3>2. ~(received[i] < r)
      BY <1>0, <2>1, <3>1
    <3>3. Sent(r)
      BY <1>0, <2>1, <3>2 DEF Orderly, l, r
    <3>4. PICK k \in 1 .. l : received[k] = r
      BY <3>3 DEF Sent, l
    <3>5. CASE k < i
      <4>1. k \in 1 .. (i - 1)
        BY <1>0, <2>1, <3>4, <3>5
      <4> QED BY <2>2, <3>1, <3>4, <4>1
    <3>6. CASE ~(k < i)
      <4>1. k # i
        BY <1>0, <2>1, <3>1, <3>4
      <4>2. i < k /\ received[k] < received[i]
        BY <1>0, <2>1, <3>1, <3>4, <3>6, <4>1
      <4>3. \E q \in 1 .. (i - 1) : received[q] = received[k]
        BY <2>1, <3>4, <4>2 DEF Orderly, FirstDeliveriesInOrder, l
      <4> QED BY <2>2, <3>1, <3>4, <4>3
    <3> QED BY <3>5, <3>6
  <2> QED BY <2>3, <2>4
<1> QED BY <1>2, <1>3, <1>5, <1>6, <1>7 DEF Orderly, Sent

LEMMA PoppedOrderly ==
  ASSUME TypeOK, TypeOK', Orderly, Popped
  PROVE  /\ Orderly'
         /\ \A m : Sent(m) \/ Waits(m) => Sent(m)' \/ Waits(m)'
<1>0. /\ Len(queue) \in Nat /\ made \in Nat
      /\ \A i \in 1 .. Len(queue) : queue[i].id \in Nat
  BY QueueTypes
<1>1. /\ UNCHANGED <<made, received>>
      /\ \A i \in 1 .. Len(queue') : i + 1 \in 1 .. Len(queue) /\ queue'[i].id = queue[i + 1].id
      /\ \A i \in 1 .. Len(queue) : i # 1 => i - 1 \in 1 .. Len(queue') /\ queue'[i - 1].id = queue[i].id
  <2>1. \A i \in 1 .. Len(queue) : i # 1 => i - 1 \in 1 .. Len(queue') /\ (i - 1) + 1 = i
    BY <1>0 DEF Popped
  <2>2. UNCHANGED <<made, received>>
    BY DEF Popped
  <2>3. Len(queue') = Len(queue) - 1 /\ Len(queue) # 0
    BY DEF Popped
  <2>4. ASSUME NEW i \in 1 .. Len(queue')
        PROVE  i + 1 \in 1 .. Len(queue) /\ queue'[i].id = queue[i + 1].id
    <3>1. i + 1 \in 1 .. Len(queue)
      BY <1>0, <2>3
    <3> QED BY <3>1 DEF Popped
  <2>5. ASSUME NEW i \in 1 .. Len(queue), i # 1
        PROVE  i - 1 \in 1 .. Len(queue') /\ queue'[i - 1].id = queue[i].id
    <3>1. i - 1 \in 1 .. Len(queue') /\ (i - 1) + 1 = i
      BY <2>1, <2>5
    <3>2. queue'[i - 1].id = queue[(i - 1) + 1].id
      BY <3>1 DEF Popped
    <3> QED BY <3>1, <3>2
  <2> QED BY <2>2, <2>4, <2>5
<1>2. \A m : (Sent(m)' <=> Sent(m)) /\ (Waits(m) => Waits(m)' \/ Sent(m))
  BY <1>1 DEF Popped, Sent, Waits
<1>3. InOrder'
  <2>1. ASSUME NEW i \in 1 .. Len(queue'), NEW j \in 1 .. Len(queue'), i < j
        PROVE  queue'[i].id < queue'[j].id
    <3>1. i + 1 < j + 1
      BY <2>1
    <3> QED BY <1>1, <3>1 DEF Orderly, InOrder
  <2> QED BY <1>1, <2>1 DEF Orderly, InOrder
<1>4. FirstDeliveriesInOrder'
  BY DEF Popped, Orderly, FirstDeliveriesInOrder
<1>5. ASSUME NEW i \in 1 .. Len(queue')
      PROVE  \/ \E k \in 1 .. Len(received') : received'[k] = queue'[i].id
             \/ \A k \in 1 .. Len(received') : received'[k] < queue'[i].id
  BY <1>1, <1>5 DEF Orderly, Sent
<1>6. \A k \in 1 .. Len(received') : received'[k] <= made'
  BY <1>1 DEF Orderly
<1> QED BY <1>2, <1>3, <1>4, <1>5, <1>6 DEF Orderly, Sent

\* Every step of the queue is one of the four, as long as nothing queued is
\* dropped or given up on, and the flush still works on the front.
LEMMA QueueSteps ==
  ASSUME Policy = "DropNewest", CappedTasks = {}, SendInv, Orderly, TypeOK', [Next]_vars
  PROVE  /\ Stays \/ Pushed \/ Delivered \/ Popped
         /\ SendsTheFront' /\ DeliveredIsReceived'
<1> USE DEF SendInv, ClaimInv, TypeOK, Goto
<1>0. /\ queue \in Seq(Messages) /\ queue' \in Seq(Messages) /\ Len(queue) \in Nat
      /\ made \in Nat /\ Len(received) \in Nat
      /\ queue # <<>> => Len(queue) >= 1 /\ Head(queue) = queue[1]
      /\ queue' # <<>> => Head(queue') = queue'[1]
  BY QueueTypes, FrontIsFirst
\* The one flush, at the front.
<1>00. ASSUME NEW t \in Tasks, AtFront(t)
       PROVE  /\ queue # <<>> /\ queue[1].id = inflight[t].id /\ inflight[t].id \in Ids
              /\ \A u \in Tasks : u # t => ~AtFront(u)
  BY <1>0, <1>00 DEF SendsTheFront, AtFront, OneFlush, Holds, PeekedIsReport, Messages
<1>1. CASE Receive
  <2> DEFINE m == [id |-> made + 1, offline |-> FALSE]
  <2>1. m \in Messages /\ m.id = made + 1
    BY <1>0, <1>1 DEF Receive, Messages, Ids
  <2>2. /\ queue' = Push(queue, m).queue /\ made' = made + 1
        /\ UNCHANGED <<received, inflight>> /\ pc' = [pc EXCEPT ![Forwarder] = "gate"]
        /\ pc[Forwarder] = "idle"
    BY <1>1 DEF Receive
  <2> HIDE DEF m
  <2>3. queue' = queue \/ queue' = Append(queue, m)
    BY <1>0, <2>1, <2>2, PushDropNewest
  <2>4. Append(queue, m) # <<>> /\ Len(Append(queue, m)) = Len(queue) + 1
        /\ Append(queue, m)[Len(queue) + 1] = m
        /\ \A i \in 1 .. Len(queue) : Append(queue, m)[i] = queue[i]
    BY <1>0, <2>1, AppendingKeepsAll
  <2>5. \A t \in Tasks : AtFront(t)' => AtFront(t) /\ pc'[t] = pc[t]
    BY <2>2 DEF AtFront
  <2>6. SendsTheFront'
    <3> SUFFICES ASSUME NEW t \in Tasks, AtFront(t)'
                 PROVE  queue' # <<>> /\ Head(queue').id = inflight'[t].id
      BY DEF SendsTheFront, AtFront
    <3>1. queue # <<>> /\ queue[1].id = inflight[t].id
      BY <1>00, <2>5
    <3>2. queue' # <<>> /\ queue'[1] = queue[1]
      <4>1. 1 \in 1 .. Len(queue)
        BY <1>0, <3>1
      <4>2. Append(queue, m)[1] = queue[1]
        BY <2>4, <4>1
      <4>3. CASE queue' = queue
        BY <3>1, <4>3
      <4>4. CASE queue' = Append(queue, m)
        <5>1. queue' # <<>>
          BY <2>4, <4>4
        <5> QED BY <4>2, <4>4, <5>1
      <4> QED BY <2>3, <4>3, <4>4
    <3> QED BY <1>0, <2>2, <3>1, <3>2
  <2>7. DeliveredIsReceived'
    BY <2>2 DEF DeliveredIsReceived
  <2>8. Pushed
    BY <2>1, <2>2, <2>3, <2>4 DEF Pushed
  <2> QED BY <2>6, <2>7, <2>8
\* Steps that change neither the queue nor the histories.
<1>2. ASSUME UNCHANGED <<queue, made, received>>,
             \A t \in Tasks : AtFront(t)' => pc'[t] = pc[t] /\ inflight'[t] = inflight[t]
      PROVE  Stays /\ SendsTheFront' /\ DeliveredIsReceived'
  BY <1>2 DEF Stays, SendsTheFront, DeliveredIsReceived, AtFront
<1>3. ASSUME NEW t \in Tasks, Trigger(t) \/ Claim(t) \/ Release(t) \/ Accept \/ Withdraw \/ UNCHANGED vars
      PROVE  Stays /\ SendsTheFront' /\ DeliveredIsReceived'
  <2>1. UNCHANGED <<queue, made, received, inflight>>
    BY <1>3 DEF Trigger, Claim, Release, Accept, Withdraw, vars, queueVars, historyVars
  <2>2. \A u \in Tasks : AtFront(u)' => pc'[u] = pc[u]
    BY <1>3 DEF Trigger, Claim, Release, Accept, Withdraw, vars, AtFront
  <2> QED BY <1>2, <2>1, <2>2
<1>4. ASSUME NEW t \in Tasks, Gate(t) PROVE Stays /\ SendsTheFront' /\ DeliveredIsReceived'
  <2>1. /\ UNCHANGED <<inflight, made, received>>
        /\ queue' = queue \/ queue' = MarkBacklogOffline(queue)
        /\ \A u \in Tasks : AtFront(u)' => AtFront(u) /\ pc'[u] = pc[u]
    BY <1>4 DEF Gate, historyVars, AtFront
  <2>2. /\ Len(queue') = Len(queue) /\ (queue' = <<>> <=> queue = <<>>)
        /\ \A i \in 1 .. Len(queue) : queue'[i].id = queue[i].id
    BY <1>0, <2>1, MarkingKeepsIds
  <2>3. SendsTheFront'
    <3> SUFFICES ASSUME NEW u \in Tasks, AtFront(u)'
                 PROVE  queue' # <<>> /\ Head(queue').id = inflight'[u].id
      BY DEF SendsTheFront, AtFront
    <3>1. AtFront(u) /\ queue # <<>> /\ queue[1].id = inflight[u].id /\ inflight'[u] = inflight[u]
      BY <1>00, <2>1
    <3>2. 1 \in 1 .. Len(queue)
      BY <1>0, <3>1
    <3> QED BY <1>0, <2>2, <3>1, <3>2
  <2>4. DeliveredIsReceived'
    BY <2>1 DEF DeliveredIsReceived, AtFront
  <2> QED BY <2>1, <2>2, <2>3, <2>4 DEF Stays
<1>5. ASSUME NEW t \in Tasks, Peek(t) PROVE Stays /\ SendsTheFront' /\ DeliveredIsReceived'
  <2>1. /\ UNCHANGED <<queue, made, received>>
        /\ pc'[t] = "sending" => queue # <<>> /\ inflight'[t] = Head(queue)
        /\ pc'[t] \in {"sending", "release"}
        /\ \A u \in Tasks : u # t => pc'[u] = pc[u] /\ inflight'[u] = inflight[u]
    BY <1>5 DEF Peek, queueVars, historyVars
  <2>2. SendsTheFront'
    BY <2>1 DEF SendsTheFront
  <2>3. DeliveredIsReceived'
    BY <2>1 DEF DeliveredIsReceived
  <2> QED BY <2>1, <2>2, <2>3 DEF Stays
<1>6. ASSUME NEW t \in Tasks, Send(t)
      PROVE  (Stays \/ Delivered) /\ SendsTheFront' /\ DeliveredIsReceived'
  <2> DEFINE m == inflight[t].id
  <2>1. pc[t] = "sending" /\ AtFront(t)
    BY <1>6 DEF Send, SendOk, SendErr, AtFront
  <2>2. /\ queue # <<>> /\ queue[1].id = m /\ m \in Ids
        /\ \A u \in Tasks : u # t => ~AtFront(u)
    BY <1>00, <2>1
  <2>3. /\ UNCHANGED <<queue, inflight, made>>
        /\ pc'[t] \in {"delivered", "failed"}
        /\ \A u \in Tasks : u # t => pc'[u] = pc[u]
        /\ \/ received' = Append(received, m)
           \/ received' = received /\ pc'[t] = "failed"
    BY <1>6 DEF Send, SendOk, SendErr, queueVars
  <2>4. SendsTheFront'
    BY <2>1, <2>3 DEF SendsTheFront, AtFront
  <2>5. CASE received' = Append(received, m)
    <3>1. /\ Len(received') = Len(received) + 1 /\ received'[Len(received) + 1] = m
          /\ \A i \in 1 .. Len(received) : received'[i] = received[i]
      <4> HIDE DEF m
      <4> QED BY <2>2, <2>5, AppendingKeepsAll
    <3>2. Delivered
      BY <1>0, <2>2, <2>3, <3>1 DEF Delivered
    <3>3. DeliveredIsReceived'
      <4> SUFFICES ASSUME NEW u \in Tasks, pc'[u] = "delivered"
                   PROVE  \E k \in 1 .. Len(received') : received'[k] = inflight'[u].id
        BY DEF DeliveredIsReceived
      <4>1. u = t
        BY <2>2, <2>3 DEF AtFront
      <4>2. Len(received) + 1 \in 1 .. Len(received')
        BY <1>0, <3>1
      <4> QED BY <2>3, <3>1, <4>1, <4>2
    <3> QED BY <2>4, <3>2, <3>3
  <2>6. CASE received' = received /\ pc'[t] = "failed"
    <3>1. DeliveredIsReceived'
      BY <2>3, <2>6 DEF DeliveredIsReceived
    <3> QED BY <2>3, <2>4, <2>6, <3>1 DEF Stays
  <2> QED BY <2>3, <2>5, <2>6
<1>7. ASSUME NEW t \in Tasks, Pop(t) PROVE Popped /\ SendsTheFront' /\ DeliveredIsReceived'
  <2>1. pc[t] = "delivered" /\ AtFront(t)
    BY <1>7 DEF Pop, AtFront
  <2>2. queue # <<>> /\ queue[1].id = inflight[t].id /\ \A u \in Tasks : u # t => ~AtFront(u)
    BY <1>00, <2>1
  <2>3. /\ queue' = PopFront(queue) /\ UNCHANGED <<made, received>>
        /\ \A u \in Tasks : ~AtFront(u)'
    BY <1>7, <2>2 DEF Pop, historyVars, AtFront
  <2>4. Sent(queue[1].id)
    BY <2>1, <2>2 DEF DeliveredIsReceived, Sent
  <2>5. Len(queue') = Len(queue) - 1 /\ \A i \in 1 .. Len(queue') : queue'[i] = queue[i + 1]
    BY <1>0, <2>2, <2>3, PoppingKeepsRest
  <2>6. SendsTheFront' /\ DeliveredIsReceived'
    BY <2>3 DEF SendsTheFront, DeliveredIsReceived, AtFront
  <2> QED BY <1>0, <2>2, <2>3, <2>4, <2>5, <2>6 DEF Popped
<1>8. ASSUME NEW t \in Tasks, Retain(t) PROVE Stays /\ SendsTheFront' /\ DeliveredIsReceived'
  <2>1. pc[t] = "failed" /\ AtFront(t)
    BY <1>8 DEF Retain, AtFront
  <2>2. queue # <<>> /\ \A u \in Tasks : u # t => ~AtFront(u)
    BY <1>00, <2>1
  <2>3. /\ queue' = MarkBacklogOffline(queue) /\ UNCHANGED <<made, received>>
        /\ \A u \in Tasks : ~AtFront(u)'
    BY <1>8, <2>2 DEF Retain, AtFront
  <2>4. Len(queue') = Len(queue) /\ \A i \in 1 .. Len(queue) : queue'[i].id = queue[i].id
    BY <1>0, <2>3, MarkingKeepsIds
  <2>5. SendsTheFront' /\ DeliveredIsReceived'
    BY <2>3 DEF SendsTheFront, DeliveredIsReceived, AtFront
  <2> QED BY <2>3, <2>4, <2>5 DEF Stays
<1>9. Forwarder \in Tasks /\ Flushers \subseteq Tasks
  BY DEF Tasks
<1> QED BY <1>1, <1>3, <1>4, <1>5, <1>6, <1>7, <1>8, <1>9 DEF Next, Flush

\* The inductive invariant of the mirrored queue.
MirrorInv ==
    /\ SendInv /\ Orderly
    /\ store \in Seq(Messages) /\ Len(store) <= Capacity /\ Copies(store)
    /\ io \in [Tasks -> IoStates]
    /\ snapshot \in [Tasks -> Seq(Messages)]
    /\ \A t \in Tasks : Len(snapshot[t]) <= Capacity /\ Copies(snapshot[t])
    /\ previousLen \in 0 .. Capacity /\ mutations \in Nat
    /\ storeFailed \in BOOLEAN /\ crashes \in 0 .. MaxCrashes

LEMMA NothingCopies ==
  Copies(<<>>) /\ <<>> \in Seq(Messages) /\ Len(<<>>) <= Capacity
<1>1. Len(<<>>) = 0 /\ <<>> \in Seq(Messages)
  OBVIOUS
<1> QED BY <1>1, QueueAssumption DEF Copies

LEMMA MirrorInvInit == PInit => MirrorInv
<1> SUFFICES ASSUME PInit PROVE MirrorInv
  OBVIOUS
<1>1. ClaimInv
  BY ClaimInvInit DEF PInit
<1>2. queue = <<>> /\ received = <<>> /\ \A t \in Tasks : pc[t] = "idle"
  BY DEF PInit, Init
<1>3. SendsTheFront /\ DeliveredIsReceived
  BY <1>2 DEF SendsTheFront, DeliveredIsReceived
<1>4. Len(queue) = 0 /\ Len(received) = 0
  BY <1>2
<1>5. Orderly
  BY <1>4 DEF Orderly, InOrder, FirstDeliveriesInOrder
<1>6. /\ store = <<>> /\ io = [t \in Tasks |-> "idle"] /\ snapshot = [t \in Tasks |-> <<>>]
      /\ previousLen = 0 /\ mutations = 0 /\ storeFailed = FALSE /\ crashes = 0
  BY DEF PInit
<1>7. io \in [Tasks -> IoStates]
  BY <1>6 DEF IoStates
<1>8. /\ snapshot \in [Tasks -> Seq(Messages)]
      /\ \A t \in Tasks : Len(snapshot[t]) <= Capacity /\ Copies(snapshot[t])
  BY <1>6, NothingCopies
<1>9. previousLen \in 0 .. Capacity /\ crashes \in 0 .. MaxCrashes /\ mutations \in Nat
  BY <1>6, QueueAssumption, StoreAssumption
<1> QED BY <1>1, <1>3, <1>5, <1>6, <1>7, <1>8, <1>9, NothingCopies DEF MirrorInv, SendInv

\* A step of the queue leaves the copies true.
LEMMA QueueKeepsMirror ==
  ASSUME Policy = "DropNewest", CappedTasks = {}, MirrorInv, [Next]_vars
  PROVE  /\ SendInv' /\ Orderly'
         /\ \A s \in Seq(Messages) : Copies(s) => Copies(s)'
<1>1. ClaimInv'
  BY ClaimInvStep DEF MirrorInv, SendInv
<1>2. TypeOK /\ TypeOK'
  BY <1>1 DEF MirrorInv, SendInv, ClaimInv
<1>3. (Stays \/ Pushed \/ Delivered \/ Popped) /\ SendsTheFront' /\ DeliveredIsReceived'
  BY <1>2, QueueSteps DEF MirrorInv
<1>4. Orderly' /\ \A m : Sent(m) \/ Waits(m) => Sent(m)' \/ Waits(m)'
  BY <1>2, <1>3, StaysOrderly, PushedOrderly, DeliveredOrderly, PoppedOrderly DEF MirrorInv
<1>5. \A n \in Nat : n <= made => n <= made'
  <2>1. made \in Nat /\ (made' = made \/ made' = made + 1)
    BY <1>2, <1>3, QueueTypes DEF Stays, Pushed, Delivered, Popped
  <2> QED BY <2>1
<1>6. ASSUME NEW s \in Seq(Messages), Copies(s) PROVE Copies(s)'
  <2>1. \A i \in 1 .. Len(s) : s[i].id \in Nat
    <3>1. \A i \in 1 .. Len(s) : s[i] \in Messages
      BY ElementOfSeq
    <3> QED BY <3>1, QueueAssumption DEF Messages, Ids
  <2> QED BY <1>4, <1>5, <1>6, <2>1 DEF Copies
<1> QED BY <1>1, <1>3, <1>4, <1>6 DEF SendInv

LEMMA MirrorInvStep ==
  ASSUME Policy = "DropNewest", CappedTasks = {}, MirrorInv, [PNext]_allVars
  PROVE  MirrorInv'
<1>0. /\ queue \in Seq(Messages) /\ Len(queue) \in 0 .. Capacity /\ Forwarder \in Tasks
      /\ Capacity \in Nat
  BY QueueAssumption, LenProperties DEF MirrorInv, SendInv, ClaimInv, TypeOK, Tasks
\* The queue moves, its copies do not.
<1>1. ASSUME [Next]_vars, UNCHANGED <<store, snapshot, previousLen, mutations, storeFailed, crashes>>,
             io' \in [Tasks -> IoStates]
      PROVE  MirrorInv'
  <2>1. SendInv' /\ Orderly' /\ \A s \in Seq(Messages) : Copies(s) => Copies(s)'
    BY <1>1, QueueKeepsMirror
  <2>2. \A s \in Seq(Messages) : s = store => Copies(s)'
    BY <2>1 DEF MirrorInv
  <2>3. \A t \in Tasks : \A s \in Seq(Messages) : s = snapshot[t] => Copies(s)'
    BY <2>1 DEF MirrorInv
  <2>4. store \in Seq(Messages) /\ \A t \in Tasks : snapshot[t] \in Seq(Messages)
    BY DEF MirrorInv
  <2>5. Copies(store)' /\ \A t \in Tasks : Copies(snapshot[t])'
    BY <1>1, <2>2, <2>3, <2>4 DEF Copies
  <2> QED BY <1>1, <2>1, <2>5 DEF MirrorInv
\* The copies move, the queue does not.
<1>2. ASSUME UNCHANGED vars,
             io' \in [Tasks -> IoStates],
             store' \in {store} \cup {snapshot[t] : t \in Tasks},
             snapshot' \in [Tasks -> Seq(Messages)],
             \A t \in Tasks : snapshot'[t] \in {snapshot[t], queue, <<>>},
             previousLen' \in 0 .. Capacity, mutations' \in Nat, storeFailed' \in BOOLEAN,
             UNCHANGED crashes
      PROVE  MirrorInv'
  <2>1. SendInv' /\ Orderly'
    BY <1>2 DEF MirrorInv, SendInv, ClaimInv, TypeOK, OneFlush, PeekedIsReport, Holds, AtFront,
                SendsTheFront, DeliveredIsReceived, Orderly, InOrder, FirstDeliveriesInOrder, Sent,
                vars, queueVars, historyVars
  <2>2. \A s : Copies(s) => Copies(s)'
    BY <1>2 DEF Copies, Sent, Waits, vars, queueVars, historyVars
  <2>3. Copies(queue)
    BY DEF MirrorInv, Orderly, InOrder, Copies, Waits
  <2>4. \A s : s = store' => Copies(s) /\ s \in Seq(Messages) /\ Len(s) <= Capacity
    BY <1>2 DEF MirrorInv
  <2>5. \A t \in Tasks : \A s : s = snapshot'[t] => Copies(s) /\ Len(s) <= Capacity
    <3>1. \A t \in Tasks : Len(snapshot[t]) <= Capacity /\ Copies(snapshot[t])
      BY DEF MirrorInv
    <3>2. Len(queue) <= Capacity
      BY <1>0
    <3>3. \A t \in Tasks : \A s \in {snapshot[t], queue, <<>>} : Copies(s) /\ Len(s) <= Capacity
      BY <2>3, <3>1, <3>2, NothingCopies
    <3> QED BY <1>2, <3>3
  <2>6. Copies(store)' /\ \A t \in Tasks : Copies(snapshot[t])'
    <3>1. \A s : s = store' => Copies(s)'
      BY <2>2, <2>4
    <3>2. \A t \in Tasks : \A s : s = snapshot'[t] => Copies(s)'
      BY <2>2, <2>5
    <3> QED BY <3>1, <3>2 DEF Copies
  <2> QED BY <1>2, <2>1, <2>4, <2>5, <2>6 DEF MirrorInv
<1>3. CASE PReceive
  <2>1. [Next]_vars
    BY <1>3 DEF PReceive, Next
  <2> QED BY <1>1, <1>3, <2>1 DEF PReceive, MirrorInv, IoStates
<1>4. ASSUME NEW t \in Flushers, PTrigger(t) PROVE MirrorInv'
  <2>1. [Next]_vars
    BY <1>4 DEF PTrigger, Next
  <2> QED BY <1>1, <1>4, <2>1 DEF PTrigger, storeVars, MirrorInv
<1>5. ASSUME NEW t \in Tasks, PFlush(t) PROVE MirrorInv'
  <2>1. [Next]_vars
    BY <1>5 DEF PFlush, Next
  <2> QED BY <1>1, <1>5, <2>1 DEF PFlush, MirrorInv, IoStates
<1>6. CASE PRegistration
  <2>1. [Next]_vars
    BY <1>6 DEF PRegistration, Next
  <2> QED BY <1>1, <1>6, <2>1 DEF PRegistration, storeVars, MirrorInv
<1>7. CASE PersistQueueChange
  <2>1. io' \in [Tasks -> IoStates]
    BY <1>7 DEF PersistQueueChange, MirrorInv, IoStates
  <2>2. snapshot' = [snapshot EXCEPT ![Forwarder] = <<>>] /\ store' = store /\ previousLen' = Len(queue)
        /\ UNCHANGED <<vars, storeFailed, crashes>>
    BY <1>7 DEF PersistQueueChange
  <2>3. mutations' \in Nat
    BY <1>7 DEF PersistQueueChange, MirrorInv
  <2>4. snapshot' \in [Tasks -> Seq(Messages)] /\ \A t \in Tasks : snapshot'[t] \in {snapshot[t], queue, <<>>}
    BY <2>2, NothingCopies DEF MirrorInv
  <2> QED BY <1>0, <1>2, <2>1, <2>2, <2>3, <2>4 DEF MirrorInv
<1>8. ASSUME NEW t \in Tasks, TakeSnapshot(t) PROVE MirrorInv'
  <2>1. io' \in [Tasks -> IoStates]
    BY <1>8 DEF TakeSnapshot, MirrorInv, IoStates
  <2>2. snapshot' \in [Tasks -> Seq(Messages)] /\ \A u \in Tasks : snapshot'[u] \in {snapshot[u], queue, <<>>}
    BY <1>0, <1>8 DEF TakeSnapshot, MirrorInv
  <2> QED BY <1>0, <1>2, <1>8, <2>1, <2>2 DEF TakeSnapshot, MirrorInv
<1>9. ASSUME NEW t \in Tasks, Store(t) PROVE MirrorInv'
  <2>1. io' \in [Tasks -> IoStates]
    BY <1>9 DEF Store, MirrorInv, IoStates
  <2> QED BY <1>2, <1>9, <2>1 DEF Store, MirrorInv
<1>10. ASSUME NEW t \in Tasks, StoreFails(t) PROVE MirrorInv'
  <2>1. /\ failures' \in 0 .. MaxFailures /\ storeFailed' = TRUE /\ io' \in [Tasks -> IoStates]
        /\ UNCHANGED <<queueVars, accepted, pc, inflight, made, received, lost, inDoubt, tries,
                       store, snapshot, previousLen, mutations, crashes>>
    <3>1. failures \in 0 .. MaxFailures /\ failures < MaxFailures /\ failures' = failures + 1
      BY <1>10 DEF StoreFails, MirrorInv, SendInv, ClaimInv, TypeOK
    <3>2. io' \in [Tasks -> IoStates]
      BY <1>10 DEF StoreFails, MirrorInv, IoStates
    <3> QED BY <1>10, <3>1, <3>2, QueueAssumption DEF StoreFails
  <2>2. SendInv' /\ Orderly'
    BY <2>1 DEF MirrorInv, SendInv, ClaimInv, TypeOK, OneFlush, PeekedIsReport, Holds, AtFront,
                SendsTheFront, DeliveredIsReceived, Orderly, InOrder, FirstDeliveriesInOrder, Sent,
                queueVars
  <2>3. Copies(store)' /\ \A u \in Tasks : Copies(snapshot[u])'
    BY <2>1 DEF MirrorInv, Copies, Sent, Waits, queueVars
  <2> QED BY <2>1, <2>2, <2>3 DEF MirrorInv
\* What boots again is a copy: received, or queued until now.
<1>11. CASE Crash
  <2>1. /\ queue' = MarkBacklogOffline(store) /\ flushing' = FALSE /\ attempts' = 0 /\ accepted' = FALSE
        /\ pc' = [t \in Tasks |-> "idle"] /\ inflight' = [t \in Tasks |-> NoMessage]
        /\ tries' = [m \in Ids |-> 0] /\ io' = [t \in Tasks |-> "idle"]
        /\ snapshot' = [t \in Tasks |-> <<>>] /\ previousLen' = Len(store) /\ mutations' = 0
        /\ crashes < MaxCrashes /\ crashes' = crashes + 1
        /\ UNCHANGED <<made, received, lost, inDoubt, failures, store, storeFailed>>
    BY <1>11 DEF Crash
  <2>2. /\ store \in Seq(Messages) /\ Len(store) <= Capacity /\ Len(store) \in Nat /\ Copies(store)
    BY LenProperties DEF MirrorInv
  <2>3. /\ queue' \in Seq(Messages) /\ Len(queue') = Len(store)
        /\ \A i \in 1 .. Len(store) : queue'[i].id = store[i].id
    BY <2>1, <2>2, MarkingKeepsIds
  <2>4. TypeOK'
    <3>1. tries' \in [Ids -> Nat] /\ attempts' \in Nat /\ flushing' \in BOOLEAN /\ accepted' \in BOOLEAN
      BY <2>1
    <3>2. pc' \in [Tasks -> Places] /\ inflight' \in [Tasks -> Messages \cup {NoMessage}]
      BY <2>1 DEF Places
    <3> QED BY <2>1, <2>2, <2>3, <3>1, <3>2 DEF TypeOK, MirrorInv, SendInv, ClaimInv
  <2>5. SendInv'
    <3>1. \A t \in Tasks : pc'[t] = "idle"
      BY <2>1
    <3> QED BY <2>4, <3>1 DEF SendInv, ClaimInv, OneFlush, PeekedIsReport, Holds, AtFront,
                              SendsTheFront, DeliveredIsReceived
  <2>6. \A i \in 1 .. Len(queue') :
           \/ \E k \in 1 .. Len(received) : received[k] = queue'[i].id
           \/ \A k \in 1 .. Len(received) : received[k] < queue'[i].id
    <3> TAKE i \in 1 .. Len(queue')
    <3>1. i \in 1 .. Len(store) /\ queue'[i].id = store[i].id
      BY <2>3
    <3>2. Sent(store[i].id) \/ Waits(store[i].id)
      BY <2>2, <3>1 DEF Copies
    <3>3. CASE Sent(store[i].id)
      BY <3>1, <3>3 DEF Sent
    <3>4. CASE Waits(store[i].id)
      <4>1. PICK j \in 1 .. Len(queue) : queue[j].id = store[i].id
        BY <3>4 DEF Waits
      <4>2. Sent(queue[j].id) \/ \A k \in 1 .. Len(received) : received[k] < queue[j].id
        BY DEF MirrorInv, Orderly
      <4> QED BY <3>1, <4>1, <4>2 DEF Sent
    <3> QED BY <3>2, <3>3, <3>4
  <2>7. Orderly'
    <3>1. InOrder'
      BY <2>1, <2>2, <2>3 DEF InOrder, Copies
    <3>2. FirstDeliveriesInOrder' /\ \A k \in 1 .. Len(received') : received'[k] <= made'
      BY <2>1 DEF MirrorInv, Orderly, FirstDeliveriesInOrder
    <3> QED BY <2>1, <2>6, <3>1, <3>2 DEF Orderly, Sent
  <2>8. Copies(store)'
    BY <2>1, <2>2, <2>3 DEF Copies, Sent, Waits
  <2>9. /\ snapshot' \in [Tasks -> Seq(Messages)]
        /\ \A t \in Tasks : Len(snapshot'[t]) <= Capacity /\ Copies(snapshot[t])'
    <3>1. Len(<<>>) = 0
      OBVIOUS
    <3> QED BY <2>1, <3>1, <1>0 DEF Copies
  <2>10. io' \in [Tasks -> IoStates] /\ previousLen' \in 0 .. Capacity /\ crashes' \in 0 .. MaxCrashes
    BY <2>1, <2>2, <1>0, StoreAssumption DEF IoStates, MirrorInv
  <2> QED BY <2>1, <2>2, <2>5, <2>7, <2>8, <2>9, <2>10 DEF MirrorInv
<1>12. CASE UNCHANGED allVars
  <2>1. UNCHANGED <<vars, store, io, snapshot, previousLen, mutations, storeFailed, crashes>>
    BY <1>12 DEF allVars, storeVars
  <2> QED BY <1>2, <2>1 DEF MirrorInv
<1> QED BY <1>3, <1>4, <1>5, <1>6, <1>7, <1>8, <1>9, <1>10, <1>11, <1>12 DEF PNext

LEMMA MirrorInvHolds == MirrorInv => BacklogIsReplayed
  BY DEF MirrorInv, SendInv, ClaimInv, Orderly, BacklogIsReplayed, PTypeOK

\* A queue that drops only the newest and gives up on nothing is replayed after
\* every power cut in the order its reports were raised: the CSMS never sees a
\* report for the first time after a younger one, however stale the copy on disk
\* (restore_offline_queue, run_persisted_offline_queue).
THEOREM BacklogReplays ==
  ASSUME Policy = "DropNewest", CappedTasks = {}
  PROVE  PSpec => []BacklogIsReplayed
<1>1. PInit => MirrorInv
  BY MirrorInvInit
<1>2. MirrorInv /\ [PNext]_allVars => MirrorInv'
  BY MirrorInvStep
<1>3. MirrorInv => BacklogIsReplayed
  BY MirrorInvHolds
<1> QED BY <1>1, <1>2, <1>3, PTL DEF PSpec

-----------------------------------------------------------------------------
(* The composition the run checks.                                          *)

\* What is promised to be on disk is, whichever of the five specifications an
\* execution is of (persistence.rs, hardware/storage.rs).
THEOREM StoredStaysDurable == DurabilitySpec => []StoredIsDurable
<1> DEFINE Inv == AtomicInv /\ SnapInv /\ SecLogInv
<1>1. DurabilityInit => Inv
  BY AtomicInvInit, SnapInvInit, SecLogInvInit DEF DurabilityInit
<1>2. Inv /\ [DurabilityNext]_durabilityVars => Inv'
  <2> SUFFICES ASSUME Inv, [DurabilityNext]_durabilityVars PROVE Inv'
    OBVIOUS
  <2>1. [AtomicNext]_atomicVars /\ [SnapNext]_snapVars /\ [SecLogNext]_seclogVars
    BY DEF DurabilityNext, durabilityVars
  <2> QED BY <2>1, AtomicInvStep, SnapInvStep, SecLogInvStep
<1>3. Inv => StoredIsDurable
  BY SnapInvHolds, SecLogInvHolds, AtomicInvHolds DEF StoredIsDurable
<1> HIDE DEF Inv
<1> QED BY <1>1, <1>2, <1>3, PTL DEF DurabilitySpec

\* The records survive in the same composition, on a medium whose writes are
\* atomic (persistence.rs).
THEOREM DurableRecords ==
  ASSUME AtomicMedium
  PROVE  DurabilitySpec => []RecordsSurvive
<1>1. DurabilityInit => RecInv
  BY RecInvInit DEF DurabilityInit
<1>2. RecInv /\ [DurabilityNext]_durabilityVars => RecInv'
  <2> SUFFICES ASSUME RecInv, [DurabilityNext]_durabilityVars PROVE RecInv'
    OBVIOUS
  <2>1. [RecNext]_recVars
    BY DEF DurabilityNext, durabilityVars
  <2> QED BY <2>1, RecInvStep
<1>3. RecInv => RecordsSurvive
  BY RecInvSurvives
<1> QED BY <1>1, <1>2, <1>3, PTL DEF DurabilitySpec

\* The backlog is replayed in order in the same composition, under the policy
\* that drops only the newest report and with no cap on attempts
\* (persistence.rs, restore_offline_queue).
THEOREM DurableBacklog ==
  ASSUME Policy = "DropNewest", CappedTasks = {}
  PROVE  DurabilitySpec => []BacklogIsReplayed
<1>1. DurabilityInit => MirrorInv
  BY MirrorInvInit DEF DurabilityInit
<1>2. MirrorInv /\ [DurabilityNext]_durabilityVars => MirrorInv'
  <2> SUFFICES ASSUME MirrorInv, [DurabilityNext]_durabilityVars PROVE MirrorInv'
    OBVIOUS
  <2>1. [PNext]_allVars
    BY DEF DurabilityNext, durabilityVars
  <2> QED BY <2>1, MirrorInvStep
<1>3. MirrorInv => BacklogIsReplayed
  BY MirrorInvHolds
<1> QED BY <1>1, <1>2, <1>3, PTL DEF DurabilitySpec
=============================================================================
