---------------------------- MODULE AtomicStorage ----------------------------
(***************************************************************************)
(* AtomicStorage (hardware/storage.rs): one logical key kept in two        *)
(* physical slots.  A write reads both, picks the slot that does not hold  *)
(* the latest record it could read, and writes there; the underlying write *)
(* is not atomic, so a power cut in it leaves that slot torn, and either   *)
(* underlying read may fail at any time.  Removal is the write of a        *)
(* tombstone.  The key's one caller waits for each call.                   *)
(***************************************************************************)
EXTENDS Integers

CONSTANTS
    Payloads, Absent, Nothing,
    SeqSpace,      \* how many sequence numbers there are (2^64 in the code)
    MaxStores      \* bound: writes asked for

ASSUME AtomicAssumption ==
    /\ Absent \notin Payloads /\ Nothing \notin Payloads \cup {Absent}
    /\ SeqSpace \in Nat /\ SeqSpace >= 5
    /\ MaxStores \in Nat

VARIABLES
    slots,         \* what each physical key holds
    storeOp,       \* the write under way, if any
    answer,        \* what the last write told its caller, if it lived to
    got,           \* what the last read returned
    stores         \* writes asked for so far

atomicVars == <<slots, storeOp, answer, got, stores>>

Slot == {"a", "b"}
Other(s) == IF s = "a" THEN "b" ELSE "a"

\* decode_record: an empty or torn slot has no usable record, and one whose
\* read fails is treated the same.
Unusable   == [kind |-> "none"]
TornRecord == [kind |-> "torn"]
ReadError  == [kind |-> "error"]
Valid(r) == r.kind \in {"value", "tombstone"}

\* What the two reads of one call return, when those of `failed` fail.
Seen(sl, failed) == [s \in Slot |-> IF s \in failed THEN ReadError ELSE sl[s]]

SeqIsGreater(candidate, than) == candidate > than

\* seq_is_later: the numbers are points on a cycle.
SeqIsLater(candidate, than) ==
    LET delta == (candidate - than) % SeqSpace
    IN delta # 0 /\ delta < (SeqSpace - 1) \div 2

\* read_slots: the winning slot, "none" when neither is usable.
Winner(sl) ==
    CASE Valid(sl["a"]) /\ Valid(sl["b"]) ->
            IF SeqIsLater(sl["b"].seq, sl["a"].seq) THEN "b" ELSE "a"
      [] Valid(sl["a"]) /\ ~Valid(sl["b"]) -> "a"
      [] ~Valid(sl["a"]) /\ Valid(sl["b"]) -> "b"
      [] OTHER -> "none"

\* A failed read is guessed past only when the other slot resolves it.
NeverErrors(sl, failed) == FALSE
Errors(sl, failed) == failed # {} /\ Winner(Seen(sl, failed)) = "none"

\* get: the winner's payload; a tombstone, or nothing at all, is absence.
StorageGet(sl) ==
    IF Winner(sl) # "none" /\ sl[Winner(sl)].kind = "value"
    THEN sl[Winner(sl)].payload ELSE Absent

\* write_record: the slot that is not the winner, with the next number.
Target(sl) ==
    IF Winner(sl) = "none" THEN [slot |-> "a", seq |-> 0]
    ELSE [slot |-> Other(Winner(sl)), seq |-> (sl[Winner(sl)].seq + 1) % SeqSpace]

NoStore == [pc |-> "idle"]

BeginWrite(kind, payload, failed) ==
    /\ storeOp.pc = "idle" /\ stores < MaxStores
    /\ stores' = stores + 1
    /\ IF Errors(slots, failed)
       THEN answer' = "failed" /\ UNCHANGED storeOp
       ELSE /\ LET t == Target(Seen(slots, failed))
               IN storeOp' = [pc |-> "writing", slot |-> t.slot,
                              record |-> [kind |-> kind, seq |-> t.seq,
                                          payload |-> payload]]
            /\ UNCHANGED answer
    /\ UNCHANGED <<slots, got>>

StorageSet ==
    \E p \in Payloads, failed \in SUBSET Slot : BeginWrite("value", p, failed)
StorageRemove ==
    \E failed \in SUBSET Slot : BeginWrite("tombstone", Absent, failed)

StorageRead ==
    /\ storeOp.pc = "idle"
    /\ \E failed \in SUBSET Slot :
          got' = IF Errors(slots, failed) THEN Nothing
                 ELSE StorageGet(Seen(slots, failed))
    /\ UNCHANGED <<slots, storeOp, answer, stores>>

\* The underlying set completes.
Written ==
    /\ storeOp.pc = "writing"
    /\ slots' = [slots EXCEPT ![storeOp.slot] = storeOp.record]
    /\ storeOp' = NoStore /\ answer' = "ok"
    /\ UNCHANGED <<got, stores>>

\* It fails before touching the medium; the caller is told.
WriteRefused ==
    /\ storeOp.pc = "writing"
    /\ storeOp' = NoStore /\ answer' = "failed"
    /\ UNCHANGED <<slots, got, stores>>

\* A power cut in the middle of a write: the target slot is torn, or the
\* record got there complete but nobody was told.
PowerCut ==
    /\ storeOp.pc = "writing"
    /\ \E left \in {TornRecord, storeOp.record} :
          slots' = [slots EXCEPT ![storeOp.slot] = left]
    /\ storeOp' = NoStore /\ answer' = "cut"
    /\ UNCHANGED <<got, stores>>

-----------------------------------------------------------------------------
AtomicInit ==
    /\ slots = [s \in Slot |-> Unusable]
    /\ storeOp = NoStore /\ answer = "none" /\ got = Nothing /\ stores = 0

AtomicNext ==
    StorageSet \/ StorageRemove \/ StorageRead \/ Written \/ WriteRefused \/ PowerCut

AtomicSpec == AtomicInit /\ [][AtomicNext]_atomicVars

-----------------------------------------------------------------------------
\* Two good slots hold consecutive numbers, so which is later never depends
\* on how often the number wrapped; and a write in flight never targets the
\* only good copy, whatever reads failed before it (write_record).
AtomicTypeOK ==
    /\ \A s \in Slot : Valid(slots[s]) => slots[s].seq \in 0 .. SeqSpace - 1
    /\ Valid(slots["a"]) /\ Valid(slots["b"]) =>
          \E s \in Slot : slots[s].seq = (slots[Other(s)].seq + 1) % SeqSpace
    /\ storeOp.pc = "writing" /\ Winner(slots) # "none" =>
          Valid(slots[Other(storeOp.slot)])

\* The record behind the winner, and a write that was begun without seeing
\* the winner: it is aimed at the winner's slot.
Older(sl) ==
    IF Winner(sl) # "none" /\ Valid(sl[Other(Winner(sl))])
    THEN sl[Other(Winner(sl))].payload ELSE Nothing
Blind == storeOp.pc = "writing" /\ storeOp.slot = Winner(slots)

Register ==
    INSTANCE DurableRegister
    WITH stored  <- StorageGet(slots), older <- Older(slots), blind <- Blind,
         pending <- IF storeOp.pc = "idle" THEN Nothing ELSE storeOp.record.payload

\* Two slots, a sequence number and a checksum implement a register with one
\* value behind the current one: across any run of torn writes, failed reads
\* and wraps of the sequence number, a read returns what was written last, or,
\* when a slot cannot be read, the value before it; and only a write begun
\* while the latest record could not be read can, cut short, lose it.
AtomicRegister == Register!RegSpec

\* "get after a crash returns either the value from before the interrupted
\* write, or the value from after it" (AtomicStorage): one cut loses one write.
CutsAreAtomic ==
    [][storeOp.pc = "writing" /\ answer' = "cut" =>
          StorageGet(slots') \in {StorageGet(slots), storeOp.record.payload}]_<<slots, storeOp>>
=============================================================================
