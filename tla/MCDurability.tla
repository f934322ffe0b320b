---------------------------- MODULE MCDurability ----------------------------
(***************************************************************************)
(* Small instances of the five specifications of what a power cut leaves:  *)
(* the queue of reports, the two-slot storage adapter, the records of      *)
(* running transactions, the snapshots of the stores and the security log. *)
(* They share no state, so an execution is one of one of them.             *)
(***************************************************************************)
EXTENDS PersistedQueue, AtomicStorage, Recovery, Snapshots, SecurityLog

CONSTANT Blocks      \* the specifications this instance runs

VARIABLE block       \* the one this execution is of

durabilityVars == <<block, allVars, atomicVars, recVars, snapVars, seclogVars>>

DurabilityInit ==
    /\ block \in Blocks
    /\ PInit /\ AtomicInit /\ RecInit /\ SnapInit /\ SecLogInit
    /\ block # "snapshots" => kind = CHOOSE k \in Kinds : TRUE

DurabilityNext ==
    \/ /\ block = "queue" /\ PNext
       /\ UNCHANGED <<block, atomicVars, recVars, snapVars, seclogVars>>
    \/ /\ block = "storage" /\ AtomicNext
       /\ UNCHANGED <<block, allVars, recVars, snapVars, seclogVars>>
    \/ /\ block = "recovery" /\ RecNext
       /\ UNCHANGED <<block, allVars, atomicVars, snapVars, seclogVars>>
    \/ /\ block = "snapshots" /\ SnapNext
       /\ UNCHANGED <<block, allVars, atomicVars, recVars, seclogVars>>
    \/ /\ block = "seclog" /\ SecLogNext
       /\ UNCHANGED <<block, allVars, atomicVars, recVars, snapVars>>

DurabilitySpec == DurabilityInit /\ [][DurabilityNext]_durabilityVars

-----------------------------------------------------------------------------
\* Stores: what a persistence task believes it has written is on disk, whether
\* a snapshot of a store or the security log (persistence.rs).
StoredIsDurable ==
    AtomicTypeOK /\ SnapTypeOK /\ HeldIsDurable /\ SecLogTypeOK /\ LogIsDurable

=============================================================================
