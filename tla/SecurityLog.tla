---------------------------- MODULE SecurityLog ----------------------------
(***************************************************************************)
(* The security log (security.rs) and its durable copy (persistence.rs).   *)
(* One task records every security event and writes the whole log after    *)
(* each; clear_security_log empties the log and its copy from another task *)
(* and then raises SecurityLogWasCleared, which comes back to the first as *)
(* one more event.  The two tasks await the same storage key.              *)
(***************************************************************************)
EXTENDS Integers, SequencesExt

CONSTANTS
    LogCapacity,                        \* SecurityEventLog::capacity
    MaxRaised, MaxClears, MaxBlackouts, MaxUnwritten   \* bounds

ASSUME SecurityLogAssumption ==
    /\ LogCapacity \in Nat \ {0}
    /\ MaxRaised \in Nat /\ MaxClears \in Nat
    /\ MaxBlackouts \in Nat /\ MaxUnwritten \in Nat

VARIABLES
    kept,       \* SecurityEventLog::entries, oldest first
    onDisk,     \* the stored snapshot; empty when there is none
    inbox,      \* the broadcast queue of the recording task
    recorder,   \* the recording task: where it is, what it is writing
    clearer,    \* clear_security_log: where it is
    unsaved,    \* ghost: the last write failed
    raised, clears, blackouts, unwritten

seclogVars == <<kept, onDisk, inbox, recorder, clearer, unsaved,
                raised, clears, blackouts, unwritten>>

Cleared == 0                            \* SecurityLogWasCleared
Waiting == [pc |-> "recv", snapshot |-> << >>]

SecLogInit ==
    /\ kept = << >> /\ onDisk = << >> /\ inbox = << >>
    /\ recorder = Waiting /\ clearer = "idle" /\ unsaved = FALSE
    /\ raised = 0 /\ clears = 0 /\ blackouts = 0 /\ unwritten = 0

\* SecurityEventLog::record: at capacity the oldest entry makes room.
Record(log, e) ==
    Append(IF Len(log) >= LogCapacity THEN Tail(log) ELSE log, e)

\* A security event of the state machine reaches the recording task's queue.
RaiseSecurityEvent ==
    /\ raised < MaxRaised
    /\ raised' = raised + 1
    /\ inbox' = Append(inbox, raised + 1)
    /\ UNCHANGED <<kept, onDisk, recorder, clearer, unsaved, clears, blackouts, unwritten>>

\* run_security_log_persistence: record, take the entries, write them.
RecordEvent ==
    /\ recorder.pc = "recv" /\ inbox # << >>
    /\ inbox' = Tail(inbox)
    /\ kept' = Record(kept, Head(inbox))
    /\ recorder' = [recorder EXCEPT !.pc = "recorded"]
    /\ UNCHANGED <<onDisk, clearer, unsaved, raised, clears, blackouts, unwritten>>

TakeEntries ==
    /\ recorder.pc = "recorded"
    /\ recorder' = [pc |-> "saving", snapshot |-> kept]
    /\ UNCHANGED <<kept, onDisk, inbox, clearer, unsaved, raised, clears, blackouts, unwritten>>

WriteLost == unwritten < MaxUnwritten /\ unwritten' = unwritten + 1

SaveLog ==
    /\ recorder.pc = "saving"
    /\ recorder' = Waiting
    /\ \/ onDisk' = recorder.snapshot /\ unsaved' = FALSE /\ UNCHANGED unwritten
       \/ WriteLost /\ unsaved' = TRUE /\ UNCHANGED onDisk
    /\ UNCHANGED <<kept, inbox, clearer, raised, clears, blackouts>>

\* clear_security_log: the entries, the stored copy, the report.
ClearEntries ==
    /\ clearer = "idle" /\ clears < MaxClears
    /\ clears' = clears + 1
    /\ kept' = << >>
    /\ clearer' = "removing"
    /\ UNCHANGED <<onDisk, inbox, recorder, unsaved, raised, blackouts, unwritten>>

RemoveStored ==
    /\ clearer = "removing"
    /\ clearer' = "reporting"
    /\ \/ onDisk' = << >> /\ UNCHANGED unwritten
       \/ WriteLost /\ UNCHANGED onDisk
    /\ UNCHANGED <<kept, inbox, recorder, unsaved, raised, clears, blackouts>>

ReportedClear == Append(inbox, Cleared)

ReportCleared ==
    /\ clearer = "reporting"
    /\ clearer' = "idle"
    /\ inbox' = ReportedClear
    /\ UNCHANGED <<kept, onDisk, recorder, unsaved, raised, clears, blackouts, unwritten>>

\* Power fails; restore_security_log records the stored entries one by one
\* before the recording task is spawned.
Blackout ==
    /\ blackouts < MaxBlackouts
    /\ blackouts' = blackouts + 1
    /\ kept' = FoldLeft(Record, << >>, onDisk)
    /\ inbox' = << >> /\ recorder' = Waiting /\ clearer' = "idle" /\ unsaved' = FALSE
    /\ UNCHANGED <<onDisk, raised, clears, unwritten>>

SecLogNext ==
    \/ RaiseSecurityEvent \/ RecordEvent \/ TakeEntries \/ SaveLog
    \/ ClearEntries \/ RemoveStored \/ ReportCleared \/ Blackout

SecLogSpec == SecLogInit /\ [][SecLogNext]_seclogVars

-----------------------------------------------------------------------------
\* Both copies keep to the capacity.
SecLogTypeOK ==
    /\ kept \in Seq(0..raised) /\ Len(kept) <= LogCapacity
    /\ onDisk \in Seq(0..raised) /\ Len(onDisk) <= LogCapacity
    /\ recorder.pc \in {"recv", "recorded", "saving"}
    /\ clearer \in {"idle", "removing", "reporting"}

\* Once both tasks rest, the stored log is the live one unless the last write
\* failed: neither a snapshot taken before a clear and written after it, nor
\* a removal that lands on a snapshot written after the clear, survives the
\* report of the clearing (run_security_log_persistence, clear_security_log).
LogIsDurable ==
    /\ recorder = Waiting /\ inbox = << >> /\ clearer = "idle" /\ ~unsaved
    => onDisk = kept
=============================================================================
