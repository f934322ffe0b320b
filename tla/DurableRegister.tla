--------------------------- MODULE DurableRegister ---------------------------
(***************************************************************************)
(* What AtomicStorage promises for one key: a register that remembers one  *)
(* value behind the current one, the only other a read can return.  A      *)
(* write under way takes effect in one step or not at all, whatever the    *)
(* power does; one that answered its caller did what it answered.  Only a  *)
(* blind write, begun while the current value could not be read, can lose  *)
(* it when it is cut short: the value behind comes back.                   *)
(***************************************************************************)
CONSTANTS Payloads, Absent, Nothing

VARIABLES stored, older, pending, blind, answer, got

RegInit ==
    /\ stored = Absent /\ older = Nothing /\ pending = Nothing /\ ~blind
    /\ answer = "none" /\ got = Nothing

Begins ==
    /\ pending = Nothing
    /\ pending' \in Payloads \cup {Absent}
    /\ blind' => older # Nothing
    /\ UNCHANGED <<stored, older, answer, got>>

Refuses ==
    /\ pending = Nothing
    /\ answer' = "failed"
    /\ UNCHANGED <<stored, older, pending, blind, got>>

\* A read that fails to see the current value returns the one behind it, if
\* there is one, or nothing at all.
Reads ==
    /\ pending = Nothing
    /\ got' \in {stored, older, Nothing}
    /\ UNCHANGED <<stored, older, pending, blind, answer>>

TakesEffect ==
    /\ pending # Nothing
    /\ stored' = pending /\ pending' = Nothing /\ ~blind'
    /\ older' \in IF blind THEN {older} ELSE {stored, Nothing}
    /\ answer' \in {"ok", "cut"}
    /\ UNCHANGED got

HasNoEffect ==
    /\ pending # Nothing
    /\ pending' = Nothing /\ ~blind' /\ UNCHANGED <<stored, older, got>>
    /\ answer' = "failed"

\* What the cut leaves of a write that did not take effect.
IsCutShort ==
    /\ pending # Nothing
    /\ pending' = Nothing /\ ~blind' /\ older' = Nothing
    /\ stored' = IF blind THEN older ELSE stored
    /\ answer' = "cut"
    /\ UNCHANGED got

RegNext == Begins \/ Refuses \/ Reads \/ TakesEffect \/ HasNoEffect \/ IsCutShort

RegSpec == RegInit /\ [][RegNext]_<<stored, older, pending, blind, answer, got>>
=============================================================================
