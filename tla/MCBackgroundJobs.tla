-------------------------- MODULE MCBackgroundJobs --------------------------
(***************************************************************************)
(* Small instances of the seven specifications of what the station does    *)
(* for the CSMS in the background: firmware updates, firmware it           *)
(* publishes, log uploads, variable monitors, display messages, battery    *)
(* swaps, and the local list with its erasures.                            *)
(* They share no state, so an execution is one of one of them.             *)
(***************************************************************************)
EXTENDS Firmware, PublishFirmware, LogUpload, VariableMonitoring, DisplayMessages,
        BatterySwap, LocalList

CONSTANT Blocks      \* the specifications this instance runs

VARIABLE block       \* the one this execution is of

jobVars == <<block, fwVars, pubVars, logVars, monVars, displayVars, swapVars,
             listVars>>

\* A signed image to be fetched later; one to be installed later, with a retry.
TwoUpdates ==
    {[retrieveLater |-> TRUE, signed |-> TRUE, installLater |-> FALSE, retries |-> 0],
     [retrieveLater |-> FALSE, signed |-> FALSE, installLater |-> TRUE, retries |-> 1]}

\* Two identifiers of one value, as an RFID card and a key code may be, and a
\* third; more of them than the list holds.
CardOrCode == [t \in ListTokens |-> IF t = "other" THEN "b" ELSE "a"]

Entry(token, status) == [token |-> token, status |-> status]
FullUpdate(entries) == [kind |-> "Full", entries |-> entries]
Differential(changes) == [kind |-> "Differential", changes |-> changes]
Upsert(token, status) == [op |-> "Upsert", entry |-> Entry(token, status)]
Removal(token) == [op |-> "Remove", token |-> token]

SomeUpdates ==
    {FullUpdate(<< >>),
     FullUpdate(<<Entry("card", "Accepted"), Entry("other", "Accepted")>>),
     FullUpdate(<<Entry("card", "Accepted"), Entry("code", "Blocked")>>),
     FullUpdate(<<Entry("card", "Accepted"), Entry("card", "Blocked")>>),
     FullUpdate(<<Entry("card", "Accepted"), Entry("code", "Accepted"),
                  Entry("other", "Accepted")>>),
     Differential(<<Upsert("other", "Blocked")>>),
     Differential(<<Removal("other"), Upsert("code", "Accepted")>>),
     Differential(<<Upsert("card", "Blocked"), Upsert("code", "Accepted")>>)}

SomeInquiries ==
    {[token |-> "card", report |-> TRUE, clear |-> TRUE],
     [token |-> "other", report |-> FALSE, clear |-> TRUE],
     [token |-> "other", report |-> TRUE, clear |-> FALSE],
     [token |-> NoToken, report |-> TRUE, clear |-> FALSE],
     [token |-> "card", report |-> FALSE, clear |-> FALSE]}

JobsInit ==
    /\ block \in Blocks
    /\ FwInit /\ PubInit /\ LogInit /\ MonInit /\ DisplayInit /\ SwapInit
    /\ LocalListInit
    /\ block # "monitoring" => sweeper = "monitors"

JobsNext ==
    \/ /\ block = "firmware" /\ FwNext
       /\ UNCHANGED <<block, pubVars, logVars, monVars, displayVars, swapVars, listVars>>
    \/ /\ block = "publish" /\ PubNext
       /\ UNCHANGED <<block, fwVars, logVars, monVars, displayVars, swapVars, listVars>>
    \/ /\ block = "log" /\ LogNext
       /\ UNCHANGED <<block, fwVars, pubVars, monVars, displayVars, swapVars, listVars>>
    \/ /\ block = "monitoring" /\ MonNext
       /\ UNCHANGED <<block, fwVars, pubVars, logVars, displayVars, swapVars, listVars>>
    \/ /\ block = "display" /\ DisplayNext
       /\ UNCHANGED <<block, fwVars, pubVars, logVars, monVars, swapVars, listVars>>
    \/ /\ block = "swap" /\ SwapNext
       /\ UNCHANGED <<block, fwVars, pubVars, logVars, monVars, displayVars, listVars>>
    \/ /\ block = "list" /\ LocalListNext
       /\ UNCHANGED <<block, fwVars, pubVars, logVars, monVars, displayVars, swapVars>>

\* The worker loops keep being polled, their downloads and uploads return or
\* fail, and a driver's session ends.
JobsSpec ==
    /\ JobsInit /\ [][JobsNext]_jobVars
    /\ WF_fwVars(block = "firmware" /\ FwWorkerSteps)
    /\ WF_fwVars(block = "firmware" /\ SessionEnds)
    /\ WF_logVars(block = "log" /\ LogSteps)
    /\ WF_listVars(block = "list" /\ EraserSteps)
    /\ WF_listVars(block = "list" /\ LocalListUpdated)

-----------------------------------------------------------------------------
\* Firmware: the newest request is the one in hand, EVSEs are withheld only
\* while it needs them, and no more images are published than fit
\* (firmware.rs, publish_firmware.rs).
FirmwareIsOrderly ==
    FwTypeOK /\ NewestIsInHand /\ WithheldOnlyWhileUpdating /\ PublishedIsBounded

\* The smaller stores: the display shows the message in force, a swap the
\* station refused leaves nothing behind, and a version of the local list names
\* one list (display_message.rs, battery_swap.rs, local_authorization_list.rs).
StoresAreCurrent ==
    /\ DisplayTypeOK /\ ScreenIsCurrent
    /\ SwapTypeOK /\ RejectedLeavesNothing
    /\ LocalListTypeOK /\ VersionNamesTheList

\* Every update and every upload comes to an end the CSMS is told of, and every
\* inquiry about a customer to its end (firmware.rs, diagnostics.rs,
\* customer_information.rs).
JobsSettle == FirmwareSettles /\ UploadsAnswered /\ InquiriesEnd

=============================================================================
