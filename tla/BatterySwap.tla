---------------------------- MODULE BatterySwap ----------------------------
(***************************************************************************)
(* RequestBatterySwap (battery_swap.rs, state/battery_swap.rs).  A request *)
(* is stored first, then the station prepares for it, which takes time and *)
(* can fail; the hardware reports batteries going in and out whenever it   *)
(* sees them, for a stored request or for none.  Requests overlap, and a   *)
(* CSMS may repeat one.                                                    *)
(***************************************************************************)
EXTENDS Integers, Sequences, FiniteSets

CONSTANTS
    SwapIds,        \* request ids
    MaxPending,     \* StateLimits::max_pending_battery_swaps
    MaxSwapCalls    \* bound: requests received

ASSUME BatterySwapAssumption ==
    MaxPending \in Nat \ {0} /\ MaxSwapCalls \in Nat

VARIABLES
    pendingSwaps,   \* BatterySwapStore::pending, by request id
    calls           \* the handlers, one per request received

swapVars == <<pendingSwaps, calls>>

SwapInit == pendingSwaps = {} /\ calls = << >>

Call(n, pc) == calls' = [calls EXCEPT ![n].pc = pc]

\* BatterySwapStore::insert: a known id is replaced, a new one needs room.
HasRoomForSwap(id) ==
    id \in pendingSwaps \/ Cardinality(pendingSwaps) < MaxPending

RequestBatterySwap(id) ==
    /\ Len(calls) < MaxSwapCalls
    /\ pendingSwaps' = IF HasRoomForSwap(id) THEN pendingSwaps \union {id} ELSE pendingSwaps
    /\ calls' = Append(calls, [id |-> id, pc |-> "stored"])

\* The handler looks whether its entry is there, then asks the station.
CheckStored(n) ==
    /\ calls[n].pc = "stored"
    /\ Call(n, IF calls[n].id \in pendingSwaps THEN "preparing" ELSE "rejected")
    /\ UNCHANGED pendingSwaps

Prepared(n) ==
    /\ calls[n].pc = "preparing"
    /\ Call(n, "accepted")
    /\ UNCHANGED pendingSwaps

RollBack(id) == pendingSwaps \ {id}

PrepareFailed(n) ==
    /\ calls[n].pc = "preparing"
    /\ pendingSwaps' = RollBack(calls[n].id)
    /\ Call(n, "rejected")

\* report_battery_swap_event.
BatterySwapReported(id) ==
    /\ pendingSwaps' = pendingSwaps \ {id}
    /\ calls' = [n \in DOMAIN calls |->
          IF calls[n].id = id /\ calls[n].pc = "accepted"
          THEN [calls[n] EXCEPT !.pc = "done"] ELSE calls[n]]

SwapNext ==
    \/ \E id \in SwapIds : RequestBatterySwap(id) \/ BatterySwapReported(id)
    \/ \E n \in DOMAIN calls : CheckStored(n) \/ Prepared(n) \/ PrepareFailed(n)

SwapSpec == SwapInit /\ [][SwapNext]_swapVars

-----------------------------------------------------------------------------
\* The store keeps to its bound.
SwapTypeOK ==
    /\ pendingSwaps \subseteq SwapIds /\ Cardinality(pendingSwaps) <= MaxPending
    /\ \A n \in DOMAIN calls :
          calls[n].pc \in {"stored", "preparing", "accepted", "rejected", "done"}

\* "nor should the store keep an entry the CSMS was just told is rejected"
\* (handle_request_battery_swap): whatever requests, repetitions, failed
\* preparations and reports overlap, an id in the store is one some request
\* is being prepared for or was accepted for, so refusals never eat the bound.
RejectedLeavesNothing ==
    \A id \in pendingSwaps : \E n \in DOMAIN calls :
        calls[n].id = id /\ calls[n].pc \in {"stored", "preparing", "accepted"}
=============================================================================
