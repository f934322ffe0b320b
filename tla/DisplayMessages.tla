-------------------------- MODULE DisplayMessages --------------------------
(***************************************************************************)
(* The display (display_message.rs, state/display_message.rs): the CSMS    *)
(* installs and clears messages, the station's own condition decides which *)
(* of them applies, and run_display_updates renders the derived message    *)
(* each time it differs from the last one it rendered.  Rendering is an    *)
(* await: messages and conditions go on changing while it lasts, and it    *)
(* may fail, in which case it is not tried again.                          *)
(***************************************************************************)
EXTENDS Integers, FiniteSets

CONSTANTS
    MessageIds, Priorities,   \* small sets of numbers; a higher priority wins
    Conditions,               \* the conditions a station may be in at once
    MaxMessages               \* StateLimits::max_display_messages

ASSUME DisplayAssumption ==
    /\ MessageIds \subseteq Int /\ Priorities \subseteq Int
    /\ Conditions \subseteq {"Faulted", "Charging", "Unavailable"}
    /\ MaxMessages \in Nat \ {0}

VARIABLES
    stored,      \* the DisplayMessageStore, a set of messages
    conditions,  \* what holds of some connector, EVSE or the station
    shown,       \* the task's memory of what it last rendered
    rendering,   \* the message being rendered, AtRest when the task waits
    fresh,       \* whether the state changed since the task last looked
    screen, spoiled    \* what the driver sees; whether the last render failed

displayVars == <<stored, conditions, shown, rendering, fresh, screen, spoiled>>

Blank   == [id |-> 0, priority |-> 0, state |-> "Blank"]
AtRest  == [id |-> 0, priority |-> 0, state |-> "AtRest"]
Message == [id : MessageIds, priority : Priorities, state : Conditions \union {"Any"}]

\* current_message_state: a fault outranks charging, which outranks being
\* unavailable.
CurrentMessageState ==
    IF "Faulted" \in conditions THEN "Faulted"
    ELSE IF "Charging" \in conditions THEN "Charging"
    ELSE IF "Unavailable" \in conditions THEN "Unavailable"
    ELSE "Idle"

\* current_message: the applicable message of the highest priority, the lowest
\* id among equals.
Outranks(a, b) == a.priority > b.priority \/ (a.priority = b.priority /\ a.id <= b.id)

CurrentMessage ==
    LET applicable == {x \in stored : x.state \in {"Any", CurrentMessageState}}
    IN  IF applicable = {} THEN Blank
        ELSE CHOOSE x \in applicable : \A y \in applicable : Outranks(x, y)

\* run_display_updates renders the first derivation before it listens.
DisplayInit ==
    /\ stored = {} /\ conditions = {}
    /\ shown = Blank /\ rendering = Blank /\ fresh = FALSE
    /\ screen = Blank /\ spoiled = FALSE

\* DisplayMessageStore::set as handle_set_display_message calls it; the refusal
\* at the limit is the only one left, and changes nothing.
Others(x) == {y \in stored : y.id # x.id}

HasRoomFor(x) == Others(x) # stored \/ Cardinality(stored) < MaxMessages

SetDisplayMessage(x) ==
    /\ HasRoomFor(x)
    /\ stored' = Others(x) \union {x}
    /\ fresh' = TRUE
    /\ UNCHANGED <<conditions, shown, rendering, screen, spoiled>>

ClearDisplayMessage(x) ==
    /\ x \in stored
    /\ stored' = stored \ {x}
    /\ fresh' = TRUE
    /\ UNCHANGED <<conditions, shown, rendering, screen, spoiled>>

ConditionChanges(k) ==
    /\ conditions' = IF k \in conditions THEN conditions \ {k} ELSE conditions \union {k}
    /\ fresh' = TRUE
    /\ UNCHANGED <<stored, shown, rendering, screen, spoiled>>

\* updates.changed(): a change during a render is kept for the next look.
Look ==
    /\ rendering = AtRest /\ fresh
    /\ fresh' = FALSE
    /\ rendering' = IF CurrentMessage # shown THEN CurrentMessage ELSE AtRest
    /\ UNCHANGED <<stored, conditions, shown, screen, spoiled>>

LostDuringRender == FALSE
SeenBeforeRender == fresh

\* display.show returned: whatever it returned, the task takes it as shown.
Rendered(ok) ==
    /\ rendering # AtRest
    /\ shown' = rendering
    /\ screen' = IF ok THEN rendering ELSE screen
    /\ spoiled' = ~ok
    /\ rendering' = AtRest
    /\ fresh' = SeenBeforeRender
    /\ UNCHANGED <<stored, conditions>>

DisplayNext ==
    \/ \E x \in Message : SetDisplayMessage(x) \/ ClearDisplayMessage(x)
    \/ \E k \in Conditions : ConditionChanges(k)
    \/ Look
    \/ \E ok \in BOOLEAN : Rendered(ok)

DisplaySpec == DisplayInit /\ [][DisplayNext]_displayVars

-----------------------------------------------------------------------------
\* The store keeps its limit and one message per id.
DisplayTypeOK ==
    /\ stored \subseteq Message /\ Cardinality(stored) <= MaxMessages
    /\ \A x, y \in stored : x.id = y.id => x = y
    /\ conditions \subseteq Conditions
    /\ {shown, screen} \subseteq Message \union {Blank}
    /\ rendering \in Message \union {Blank, AtRest}

\* Once the task has nothing left to look at, the driver sees the message that
\* the present state derives, whatever changed while earlier messages were
\* rendered - unless the last render failed, after which the stale message
\* stays until the derivation moves again (run_display_updates).
ScreenIsCurrent ==
    rendering = AtRest /\ ~fresh /\ ~spoiled => screen = CurrentMessage
=============================================================================
