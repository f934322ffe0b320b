----------------------------- MODULE Snapshots -----------------------------
(***************************************************************************)
(* The stores that keep one whole-set snapshot each (persistence.rs):      *)
(* authorization cache, charging profiles, network profiles, local list,   *)
(* reservations, device model attributes.  A task watches the state, which *)
(* coalesces changes, compares what it sees with what it last handed to    *)
(* the storage, and writes; a boot reads the snapshot back through the     *)
(* state machine, which may turn entries away.  One behaviour follows one  *)
(* store: `kind` is fixed by the initial state.                            *)
(***************************************************************************)
EXTENDS Integers, FiniteSets

CONSTANTS
    Kinds,             \* the stores looked at
    Entries,           \* what a set may hold
    ModelThreshold,    \* DeviceModelStore::write_threshold
    MaxEdits, MaxOutages, MaxLostWrites     \* bounds

SnapshotKinds == {"cache", "profiles", "networks", "list", "reservations", "model"}

ASSUME SnapshotAssumption ==
    /\ Kinds \subseteq SnapshotKinds /\ IsFiniteSet(Entries)
    /\ ModelThreshold \in Nat
    /\ MaxEdits \in Nat /\ MaxOutages \in Nat /\ MaxLostWrites \in Nat

VARIABLES
    kind,
    held,        \* the live set, and the version it carries
    stale,       \* the watched state changed since the task last looked
    lastSaved,   \* the task's `last`
    skipped,     \* mutations_since_write
    writing,     \* the snapshot on its way to the storage
    stored,      \* durable
    outdated,    \* entries whose expiry has passed
    occupied,    \* the entries' connectors are not Available
    stage,       \* "up", or where the boot stands
    lostWrite,   \* the last write failed
    used         \* edits, outages, lost writes so far

snapVars == <<kind, held, stale, lastSaved, skipped, writing, stored, outdated,
              occupied, stage, lostWrite, used>>

Nowhere == [set |-> {}, version |-> 0]
NotWriting == [set |-> {}, version |-> 0 - 1]
NeverSaved == [set |-> {}, version |-> 0 - 1]
Expiring == kind \in {"profiles", "reservations"}

SnapInit ==
    /\ kind \in Kinds
    /\ held = Nowhere /\ stored = Nowhere /\ stale = FALSE
    /\ lastSaved = IF kind = "list" THEN NeverSaved ELSE Nowhere
    /\ skipped = 0 /\ writing = NotWriting /\ outdated = {} /\ occupied = FALSE
    /\ stage = "up" /\ lostWrite = FALSE
    /\ used = [edits |-> 0, outages |-> 0, lost |-> 0]

----------------------------------------------------------------------------
(* The state changes: an edit of the set.  Network profiles and registered *)
(* attributes are overwritten, never removed; a set of the others may be   *)
(* emptied, entry by entry or at once.  A differential update of the local *)
(* list moves it to the next version, a full one to any version, also to   *)
(* the one it has.                                                         *)
EditedVersions == IF kind = "list" THEN 0 .. held.version + 1 ELSE {0}

Edit ==
    /\ stage = "up" /\ used.edits < MaxEdits
    /\ \E s \in SUBSET Entries, v \in EditedVersions :
          /\ s # held.set
          /\ kind \in {"networks", "model"} => held.set \subseteq s
          /\ held' = [set |-> s, version |-> v]
    /\ stale' = TRUE
    /\ used' = [used EXCEPT !.edits = @ + 1]
    /\ UNCHANGED <<kind, lastSaved, skipped, writing, stored, outdated, occupied,
                   stage, lostWrite>>

\* A change of the state that leaves the set alone.
UnrelatedChange ==
    /\ stage = "up" /\ ~stale /\ stale' = TRUE
    /\ UNCHANGED <<kind, held, lastSaved, skipped, writing, stored, outdated, occupied,
                   stage, lostWrite, used>>

\* The clock passes an entry's expiry; the hardware reports a connector in use.
PassExpiry ==
    /\ Expiring
    /\ \E e \in Entries \ outdated : outdated' = outdated \cup {e}
    /\ UNCHANGED <<kind, held, stale, lastSaved, skipped, writing, stored, occupied,
                   stage, lostWrite, used>>

Occupy ==
    /\ kind = "reservations" /\ ~occupied /\ held.set = {} /\ occupied' = TRUE
    /\ UNCHANGED <<kind, held, stale, lastSaved, skipped, writing, stored, outdated,
                   stage, lostWrite, used>>

Vacate ==
    /\ occupied /\ occupied' = FALSE
    /\ UNCHANGED <<kind, held, stale, lastSaved, skipped, writing, stored, outdated,
                   stage, lostWrite, used>>

----------------------------------------------------------------------------
(* The persistence tasks.  All but two compare the whole set; the list's   *)
(* compares versions.                                                      *)

AuthorizationCacheDiffers == held # lastSaved
ChargingProfilesDiffer    == held # lastSaved
NetworkProfilesDiffer     == held # lastSaved
ReservationsDiffer        == held # lastSaved
LocalListDiffers          == held.version # lastSaved.version
DeviceModelDiffers        == held # lastSaved

Differs ==
    CASE kind = "cache"        -> AuthorizationCacheDiffers
      [] kind = "profiles"     -> ChargingProfilesDiffer
      [] kind = "networks"     -> NetworkProfilesDiffer
      [] kind = "reservations" -> ReservationsDiffer
      [] kind = "list"         -> LocalListDiffers
      [] kind = "model"        -> DeviceModelDiffers

\* device_model_persistence_decision; the other tasks write every change.
DecideWrite == kind # "model" \/ skipped + 1 >= ModelThreshold

LookUp ==
    /\ stage = "up" /\ writing = NotWriting /\ stale
    /\ stale' = FALSE
    /\ \/ ~Differs /\ UNCHANGED <<writing, skipped>>
       \/ Differs /\ DecideWrite /\ writing' = held /\ UNCHANGED skipped
       \/ Differs /\ ~DecideWrite /\ skipped' = skipped + 1 /\ UNCHANGED writing
    /\ UNCHANGED <<kind, held, lastSaved, stored, outdated, occupied, stage, lostWrite,
                   used>>

\* store.save, whose result the task ignores.
SaveRemembersLive(reached) ==
    /\ writing # NotWriting
    /\ reached \/ used.lost < MaxLostWrites
    /\ stored' = IF reached THEN writing ELSE stored
    /\ used' = IF reached THEN used ELSE [used EXCEPT !.lost = @ + 1]
    /\ lostWrite' = ~reached
    /\ lastSaved' = held /\ writing' = NotWriting /\ skipped' = 0
    /\ UNCHANGED <<kind, held, stale, outdated, occupied, stage>>

Save(reached) ==
    /\ writing # NotWriting
    /\ reached \/ used.lost < MaxLostWrites
    /\ stored' = IF reached THEN writing ELSE stored
    /\ used' = IF reached THEN used ELSE [used EXCEPT !.lost = @ + 1]
    /\ lostWrite' = ~reached
    /\ lastSaved' = writing /\ writing' = NotWriting /\ skipped' = 0
    /\ UNCHANGED <<kind, held, stale, outdated, occupied, stage>>

----------------------------------------------------------------------------
(* A power cut, and the boot. *)

Outage ==
    /\ used.outages < MaxOutages /\ used' = [used EXCEPT !.outages = @ + 1]
    /\ stage' = "restoring" /\ held' = Nowhere /\ writing' = NotWriting
    /\ stale' = FALSE /\ skipped' = 0 /\ lostWrite' = FALSE
    /\ UNCHANGED <<kind, lastSaved, stored, outdated, occupied>>

\* What the restore hands over, and what the state machine then holds.  An
\* unsynchronized clock expires nothing.
RestoreAuthorizationCache(synced) == stored
RestoreChargingProfiles(synced) ==
    IF synced THEN [stored EXCEPT !.set = @ \ outdated] ELSE stored
RestoreNetworkProfiles(synced) == stored
RestoreLocalList(synced) == stored
RestoreDeviceModel(synced) == stored
KeptReservations(synced) ==
    IF synced THEN [stored EXCEPT !.set = @ \ outdated] ELSE stored
RestoreReservations(synced) ==
    IF occupied THEN Nowhere ELSE KeptReservations(synced)

Restored(synced) ==
    CASE kind = "cache"        -> RestoreAuthorizationCache(synced)
      [] kind = "profiles"     -> RestoreChargingProfiles(synced)
      [] kind = "networks"     -> RestoreNetworkProfiles(synced)
      [] kind = "reservations" -> RestoreReservations(synced)
      [] kind = "list"         -> RestoreLocalList(synced)
      [] kind = "model"        -> RestoreDeviceModel(synced)

\* The task's `last` starts empty; the list's at no version; the device
\* model's at what the storage holds.
FreshLast ==
    CASE kind = "list"  -> NeverSaved
      [] kind = "model" -> stored
      [] OTHER          -> Nowhere

\* restore_reservations also writes back what it handed over; the receiver has
\* seen nothing, so the task looks at once.
Restore(synced) ==
    /\ stage = "restoring" /\ stage' = "up"
    /\ held' = Restored(synced)
    /\ stored' = IF kind = "reservations" THEN KeptReservations(synced) ELSE stored
    /\ lastSaved' = FreshLast
    /\ stale' = TRUE
    /\ UNCHANGED <<kind, skipped, writing, outdated, occupied, lostWrite, used>>

SnapNext ==
    \/ Edit \/ UnrelatedChange \/ PassExpiry \/ Occupy \/ Vacate
    \/ LookUp \/ \E reached \in BOOLEAN : Save(reached)
    \/ Outage \/ \E synced \in BOOLEAN : Restore(synced)

SnapSpec == SnapInit /\ [][SnapNext]_snapVars

----------------------------------------------------------------------------
\* The task has seen everything, nothing is being written or put off, and the
\* last write went through.
AtRest ==
    stage = "up" /\ ~stale /\ writing = NotWriting /\ skipped = 0 /\ ~lostWrite

(* The types; only the device model's task ever puts a write off, and      *)
(* never more than its threshold allows.                                   *)
SnapTypeOK ==
    /\ kind \in Kinds
    /\ held.set \subseteq Entries /\ stored.set \subseteq Entries
    /\ writing = NotWriting \/ writing.set \subseteq Entries
    /\ skipped \in Nat
    /\ skipped > 0 => kind = "model" /\ skipped < ModelThreshold
    /\ stage \in {"up", "restoring"}

(* Whatever changes while a write is under way, and whichever changes the  *)
(* watch coalesces: once a task has settled, a set that holds anything is  *)
(* on disk as it is (run_*_persistence), so the next boot restores it.  Of *)
(* the local list only the version is sure to be: the task compares no     *)
(* more than that.                                                         *)
HeldIsDurable ==
    (AtRest /\ held.set # {}) =>
        IF kind = "list" THEN stored.version = held.version ELSE stored = held

(* "Storage is reconciled to hold only the entries actually restored"      *)
(* (persistence.rs:2966): a settled empty set is empty on disk as well.    *)
DroppedStaysDropped == (AtRest /\ held.set = {}) => stored.set = {}
=============================================================================
