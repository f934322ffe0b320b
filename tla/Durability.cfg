\* What is left after a power cut: queue, storage adapter, records, snapshots.
CONSTANTS
    Blocks = {"queue", "storage", "recovery", "snapshots", "seclog"}
    Forwarder = forwarder
    Flushers = {reconnect}
    Timers = {}
    CappedTasks = {}
    MaxAttempts = 2
    Capacity = 2
    Policy = "DropNewest"
    MarksOffline = TRUE
    MaxMessages = 3
    MaxFailures = 1
    WriteThreshold = 1
    MaxCrashes = 1
    Payloads = {p1, p2}
    Absent = Absent
    Nothing = Nothing
    SeqSpace = 5
    MaxStores = 9
    NumConnectors = 2
    AtomicMedium = TRUE
    MeterThreshold = 2
    Steps = {1}
    MaxIds = 2
    MaxEnergy = 2
    MaxLag = 1
    MaxCuts = 1
    MaxFailedWrites = 1
    Kinds = {"cache", "profiles", "networks", "list", "reservations", "model"}
    Entries = {x, y}
    ModelThreshold = 2
    MaxEdits = 3
    MaxOutages = 2
    MaxLostWrites = 1
    LogCapacity = 2
    MaxRaised = 3
    MaxClears = 2
    MaxBlackouts = 1
    MaxUnwritten = 1
SPECIFICATION DurabilitySpec
CHECK_DEADLOCK FALSE
INVARIANTS
    BacklogIsReplayed
    RecordsSurvive
    StoredIsDurable
PROPERTIES
    AtomicRegister
