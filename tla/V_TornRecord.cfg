\* The records of running transactions on a medium that can tear a write.
CONSTANTS
    Blocks = {"recovery"}
    Forwarder = forwarder
    Flushers = {reconnect}
    Timers = {}
    CappedTasks = {}
    MaxAttempts = 2
    Capacity = 2
    Policy = "DropNewest"
    MarksOffline = TRUE
    MaxMessages = 3
    MaxFailures = 1
    WriteThreshold = 1
    MaxCrashes = 1
    Payloads = {p1, p2}
    Absent = Absent
    Nothing = Nothing
    SeqSpace = 5
    MaxStores = 9
    NumConnectors = 2
    AtomicMedium = FALSE
    MeterThreshold = 2
    Steps = {1}
    MaxIds = 2
    MaxEnergy = 3
    MaxLag = 1
    MaxCuts = 1
    MaxFailedWrites = 1
    Kinds = {"cache", "profiles", "networks", "list", "reservations", "model"}
    Entries = {x, y}
    ModelThreshold = 2
    MaxEdits = 3
    MaxOutages = 2
    MaxLostWrites = 1
    LogCapacity = 2
    MaxRaised = 3
    MaxClears = 2
    MaxBlackouts = 1
    MaxUnwritten = 1
SPECIFICATION DurabilitySpec
CHECK_DEADLOCK FALSE
INVARIANT
    RecordedIsAccountedFor
