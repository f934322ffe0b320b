\* Dialling, registration, status reports, the certificate and the device model.
CONSTANTS
    Blocks = {"network", "provisioning", "status", "certificate", "model"}
    Origin = a
    Elsewhere = {b, c}
    Reachable = {a, c}
    Slots = {0, 1, 2}
    MaxSlots = 2
    Attempts = {0, 1, 2}
    ActiveSecurity = 2
    AllowDowngrade = FALSE
    MaxWrites = 3
    NoAddress = na
    Loops = {1, 2}
    FirstRetry = 1
    MaxRetry = 2
    StepThreshold = 2
    Intervals = {0, 1, 2}
    MaxTicks = 1
    MaxMoves = 2
    MaxOverlaps = 1
    Sockets = {1, 2}
    Statuses = {"A", "O"}
    AtBoot = "A"
    Debounced = TRUE
    InOrder = FALSE
    QueueCap = 2
    MaxChanges = 3
    MaxDrops = 1
    WaitMinimum = 1
    RepeatTimes = 1
    MaxAsked = 3
    MaxTriggers = 1
    Added = {"A"}
    MirrorSlots = {1, 2}
    MaxVariables = 4
    ChunkSize = 2
    MaxAsks = 2
    MaxBinding = 2
SPECIFICATION ConnectivitySpec
CHECK_DEADLOCK FALSE
INVARIANTS
    TargetIsRecoverable
    ReportsAreRight
    ModelIsHonest
    TimersAreBounded
PROPERTIES
    NetworkComesBack
    RetriesEnd
