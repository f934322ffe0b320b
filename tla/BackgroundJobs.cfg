\* Firmware, publishing, logs, monitors, the display, battery swaps and the
\* local list.
CONSTANTS
    Blocks = {"firmware", "publish", "log", "monitoring", "display", "swap", "list"}
    Evses = {e1, e2}
    Requests <- TwoUpdates
    AllowsNew = FALSE
    MaxUpdates = 3
    MaxSessions = 2
    Checksums = {c1, c2, c3}
    MaxPublished = 1
    PublishRetries = {0, 1}
    MaxPublishes = 4
    MaxUnpublishes = 1
    MaxLogs = 4
    LogRetries = {0, 1}
    MaxMonitors = 1
    MaxStreams = 1
    MonitorTypes = {"Upper", "Lower", "Delta", "Periodic"}
    Severities = {9}
    Levels = {8}
    TopValue = 2
    MaxId = 2
    MaxAge = 2
    MaxOrders = 2
    MaxWritten = 2
    MaxLost = 1
    MessageIds = {1, 2}
    Priorities = {1, 2}
    Conditions = {"Charging"}
    MaxMessages = 2
    SwapIds = {s1, s2, s3}
    MaxPending = 2
    MaxSwapCalls = 4
    ListTokens = {"card", "code", "other"}
    ValueOf <- CardOrCode
    ListUpdates <- SomeUpdates
    Inquiries <- SomeInquiries
    NoToken = "none"
    MaxListEntries = 2
    MaxVersion = 3
    MaxListCalls = 4
SPECIFICATION JobsSpec
CHECK_DEADLOCK FALSE
INVARIANTS
    FirmwareIsOrderly
    CancelledStaysSilent
    MonitorsReport
    StoresAreCurrent
PROPERTIES
    JobsSettle
