\* Cards, contracts and remote starts on one connector, settings changing.
CONSTANTS
    None = None
    IdTokens = {"alice", "free"}
    ExemptTokens = {"free"}
    RemoteStartIds = {7}
    ReservationIds = {}
    Prices = {}
    Currents = {}
    Connectors = {c1}
    Evses = {v1}
    EvseOf <- OneEvse
    ConnectorEvents <- VisitEvents
    StationEvents <- NoStationEvents
    Policies <- VisitPolicies
    MaxTransactions = 1
    MaxSeqNo = 1
    Switches <- SomeSwitches
    LocalLists <- SomeLists
    CacheSize = 1
    MaxAsks = 2
    MaxTime = 1
SPECIFICATION AuthSpec
CHECK_DEADLOCK FALSE
INVARIANTS
    GrantsAreCurrent
PROPERTIES
    AcceptancesAreGrounded
    AuthorizingIsAnswered
