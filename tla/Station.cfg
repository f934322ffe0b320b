SPECIFICATION StationSpec
CHECK_DEADLOCK FALSE
CONSTANTS
    None = None
    IdTokens = {alice}
    ExemptTokens = {}
    RemoteStartIds = {}
    ReservationIds = {3}
    Prices = {}
    Currents = {}
    Connectors = {1, 2}
    Evses = {1, 2}
    EvseOf <- OwnEvse
    ConnectorEvents <- NoEvents
    StationEvents <- NoEvents
    Policies <- StationPolicies
    MaxTransactions = 2
    MaxSeqNo = 3
    Capacity = 5
    Requests <- StationRequests
    Driven = {1}
    MaxFailures = 1
    MaxCalls = 2
    MaxMoves = 2
INVARIANTS
    PowerIsGuarded
    SingleFaultIsSafe
    HandlersAreFaithful
PROPERTIES
    WaitsEnd
