SPECIFICATION ScenarioSpec
CONSTANTS
    None = None
    IdTokens = {alice}
    ExemptTokens = {}
    RemoteStartIds = {7}
    ReservationIds = {3, 4}
    Prices = {0, 1}
    Currents = {}
    Connectors = {1, 2}
    Evses = {1, 2}
    EvseOf <- OwnEvse
    ConnectorEvents <- SessionEvents
    StationEvents <- ResetEvents
    Policies <- ScenarioPolicies
    MaxTransactions = 2
    MaxSeqNo = 5
INVARIANTS
    TypeOK
    SlotAgreesWithReports
    FaultEndsTransaction
    ReservationsAreSettled
    SteadyEnergyHasTransaction
    CeilingsAreHeld
    RebootsAreSettled
    IdsNeverReused
PROPERTIES
    ReportsAreChained
