\* A first session on a meter that has counted before.
CONSTANTS
    Blocks = {"cost"}
    Second = 2
    PeriodSecs = 3
    MaxBoundaries = 20
    Window = 5
    Profiles <- QuestionProfiles
    LastInstant = 3
    NumEvses = 1
    Offered <- OfferedProfiles
    External <- ExternalProfiles
    MaxProfiles = 2
    MaxNap = 1
    MaxTime = 2
    MaxDeeds = 3
    TimedConnectors = {c1, c2}
    Ceilings = {1, 3}
    MaxTimed = 2
    MaxClock = 3
    MaxCeilings = 2
    Tariffs <- TwoTariffs
    MaxTariffs = 1
    MeterAtBoot = 1
    MaxMeter = 2
    MaxSessions = 2
    MaxDisturbances = 2
    LastDay = 1
    PricedTariffs <- NightAndThreshold
    Resolution = 2
    DayLength = 6
    Minute = 2
    KWh = 2
    MaxSubIntervals = 3
    FirstInstants = {11}
    ClockMoves <- ReadingGaps
    MeterMoves = {0, 3}
    MaxReadings = 3
SPECIFICATION ChargingSpec
CHECK_DEADLOCK FALSE
INVARIANT
    BilledWithinDelivered
