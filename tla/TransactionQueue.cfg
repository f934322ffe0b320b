\* Forwarder, reconnect flush and a retry timer with a cap on attempts.
CONSTANTS
  Forwarder = forwarder
  Flushers = {reconnect, retry}
  Timers = {retry}
  CappedTasks = {retry}
  MaxAttempts = 1
  Capacity = 2
  Policy = "DropNewest"
  MarksOffline = TRUE
  MaxMessages = 3
  MaxFailures = 1
SPECIFICATION FairSpec
INVARIANTS
    SendsAreOrderly
    NoSilentLoss
PROPERTIES
    ImplementsOrderedDelivery
    EveryReportSettles
