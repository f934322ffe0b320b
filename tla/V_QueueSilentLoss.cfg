\* The status and security queues: DropOldest, with an overflow during a send.
CONSTANTS
  Forwarder = forwarder
  Flushers = {reconnect}
  Timers = {}
  CappedTasks = {}
  MaxAttempts = 2
  Capacity = 2
  Policy = "DropOldest"
  MarksOffline = FALSE
  MaxMessages = 4
  MaxFailures = 1
SPECIFICATION Spec
INVARIANT NoSilentLoss
