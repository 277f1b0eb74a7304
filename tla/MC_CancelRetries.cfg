SPECIFICATION FairSpec
CONSTANTS
  Workflows = {a}
  Workers = {w1}
  Callers = {boot, c1}
  Boot = boot
  QueueCap = 1
  MaxRetries <- NoLimit
  MaxTickets = 1
  ApiOps = {"create", "cancel"}
  MaxRequests = 2
  MaxRestarts = 0
  MaxFaults = 0
PROPERTIES RetriesStopAfterCancel
CHECK_DEADLOCK FALSE
