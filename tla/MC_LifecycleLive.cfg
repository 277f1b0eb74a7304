SPECIFICATION FairSpec
CONSTANTS
  Workflows = {a}
  Workers = {w1, w2}
  Callers = {boot, c1}
  Boot = boot
  QueueCap = 2
  MaxRetries = 1
  MaxTickets = 4
  ApiOps = {"create", "cancel", "resume"}
  MaxRequests = 2
  MaxRestarts = 1
  MaxFaults = 1
PROPERTIES
  RunningEnds
CHECK_DEADLOCK FALSE
