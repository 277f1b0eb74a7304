SPECIFICATION Spec
CONSTANTS
  Workflows = {a}
  Workers = {w1}
  Callers = {boot, c1}
  Boot = boot
  QueueCap = 2
  MaxRetries = 0
  MaxTickets = 4
  ApiOps = {"create", "cancel"}
  MaxRequests = 2
  MaxRestarts = 0
  MaxFaults = 0
PROPERTIES CancelIsTerminal
CHECK_DEADLOCK FALSE
