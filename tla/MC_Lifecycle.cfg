SPECIFICATION Spec
CONSTANTS
  Workflows = {a, b, c}
  Workers = {w1, w2}
  Callers = {boot, c1}
  Boot = boot
  QueueCap = 1
  MaxRetries = 0
  MaxTickets = 5
  ApiOps = {"create", "cancel", "resume", "planning"}
  MaxRequests = 3
  MaxRestarts = 2
  MaxFaults = 2
INVARIANTS
  SingleRun
  RunningRowHasRunner
PROPERTIES
  CancelledRowNotRevived
  CompletedStays
SYMMETRY Symmetry
CHECK_DEADLOCK FALSE
