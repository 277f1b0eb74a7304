SPECIFICATION FairSchedSpec
CONSTANTS
  Workflows = {a}
  Workers = {w1, w2}
  Callers = {c1}
  QueueCap = 2
  MaxRetries = 1
  MaxTickets = 3
INVARIANTS
  TypeOK
  TicketInOnePlace
  RetryBudget
  CleanShutdown
PROPERTIES
  ImplementsPool
  TicketSettles
  ShutdownCompletes
