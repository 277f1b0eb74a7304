SPECIFICATION ServicesSpec
CONSTANTS
  Files = {"a", "b"}
  Submitters = {"v", "w"}
  Contents <- MCContents
  Newline = "n"
  ChunkSize = 6
  IngestWorkers = 1
  MaxIngestRuns = 3
  MaxAttFaults = 2
  Events = {e1, e2}
  TicksPerSecond = 2
  MaxClock = 3
  HubBuffer = 1
  MaxEvFaults = 1
  Servers = {"git"}
  Runs = {"r1", "r2"}
  MaxAttempts = 2
  MaxOutages = 3
  Callers = {c1, c2}
  MaxRestarts = 2
  MaxSessions = 4
  MaxCallFaults = 1
  Requests = {q1, q2}
  Rate = 1
  Burst = 2
  MaxTicks = 3
  Parents = {"v", "w"}
  Suggestions <- MCSuggestions
  AutoPromoted = {"w"}
  MaxImpFaults = 2
INVARIANTS
  DocumentsReadable
  LossExplained
  FailsOnlyIfDisturbed
  AdmittedBounded
  ImprovementErrorsExplained
PROPERTIES
  Reconnects
CHECK_DEADLOCK FALSE
