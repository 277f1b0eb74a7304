SPECIFICATION FairSpec
CONSTANTS
  NumTasks = 3
  NumPlanned = 2
  Concurrency = 2
  MaxRuns = 3
  MaxFaults = 1
INVARIANTS
  TypeOK
  DependenciesStored
  OnlyCutTasksStranded
  IdleRowSettled
PROPERTIES
  
  RunnableAllRun
  PhaseEnds
CHECK_DEADLOCK FALSE
