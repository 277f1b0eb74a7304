SPECIFICATION FairSpec
CONSTANTS
  RequiredSets <- Varied
  Stacks = {"none", "workspace", "toolchain"}
  Deliveries = {TRUE, FALSE}
  OptionSets <- FiveOptions
  MaxRuns = 3
INVARIANTS
  CompletedRanAll
  FinalizedValidated
  QABudget
  FirstRunReviewed
PROPERTIES
  RunEnds
CHECK_DEADLOCK FALSE
