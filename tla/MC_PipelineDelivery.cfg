SPECIFICATION Spec
CONSTANTS
  RequiredSets <- Full
  Stacks = {"toolchain"}
  Deliveries = {TRUE}
  OptionSets <- Bounded
  MaxRuns = 2
INVARIANTS CompletedDelivered
CHECK_DEADLOCK FALSE
