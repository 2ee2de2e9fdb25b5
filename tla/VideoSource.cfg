\* Three captures, so that a replacement is replaced; two workers.
CONSTANTS
  MaxSources = 3
  MaxWorkers = 2
  MaxCalls = 4
SPECIFICATION FairSpec
INVARIANTS NothingStray ServerInStep
PROPERTIES RequestSettles
CHECK_DEADLOCK FALSE
