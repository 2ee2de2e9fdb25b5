\* One capture that is hidden, shown and hidden again.
CONSTANTS
  MaxSources = 1
  MaxWorkers = 1
  MaxCalls = 2
SPECIFICATION Spec
INVARIANTS HiddenNotShown
CHECK_DEADLOCK FALSE
