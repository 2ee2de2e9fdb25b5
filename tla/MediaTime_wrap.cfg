\* A video silent for more than half its counter's range.
CONSTANTS
  None = None
  Tracks <- MCTracks
  Rate <- MCRate
  Common = 2
  Modulus = 8
  Reanchor = 5
  Joined = 3
  Silence <- MCVideoLong
  Buffer = 2
  MaxTime = 9
  MaxEpoch = 1
SPECIFICATION Spec
INVARIANT OneLag
CHECK_DEADLOCK FALSE
