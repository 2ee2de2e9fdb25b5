\* Both counters wrap, the video's twice; silences within half its range.
CONSTANTS
  None = None
  Tracks <- MCTracks
  Rate <- MCRate
  Common = 2
  Modulus = 8
  Reanchor = 5
  Joined = 3
  Silence <- MCShort
  Buffer = 2
  MaxTime = 10
  MaxEpoch = 2
SPECIFICATION Spec
INVARIANTS TypeOK OneLag
CHECK_DEADLOCK FALSE
