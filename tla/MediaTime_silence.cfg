\* Silences as long as the run: wraps of both counters are missed.
CONSTANTS
  None = None
  Tracks <- MCTracks
  Rate <- MCRate
  Common = 2
  Modulus = 8
  Reanchor = 5
  Joined = 3
  Silence <- MCLong
  Buffer = 2
  MaxTime = 8
  MaxEpoch = 1
SPECIFICATION Spec
INVARIANT TracksAgree
CHECK_DEADLOCK FALSE
