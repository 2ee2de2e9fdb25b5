\* Two sessions one after the other, stopped at any point of a swap; two encoders, buffers of two.
CONSTANTS
  None = None
  Sessions = {s1, s2}
  MaxEncoders = 2
  MaxBlocks = 3
  MaxBuffered = 2
SPECIFICATION FairSpec
INVARIANTS Accounted Backpressure NoStrayEncoder
PROPERTIES SentInOrder SwapSettles
CHECK_DEADLOCK FALSE
