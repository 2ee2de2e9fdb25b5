\* Two streams; every channel of a range of eight asked for, six requests.
CONSTANTS
  None = None
  Streams = {a, b}
  Top = 7
  MaxRequests = 6
  Timeout = 2
SPECIFICATION Spec
INVARIANTS ChannelsDisjoint Playable OneStream
PROPERTY HandshakeEnds
CHECK_DEADLOCK FALSE
