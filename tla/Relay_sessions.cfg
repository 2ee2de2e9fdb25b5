\* Two sessions one after the other, one listener of both tracks.
CONSTANTS
  None = None
  Publishers = {p1, p2}
  Listeners = {l1}
  AudioListeners = {l1}
  VideoListeners = {l1}
  Media3 = {}
  Inputs = {"audio", "key", "delta"}
  MayRefuse = TRUE
  Buffer = 2
  MaxAudioBacklog = 1
  MaxCommands = 2
SPECIFICATION Spec
SYMMETRY Symmetry
INVARIANTS NoForeignDelta OwnAnchor
CHECK_DEADLOCK FALSE
