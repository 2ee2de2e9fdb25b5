\* One session that stops, starts and resets its video, a listener of both tracks.
CONSTANTS
  None = None
  Publishers = {p1}
  Listeners = {l1}
  AudioListeners = {l1}
  VideoListeners = {l1}
  Media3 = {l1}
  Inputs = {"audio", "key", "delta", "video_start", "video_stop", "video_reset", "force_resync"}
  MayRefuse = FALSE
  Buffer = 1
  MaxAudioBacklog = 1
  MaxCommands = 3
SPECIFICATION FairSpec
INVARIANTS NoGap
PROPERTIES PictureSettles SilenceReturns
CHECK_DEADLOCK FALSE
