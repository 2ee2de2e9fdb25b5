\* A source, a placeholder, a change of quality, a congestion that comes and goes.
CONSTANTS
  None = None
  Qualities = {low, high}
  First = low
  EncoderQueue = 1
  SourceBuffer = 1
  MaxSources = 1
  MaxChanges = 1
  MaxPolls = 1
  MaxPosted = 1
  MaxCommands = 1
SPECIFICATION FairSpec
INVARIANTS NoOldPicture GapHeals QualityInStep OutputRuns
PROPERTIES CallsSettle
CHECK_DEADLOCK FALSE
