\* One producer, two kernel lines, one plugin batch, a crash and a fault.
CONSTANTS
  handle = handle
  Senders = {handle}
  Base = 10
  MaxClock = 1
  MaxSeals = 2
  Capacity = 1
  MaxFileLines = 1
  MaxTotal = 1
  SaneClock = TRUE
  MaxOffered = 2
  MaxRuns = 2
  MaxFaults = 1
  InitBackoff = 6
  MaxBackoff = 6
  MaxPlugin = 1
SPECIFICATION PipelineSpec
INVARIANT BackoffInRange
PROPERTIES KeepsPromise Drains ShipperEnds
CHECK_DEADLOCK FALSE
