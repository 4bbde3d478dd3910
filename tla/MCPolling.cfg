\* Two items in two configurations, two changes, one failure, one refusal.
\* The thread ends with SHUTDOWN.
SPECIFICATION FairSpec
CONSTANTS
  Names = {m, n}
  Configs = {1, 2}
  RescanEvery = 2
  SilentFirst = TRUE
  MaxChanges = 2
  MaxFaults = 1
  MaxRefused = 1
INVARIANTS ViewFollows DeletesAreReal
PROPERTY CatchesUp
CHECK_DEADLOCK FALSE
