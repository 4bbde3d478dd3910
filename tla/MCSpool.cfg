\* A writer that may fail, crash and restart, with the producers and the shipper.
CONSTANTS
  handle = handle
  submitter = submitter
  Senders <- MCSenders
  Base = 10
  MaxClock = 1
  MaxSeals = 3
  Capacity = 2
  MaxFileLines = 2
  MaxTotal = 2
  SaneClock = TRUE
  MaxOffered = 3
  MaxRuns = 2
  MaxFaults = 2
SPECIFICATION Spec
INVARIANTS LineAccounting StatsAccount SubmissionOrder FreshName
PROPERTIES EvictsOldest CleanExit HeldIsTransient WriterExits
\* The bounds stop the producers and the restarts, and a run may just end.
CHECK_DEADLOCK FALSE
