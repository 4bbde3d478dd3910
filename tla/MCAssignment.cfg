\* Two packages, one of them in two versions, three orders of the server, one failure, one crash.
\* The agent has nothing to do when all is settled and the bounds are used.
SPECIFICATION FairSpec
CONSTANTS
  Packages = {p, q}
  MaxVersion = 2
  Single = {q}
  Hashed = TRUE
  MaxOrders = 3
  MaxFaults = 1
  MaxCrashes = 1
INVARIANTS VerifiedOnly OrphansNeedLoss StartedIsEnrolled
PROPERTY Settles
CHECK_DEADLOCK FALSE
