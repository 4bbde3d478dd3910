\* Commands of each kind, publications of profiles, edits of the rules: two
\* orders in all, one failure, one crash.
\* The system stops when the host is cut off for good or every bound is used.
SPECIFICATION FairSpec
CONSTANTS
  MaxOrders = 2
  MaxFaults = 1
  MaxCrashes = 1
  Kinds <- AllKinds
  Template <- MCTemplate
  Malformed <- SecondMalformed
  Overrides <- MCOverrides
  LocalGroups <- MCLocalGroups
  Unparsable <- MCUnparsable
INVARIANTS ReferenceKept FileNeverLost ReexecutionNeedsLoss AppliedOrReported RestartsBounded ConfigInForce
PROPERTIES CommandsDrain ProfileFollows LocalEditTaken
CHECK_DEADLOCK FALSE
