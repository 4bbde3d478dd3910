\* Two places, room for a third worker, two changes and a fault.
CONSTANTS
  p1 = p1
  w1 = w1
  w2 = w2
  w3 = w3
  Plugins <- OnePlugin
  MaxSessions = 2
  Workers <- ThreeWorkers
  MaxChanges = 2
  MaxFaults = 1
SPECIFICATION Spec
INVARIANT CapHolds
PROPERTIES RefusesOnlyWhenFull StoreFollows RevocationReaches ThreadsEnd
\* Both threads end.
CHECK_DEADLOCK FALSE
