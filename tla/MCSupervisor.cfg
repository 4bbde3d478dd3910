\* One plugin, two versions, three changes and a fault.
CONSTANTS
  p1 = p1
  v1 = v1
  v2 = v2
  Plugins <- OnePlugin
  Versions = {v1, v2}
  MaxBackoff = 3
  MaxChanges = 3
  MaxFaults = 1
SPECIFICATION Spec
INVARIANTS OneProcess LeavesOnlyLate
PROPERTIES ManifestFollowed JoinsReturn
\* The process ends.
CHECK_DEADLOCK FALSE
