\* One plugin that crashes, and one change of its manifest.
CONSTANTS
  p1 = p1
  v1 = v1
  v2 = v2
  Plugins <- OnePlugin
  Versions = {v1, v2}
  MaxBackoff = 3
  MaxChanges = 1
  MaxFaults = 0
SPECIFICATION Spec
PROPERTY RevokedStaysDown
\* The process ends.
CHECK_DEADLOCK FALSE
