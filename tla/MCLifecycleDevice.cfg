\* The driver fails under an agent that nobody stops.
CONSTANT Optional = {"reload", "shipper"}
SPECIFICATION Spec
PROPERTY TeardownEnds
\* The process ends.
CHECK_DEADLOCK FALSE
