\* Any configuration, any stop, any forced exit.
CONSTANT Optional <- AllThreads
SPECIFICATION Spec
INVARIANTS CleanReturn TeardownSeals
PROPERTY StopEnds
\* The process ends.
CHECK_DEADLOCK FALSE
