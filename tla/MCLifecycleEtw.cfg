\* The kernel spool and ETW.
CONSTANT Optional = {"etw"}
SPECIFICATION Spec
INVARIANT KernelSpoolSealed
\* The process ends.
CHECK_DEADLOCK FALSE
