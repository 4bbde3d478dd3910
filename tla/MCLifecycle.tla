---------------------------- MODULE MCLifecycle ----------------------------
(***************************************************************************)
(* Lifecycle for TLC, with every subsystem or with some.                   *)
(***************************************************************************)
EXTENDS Lifecycle

AllThreads == Joined \ {"kwriter"}
=============================================================================
