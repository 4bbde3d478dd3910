---------------------------- MODULE MCSupervisor ----------------------------
(***************************************************************************)
(* Supervisor for TLC.  Two plugins share only the set of ids, the scan    *)
(* and the handles; one plugin with two versions shows the rest.           *)
(***************************************************************************)
EXTENDS Supervisor

CONSTANTS p1, v1, v2   (* model values *)

OnePlugin == {p1}
=============================================================================
