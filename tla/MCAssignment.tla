---------------------------- MODULE MCAssignment ----------------------------
(* Small instances of Assignment for TLC.                                   *)
EXTENDS Assignment
=============================================================================
