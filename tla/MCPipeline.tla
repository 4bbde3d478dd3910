----------------------------- MODULE MCPipeline ----------------------------
(***************************************************************************)
(* Pipeline for TLC.                                                       *)
(***************************************************************************)
EXTENDS Pipeline

CONSTANT handle   (* model value: the end of the channel *)
=============================================================================
