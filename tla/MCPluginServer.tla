--------------------------- MODULE MCPluginServer ---------------------------
(***************************************************************************)
(* PluginServer for TLC: one plugin, whose manifest changes, and as many   *)
(* clients of it as like to connect.                                       *)
(***************************************************************************)
EXTENDS PluginServer

CONSTANTS p1, w1, w2, w3   (* model values *)

OnePlugin    == {p1}
ThreeWorkers == {w1, w2, w3}
=============================================================================
