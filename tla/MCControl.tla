----------------------------- MODULE MCControl -----------------------------
(* Small instances of ControlPlane for TLC.                                 *)
EXTENDS ControlPlane

Rule(enabled, parses, groups) ==
  [enabled |-> enabled, parses |-> parses, groups |-> groups]

\* In the first profile a rule collides with one before it, one is disabled
\* and one does not parse; its last rule collides with the first edit of the
\* local rules.
MCTemplate ==
  << <<Rule(TRUE, TRUE, {"a"}), Rule(TRUE, TRUE, {"a", "b"}),
       Rule(FALSE, TRUE, {"a"}), Rule(TRUE, FALSE, {}),
       Rule(TRUE, TRUE, {"l"})>>,
     <<Rule(TRUE, TRUE, {"a"})>>,
     <<Rule(TRUE, TRUE, {"b"})>> >>

MCOverrides == <<1, 1, 0>>

\* The first edit of the local rules collides with the first profile, the
\* second one does not parse, the third one is in order.
MCLocalGroups == [e \in 0..3 |-> IF e = 1 THEN {"l"} ELSE {}]
MCUnparsable  == {2}

\* A template that cannot be decoded in the place of the second one.
NoneMalformed   == {}
SecondMalformed == {2}

AllKinds == {"kill_process", "scan_now", "quarantine_file", "run_shell",
             "update_agent", "isolate_endpoint", "unisolate_endpoint",
             "update_rules", "restart_module"}
IsolationKinds == {"isolate_endpoint", "unisolate_endpoint"}
=============================================================================
