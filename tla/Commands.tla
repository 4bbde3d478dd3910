------------------------------ MODULE Commands ------------------------------
(***************************************************************************)
(* The commands of the server (control/heartbeat.rs, control/executor.rs): *)
(* a heartbeat brings those that are pending, each is executed and then    *)
(* acknowledged, and the server sends a command again until it has its     *)
(* acknowledgement.                                                        *)
(*                                                                         *)
(* Abstractions.  One file is the target of every quarantine, one shell    *)
(* runs at a time because there is one thread.  The payload of a command   *)
(* is what its execution may find: a file whose hash is not the one named, *)
(* a process that is gone.  Hashing and the walk of a scan have no state.  *)
(***************************************************************************)
EXTENDS Isolation

CONSTANT Kinds  (* the types of command that operators issue                *)

VARIABLES
  pending,      (* at the server: the commands not acknowledged              *)
  acked,        (* at the server: the acknowledgements recorded              *)
  todo,         (* what is left of those the last heartbeat brought          *)
  current,      (* the command being executed or acknowledged                *)
  force,        (* force_profile_pull                                        *)
  attempts,     (* history: how many times each command was executed         *)
  lost,         (* history: acknowledgements that were lost                  *)
  file,         (* the file to quarantine: at its source, at its destination *)
  shell,        (* the child of run_shell, and whether another process holds *)
                (* the end of its pipe                                       *)
  installer     (* the installer of an update: none, downloaded, running     *)

server   == <<pending, acked>>
beatVars == <<todo, current, force, attempts, lost>>
effects  == <<file, shell, installer>>
commandVars == <<isolation, server, beatVars, effects>>

Ids == 1..MaxOrders

CommandOut == [id : Ids, kind : Kinds]
Ack        == [id : Ids, kind : Kinds, status : Statuses]

NoCommand == [id |-> 0, kind |-> "none"]
NoShell == [child |-> "none", held |-> FALSE]

CommandTypes ==
  /\ IsolationTypes
  /\ pending \subseteq CommandOut /\ todo \subseteq CommandOut
  /\ current \in CommandOut \cup {NoCommand}
  /\ acked \in SUBSET Ack /\ force \in BOOLEAN
  /\ attempts \in [Ids -> Nat] /\ lost \in Nat
  /\ file \in [src : BOOLEAN, dst : {"none", "part", "whole"}]
  /\ shell \in [child : {"none", "runs", "blocked", "exited", "killed"},
                held : BOOLEAN]
  /\ installer \in {"none", "good", "bad", "runs"}

CommandsInit ==
  /\ IsolationInit
  /\ pending = {} /\ acked = {} /\ force = FALSE
  /\ todo = {} /\ current = NoCommand
  /\ attempts = [i \in Ids |-> 0] /\ lost = 0
  /\ file = [src |-> TRUE, dst |-> "none"]
  /\ shell = NoShell /\ installer = "none"

----------------------------------------------------------------------------
(* The server                                                               *)

Issue(kind) ==
  /\ Order
  /\ pending' = pending \cup {[id |-> orders + 1, kind |-> kind]}
  /\ UNCHANGED <<isolation, acked, beatVars, effects>>

----------------------------------------------------------------------------
(* The loop over the commands of a heartbeat                                *)

\* The part of a heartbeat that concerns the commands.
ReceiveCommands ==
  /\ todo' = pending /\ force' = FALSE
  /\ UNCHANGED <<isolation, server, current, attempts, lost, effects>>

KnownKinds == {"kill_process", "quarantine_file", "scan_now", "run_shell",
               "isolate_endpoint", "unisolate_endpoint", "update_agent",
               "update_rules", "restart_module"}

\* In the order of the server.  Each type has its executor; one that is not
\* known is acknowledged.
Dispatch ==
  /\ pc = "commands" /\ NoFault
  /\ \E c \in todo :
       /\ \A d \in todo : c.id <= d.id
       /\ current' = c /\ todo' = todo \ {c}
       /\ force' = (force \/ c.kind = "update_rules")
       /\ attempts' = [attempts EXCEPT ![c.id] = @ + 1]
       /\ Goto(IF c.kind \in KnownKinds THEN c.kind ELSE "unknown")
  /\ UNCHANGED <<isolation, server, lost, effects>>

\* The server records an acknowledgement once.
Recorded == [id |-> current.id, kind |-> current.kind, status |-> reply]

Record ==
  /\ acked' = acked \cup {Recorded}
  /\ pending' = {c \in pending : c.id # current.id}

AckLost == /\ IF Reachable THEN Fault ELSE NoFault
           /\ lost' = lost + 1 /\ UNCHANGED server

\* Mutation: only what succeeded is acknowledged.
AckSuccess ==
  /\ pc = "ack"
  /\ \/ Reachable /\ NoFault /\ UNCHANGED lost
        /\ IF reply = "failed" THEN UNCHANGED server ELSE Record
     \/ AckLost
  /\ current' = NoCommand /\ reply' = "none"
  /\ Goto("commands")
  /\ UNCHANGED <<firewall, run, todo, force, attempts, effects>>

AckCommand ==
  /\ pc = "ack"
  /\ \/ Reachable /\ NoFault /\ Record /\ UNCHANGED lost
     \/ AckLost
  /\ current' = NoCommand /\ reply' = "none"
  /\ Goto("commands")
  /\ UNCHANGED <<firewall, run, todo, force, attempts, effects>>

----------------------------------------------------------------------------
(* Commands without state of their own                                      *)

KillProcess ==
  /\ pc = "kill_process"
  /\ \E opened, terminated \in BOOLEAN :
       Answer(IF opened /\ terminated THEN "success" ELSE "failed")
  /\ NoFault /\ UNCHANGED <<firewall, run, server, beatVars, effects>>

ScanNow ==
  /\ pc = "scan_now"
  /\ \E exists \in BOOLEAN : Answer(IF exists THEN "success" ELSE "failed")
  /\ NoFault /\ UNCHANGED <<firewall, run, server, beatVars, effects>>

NoOpAck ==
  /\ pc \in {"update_rules", "restart_module", "unknown"}
  /\ Answer("completed")
  /\ NoFault /\ UNCHANGED <<firewall, run, server, beatVars, effects>>

Simple == KillProcess \/ ScanNow \/ NoOpAck

----------------------------------------------------------------------------
(* quarantine_file                                                          *)

QuarantineChecks ==
  /\ pc = "quarantine_file"
  /\ \/ file.src /\ NoFault /\ Goto("quarantine.rename") /\ UNCHANGED reply
     \/ Answer("failed") /\ IF file.src THEN Fault ELSE NoFault
  /\ UNCHANGED <<firewall, run, server, beatVars, effects>>

\* The destination may be on another volume: then the file is copied.
QuarantineRename ==
  /\ pc = "quarantine.rename" /\ NoFault
  /\ \/ file' = [src |-> FALSE, dst |-> "whole"] /\ Answer("success")
     \/ file' = [file EXCEPT !.dst = "part"] /\ Goto("quarantine.copy")
        /\ UNCHANGED reply
  /\ UNCHANGED <<firewall, run, server, beatVars, shell, installer>>

\* Mutation: the source is removed before the copy is whole.
CopyRemoving ==
  /\ pc = "quarantine.copy"
  /\ \/ /\ file' = [src |-> FALSE, dst |-> "part"] /\ NoFault
        /\ Goto("quarantine.remove") /\ UNCHANGED reply
     \/ Fault /\ Answer("failed") /\ UNCHANGED file
  /\ UNCHANGED <<firewall, run, server, beatVars, shell, installer>>

QuarantineCopy ==
  /\ pc = "quarantine.copy"
  /\ \/ /\ file' = [file EXCEPT !.dst = "whole"] /\ NoFault
        /\ Goto("quarantine.remove") /\ UNCHANGED reply
     \/ Fault /\ Answer("failed") /\ UNCHANGED file
  /\ UNCHANGED <<firewall, run, server, beatVars, shell, installer>>

QuarantineRemove ==
  /\ pc = "quarantine.remove"
  /\ \/ file' = [file EXCEPT !.src = FALSE] /\ NoFault /\ Answer("success")
     \/ Fault /\ Answer("failed") /\ UNCHANGED file
  /\ UNCHANGED <<firewall, run, server, beatVars, shell, installer>>

Quarantine == \/ QuarantineChecks \/ QuarantineRename
              \/ QuarantineCopy \/ QuarantineRemove

----------------------------------------------------------------------------
(* run_shell                                                                *)

ShellSpawn ==
  /\ pc = "run_shell"
  /\ \/ /\ shell' = [child |-> "runs", held |-> FALSE] /\ NoFault
        /\ Goto("shell.wait") /\ UNCHANGED reply
     \/ Fault /\ Answer("failed") /\ UNCHANGED shell
  /\ UNCHANGED <<firewall, run, server, beatVars, file, installer>>

\* The pipes are read after the child has ended: one that prints more than
\* they hold does not end.  A child may leave a process that holds its pipe.
ShellRuns ==
  /\ shell.child = "runs"
  /\ \/ shell' = [shell EXCEPT !.child = "blocked"]
     \/ \E held \in BOOLEAN : shell' = [child |-> "exited", held |-> held]
  /\ UNCHANGED <<process, isolation, server, beatVars, file, installer>>

HolderExits ==
  /\ shell.held
  /\ shell' = [shell EXCEPT !.held = FALSE]
  /\ UNCHANGED <<process, isolation, server, beatVars, file, installer>>

ShellReaped ==
  /\ pc = "shell.wait" /\ shell.child = "exited"
  /\ Goto("shell.read") /\ NoFault
  /\ UNCHANGED <<isolation, server, beatVars, effects>>

\* Mutation: no deadline.
ShellWaitsOn ==
  /\ FALSE
  /\ Goto("shell.read") /\ NoFault
  /\ UNCHANGED <<shell, isolation, server, beatVars, file, installer>>

\* The deadline passes: the child is killed, what it has started is not.
ShellTimesOut ==
  /\ pc = "shell.wait" /\ shell.child \in {"runs", "blocked"}
  /\ \E held \in BOOLEAN : shell' = [child |-> "killed", held |-> held]
  /\ Goto("shell.read") /\ NoFault
  /\ UNCHANGED <<isolation, server, beatVars, file, installer>>

\* try_wait fails: the child goes on, and nobody looks after it.
ShellWaitFails ==
  /\ pc = "shell.wait" /\ Fault
  /\ Answer("failed") /\ shell' = NoShell
  /\ UNCHANGED <<firewall, run, server, beatVars, file, installer>>

\* read_capped returns at the end of the pipe: when nobody holds it.
ShellRead ==
  /\ pc = "shell.read" /\ ~shell.held
  /\ Answer(IF shell.child = "killed" THEN "failed" ELSE "success")
  /\ shell' = NoShell /\ NoFault
  /\ UNCHANGED <<firewall, run, server, beatVars, file, installer>>

Shell == \/ ShellSpawn \/ ShellReaped \/ ShellTimesOut
         \/ ShellWaitFails \/ ShellRead

----------------------------------------------------------------------------
(* update_agent                                                             *)

\* A server that names no hash has what it sent accepted.
UpdateDownload ==
  /\ pc = "update_agent"
  /\ \/ Fault /\ Answer("failed") /\ UNCHANGED installer
     \/ /\ \/ installer' = "good" /\ NoFault
           \/ installer' = "bad" /\ Fault
        /\ Goto("update.verify") /\ UNCHANGED reply
  /\ UNCHANGED <<firewall, run, server, beatVars, file, shell>>

\* The installer is not waited for: the command is to be acknowledged before
\* it stops the service.
UpdateLaunch ==
  /\ pc = "update.verify"
  /\ \/ installer' = "runs" /\ Answer("success") /\ NoFault
     \/ installer = "bad" /\ installer' = "none" /\ Answer("failed") /\ NoFault
     \/ Fault /\ installer' = "none" /\ Answer("failed")
  /\ UNCHANGED <<firewall, run, server, beatVars, file, shell>>

Update == UpdateDownload \/ UpdateLaunch

----------------------------------------------------------------------------
\* What the end of the process leaves of the commands.
CommandsDie ==
  /\ IsolationDies
  /\ todo' = {} /\ current' = NoCommand /\ force' = FALSE /\ shell' = NoShell
  /\ installer' = "none"
  /\ UNCHANGED <<server, attempts, lost, file>>

CommandStep ==
  \/ Dispatch \/ AckCommand
  \/ (Isolate \/ Unisolate) /\ UNCHANGED <<server, beatVars, effects>>
  \/ Simple \/ Quarantine \/ Shell \/ Update

CommandWorld ==
  \/ \E kind \in Kinds : Issue(kind)
  \/ Configure /\ UNCHANGED <<server, beatVars, effects>>
  \/ ShellRuns \/ HolderExits
=============================================================================
