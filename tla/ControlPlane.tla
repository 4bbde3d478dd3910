---------------------------- MODULE ControlPlane ----------------------------
(***************************************************************************)
(* The control plane (control/mod.rs, control/heartbeat.rs): one thread    *)
(* asks the server, executes the commands it brings (module Commands,      *)
(* module Isolation) and then pulls the profile when it has changed        *)
(* (module ProfileSync), while the reload thread of the detection engine   *)
(* runs beside it and the process may die and is started again.            *)
(*                                                                         *)
(* The plugin actions of a heartbeat, between the commands and the         *)
(* profile, are in module Assignment: they share no state with these.      *)
(***************************************************************************)
EXTENDS Commands, ProfileSync

vars == <<process, commandVars, profileVars>>

Init == ProcessInit /\ CommandsInit /\ ProfileInit

----------------------------------------------------------------------------
(* heartbeat::run                                                           *)

\* The answer brings the pending commands and the current profile.  A beat
\* that fails changes nothing.
Heartbeat ==
  /\ pc = "idle" /\ Reachable
  /\ Goto("commands") /\ NoFault
  /\ ReceiveCommands /\ HearVersion

CommandsDone ==
  /\ pc = "commands" /\ todo = {}
  /\ Goto("profile") /\ NoFault
  /\ UNCHANGED <<commandVars, profileVars>>

CheckProfile == DecidePull(force) /\ UNCHANGED commandVars

\* The two requests of a pull, and their failure: always, when cut off.
Request ==
  /\ \/ Reachable /\ NoFault /\ (GetMetadata \/ GetTemplate)
     \/ (IF Reachable THEN Fault ELSE NoFault) /\ PullFails
  /\ UNCHANGED commandVars

HeartbeatThread ==
  \/ Heartbeat \/ CommandsDone \/ CheckProfile \/ Request
  \/ CommandStep /\ UNCHANGED profileVars
  \/ Pull /\ UNCHANGED commandVars

ReloadThread == Reload /\ UNCHANGED commandVars

----------------------------------------------------------------------------
(* The process                                                              *)

\* The installer of an update that has been launched stops the process, too.
Crash == Die /\ CommandsDie /\ ProfileDies

\* Shutdown for a new configuration: the thread has left its loop.
Stop ==
  /\ pc = "stopping"
  /\ Goto("down") /\ NoFault
  /\ CommandsDie /\ ProfileDies

Restart ==
  /\ pc = "down"
  /\ Goto("idle") /\ NoFault
  /\ Boot /\ UNCHANGED commandVars

----------------------------------------------------------------------------
World ==
  \/ CommandWorld /\ UNCHANGED profileVars
  \/ (Publish \/ EditRules) /\ UNCHANGED commandVars

Next ==
  \/ HeartbeatThread \/ ReloadThread
  \/ Crash \/ Stop \/ Restart
  \/ World

\* The threads run, and the service manager restarts a process that ends.
\* Nobody makes a child of run_shell end, or an operator act.
Fairness ==
  /\ WF_vars(HeartbeatThread) /\ WF_vars(ReloadThread)
  /\ WF_vars(Stop) /\ WF_vars(Restart)

Spec == Init /\ [][Next]_vars

FairSpec == Spec /\ Fairness

----------------------------------------------------------------------------
(* Properties                                                               *)

Places ==
  KnownKinds \cup
  {"idle", "down", "stopping", "commands", "unknown", "ack", "profile",
   "isolate.backup", "isolate.reset", "isolate.block", "isolate.loopback",
   "isolate.server", "isolate.dhcp", "isolate.done", "unisolate.remove",
   "unisolate.policy", "unisolate.done", "quarantine.rename",
   "quarantine.copy", "quarantine.remove", "shell.wait", "shell.read",
   "update.verify", "pull", "pull.template", "pull.open", "pull.write",
   "pull.audit", "pull.overrides", "pull.parse", "pull.rules", "pull.reload",
   "pull.store", "pull.flip"}

\* Every variable keeps its type.
TypeOK ==
  /\ pc \in Places /\ ProcessTypes /\ CommandTypes /\ ProfileTypes

\* The backup that unisolate will import is the firewall as it was before the
\* host was first isolated, however often isolate is executed again for a lost
\* acknowledgement, as long as no netsh call fails and no crash interrupts one.
ReferenceKept == clean => backup \subseteq {before}

\* The file to quarantine is never lost: at any moment, a crash or a failure
\* of any step included, it is whole at one of its two places.
FileNeverLost == file.src \/ file.dst = "whole"

\* A command is executed a second time only because an acknowledgement was
\* lost or the process died, never as a matter of course.
ReexecutionNeedsLoss ==
  \A i \in Ids : attempts[i] <= 1 + lost + crashes

GroupsOf(p) == UNION {Template[p][i].groups : i \in 1..Len(Template[p])}

\* The engine refuses the whole server.waza only for the local rules or a
\* failed write: rules of the profile that collide are sorted out before.
RefusalIsLocal ==
  "bundle" \in errors =>
    \/ faults > 0
    \/ \E e \in 0..localFile : \/ e \in Unparsable
                               \/ \E p \in editions \ {0} :
                                    GroupsOf(p) \cap LocalGroups[e] # {}

\* What a profile synchronisation of this process has reported is true: the
\* engine runs the rules of the template, or the error is in the heartbeats,
\* and then it is one.  Not if the reload thread has meanwhile stored rules it
\* had read before.
AppliedOrReported ==
  /\ applied # Cut /\ ~InPull /\ engine # Off /\ ~raced =>
       "bundle" \in errors \/ engine.server = applied
  /\ RefusalIsLocal

\* The profile that was published before p.
Previous(p) == Max({q \in editions : q < p})

\* The agent restarts for a new configuration at most once for each change
\* the server has published, however often a pull is forced or repeated.
RestartsBounded ==
  restarts <=
    Cardinality({p \in editions \ {0} : Asked(p) # Asked(Previous(p))})

\* Between two beats the process runs the configuration it has on disk, unless
\* a template that cannot be decoded has ended a pull before its restart.
ConfigInForce ==
  pc = "idle" /\ config # Effective => editions \cap Malformed # {}

\* The server's list drains, unless the host is cut off from it for good or a
\* process that a shell has left holds the heartbeat thread for ever.
CommandsDrain ==
  \/ <>[]~Reachable \/ <>[](pc = "shell.read")
  \/ []<>(pending = {})

\* The agent comes to report the profile that is published, with the same
\* exceptions, unless its template cannot be decoded.
ProfileFollows ==
  \/ <>[]~Reachable \/ <>[](pc = "shell.read")
  \/ []<>(version = published \/ published \in Malformed)

\* An edit of the local rules made while the reload thread watches the file is
\* loaded, unless it is replaced, does not load, or the process has no engine.
LocalEditTaken ==
  \A e \in Edits \ {0} :
    /\ localFile = e /\ reload.at # "start"
    /\ ~(reload.at = "wait" /\ reload.fp = e)
    ~> engine.local = e \/ localFile # e \/ engine = Off \/ ~Loads(OnDisk)

=============================================================================
