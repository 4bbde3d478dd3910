----------------------------- MODULE Assignment -----------------------------
(***************************************************************************)
(* The plugin actions of a heartbeat (plugin/assignment.rs): the server    *)
(* assigns packages, the agent downloads them and has wedr-plugin enroll,  *)
(* update or revoke them, and reports each phase; the server sends an      *)
(* action again until a report resolves it.                                *)
(*                                                                         *)
(* The supervisor (plugin/supervisor.rs) goes on beside the heartbeat: its *)
(* threads launch, kill and relaunch the plugins from manifests they have  *)
(* read earlier.  A poll of a manifest is one step here, no child is lost, *)
(* and the agent does not shut down: module Supervisor has all of that.    *)
(*                                                                         *)
(* External, modelled from their use here: the server, wedr-plugin, and    *)
(* the processes of the plugins, which outlive an agent that dies.         *)
(* Windows lets nobody remove the file of a running program.               *)
(*                                                                         *)
(* Abstractions.  A package has one file: its extras are downloaded by the *)
(* same code before the report that ends the download.  A refused name or  *)
(* version is a failing answer of the server.  The directory of a version  *)
(* is named by package and version, as the code names it; a manifest names *)
(* the version, which stands for its path and its hash.                    *)
(***************************************************************************)
EXTENDS AgentProcess

CONSTANTS
  Packages,     (* the plugin packages of the server                        *)
  MaxVersion,   (* bound: their versions                                    *)
  Single,       (* bound: the packages that have one version only           *)
  Hashed        (* the server sends X-Plugin-SHA256 with a file             *)

ASSUME AssignmentAssumption == MaxVersion \in Nat /\ Hashed \in BOOLEAN

Versions == 1..MaxVersion
Phases   == {"none", "installing", "installed", "started", "failed_install",
             "revoked"}

VARIABLES
  assigned,     (* server: the version of each package assigned, 0 for none *)
  phase,        (* server: the last status reported                         *)
  idLocal,      (* server: plugin_id_local, 0 when unknown                  *)
  done,         (* server: the version reported as started                  *)
  batch,        (* agent: to_process, what is left of it                    *)
  cur,          (* agent: the action under way                              *)
  inFlight,     (* agent: IN_FLIGHT                                         *)
  got,          (* agent: of the action, the version of /info, the state of *)
                (* the .partial file and the plugin_id                      *)
  bin,          (* disk: plugin_bin/<name>/<version>/<file>                 *)
  manifests,    (* disk: what wedr-plugin keeps                             *)
  lastId,       (* wedr-plugin: the identifiers given so far                *)
  watched,      (* supervisor: the manifest each of its threads has read    *)
  children,     (* the processes those threads have launched                *)
  orphans       (* the processes left by an agent that died                 *)

server  == <<assigned, phase, idLocal, done>>
agent   == <<batch, cur, inFlight, got>>
disk    == <<bin, manifests, lastId>>
plugins == <<watched, children, orphans>>
vars    == <<process, server, agent, disk, plugins>>

NoAction == [kind |-> "none"]
NoneYet  == [version |-> 0, partial |-> "none", id |-> 0]

Init ==
  /\ ProcessInit
  /\ assigned = [p \in Packages |-> 0] /\ phase = [p \in Packages |-> "none"]
  /\ idLocal = [p \in Packages |-> 0] /\ done = [p \in Packages |-> 0]
  /\ batch = {} /\ cur = NoAction /\ inFlight = {} /\ got = NoneYet
  /\ bin = [p \in Packages |-> [v \in Versions |-> "none"]]
  /\ manifests = {} /\ lastId = 0
  /\ watched = {} /\ children = {} /\ orphans = {}

----------------------------------------------------------------------------
(* The server                                                               *)

\* The action it asks for: what it knows to be started is updated or revoked,
\* an assignment withdrawn before it is known as started is revoked inline.
Todo(p) ==
  CASE assigned[p] = 0 /\ idLocal[p] # 0 -> "revoke"
    [] assigned[p] # 0 /\ idLocal[p] = 0 -> "install"
    [] assigned[p] # 0 /\ idLocal[p] # 0
         /\ (done[p] # assigned[p] \/ phase[p] # "started") -> "update"
    [] OTHER -> "none"

Assign(p, v) ==
  /\ Order
  /\ p \in Single => v = 1
  /\ assigned[p] < v /\ (assigned[p] = 0 => idLocal[p] = 0)
  /\ assigned' = [assigned EXCEPT ![p] = v]
  /\ UNCHANGED <<phase, idLocal, done, agent, disk, plugins>>

Withdraw(p) ==
  /\ Order
  /\ assigned[p] # 0 /\ assigned' = [assigned EXCEPT ![p] = 0]
  /\ UNCHANGED <<phase, idLocal, done, agent, disk, plugins>>

\* It records a status that is reported.
Record(status) ==
  LET p == cur.pkg
  IN  /\ phase' = [phase EXCEPT ![p] = status]
      /\ idLocal' = CASE status = "started" -> [idLocal EXCEPT ![p] = got.id]
                      [] status = "revoked" -> [idLocal EXCEPT ![p] = 0]
                      [] OTHER -> idLocal
      /\ done' = CASE status = "started" -> [done EXCEPT ![p] = got.version]
                   [] status = "revoked" -> [done EXCEPT ![p] = 0]
                   [] OTHER -> done
      /\ UNCHANGED assigned

\* A report that fails may have been recorded: its answer is lost, then.
Report(status, next) ==
  /\ \/ Record(status) /\ NoFault /\ Goto(next)
     \/ (Record(status) \/ UNCHANGED server) /\ Fault /\ Goto("fail")
  /\ UNCHANGED <<agent, disk, plugins>>

----------------------------------------------------------------------------
(* process_pending_plugins                                                  *)

\* Of a heartbeat, the actions of packages not in flight.
Heartbeat ==
  /\ pc = "idle" /\ NoFault
  /\ LET asked == {[kind |-> Todo(p), pkg |-> p, id |-> idLocal[p]] :
                     p \in {q \in Packages : Todo(q) # "none"}}
     IN  batch' = {a \in asked : a.pkg \notin inFlight}
  /\ inFlight' = inFlight \cup {a.pkg : a \in batch'}
  /\ batch' # {} /\ Goto("batch")
  /\ UNCHANGED <<server, cur, got, disk, plugins>>

Begin ==
  /\ pc = "batch" /\ NoFault
  /\ \E a \in batch :
       /\ cur' = a /\ batch' = batch \ {a}
       /\ got' = [NoneYet EXCEPT !.id = a.id]
       /\ Goto(IF a.kind = "revoke" THEN "revoke" ELSE "installing")
  /\ UNCHANGED <<server, inFlight, disk, plugins>>

\* Mutation: the packages of the batch stay in flight.
BatchHolding ==
  /\ pc = "batch" /\ batch = {} /\ NoFault
  /\ cur' = NoAction /\ got' = NoneYet
  /\ Goto("idle")
  /\ UNCHANGED <<server, batch, inFlight, disk, plugins>>

\* InFlightGuard.
BatchDone ==
  /\ pc = "batch" /\ batch = {} /\ NoFault
  /\ inFlight' = {} /\ cur' = NoAction /\ got' = NoneYet
  /\ Goto("idle")
  /\ UNCHANGED <<server, batch, disk, plugins>>

\* Whatever has failed is reported as a failed installation, once.
ReportFailure ==
  /\ pc = "fail"
  /\ \/ Record("failed_install") /\ NoFault
     \/ UNCHANGED server /\ Fault
  /\ Goto("batch")
  /\ UNCHANGED <<agent, disk, plugins>>

----------------------------------------------------------------------------
(* handle_install and handle_update                                         *)

ReportInstalling == pc = "installing" /\ Report("installing", "info")

\* 404 when the package is not assigned any more.
GetInfo ==
  /\ pc = "info"
  /\ \/ /\ assigned[cur.pkg] # 0 /\ NoFault /\ Goto("download")
        /\ got' = [got EXCEPT !.version = assigned[cur.pkg]]
     \/ /\ IF assigned[cur.pkg] = 0 THEN NoFault ELSE Fault
        /\ Goto("fail") /\ UNCHANGED got
  /\ UNCHANGED <<server, batch, cur, inFlight, disk, plugins>>

\* The old .partial file, if there is one, is overwritten.
Download ==
  /\ pc = "download"
  /\ \/ got' = [got EXCEPT !.partial = "good"] /\ NoFault /\ Goto("verify")
     \/ got' = [got EXCEPT !.partial = "bad"] /\ Fault /\ Goto("verify")
     \/ UNCHANGED got /\ Fault /\ Goto("fail")
  /\ UNCHANGED <<server, batch, cur, inFlight, disk, plugins>>

\* Mutation: a file that is not the one announced is only logged.
VerifyLogging ==
  /\ pc = "verify" /\ NoFault
  /\ Goto("replace")
  /\ UNCHANGED <<server, agent, disk, plugins>>

\* verify_sha: without a hash there is nothing to read or compare.
Verify ==
  /\ pc = "verify"
  /\ \/ /\ NoFault
        /\ Goto(IF Hashed /\ got.partial = "bad" THEN "fail" ELSE "replace")
     \/ Hashed /\ Fault /\ Goto("fail")
  /\ UNCHANGED <<server, agent, disk, plugins>>

Locked(p, v) ==
  \E x \in children \cup orphans : x.pkg = p /\ x.version = v

\* remove_file of the binary that is there, of a first execution for instance.
Replace ==
  /\ pc = "replace"
  /\ LET p == cur.pkg
         v == got.version
     IN  \/ bin[p][v] = "none" /\ NoFault /\ Goto("rename") /\ UNCHANGED bin
         \/ /\ bin[p][v] # "none" /\ ~Locked(p, v) /\ NoFault
            /\ bin' = [bin EXCEPT ![p][v] = "none"] /\ Goto("rename")
         \/ /\ bin[p][v] # "none" /\ UNCHANGED bin /\ Goto("fail")
            /\ IF Locked(p, v) THEN NoFault ELSE Fault
  /\ UNCHANGED <<server, agent, manifests, lastId, plugins>>

Rename ==
  /\ pc = "rename"
  /\ \/ /\ bin' = [bin EXCEPT ![cur.pkg][got.version] = got.partial]
        /\ NoFault
        /\ Goto(IF cur.kind = "install" THEN "installed" ELSE "update")
     \/ UNCHANGED bin /\ Fault /\ Goto("fail")
  /\ UNCHANGED <<server, agent, manifests, lastId, plugins>>

ReportInstalled == pc = "installed" /\ Report("installed", "enroll")

\* wedr-plugin does what it is asked, or fails, or is killed at its deadline
\* when it has done it.
Invoke(effect, none, next) ==
  \/ effect /\ NoFault /\ Goto(next)
  \/ (effect \/ none) /\ Fault /\ Goto("fail")

Manifest(id) == [id |-> id, pkg |-> cur.pkg, version |-> got.version,
                 revoked |-> FALSE]

Enroll ==
  /\ pc = "enroll"
  /\ Invoke(/\ lastId' = lastId + 1
            /\ manifests' = manifests \cup {Manifest(lastId + 1)}
            /\ got' = [got EXCEPT !.id = lastId + 1],
            UNCHANGED <<lastId, manifests, got>>, "started")
  /\ UNCHANGED <<server, batch, cur, inFlight, bin, plugins>>

Known == {m \in manifests : m.id = got.id}

\* Mutation: an update enrolls the new version.
UpdateEnrolling ==
  /\ pc = "update"
  /\ Invoke(/\ lastId' = lastId + 1
            /\ manifests' = manifests \cup {Manifest(lastId + 1)}
            /\ got' = [got EXCEPT !.id = lastId + 1],
            UNCHANGED <<lastId, manifests, got>>, "kill")
  /\ UNCHANGED <<server, batch, cur, inFlight, bin, plugins>>

\* Mutation: a failing update is only logged.
UpdateLogging ==
  /\ pc = "update"
  /\ \/ /\ manifests' = (manifests \ Known) \cup {Manifest(got.id)}
        /\ NoFault
     \/ UNCHANGED manifests /\ Fault
  /\ Goto("kill")
  /\ UNCHANGED <<server, agent, bin, lastId, plugins>>

Update ==
  /\ pc = "update"
  /\ \/ /\ Known # {}
        /\ Invoke(manifests' = (manifests \ Known) \cup {Manifest(got.id)},
                  UNCHANGED manifests, "kill")
     \/ Known = {} /\ NoFault /\ Goto("fail") /\ UNCHANGED manifests
  /\ UNCHANGED <<server, agent, bin, lastId, plugins>>

\* taskkill by the name of the file, which the versions share.  Best effort.
KillRunning ==
  /\ pc = "kill"
  /\ \/ /\ children' = {x \in children : x.pkg # cur.pkg}
        /\ orphans' = {x \in orphans : x.pkg # cur.pkg} /\ NoFault
     \/ UNCHANGED <<children, orphans>> /\ Fault
  /\ Goto("started")
  /\ UNCHANGED <<server, agent, disk, watched>>

ReportStarted == pc = "started" /\ Report("started", "batch")

----------------------------------------------------------------------------
(* handle_revoke                                                            *)

\* The path to clean up is read from the manifest before it is removed.
Revoke ==
  /\ pc = "revoke"
  /\ \/ /\ Known # {}
        /\ Invoke(manifests' = (manifests \ Known) \cup
                                 {[m EXCEPT !.revoked = TRUE] : m \in Known},
                  UNCHANGED manifests, "remove")
     \/ Known = {} /\ NoFault /\ Goto("fail") /\ UNCHANGED manifests
  /\ got' = [got EXCEPT !.version =
               IF Known = {} THEN 0 ELSE (CHOOSE m \in Known : TRUE).version]
  /\ UNCHANGED <<server, batch, cur, inFlight, bin, lastId, plugins>>

Remove ==
  /\ pc = "remove"
  /\ Invoke(manifests' = manifests \ Known, UNCHANGED manifests, "cleanup")
  /\ UNCHANGED <<server, agent, bin, lastId, plugins>>

\* remove_dir_all of the version: a failure is only logged.
Cleanup ==
  /\ pc = "cleanup"
  /\ LET p == cur.pkg
         v == got.version
     IN  \/ /\ ~Locked(p, v) /\ NoFault
            /\ bin' = [bin EXCEPT ![p][v] = "none"]
         \/ (IF Locked(p, v) THEN NoFault ELSE Fault) /\ UNCHANGED bin
  /\ Goto("revoked")
  /\ UNCHANGED <<server, agent, manifests, lastId, plugins>>

ReportRevoked == pc = "revoked" /\ Report("revoked", "batch")

----------------------------------------------------------------------------
(* The supervisor, and the processes                                        *)

\* What supervise_one keeps of a manifest.
Current(m) == [id |-> m.id, pkg |-> m.pkg, version |-> m.version]

\* scan_and_spawn, at the start or by the watcher: one thread for a manifest
\* that has none.  A manifest without auto_launch is never taken up.
Scan ==
  /\ pc # "down"
  /\ \E m \in manifests :
       /\ ~m.revoked /\ \A w \in watched : w.id # m.id
       /\ watched' = watched \cup {Current(m)}
  /\ UNCHANGED <<process, server, agent, disk, children, orphans>>

\* The head of supervise_one: it launches, and after an exit relaunches, what it
\* has read, whatever the manifest says by now.  Without a file it tries again.
Launch ==
  /\ pc # "down"
  /\ \E w \in watched \ children :
       bin[w.pkg][w.version] # "none" /\ children' = children \cup {w}
  /\ UNCHANGED <<process, server, agent, disk, watched, orphans>>

\* The poll of wait_for_exit_or_change, while the child lives: the thread kills
\* it and ends when the manifest is revoked or gone, or goes on with the new one.
Supervise ==
  /\ pc # "down"
  /\ \E w \in children :
       LET now == {Current(m) : m \in {n \in manifests : n.id = w.id /\ ~n.revoked}}
       IN  /\ w \notin now
           /\ children' = children \ {w}
           /\ watched' = (watched \ {w}) \cup now
  /\ UNCHANGED <<process, server, agent, disk, orphans>>

PluginExits ==
  /\ \/ \E x \in children : children' = children \ {x} /\ UNCHANGED orphans
     \/ \E x \in orphans : orphans' = orphans \ {x} /\ UNCHANGED children
  /\ UNCHANGED <<process, server, agent, disk, watched>>

Crash ==
  /\ Die
  /\ batch' = {} /\ cur' = NoAction /\ inFlight' = {} /\ got' = NoneYet
  /\ watched' = {} /\ children' = {} /\ orphans' = orphans \cup children
  /\ UNCHANGED <<server, disk>>

Restart ==
  /\ pc = "down" /\ NoFault /\ Goto("idle")
  /\ UNCHANGED <<server, agent, disk, plugins>>

----------------------------------------------------------------------------
Thread ==
  \/ Heartbeat \/ Begin \/ BatchDone \/ ReportFailure
  \/ ReportInstalling \/ GetInfo \/ Download \/ Verify \/ Replace \/ Rename
  \/ ReportInstalled \/ Enroll \/ Update \/ KillRunning \/ ReportStarted
  \/ Revoke \/ Remove \/ Cleanup \/ ReportRevoked

World ==
  \/ \E p \in Packages : Withdraw(p) \/ \E v \in Versions : Assign(p, v)
  \/ PluginExits

Next == Thread \/ Scan \/ Launch \/ Supervise \/ Crash \/ Restart \/ World

\* The heartbeat thread and the supervisor go on; a service that ends is
\* started again.
Fairness == WF_vars(Thread) /\ WF_vars(Supervise) /\ WF_vars(Restart)

Spec == Init /\ [][Next]_vars

FairSpec == Spec /\ Fairness

----------------------------------------------------------------------------
(* Properties                                                               *)

\* Where an action is under way, and where its version is known.
Acting == {"installing", "info", "download", "verify", "replace", "rename",
           "installed", "enroll", "update", "kill", "started", "revoke",
           "remove", "cleanup", "revoked", "fail"}

Versioned == {"download", "verify", "replace", "rename", "installed", "enroll",
              "update", "kill", "started"}

Actions == [kind : {"install", "update", "revoke"}, pkg : Packages, id : Nat]

\* Every variable keeps its type.
TypeOK ==
  /\ pc \in {"idle", "batch", "down"} \cup Acting /\ ProcessTypes
  /\ assigned \in [Packages -> 0..MaxVersion] /\ phase \in [Packages -> Phases]
  /\ idLocal \in [Packages -> Nat] /\ done \in [Packages -> 0..MaxVersion]
  /\ batch \in SUBSET Actions /\ inFlight \in SUBSET Packages
  /\ pc \in Acting => cur \in Actions
  /\ pc \in Versioned => got.version \in Versions
  /\ got \in [version : 0..MaxVersion, partial : {"none", "good", "bad"},
              id : Nat]
  /\ bin \in [Packages -> [Versions -> {"none", "good", "bad"}]]
  /\ manifests \in SUBSET [id : Nat, pkg : Packages, version : Versions,
                           revoked : BOOLEAN]
  /\ lastId \in Nat
  /\ {watched, children, orphans} \subseteq
       SUBSET [id : Nat, pkg : Packages, version : Versions]

\* From a server that announces its hashes no program runs, and none is kept
\* under its name, that is not the one announced: whatever download fails,
\* crash interrupts or version is replaced.
VerifiedOnly ==
  Hashed => \A p \in Packages, v \in Versions : bin[p][v] # "bad"

Unknown == {m \in manifests : \A p \in Packages : idLocal[p] # m.id}

\* An instance the server does not know of, which it can neither update nor
\* revoke, is one being enrolled or the trace of a loss: a report that failed,
\* an enrollment killed at its deadline, a crash.
OrphansNeedLoss ==
  Cardinality(Unknown) <=
    faults + crashes + (IF pc = "started" /\ cur.kind = "install" THEN 1 ELSE 0)

\* What the server shows as started is enrolled, in the version it shows,
\* until it is withdrawn or an update of it is under way.
StartedIsEnrolled ==
  \A p \in Packages :
    phase[p] = "started" /\ done[p] = assigned[p] =>
      \E m \in manifests : /\ m.id = idLocal[p] /\ ~m.revoked
                           /\ m.version = done[p]

\* The server and the manifests of a package disagree, for good.
Apart(p) == \/ \E m \in Unknown : m.pkg = p
            \/ idLocal[p] # 0 /\ \A m \in manifests : m.id # idLocal[p]

\* The file an action is to replace is that of a running program.
InUse(p) == pc = "replace" /\ cur.pkg = p /\ Locked(p, got.version)

\* Every action is resolved in the end, through any failure but those that
\* leave the server and the manifests apart, or have an action done already
\* repeated for ever against the program it has installed.
Settles ==
  \A p \in Packages :
    <>[]Apart(p) \/ []<>InUse(p) \/ []<>(Todo(p) = "none")
=============================================================================
