----------------------------- MODULE Supervisor -----------------------------
(***************************************************************************)
(* The plugin supervisor (plugin/supervisor.rs): the scan of the manifest  *)
(* directory, one thread per plugin that launches its process, watches it  *)
(* and its manifest, and launches it again, and the stop.                  *)
(*                                                                         *)
(* Abstractions.  The operator and the server change manifests and         *)
(* binaries at will, through the external tool wedr-plugin.  Of a manifest *)
(* only what decides a launch is kept: the version, which stands for       *)
(* expected_path with expected_sha256, and the revoked flag; every         *)
(* manifest of the model has auto_launch, without which the scan ignores   *)
(* it.  Time is not modelled: a child may live for less or more than the   *)
(* 5 s between two polls of its manifest, and a sleep ends at any time.    *)
(***************************************************************************)
EXTENDS Naturals, FiniteSets

CONSTANTS
  Plugins,      (* the plugin ids                                           *)
  Versions,     (* the versions of their binaries                           *)
  MaxBackoff,   (* MAX_BACKOFF, in units of INITIAL_BACKOFF                 *)
  MaxChanges,   (* bound: changes of manifests and binaries                 *)
  MaxFaults     (* bound: system calls that fail for no other reason        *)

ASSUME SupervisorAssumption ==
  /\ MaxBackoff \in Nat \ {0}
  /\ MaxChanges \in Nat /\ MaxFaults \in Nat

VARIABLES
  disk,         (* the manifest of each plugin in the directory             *)
  binaries,     (* the versions of each plugin that are on disk             *)
  supervised,   (* the shared set of the ids under supervision              *)
  threads,      (* the supervisor threads: id, place, current manifest      *)
  child,        (* the process each thread has launched                     *)
  strays,       (* ids of running processes that a thread has abandoned     *)
  scan,         (* where the scan is: the initial one, or the watcher's     *)
  todo,         (* the manifests it has still to launch                     *)
  fresh,        (* the thread it has spawned, its handle not pushed yet     *)
  handles,      (* the join handles in the shared vector                    *)
  taken,        (* the join handles that shutdown has taken                 *)
  main,         (* where the main thread is                                 *)
  stop,         (* SHUTDOWN                                                 *)
  changes, faults

manifests == <<disk, binaries, changes>>
scanning  == <<scan, todo, fresh, handles>>
stopping  == <<main, stop, taken>>
vars == <<manifests, supervised, threads, child, strays, scanning, stopping,
          faults>>

Absent    == [version |-> "none", revoked |-> FALSE]
Manifests == [version : Versions, revoked : BOOLEAN]

\* One thread per plugin is what the code wants; the model has room for two.
Threads == Plugins \X {1, 2}

Free == [at |-> "free", current |-> Absent, backoff |-> 1]

Watcher == <<"watcher">>

\* Every thread of the process dies with it.
Alive == main # "exited"

Fault == faults < MaxFaults /\ faults' = faults + 1

Init ==
  /\ disk \in [Plugins -> {Absent} \cup [version : Versions, revoked : {FALSE}]]
  /\ binaries = [p \in Plugins |-> Versions \cap {disk[p].version}]
  /\ supervised = {}
  /\ threads = [t \in Threads |-> Free]
  /\ child = [t \in Threads |-> "none"]
  /\ strays = {}
  /\ scan = "load" /\ todo = {} /\ fresh = {} /\ handles = {} /\ taken = {}
  /\ main = "starting" /\ stop = FALSE
  /\ changes = 0 /\ faults = 0

----------------------------------------------------------------------------
(* scan_and_spawn, first by spawn_supervisor and then by the watcher.       *)

Launchable == {p \in Plugins : disk[p] \in Manifests /\ ~disk[p].revoked}

\* load_dir, which may fail, and the choice of what to launch.  Each manifest
\* is read on its own; nothing relates those of two plugins.
Load ==
  /\ Alive /\ scan = "load"
  /\ scan' = "choose"
  /\ \/ /\ todo' = {[id |-> p, manifest |-> disk[p]] : p \in Launchable}
        /\ UNCHANGED faults
     \/ Fault /\ todo' = {}
  /\ UNCHANGED <<manifests, supervised, threads, child, strays, fresh,
                 handles, stopping>>

\* The ids under supervision are passed over.
Choose ==
  /\ Alive /\ scan = "choose"
  /\ todo' = {l \in todo : l.id \notin supervised}
  /\ scan' = "launch"
  /\ UNCHANGED <<manifests, supervised, threads, child, strays, fresh,
                 handles, stopping, faults>>

\* Mutation: the place in the set is not reserved.
Reserve_Never(p) == supervised

\* The place in the set is taken before the thread is spawned.
Reserve(p) == supervised \cup {p}

\* A thread is spawned for the next manifest; its handle follows (Push).  The
\* handle of an earlier thread in that place is the one of a finished thread.
Launch(l) ==
  /\ Alive /\ scan = "launch" /\ fresh = {} /\ l \in todo
  /\ \E t \in {<<l.id, 1>>, <<l.id, 2>>} :
       /\ threads[t].at = "free"
       /\ t = <<l.id, 2>> => threads[<<l.id, 1>>].at # "free"
       /\ threads' = [threads EXCEPT ![t] = [at |-> "head", current |-> l.manifest,
                                             backoff |-> 1]]
       /\ fresh' = {t}
       /\ handles' = handles \ {t} /\ taken' = taken \ {t}
  /\ supervised' = Reserve(l.id)
  /\ todo' = todo \ {l}
  /\ UNCHANGED <<manifests, child, strays, scan, main, stop, faults>>

\* Mutation: the handle of the thread is not kept.
Push_Forgets ==
  /\ Alive /\ fresh # {}
  /\ fresh' = {}
  /\ UNCHANGED <<manifests, supervised, threads, child, strays, scan, todo,
                 handles, stopping, faults>>

Push ==
  /\ Alive /\ fresh # {}
  /\ handles' = handles \cup fresh /\ fresh' = {}
  /\ UNCHANGED <<manifests, supervised, threads, child, strays, scan, todo,
                 stopping, faults>>

\* The scan is over: the initial one is followed by the watcher, whose handle
\* is pushed too, and the watcher sleeps before it scans again.
ScanOver ==
  /\ Alive /\ scan = "launch" /\ fresh = {} /\ todo = {}
  /\ scan' = "sleep"
  /\ IF main = "starting"
       THEN main' = "running" /\ handles' = handles \cup {Watcher}
       ELSE UNCHANGED <<main, handles>>
  /\ UNCHANGED <<manifests, supervised, threads, child, strays, todo, fresh,
                 taken, stop, faults>>

\* WATCH_INTERVAL is over, or the flag is seen.
WatcherWakes ==
  /\ Alive /\ scan = "sleep"
  /\ scan' = IF stop THEN "ended" ELSE "load"
  /\ UNCHANGED <<manifests, supervised, threads, child, strays, todo, fresh,
                 handles, stopping, faults>>

----------------------------------------------------------------------------
(* supervise_one, of thread t.                                              *)

At(t, place) == Alive /\ threads[t].at = place

Goto(t, place) == threads' = [threads EXCEPT ![t].at = place]

Id(t) == t[1]

ThreadOnly == UNCHANGED <<manifests, scanning, stopping>>

\* Mutation: the backoff grows without limit.
NextBackoff_NoCap(b) == 2 * b

\* next_backoff.
NextBackoff(b) == IF 2 * b > MaxBackoff THEN MaxBackoff ELSE 2 * b

BackOff(t, b) ==
  threads' = [threads EXCEPT ![t].at = "backoff", ![t].backoff = NextBackoff(b)]

\* The flag is read at the head of the loop, and then the process is spawned.
LoopHead(t) ==
  /\ At(t, "head")
  /\ Goto(t, IF stop THEN "ending" ELSE "spawn")
  /\ ThreadOnly /\ UNCHANGED <<supervised, child, strays, faults>>

Spawn(t) ==
  /\ At(t, "spawn")
  /\ threads[t].current.version \in binaries[Id(t)]
  /\ child' = [child EXCEPT ![t] = "alive"]
  /\ Goto(t, "wait")
  /\ ThreadOnly /\ UNCHANGED <<supervised, strays, faults>>

\* The binary is not there, or the system refuses.
SpawnFails(t) ==
  /\ At(t, "spawn")
  /\ IF threads[t].current.version \in binaries[Id(t)] THEN Fault
                                                      ELSE UNCHANGED faults
  /\ BackOff(t, threads[t].backoff)
  /\ ThreadOnly /\ UNCHANGED <<supervised, child, strays>>

\* sleep_with_shutdown is over.
BackoffOver(t) ==
  /\ At(t, "backoff")
  /\ Goto(t, IF stop THEN "ending" ELSE "head")
  /\ ThreadOnly /\ UNCHANGED <<supervised, child, strays, faults>>

\* ChildExited: after five minutes of life the backoff starts afresh.
AfterExit(t) ==
  IF stop THEN Goto(t, "ending")
          ELSE \E b \in {threads[t].backoff, 1} : BackOff(t, b)

\* wait_for_exit_or_change: try_wait finds the child gone.
SeesExit(t) ==
  /\ At(t, "wait") /\ child[t] = "exited"
  /\ child' = [child EXCEPT ![t] = "none"]
  /\ AfterExit(t)
  /\ ThreadOnly /\ UNCHANGED <<supervised, strays, faults>>

\* try_wait fails, and the child is abandoned.
LosesChild(t) ==
  /\ At(t, "wait") /\ child[t] = "alive" /\ Fault
  /\ child' = [child EXCEPT ![t] = "none"]
  /\ strays' = strays \cup {Id(t)}
  /\ AfterExit(t)
  /\ ThreadOnly /\ UNCHANGED supervised

\* The flag is seen: the child has SHUTDOWN_GRACE to go.
SeesStop(t) ==
  /\ At(t, "wait") /\ child[t] = "alive" /\ stop
  /\ Goto(t, "grace")
  /\ ThreadOnly /\ UNCHANGED <<supervised, child, strays, faults>>

\* Mutation: a child that does not go by itself is waited for.
GraceOver_Waits(t) ==
  /\ At(t, "grace") /\ child[t] = "exited"
  /\ child' = [child EXCEPT ![t] = "none"]
  /\ Goto(t, "ending")
  /\ ThreadOnly /\ UNCHANGED <<supervised, strays, faults>>

\* The child is gone, or is killed.
GraceOver(t) ==
  /\ At(t, "grace")
  /\ child' = [child EXCEPT ![t] = "none"]
  /\ Goto(t, "ending")
  /\ ThreadOnly /\ UNCHANGED <<supervised, strays, faults>>

\* MANIFEST_POLL is over, with a child that lives.
PollDue(t) ==
  /\ At(t, "wait") /\ child[t] = "alive" /\ ~stop
  /\ Goto(t, "poll")
  /\ ThreadOnly /\ UNCHANGED <<supervised, child, strays, faults>>

\* Mutation: the revoked flag of the manifest is not looked at.
Withdrawn_OnlyMissing(m) == m = Absent

Withdrawn(m) == m = Absent \/ m.revoked

\* Mutation: only the first change of a manifest is seen.
Changed_Never(t) == FALSE

Changed(t) == disk[Id(t)].version # threads[t].current.version

\* read_manifest: missing or revoked; changed; unchanged or unreadable.
ReadManifest(t) ==
  /\ At(t, "poll")
  /\ \/ /\ Withdrawn(disk[Id(t)])
        /\ Goto(t, "ending")
        /\ child' = [child EXCEPT ![t] = "none"] /\ UNCHANGED faults
     \/ /\ ~Withdrawn(disk[Id(t)]) /\ Changed(t)
        /\ threads' = [threads EXCEPT ![t] = [at |-> "head", backoff |-> 1,
                                              current |-> disk[Id(t)]]]
        /\ child' = [child EXCEPT ![t] = "none"] /\ UNCHANGED faults
     \/ /\ \/ ~Withdrawn(disk[Id(t)]) /\ ~Changed(t) /\ UNCHANGED faults
           \/ Fault
        /\ Goto(t, "wait") /\ UNCHANGED child
  /\ ThreadOnly /\ UNCHANGED <<supervised, strays>>

\* The thread frees the place of its id and returns.
ThreadEnds(t) ==
  /\ At(t, "ending")
  /\ supervised' = supervised \ {Id(t)}
  /\ threads' = [threads EXCEPT ![t] = Free]
  /\ ThreadOnly /\ UNCHANGED <<child, strays, faults>>

----------------------------------------------------------------------------
(* SupervisorHandle::shutdown, called by main once the pump has ended.      *)

TakeHandles ==
  /\ main = "running" /\ stop
  /\ taken' = handles /\ handles' = {}
  /\ main' = "joining"
  /\ UNCHANGED <<manifests, supervised, threads, child, strays, scan, todo,
                 fresh, stop, faults>>

Over(h) == IF h = Watcher THEN scan = "ended" ELSE threads[h].at = "free"

Join(h) ==
  /\ main = "joining" /\ h \in taken /\ Over(h)
  /\ taken' = taken \ {h}
  /\ UNCHANGED <<manifests, supervised, threads, child, strays, scanning, main,
                 stop, faults>>

\* Every join has returned; the rest of the teardown follows, and the exit.
Leave ==
  /\ \/ main = "joining" /\ taken = {} /\ main' = "joined"
     \/ main = "joined" /\ main' = "exited"
  /\ UNCHANGED <<manifests, supervised, threads, child, strays, scanning, taken,
                 stop, faults>>

----------------------------------------------------------------------------
(* The surroundings.                                                        *)

RequestStop ==
  /\ Alive /\ ~stop
  /\ stop' = TRUE
  /\ UNCHANGED <<manifests, supervised, threads, child, strays, scanning, main,
                 taken, faults>>

\* A process ends, or crashes.
ChildExits(t) ==
  /\ Alive /\ child[t] = "alive"
  /\ child' = [child EXCEPT ![t] = "exited"]
  /\ UNCHANGED <<manifests, supervised, threads, strays, scanning, stopping,
                 faults>>

StrayExits(p) ==
  /\ Alive /\ p \in strays
  /\ strays' = strays \ {p}
  /\ UNCHANGED <<manifests, supervised, threads, child, scanning, stopping,
                 faults>>

\* wedr-plugin enroll, update, revoke or remove; a binary comes or goes.
ManifestChanges(p) ==
  /\ Alive /\ changes < MaxChanges
  /\ changes' = changes + 1
  /\ \/ \E m \in ({Absent} \cup Manifests) \ {disk[p]} :
          disk' = [disk EXCEPT ![p] = m] /\ UNCHANGED binaries
     \/ \E v \in Versions :
          /\ binaries' = [binaries EXCEPT ![p] = IF v \in @ THEN @ \ {v}
                                                            ELSE @ \cup {v}]
          /\ UNCHANGED disk
  /\ UNCHANGED <<supervised, threads, child, strays, scanning, stopping, faults>>

Scanner == Load \/ Choose \/ (\E l \in todo : Launch(l)) \/ Push \/ ScanOver
             \/ WatcherWakes

Supervise(t) ==
  \/ LoopHead(t) \/ Spawn(t) \/ SpawnFails(t) \/ BackoffOver(t)
  \/ SeesExit(t) \/ LosesChild(t) \/ SeesStop(t) \/ GraceOver(t)
  \/ PollDue(t) \/ ReadManifest(t) \/ ThreadEnds(t)

Main == TakeHandles \/ (\E h \in taken : Join(h)) \/ Leave

Next ==
  \/ Scanner \/ Main \/ \E t \in Threads : Supervise(t)
  \/ RequestStop \/ \E t \in Threads : ChildExits(t)
  \/ \E p \in Plugins : StrayExits(p) \/ ManifestChanges(p)

\* Each thread is scheduled; nothing is assumed of the processes, of the
\* operator, or of who requests the stop.
Spec ==
  /\ Init /\ [][Next]_vars
  /\ WF_vars(Scanner) /\ WF_vars(Main)
  /\ \A t \in Threads : WF_vars(Supervise(t))

----------------------------------------------------------------------------
(* Properties.                                                              *)

Places == {"free", "head", "spawn", "wait", "poll", "grace", "backoff", "ending"}

TypeOK ==
  /\ disk \in [Plugins -> {Absent} \cup Manifests]
  /\ binaries \in [Plugins -> SUBSET Versions]
  /\ supervised \subseteq Plugins
  /\ threads \in [Threads -> [at : Places, current : {Absent} \cup Manifests,
                              backoff : 1 .. MaxBackoff]]
  /\ child \in [Threads -> {"none", "alive", "exited"}]
  /\ strays \subseteq Plugins
  /\ scan \in {"load", "choose", "launch", "sleep", "ended"} /\ fresh \subseteq Threads
  /\ todo \subseteq [id : Plugins, manifest : Manifests]
  /\ handles \subseteq Threads \cup {Watcher} /\ taken \subseteq Threads \cup {Watcher}
  /\ main \in {"starting", "running", "joining", "joined", "exited"}
  /\ stop \in BOOLEAN
  /\ changes \in 0 .. MaxChanges /\ faults \in 0 .. MaxFaults

Unwanted(p) == disk[p] = Absent \/ disk[p].revoked

Runs(p) == {t \in Threads : Id(t) = p /\ child[t] = "alive"}

\* A plugin is never launched twice (supervisor.rs:134): of the processes that
\* the supervisor still watches no two are of one plugin, whatever the watcher
\* finds while a thread starts, launches again, or ends.
OneProcess ==
  \A t, u \in Threads :
    Id(t) = Id(u) /\ child[t] = "alive" /\ child[u] = "alive" => t = u

\* When the process ends, the only plugins it leaves running are those it has
\* abandoned, and those that a scan under way at the stop launched too late for
\* their thread to be joined.
LeavesOnlyLate ==
  main \in {"joined", "exited"} =>
    \A t \in Threads : child[t] = "alive" => t \in handles \cup fresh

\* From some moment on, no process goes by itself, and no launch fails.
Undisturbed ==
  <>[][\A t \in Threads :
         /\ ~(child[t] = "alive" /\ child'[t] = "exited")
         /\ ~(threads[t].at = "spawn" /\ threads'[t].at = "backoff")]_vars

\* A plugin that is revoked or removed while it runs is stopped and not launched
\* again, and one that is enrolled, or updated, gets running in its new version,
\* as long as it does not crash faster than its manifest is read.
ManifestFollowed ==
  Undisturbed =>
    \A p \in Plugins :
      /\ <>[](Unwanted(p) /\ Alive) => <>[](Runs(p) = {})
      /\ \A v \in Versions :
           <>[](disk[p] = [version |-> v, revoked |-> FALSE] /\ ~stop)
             => <>[](\E t \in Runs(p) : threads[t].current.version = v)

\* "Revoked manifests are never auto-launched" (manifest.rs:76), and revocation
\* "must be taken into account live" (supervisor.rs:85), crashes or not.
RevokedStaysDown ==
  \A p \in Plugins : <>[](Unwanted(p) /\ Alive) => <>[](Runs(p) = {})

\* SHUTDOWN ends every supervisor thread within its grace period, whatever its
\* child does, so that shutdown returns.
JoinsReturn == stop ~> main = "exited"
=============================================================================
