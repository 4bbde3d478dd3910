------------------------------- MODULE Polling -------------------------------
(***************************************************************************)
(* A collector of persistence events (polling/services.rs and              *)
(* polling/tasks.rs): a thread takes a snapshot of the services, or of the *)
(* files of the scheduled tasks, emits the difference with the one before  *)
(* and sleeps.  The two threads have the same loop and share a counter     *)
(* only, so the module is about one of them, either one.                   *)
(*                                                                         *)
(* Abstractions.  Of a service are kept whether it runs and its            *)
(* configuration, a number, 0 when it could not be queried; of a task its  *)
(* content.  The display name, which every enumeration brings, and the     *)
(* retries of an enumeration with a larger buffer are left out.  The       *)
(* receiver is what the lines that were accepted tell of the machine.      *)
(***************************************************************************)
EXTENDS Naturals, FiniteSets

CONSTANTS
  Names,        (* of services, or paths of tasks                           *)
  Configs,      (* the configurations, or contents, they may have           *)
  RescanEvery,  (* FULL_RESCAN_EVERY                                        *)
  SilentFirst,  (* silent_first_snapshot                                    *)
  MaxChanges,   (* bound: changes on the machine                            *)
  MaxFaults,    (* bound: calls that fail                                   *)
  MaxRefused    (* bound: lines the spool refuses                           *)

ASSUME PollingAssumption ==
  /\ Configs \subseteq Nat \ {0} /\ RescanEvery \in Nat
  /\ SilentFirst \in BOOLEAN
  /\ MaxChanges \in Nat /\ MaxFaults \in Nat /\ MaxRefused \in Nat

VARIABLES
  surface,      (* "services" or "tasks"                                    *)
  world,        (* what is on the machine                                   *)
  stop,         (* SHUTDOWN                                                 *)
  pc,           (* the place of the thread                                  *)
  prev, first,  (* the previous snapshot; none has been compared            *)
  since, full,  (* cycles_since_full, full_rescan                           *)
  taking,       (* the snapshot being taken                                 *)
  unread,       (* the names whose configuration is to be read              *)
  queue,        (* the differences to emit                                  *)
  dropped,      (* the lines refused, counted                               *)
  view,         (* what the receiver has been told                          *)
  stale,        (* history: the names whose last line was refused           *)
  gone,         (* history: the names absent at a moment of this snapshot   *)
  misread,      (* history: those the snapshot has missed by a failure      *)
  changes, faults

machine  == <<world, gone, changes>>
loop     == <<prev, first, since, full>>
snapshot == <<taking, unread, misread>>
emission == <<queue, dropped, view, stale>>
vars == <<surface, stop, pc, machine, loop, snapshot, emission, faults>>

Item(cfg, up) == [there |-> TRUE, cfg |-> cfg, up |-> up]
Absent  == [there |-> FALSE, cfg |-> 0, up |-> FALSE]
Nothing == [n \in Names |-> Absent]
Items   == {Absent} \cup {Item(c, u) : c \in Configs, u \in BOOLEAN}
Read    == Items \cup {Item(0, u) : u \in BOOLEAN}

Init ==
  /\ surface \in {"services", "tasks"} /\ stop = FALSE /\ pc = "top"
  /\ world \in [Names -> {Absent} \cup {Item(c, FALSE) : c \in Configs}]
  /\ prev = Nothing /\ first = TRUE /\ since = 0 /\ full = FALSE
  /\ taking = Nothing /\ unread = {} /\ queue = {} /\ dropped = 0
  /\ view = Nothing /\ stale = {} /\ gone = {} /\ misread = {}
  /\ changes = 0 /\ faults = 0

Fault   == faults < MaxFaults /\ faults' = faults + 1
NoFault == UNCHANGED faults

----------------------------------------------------------------------------
(* The machine                                                              *)

\* An item is created, deleted, configured, started or stopped.
Change ==
  /\ changes < MaxChanges /\ changes' = changes + 1
  /\ \E n \in Names, item \in Items :
       /\ item # world[n] /\ (surface = "tasks" => ~item.up)
       /\ world' = [world EXCEPT ![n] = item]
       /\ gone' = IF item.there THEN gone ELSE gone \cup {n}
  /\ UNCHANGED <<surface, stop, pc, loop, snapshot, emission, faults>>

Shutdown ==
  /\ ~stop /\ stop' = TRUE
  /\ UNCHANGED <<surface, pc, machine, loop, snapshot, emission, faults>>

----------------------------------------------------------------------------
(* The snapshot                                                             *)

Ends ==
  /\ pc = "top" /\ stop
  /\ pc' = "ended"
  /\ UNCHANGED <<surface, stop, machine, loop, snapshot, emission, faults>>

Missing == {n \in Names : ~world[n].there}

\* enumerate_services: which services there are and which run.  The
\* configuration of one that has not changed in that is taken from before,
\* but in a full scan or when it could not be read.
Enumerate ==
  /\ pc = "top" /\ ~stop /\ surface = "services" /\ NoFault
  /\ full' = (since >= RescanEvery)
  /\ LET reuse == {n \in Names : /\ world[n].there /\ prev[n].there /\ ~full'
                                 /\ prev[n].up = world[n].up /\ prev[n].cfg # 0}
     IN  /\ unread' = {n \in Names : world[n].there} \ reuse
         /\ taking' = [n \in Names |->
                         IF world[n].there
                         THEN Item(IF n \in reuse THEN prev[n].cfg ELSE 0,
                                   world[n].up)
                         ELSE Absent]
  /\ gone' = Missing /\ misread' = {} /\ pc' = "read"
  /\ UNCHANGED <<surface, stop, world, changes, prev, first, since, emission>>

\* The probe of the size fails and leaves it 0: taken for no services at all.
ProbeFails ==
  /\ pc = "top" /\ ~stop /\ surface = "services" /\ Fault
  /\ full' = (since >= RescanEvery)
  /\ unread' = {} /\ taking' = Nothing
  /\ gone' = Missing /\ misread' = Names /\ pc' = "read"
  /\ UNCHANGED <<surface, stop, world, changes, prev, first, since, emission>>

\* query_service_config, later: the service may have changed, or be gone.
QueryConfig ==
  /\ pc = "read" /\ surface = "services"
  /\ \E n \in unread :
       /\ unread' = unread \ {n}
       /\ \/ /\ taking' = [taking EXCEPT ![n] = Item(world[n].cfg, @.up)]
             /\ NoFault
          \/ UNCHANGED taking /\ Fault
  /\ UNCHANGED <<surface, stop, pc, machine, loop, misread, emission>>

\* scan_tasks opens the root; then the tasks are read one by one, and one that
\* cannot be read, or its directory, is left out.
OpenRoot ==
  /\ pc = "top" /\ ~stop /\ surface = "tasks" /\ NoFault
  /\ unread' = Names /\ taking' = Nothing
  /\ gone' = Missing /\ misread' = {} /\ pc' = "read"
  /\ UNCHANGED <<surface, stop, world, changes, loop, emission>>

ReadTask ==
  /\ pc = "read" /\ surface = "tasks"
  /\ \E n \in unread :
       /\ unread' = unread \ {n}
       /\ \/ /\ taking' = [taking EXCEPT ![n] = world[n]]
             /\ NoFault /\ UNCHANGED misread
          \/ Fault /\ misread' = misread \cup {n} /\ UNCHANGED taking
  /\ UNCHANGED <<surface, stop, pc, machine, loop, emission>>

\* Mutation: a root that cannot be read is one without tasks.
FailsEmpty ==
  /\ pc = "top" /\ ~stop /\ Fault
  /\ full' = (since >= RescanEvery)
  /\ unread' = {} /\ taking' = Nothing
  /\ gone' = Missing /\ misread' = {} /\ pc' = "read"
  /\ UNCHANGED <<surface, stop, world, changes, prev, first, since, emission>>

\* No snapshot: this cycle is skipped.
SnapshotFails ==
  /\ pc = "top" /\ ~stop /\ Fault
  /\ full' = (since >= RescanEvery) /\ pc' = "sleep"
  /\ UNCHANGED <<surface, stop, machine, prev, first, since, snapshot, emission>>

----------------------------------------------------------------------------
(* The difference                                                           *)

Entry(n, type, snap) == [name |-> n, type |-> type, snap |-> snap]

Both == {n \in Names : prev[n].there /\ taking[n].there}

Created == {Entry(n, "create", taking[n]) :
              n \in {m \in Names : ~prev[m].there /\ taking[m].there}}
Deleted == {Entry(n, "delete", prev[n]) :
              n \in {m \in Names : prev[m].there /\ ~taking[m].there}}
Flipped == {Entry(n, IF taking[n].up THEN "start" ELSE "stop", taking[n]) :
              n \in {m \in Both : prev[m].up # taking[m].up}}

\* Mutation: a service that changes in both is said to start or stop, no more.
ServiceDiffElse == Created \cup Flipped \cup Deleted

\* compute_diff of the services.
ServiceDiff ==
  Created \cup Flipped \cup Deleted
  \cup {Entry(n, "modify", taking[n]) :
          n \in {m \in Both : prev[m].cfg # taking[m].cfg}}

\* diff_and_emit of the tasks.
TaskDiff ==
  Created \cup Deleted
  \cup {Entry(n, "modify", taking[n]) :
          n \in {m \in Both : prev[m] # taking[m]}}

Diff == IF surface = "services" THEN ServiceDiff ELSE TaskDiff

\* Mutation: the count of cycles starts again with each.
TakenResetting ==
  /\ pc = "read" /\ unread = {} /\ NoFault
  /\ since' = 0
  /\ IF first /\ SilentFirst
     THEN /\ prev' = taking /\ first' = FALSE /\ view' = taking
          /\ pc' = "sleep" /\ UNCHANGED queue
     ELSE /\ queue' = Diff /\ pc' = "emit"
          /\ UNCHANGED <<prev, first, view>>
  /\ UNCHANGED <<surface, stop, machine, full, snapshot, dropped, stale>>

\* The first snapshot is silent: the receiver is supposed to know it.
Taken ==
  /\ pc = "read" /\ unread = {} /\ NoFault
  /\ since' = IF surface = "tasks" \/ full THEN 0 ELSE since + 1
  /\ IF first /\ SilentFirst
     THEN /\ prev' = taking /\ first' = FALSE /\ view' = taking
          /\ pc' = "sleep" /\ UNCHANGED queue
     ELSE /\ queue' = Diff /\ pc' = "emit"
          /\ UNCHANGED <<prev, first, view>>
  /\ UNCHANGED <<surface, stop, machine, full, snapshot, dropped, stale>>

\* What a line tells of its name.
Told(e) == IF e.type = "delete" THEN Absent ELSE e.snap

\* Names come in any order; the deletions after all others, a start or stop
\* before the modification of the same name.
NextUp(e) ==
  \A f \in queue \ {e} :
    /\ e.type = "delete" => f.type = "delete"
    /\ e.type = "modify" => f.name # e.name

\* try_submit: a line the spool refuses is counted, and not emitted again.
Emit ==
  /\ pc = "emit" /\ NoFault
  /\ \E e \in queue :
       /\ NextUp(e) /\ queue' = queue \ {e}
       /\ \/ /\ view' = [view EXCEPT ![e.name] = Told(e)]
             /\ stale' = stale \ {e.name} /\ UNCHANGED dropped
          \/ /\ dropped < MaxRefused /\ dropped' = dropped + 1
             /\ stale' = stale \cup {e.name} /\ UNCHANGED view
  /\ UNCHANGED <<surface, stop, pc, machine, loop, snapshot>>

Emitted ==
  /\ pc = "emit" /\ queue = {} /\ NoFault
  /\ prev' = taking /\ first' = FALSE /\ pc' = "sleep"
  /\ UNCHANGED <<surface, stop, machine, since, full, snapshot, emission>>

Wake ==
  /\ pc = "sleep" /\ NoFault
  /\ pc' = "top"
  /\ UNCHANGED <<surface, stop, machine, loop, snapshot, emission>>

----------------------------------------------------------------------------
Thread == \/ Ends \/ Enumerate \/ ProbeFails \/ QueryConfig \/ OpenRoot
          \/ ReadTask \/ SnapshotFails \/ Taken \/ Emit \/ Emitted \/ Wake

Next == Thread \/ Change \/ Shutdown

Spec == Init /\ [][Next]_vars

\* The thread goes on; nothing else has to happen.
FairSpec == Spec /\ WF_vars(Thread)

----------------------------------------------------------------------------
(* Properties                                                               *)

\* Every variable keeps its type.
TypeOK ==
  /\ surface \in {"services", "tasks"} /\ stop \in BOOLEAN
  /\ pc \in {"top", "read", "emit", "sleep", "ended"}
  /\ world \in [Names -> Items] /\ prev \in [Names -> Read]
  /\ taking \in [Names -> Read] /\ view \in [Names -> Read]
  /\ first \in BOOLEAN /\ full \in BOOLEAN /\ since \in Nat
  /\ unread \subseteq Names /\ stale \subseteq Names
  /\ gone \subseteq Names /\ misread \subseteq Names
  /\ queue \subseteq [name : Names, snap : Read,
                      type : {"create", "start", "stop", "modify", "delete"}]
  /\ dropped \in 0..MaxRefused
  /\ changes \in 0..MaxChanges /\ faults \in 0..MaxFaults

\* What the receiver knows of a name is what the thread will compare it with
\* the next time, unless the last line about it was refused: after each
\* emission, and in the middle of one for the names whose lines have gone.
\* The counter of refused lines tells of every such name.
ViewFollows ==
  /\ \A n \in Names \ stale :
       /\ pc # "emit" => view[n] = prev[n] /\ queue = {}
       /\ pc = "emit" /\ (\A e \in queue : e.name # n) => view[n] = taking[n]
  /\ Cardinality(stale) <= dropped

\* A deletion is reported only of an item that was absent from the machine
\* while the snapshot was taken, or that a failure this code tolerates has
\* hidden (a task or a directory of tasks that cannot be read, a probe that
\* fails): never because the whole snapshot failed.
DeletesAreReal ==
  \A e \in queue : e.type = "delete" => e.name \in gone \cup misread

\* Once the machine is left alone the snapshots come to show it as it is, even
\* a configuration changed without a start or a stop, even one that could not
\* be read at first.
CatchesUp == <>[]stop \/ <>[](prev = world)
=============================================================================
