----------------------------- MODULE Lifecycle -----------------------------
(***************************************************************************)
(* The life of the agent process (main.rs, shutdown.rs, service.rs): the   *)
(* start of the threads, the pump loop, the ways a stop is requested, the  *)
(* teardown that joins one subsystem after the other, and the threads that *)
(* force the process to exit.                                              *)
(*                                                                         *)
(* What matters of a thread here is when it can return, and which ends of  *)
(* which spool channel it holds: the writer of a spool returns, after it   *)
(* has sealed its active file, only when every end is dropped (Spool).     *)
(*                                                                         *)
(* Time is not modelled, but for one thing: the 8 s and the 2 s that the   *)
(* forced exits wait are long enough for every thread that returns         *)
(* promptly.  The threads that may be in an HTTP request (30 s) are not    *)
(* prompt; nor, for the 2 s, is the supervisor (5 s of grace per child).   *)
(***************************************************************************)
EXTENDS FiniteSets

CONSTANT Optional    (* the threads that the configuration may enable       *)

Joined   == {"reload", "supervisor", "accept", "kwriter", "pwriter",
             "shipper", "control", "etw", "polling"}
Sessions == {"auto",        (* of a plugin that the supervisor launched     *)
             "external"}    (* of a plugin started by someone else          *)

ASSUME LifecycleAssumption == Optional \subseteq Joined \ {"kwriter"}

VARIABLES
  main,        (* where the main thread is: a stage, see below               *)
  config,      (* the threads that were started                              *)
  live,        (* the threads that have not returned, sessions included      *)
  children,    (* the supervisor's child processes run                       *)
  stop,        (* SHUTDOWN                                                   *)
  cancelling,  (* a shutdown::request has set the flag, not yet cancelled    *)
  restarting,  (* "no"; "first" or "late": a restart after a new profile,    *)
               (* before or after another request                            *)
  exit         (* "running", or how the process ended                        *)

vars == <<main, config, live, children, stop, cancelling, restarting, exit>>

\* Main is before the pump loop, in it, and then at the join of a subsystem.
Starting == {"start", "device"}
Pumping  == {"check", "io"}
Joining  == {"reload", "supervisor", "server", "kernel", "plugin", "shipper",
             "control", "etw", "polling"}

Init ==
  /\ main = "start" /\ config = {} /\ live = {} /\ children = FALSE
  /\ stop = FALSE /\ cancelling = FALSE /\ restarting = "no"
  /\ exit = "running"

Running == exit = "running"

----------------------------------------------------------------------------
(* Start.                                                                   *)

\* The configuration is loaded and the device opened; its handle is handed to
\* the shutdown machinery.
OpenDevice ==
  /\ Running /\ main = "start"
  /\ main' = "device"
  /\ UNCHANGED <<config, live, children, stop, cancelling, restarting, exit>>

\* A configuration that does not load ends the process with 2; a device that
\* does not open, or a kernel writer that cannot be spawned, with 1.
StartFails ==
  /\ Running /\ main \in Starting
  /\ exit' \in IF main = "start" THEN {"1", "2"} ELSE {"1"}
  /\ UNCHANGED <<main, config, live, children, stop, cancelling, restarting>>

\* The threads are spawned.  A subsystem may be disabled or fail to start; the
\* supervisor needs the plugin server, the control plane the credentials of the
\* shipper.  A spool writer that cannot create its files returns at once, which
\* is as if it had not been started.
StartThreads ==
  /\ Running /\ main = "device"
  /\ \E S \in SUBSET Optional :
       /\ "supervisor" \in S => "accept" \in S
       /\ "control" \in S => "shipper" \in Optional
       /\ config' \in {S, S \cup {"kwriter"}}
       /\ children' \in IF "supervisor" \in S THEN BOOLEAN ELSE {FALSE}
  /\ live' = config' /\ main' = "check"
  /\ UNCHANGED <<stop, cancelling, restarting, exit>>

----------------------------------------------------------------------------
(* run_pump_loop.                                                           *)

CheckFlag ==
  /\ Running /\ main = "check"
  /\ main' = IF stop THEN "reload" ELSE "io"
  /\ UNCHANGED <<config, live, children, stop, cancelling, restarting, exit>>

\* DeviceIoControl returns: with an event, or with too small a buffer.
EventArrives ==
  /\ Running /\ main = "io"
  /\ main' = "check"
  /\ UNCHANGED <<config, live, children, stop, cancelling, restarting, exit>>

\* DeviceIoControl fails, and the loop ends.
DeviceFails ==
  /\ Running /\ main = "io"
  /\ main' = "reload"
  /\ UNCHANGED <<config, live, children, stop, cancelling, restarting, exit>>

----------------------------------------------------------------------------
(* Requests to stop.                                                        *)

\* shutdown::request sets the flag (Ctrl+C, or the service's STOP)...
RequestStop ==
  /\ Running
  /\ stop' = TRUE /\ cancelling' = TRUE
  /\ UNCHANGED <<main, config, live, children, restarting, exit>>

\* ... and then cancels the I/O in flight, which ends the pump loop.
CancelIo ==
  /\ Running /\ cancelling
  /\ cancelling' = FALSE
  /\ main' = IF main = "io" THEN "reload" ELSE main
  /\ UNCHANGED <<config, live, children, stop, restarting, exit>>

\* A profile that changes agent.json: the heartbeat thread sets the flag, but
\* cancels nothing, and schedules the exit with 2.
RestartForConfig ==
  /\ Running /\ "control" \in live /\ main \notin Starting /\ restarting = "no"
  /\ restarting' = IF stop THEN "late" ELSE "first"
  /\ stop' = TRUE
  /\ UNCHANGED <<main, config, live, children, cancelling, exit>>

----------------------------------------------------------------------------
(* Plugin sessions.                                                         *)

\* Mutation: a client is served whether or not there is a server.
CanConnect_Always == TRUE

CanConnect == "accept" \in live

\* The accept thread takes a client and starts a session thread.
Connect(s) ==
  /\ Running /\ CanConnect /\ s \notin live
  /\ s = "auto" => children
  /\ live' = live \cup {s}
  /\ UNCHANGED <<main, config, children, stop, cancelling, restarting, exit>>

\* A client leaves, or breaks the protocol.
ClientLeaves(s) ==
  /\ Running /\ s \in live
  /\ live' = live \ {s}
  /\ UNCHANGED <<main, config, children, stop, cancelling, restarting, exit>>

----------------------------------------------------------------------------
(* The ends of the two spool channels.                                      *)

BeforeJoin == [kernel |-> Starting \cup Pumping \cup {"reload", "supervisor", "server"},
               plugin |-> Starting \cup Pumping \cup {"reload", "supervisor", "server",
                                                      "kernel"}]

\* Mutation: shutdown joins the writer without dropping the handle's end.
KernelSenders_NotDropped ==
  {"handle"}
    \cup (live \cap {"polling"})
    \cup {x \in {"etw"} : x \in config /\ main \notin {"polling", "returned"}}

\* The end of the handle goes when its shutdown is called; the polling threads
\* own theirs; those of ETW are in the callbacks of the trace, which EtwHandle
\* owns until its own shutdown is over.
KernelSenders ==
  {x \in {"handle"} : main \in BeforeJoin.kernel}
    \cup (live \cap {"polling"})
    \cup {x \in {"etw"} : x \in config /\ main \notin {"polling", "returned"}}

\* The accept thread has an end, and each session a clone of it.
PluginSenders ==
  {x \in {"handle"} : main \in BeforeJoin.plugin}
    \cup (live \cap ({"accept"} \cup Sessions))

----------------------------------------------------------------------------
(* The threads return.                                                      *)

CanReturn(t) ==
  CASE t = "kwriter"  -> KernelSenders = {}
    [] t = "pwriter"  -> PluginSenders = {}
    [] t = "auto"     -> ~children
    [] t = "external" -> FALSE
    [] OTHER          -> stop

\* A thread returns: a loop that has seen the flag, a writer whose channel is
\* closed, the session of a dead child.  The supervisor has killed its children.
Return(t) ==
  /\ Running /\ t \in live /\ CanReturn(t)
  /\ live' = live \ {t}
  /\ children' = (children /\ t # "supervisor")
  /\ UNCHANGED <<main, config, stop, cancelling, restarting, exit>>

\* The thread that main waits for at each stage, and the stage that follows.
Awaited == [reload |-> "reload", supervisor |-> "supervisor", server |-> "accept",
            kernel |-> "kwriter", plugin |-> "pwriter", shipper |-> "shipper",
            control |-> "control", etw |-> "etw", polling |-> "polling"]

\* Mutation: the plugin spool is not shut down.
After_SkipsPlugin ==
  [reload |-> "supervisor", supervisor |-> "server", server |-> "kernel",
   kernel |-> "shipper", plugin |-> "shipper", shipper |-> "control",
   control |-> "etw", etw |-> "polling", polling |-> "returned"]

After ==
  [reload |-> "supervisor", supervisor |-> "server", server |-> "kernel",
   kernel |-> "plugin", plugin |-> "shipper", shipper |-> "control",
   control |-> "etw", etw |-> "polling", polling |-> "returned"]

CanJoin == main \in Joining /\ Awaited[main] \notin live

\* A join returns.  After the last one run_agent does, and the process ends.
Join ==
  /\ Running /\ CanJoin
  /\ main' = After[main]
  /\ exit' = IF main' = "returned" THEN "0" ELSE exit
  /\ UNCHANGED <<config, live, children, stop, cancelling, restarting>>

----------------------------------------------------------------------------
(* Forced exits.                                                            *)

\* Nothing but the given slow threads has anything to do.
Quiet(slow) ==
  /\ ~CanJoin /\ main # "check" /\ ~(cancelling /\ main = "io")
  /\ \A t \in live \ slow : ~CanReturn(t)

\* Mutation: no watchdog.
ForceExit_Never == FALSE /\ UNCHANGED vars

\* The watchdog, 8 s after the flag; the exit of a restart comes before it if
\* the restart has set the flag.
ForceExit ==
  /\ Running /\ stop /\ restarting # "first"
  /\ Quiet({"shipper", "control"})
  /\ exit' = "0"
  /\ UNCHANGED <<main, config, live, children, stop, cancelling, restarting>>

\* schedule_exit_after_shutdown, 2 s after the restart was decided.
RestartExit ==
  /\ Running /\ restarting # "no"
  /\ Quiet({"shipper", "control", "supervisor"})
  /\ exit' = "2"
  /\ UNCHANGED <<main, config, live, children, stop, cancelling, restarting>>

----------------------------------------------------------------------------
Environment ==
  \/ StartFails \/ EventArrives \/ DeviceFails
  \/ RequestStop \/ RestartForConfig
  \/ \E s \in Sessions : Connect(s) \/ ClientLeaves(s)

Next ==
  \/ OpenDevice \/ StartThreads \/ CheckFlag \/ CancelIo \/ Join
  \/ ForceExit \/ RestartExit
  \/ \E t \in Joined \cup Sessions : Return(t)
  \/ Environment

\* Each thread is scheduled; of the environment nothing is assumed: the driver
\* may have no event, and a plugin may stay connected.
Fairness ==
  /\ WF_vars(OpenDevice \/ StartThreads \/ CheckFlag \/ Join)
  /\ WF_vars(CancelIo)
  /\ \A t \in Joined \cup Sessions : WF_vars(Return(t))
  /\ WF_vars(ForceExit) /\ WF_vars(RestartExit)

Spec == Init /\ [][Next]_vars /\ Fairness

----------------------------------------------------------------------------
(* Properties.                                                              *)

TypeOK ==
  /\ main \in Starting \cup Pumping \cup Joining \cup {"returned"}
  /\ config \subseteq Joined
  /\ live \subseteq config \cup Sessions
  /\ live \cap Sessions # {} => "accept" \in config
  /\ children => "supervisor" \in live
  /\ stop \in BOOLEAN /\ cancelling \in BOOLEAN
  /\ restarting \in {"no", "first", "late"}
  /\ exit \in {"running", "0", "1", "2"}

\* A requested stop ends the process, whatever blocks: a cancellation that
\* misses the pump, a plugin that stays connected, a trace that holds a
\* channel open.  This is what the watchdog of main.rs:88 is for.
StopEnds == stop ~> ~Running

\* When run_agent returns, no thread is left running, no event is left in a
\* channel, and both spools are sealed; and there is no session then, although
\* nothing stops the sessions, since each holds the plugin spool open.
CleanReturn ==
  main = "returned" =>
    /\ live \subseteq Sessions
    /\ "pwriter" \in config => live = {}

\* A stop that got as far as the teardown seals the kernel spool before the
\* process ends, when ETW is off, and the plugin spool unless a plugin of
\* someone else is still connected: the grace period suffices.
TeardownSeals ==
  exit = "0" /\ main \in Joining /\ stop /\ "etw" \notin config =>
    /\ "kwriter" \notin live
    /\ "external" \notin live => "pwriter" \notin live

\* "main joins (...) the two spool writers, which seal their active file"
\* (config-reference.md:142), when it gets there.
KernelSpoolSealed == main = "kernel" /\ exit = "0" => "kwriter" \notin live

\* Main calls the joins only once the shutdown signal is posted
\* (supervisor.rs:111), and so the teardown comes to its end.
TeardownEnds == main \in Joining ~> ~Running
=============================================================================
