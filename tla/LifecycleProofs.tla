-------------------------- MODULE LifecycleProofs --------------------------
(***************************************************************************)
(* What is proved of Lifecycle for every choice of the optional threads:   *)
(* the types, what a teardown has achieved when it ends, by itself or by   *)
(* force, and that a spool has no producer left once its writer is gone.   *)
(* (That it ends is checked by TLC only.)                                  *)
(*                                                                         *)
(* The inductive invariant says what each stage of the teardown can rely   *)
(* on: the threads joined so far are gone, and a plugin writer that is     *)
(* gone has left no session behind.                                        *)
(***************************************************************************)
EXTENDS Lifecycle, TLAPS

\* The threads that main has joined when it reaches a stage.
Gone ==
  [reload     |-> {},
   supervisor |-> {"reload"},
   server     |-> {"reload", "supervisor"},
   kernel     |-> {"reload", "supervisor", "accept"},
   plugin     |-> {"reload", "supervisor", "accept", "kwriter"},
   shipper    |-> {"reload", "supervisor", "accept", "kwriter", "pwriter"},
   control    |-> {"reload", "supervisor", "accept", "kwriter", "pwriter",
                   "shipper"},
   etw        |-> {"reload", "supervisor", "accept", "kwriter", "pwriter",
                   "shipper", "control"},
   polling    |-> {"reload", "supervisor", "accept", "kwriter", "pwriter",
                   "shipper", "control", "etw"},
   returned   |-> Joined]

Stages == Joining \cup {"returned"}

JoinedAreGone == main \in Stages => live \cap Gone[main] = {}

\* A plugin writer that was started and is not there any more has returned.
WriterWasLast ==
  main \notin Starting /\ "pwriter" \in config /\ "pwriter" \notin live
    => PluginSenders = {}

\* Likewise a kernel writer.
KernelWriterWasLast ==
  main \notin Starting /\ "kwriter" \in config /\ "kwriter" \notin live
    => KernelSenders = {}

NothingBeforeStart == main \in Starting => live = {} /\ config = {}

LifeInv ==
  TypeOK /\ NothingBeforeStart /\ JoinedAreGone /\ WriterWasLast

\* No producer of a spool outlives its writer: a writer that has returned, by
\* itself or joined, has left nobody behind who could still submit to its
\* channel, and nobody comes later.  So nothing is submitted to no one.
WritersLast == WriterWasLast /\ KernelWriterWasLast

LEMMA InitLifeInv == Init => LifeInv
BY DEF Init, LifeInv, TypeOK, NothingBeforeStart, JoinedAreGone, WriterWasLast,
       Starting, Stages, Joining, Pumping

LEMMA StepTypes == LifeInv /\ [Next]_vars => TypeOK'
<1> SUFFICES ASSUME LifeInv, [Next]_vars PROVE TypeOK'
  OBVIOUS
<1> USE DEF LifeInv, TypeOK, Next, Environment, vars, OpenDevice, StartFails, StartThreads, CheckFlag, EventArrives,
            DeviceFails, RequestStop, RestartForConfig, CancelIo, Connect,
            ClientLeaves, Return, Join, ForceExit, RestartExit
<1>1. main' \in Starting \cup Pumping \cup Joining \cup {"returned"}
  <2>1. \A m \in Joining : After[m] \in Joining \cup {"returned"}
    BY DEF After, Joining
  <2>2. CASE Join
    BY <2>1, <2>2 DEF CanJoin
  <2>3. CASE ~Join
    BY <2>3 DEF Starting, Pumping, Joining
  <2> QED
    BY <2>2, <2>3
<1>2. config' \subseteq Joined
  BY LifecycleAssumption DEF Joined
<1>3. live' \subseteq config' \cup Sessions
  BY DEF NothingBeforeStart, Starting
<1>4. live' \cap Sessions # {} => "accept" \in config'
  <2>1. CASE StartThreads
    BY <2>1, LifecycleAssumption DEF Joined, Sessions
  <2>2. CASE \E s \in Sessions : Connect(s)
    BY <2>2 DEF CanConnect, Sessions
  <2>3. CASE live' \subseteq live /\ config' = config
    BY <2>3
  <2> QED
    BY <2>1, <2>2, <2>3
<1>5. children' => "supervisor" \in live'
  BY DEF Joined, Sessions
<1>6. stop' \in BOOLEAN
  OBVIOUS
<1>7. cancelling' \in BOOLEAN
  OBVIOUS
<1>8. restarting' \in {"no", "first", "late"}
  OBVIOUS
<1>9. exit' \in {"running", "0", "1", "2"}
  OBVIOUS
<1> QED
  BY <1>1, <1>2, <1>3, <1>4, <1>5, <1>6, <1>7, <1>8, <1>9

LEMMA StepGone == LifeInv /\ [Next]_vars => NothingBeforeStart' /\ JoinedAreGone'
<1> SUFFICES ASSUME LifeInv, [Next]_vars PROVE NothingBeforeStart' /\ JoinedAreGone'
  OBVIOUS
<1> USE DEF LifeInv, TypeOK, NothingBeforeStart, JoinedAreGone, WriterWasLast,
            Starting, Pumping, Joining, Stages, Joined, Sessions
<1>1. CASE UNCHANGED vars
  BY <1>1 DEF vars
<1>2. CASE OpenDevice \/ StartFails
  BY <1>2 DEF OpenDevice, StartFails
<1>3. CASE StartThreads
  BY <1>3, LifecycleAssumption DEF StartThreads
<1>4. CASE CheckFlag \/ EventArrives \/ DeviceFails
  BY <1>4 DEF CheckFlag, EventArrives, DeviceFails, Gone
<1>5. CASE RequestStop \/ RestartForConfig
  BY <1>5 DEF RequestStop, RestartForConfig
<1>6. CASE CancelIo
  BY <1>6 DEF CancelIo, Gone
<1>7. CASE \E s \in Sessions : Connect(s)
  BY <1>7 DEF Connect, CanConnect, Gone
<1>8. CASE \E s \in Sessions : ClientLeaves(s)
  BY <1>8 DEF ClientLeaves
<1>9. CASE \E t \in Joined \cup Sessions : Return(t)
  BY <1>9 DEF Return
<1>10. CASE Join
  BY <1>10 DEF Join, CanJoin, Awaited, After, Gone
<1>11. CASE ForceExit \/ RestartExit
  BY <1>11 DEF ForceExit, RestartExit
<1> QED
  BY <1>1, <1>2, <1>3, <1>4, <1>5, <1>6, <1>7, <1>8, <1>9, <1>10, <1>11
  DEF Next, Environment

LEMMA StepWriter == LifeInv /\ [Next]_vars => WriterWasLast'
<1> SUFFICES ASSUME LifeInv, [Next]_vars PROVE WriterWasLast'
  OBVIOUS
<1> USE DEF LifeInv, TypeOK, NothingBeforeStart, JoinedAreGone, WriterWasLast,
            Starting, Pumping, Joining, Stages, Joined, Sessions
<1>1. CASE UNCHANGED vars
  BY <1>1 DEF vars, PluginSenders
<1>2. CASE OpenDevice \/ StartFails
  BY <1>2 DEF OpenDevice, StartFails, PluginSenders
<1>3. CASE StartThreads
  BY <1>3, LifecycleAssumption DEF StartThreads, PluginSenders
<1>4. CASE CheckFlag \/ EventArrives \/ DeviceFails
  BY <1>4 DEF CheckFlag, EventArrives, DeviceFails, Gone, PluginSenders, BeforeJoin
<1>5. CASE RequestStop \/ RestartForConfig
  BY <1>5 DEF RequestStop, RestartForConfig, PluginSenders
<1>6. CASE CancelIo
  BY <1>6 DEF CancelIo, Gone, PluginSenders, BeforeJoin
<1>7. CASE \E s \in Sessions : Connect(s)
  BY <1>7 DEF Connect, CanConnect, Gone, PluginSenders
<1>8. CASE \E s \in Sessions : ClientLeaves(s)
  BY <1>8 DEF ClientLeaves, PluginSenders
<1>9. CASE \E t \in Joined \cup Sessions : Return(t)
  BY <1>9 DEF Return, CanReturn, PluginSenders
<1>10. CASE Join
  BY <1>10 DEF Join, CanJoin, Awaited, After, Gone, PluginSenders, BeforeJoin
<1>11. CASE ForceExit \/ RestartExit
  BY <1>11 DEF ForceExit, RestartExit, PluginSenders
<1> QED
  BY <1>1, <1>2, <1>3, <1>4, <1>5, <1>6, <1>7, <1>8, <1>9, <1>10, <1>11
  DEF Next, Environment

LEMMA StepLifeInv == LifeInv /\ [Next]_vars => LifeInv'
BY StepTypes, StepGone, StepWriter DEF LifeInv

\* Every variable keeps its type; in particular there is a session only if
\* the plugin server was started, and a child only under a live supervisor.
THEOREM LifecycleTypes == Spec => []TypeOK
<1>1. LifeInv => TypeOK
  BY DEF LifeInv
<1> QED
  BY <1>1, InitLifeInv, StepLifeInv, PTL DEF Spec

\* When run_agent returns, its threads have, and no plugin session is left if
\* there is a plugin spool: in every configuration.
THEOREM LifecycleCleanReturn == Spec => []CleanReturn
<1>1. LifeInv => CleanReturn
  BY DEF LifeInv, CleanReturn, TypeOK, JoinedAreGone, WriterWasLast, Stages,
         Starting, Gone, PluginSenders
<1> QED
  BY <1>1, InitLifeInv, StepLifeInv, PTL DEF Spec

\* When nothing but the shipper and the control plane can move, main waits for
\* one of them, or for the writer of a spool that someone still holds open.
LEMMA QuietStage ==
  ASSUME LifeInv, stop, main \in Joining, Quiet({"shipper", "control"})
  PROVE  /\ Awaited[main] \in {"kwriter", "pwriter", "shipper", "control"}
         /\ Awaited[main] \in live
<1>1. Awaited[main] \in live
  BY DEF Quiet, CanJoin
<1>2. \A t \in live : CanReturn(t) => t \in {"shipper", "control"}
  BY DEF Quiet
<1>3. \A t \in {"reload", "supervisor", "accept", "etw", "polling"} : CanReturn(t)
  BY DEF CanReturn
<1> QED
  BY <1>1, <1>2, <1>3 DEF Awaited, Joining

LEMMA ForceExitSeals ==
  ASSUME LifeInv, ForceExit, main \in Joining, "etw" \notin config
  PROVE  /\ "kwriter" \notin live
         /\ "external" \notin live => "pwriter" \notin live
<1>1. \A t \in live : CanReturn(t) => t \in {"shipper", "control"}
  BY DEF ForceExit, Quiet
<1>2. stop /\ Quiet({"shipper", "control"})
  BY DEF ForceExit
<1>3. /\ "polling" \notin live
      /\ "accept" \notin live
  BY <1>1, <1>2 DEF CanReturn
<1>4. main # "kernel"
  <2>1. SUFFICES ASSUME main = "kernel" PROVE FALSE
    OBVIOUS
  <2>2. "kwriter" \in live /\ KernelSenders # {}
    BY <1>1, <1>2, <2>1, QuietStage DEF Awaited, CanReturn
  <2>3. KernelSenders = {}
    BY <1>3, <2>1 DEF KernelSenders, BeforeJoin, Starting, Pumping
  <2> QED
    BY <2>2, <2>3
<1>5. main \in {"plugin", "shipper", "control"}
  BY <1>2, <1>4, QuietStage DEF Awaited, Joining
<1>6. "kwriter" \notin live /\ "supervisor" \notin live
  BY <1>5 DEF LifeInv, JoinedAreGone, Stages, Joining, Gone
<1>7. ASSUME "external" \notin live, "pwriter" \in live PROVE FALSE
  <2>1. PluginSenders # {}
    BY <1>1, <1>7 DEF CanReturn
  <2>2. "auto" \in live
    BY <1>3, <1>5, <1>7, <2>1
    DEF PluginSenders, BeforeJoin, Starting, Pumping, Sessions, LifeInv,
        JoinedAreGone, Stages, Joining, Gone
  <2>3. children
    BY <1>1, <2>2 DEF CanReturn
  <2> QED
    BY <1>6, <2>3 DEF LifeInv, TypeOK
<1> QED
  BY <1>6, <1>7

\* A stop that ends in the teardown, by force, has sealed the spools, except
\* for what ETW and foreign plugins hold: in every configuration.
THEOREM LifecycleTeardownSeals == Spec => []TeardownSeals
<1>1. Init => TeardownSeals
  BY DEF Init, TeardownSeals
<1>2. LifeInv /\ TeardownSeals /\ [Next]_vars => TeardownSeals'
  <2> SUFFICES ASSUME LifeInv, TeardownSeals, [Next]_vars PROVE TeardownSeals'
    OBVIOUS
  <2>1. CASE ForceExit
    BY <2>1, ForceExitSeals DEF ForceExit, TeardownSeals
  <2>2. CASE UNCHANGED vars
    BY <2>2 DEF vars, TeardownSeals
  <2>3. CASE Running /\ exit' # "0"
    BY <2>3 DEF TeardownSeals
  <2>4. CASE Running /\ exit' = "0" /\ ~ForceExit
    <3>1. main' \notin Joining \/ ~stop'
      BY <2>4
      DEF Running, Next, Environment, OpenDevice, StartFails, StartThreads,
          CheckFlag, EventArrives, DeviceFails, RequestStop, RestartForConfig,
          CancelIo, Connect, ClientLeaves, Return, Join, RestartExit, vars,
          Joining, After, CanJoin
    <3> QED
      BY <3>1 DEF TeardownSeals
  <2>5. Running \/ UNCHANGED vars
    BY DEF Next, Environment, OpenDevice, StartFails, StartThreads, CheckFlag,
           EventArrives, DeviceFails, RequestStop, RestartForConfig, CancelIo,
           Connect, ClientLeaves, Return, Join, ForceExit, RestartExit
  <2> QED
    BY <2>1, <2>2, <2>3, <2>4, <2>5
<1> QED
  BY <1>1, <1>2, InitLifeInv, StepLifeInv, PTL DEF Spec

LEMMA InitKernelWriter == Init => KernelWriterWasLast
BY DEF Init, KernelWriterWasLast, Starting, Pumping

\* The kernel writer returns when its channel is closed, and no end of it is
\* made once the threads run.
LEMMA StepKernelWriter ==
  LifeInv /\ KernelWriterWasLast /\ [Next]_vars => KernelWriterWasLast'
<1> SUFFICES ASSUME LifeInv, KernelWriterWasLast, [Next]_vars
             PROVE  KernelWriterWasLast'
  OBVIOUS
<1> USE DEF LifeInv, TypeOK, NothingBeforeStart, JoinedAreGone, KernelWriterWasLast,
            Starting, Pumping, Joining, Stages, Joined, Sessions
<1>1. CASE UNCHANGED vars
  BY <1>1 DEF vars, KernelSenders
<1>2. CASE OpenDevice \/ StartFails
  BY <1>2 DEF OpenDevice, StartFails, KernelSenders
<1>3. CASE StartThreads
  BY <1>3, LifecycleAssumption DEF StartThreads, KernelSenders
<1>4. CASE CheckFlag \/ EventArrives \/ DeviceFails
  BY <1>4 DEF CheckFlag, EventArrives, DeviceFails, Gone, KernelSenders, BeforeJoin
<1>5. CASE RequestStop \/ RestartForConfig
  BY <1>5 DEF RequestStop, RestartForConfig, KernelSenders
<1>6. CASE CancelIo
  BY <1>6 DEF CancelIo, Gone, KernelSenders, BeforeJoin
<1>7. CASE \E s \in Sessions : Connect(s)
  BY <1>7 DEF Connect, CanConnect, Gone, KernelSenders
<1>8. CASE \E s \in Sessions : ClientLeaves(s)
  BY <1>8 DEF ClientLeaves, KernelSenders
<1>9. CASE \E t \in Joined \cup Sessions : Return(t)
  BY <1>9 DEF Return, CanReturn, KernelSenders
<1>10. CASE Join
  BY <1>10 DEF Join, CanJoin, Awaited, After, Gone, KernelSenders, BeforeJoin
<1>11. CASE ForceExit \/ RestartExit
  BY <1>11 DEF ForceExit, RestartExit, KernelSenders
<1> QED
  BY <1>1, <1>2, <1>3, <1>4, <1>5, <1>6, <1>7, <1>8, <1>9, <1>10, <1>11
  DEF Next, Environment

\* The order of the teardown (main.rs:370-490) lets every producer go before
\* its writer: in every configuration, and however the process stops.
THEOREM LifecycleWritersLast == Spec => []WritersLast
<1>1. LifeInv /\ KernelWriterWasLast => WritersLast
  BY DEF LifeInv, WritersLast
<1>2. LifeInv /\ KernelWriterWasLast /\ [Next]_vars
        => LifeInv' /\ KernelWriterWasLast'
  BY StepLifeInv, StepKernelWriter
<1> QED
  BY <1>1, <1>2, InitLifeInv, InitKernelWriter, PTL DEF Spec
=============================================================================
