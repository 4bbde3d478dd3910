-------------------------- MODULE SupervisorProofs --------------------------
(***************************************************************************)
(* Proofs about Supervisor: its types, that a plugin never runs twice, that *)
(* no place in the set of supervised plugins is lost, and what is left     *)
(* running when the process ends.                                          *)
(***************************************************************************)
EXTENDS Supervisor, TLAPS

Busy(t) == threads[t].at # "free"

\* A thread at work holds the place of its id in the set, alone.
Reserved ==
  /\ \A t \in Threads : Busy(t) => Id(t) \in supervised
  /\ \A t, u \in Threads : Id(t) = Id(u) /\ Busy(t) /\ Busy(u) => t = u

\* A process belongs to a thread that waits for it.
Watched ==
  \A t \in Threads : child[t] # "none" => threads[t].at \in {"wait", "poll", "grace"}

\* What the scan has chosen, one manifest per id, is not under supervision.
Chosen ==
  /\ \A k, l \in todo : k.id = l.id => k = l
  /\ scan = "launch" => \A l \in todo : l.id \notin supervised

\* Every thread at work has a handle somewhere, and those that shutdown takes
\* are all joined before it returns.
Handled ==
  /\ \A t \in Threads : Busy(t) => t \in handles \cup taken \cup fresh
  /\ main \in {"starting", "running", "joined", "exited"} => taken = {}

SupInv == TypeOK /\ Reserved /\ Watched /\ Chosen /\ Handled

\* The identity of a thread, and the place of each id.
LEMMA ThreadFacts ==
  /\ \A t \in Threads : Id(t) \in Plugins
  /\ \A p \in Plugins : <<p, 1>> \in Threads /\ <<p, 2>> \in Threads
                          /\ Id(<<p, 1>>) = p /\ Id(<<p, 2>>) = p
  /\ Watcher \notin Threads
BY DEF Threads, Id, Watcher

LEMMA NextBackoffRange == \A b \in 1 .. MaxBackoff : NextBackoff(b) \in 1 .. MaxBackoff
BY SupervisorAssumption DEF NextBackoff

LEMMA InitSupInv == Init => SupInv
<1> SUFFICES ASSUME Init PROVE SupInv
  OBVIOUS
<1> USE DEF Init
<1>1. TypeOK
  <2>1. disk \in [Plugins -> {Absent} \cup Manifests]
    BY DEF Manifests
  <2>2. Free \in [at : Places, current : {Absent} \cup Manifests, backoff : 1 .. MaxBackoff]
    BY SupervisorAssumption DEF Free, Places
  <2>3. 0 \in 0 .. MaxChanges /\ 0 \in 0 .. MaxFaults
    BY SupervisorAssumption
  <2> QED
    BY <2>1, <2>2, <2>3 DEF TypeOK
<1>2. \A t \in Threads : ~Busy(t) /\ child[t] = "none"
  BY DEF Busy, Free
<1>3. Reserved /\ Watched
  BY <1>2 DEF Reserved, Watched
<1>4. Chosen /\ Handled
  BY <1>2 DEF Chosen, Handled
<1> QED
  BY <1>1, <1>3, <1>4 DEF SupInv

----------------------------------------------------------------------------
(* The scan.                                                                *)

LEMMA ScanTypes == ASSUME TypeOK, Scanner PROVE TypeOK'
<1>1. CASE Load
  <2>1. todo' \subseteq [id : Plugins, manifest : Manifests]
    BY <1>1 DEF Load, Launchable, TypeOK
  <2>2. faults' \in 0 .. MaxFaults
    BY <1>1, SupervisorAssumption DEF Load, Fault, TypeOK
  <2> QED
    BY <1>1, <2>1, <2>2 DEF Load, TypeOK, manifests, stopping
<1>2. CASE Choose
  BY <1>2 DEF Choose, TypeOK, manifests, stopping
<1>3. ASSUME NEW l \in todo, Launch(l) PROVE TypeOK'
  <2>1. l.id \in Plugins /\ l.manifest \in Manifests
    BY <1>3 DEF TypeOK
  <2>2. PICK t \in {<<l.id, 1>>, <<l.id, 2>>} :
          /\ threads' = [threads EXCEPT ![t] = [at |-> "head", current |-> l.manifest,
                                                backoff |-> 1]]
          /\ fresh' = {t} /\ handles' = handles \ {t} /\ taken' = taken \ {t}
    BY <1>3 DEF Launch
  <2>3. t \in Threads
    BY <2>1, <2>2, ThreadFacts
  <2>4. [at |-> "head", current |-> l.manifest, backoff |-> 1]
          \in [at : Places, current : {Absent} \cup Manifests, backoff : 1 .. MaxBackoff]
    BY <2>1, SupervisorAssumption DEF Places
  <2>5. threads' \in [Threads -> [at : Places, current : {Absent} \cup Manifests,
                                  backoff : 1 .. MaxBackoff]]
    BY <2>2, <2>3, <2>4 DEF TypeOK
  <2> QED
    BY <1>3, <2>1, <2>2, <2>3, <2>5 DEF Launch, Reserve, TypeOK, manifests
<1>4. CASE Push
  BY <1>4 DEF Push, TypeOK, manifests, stopping
<1>5. CASE ScanOver
  BY <1>5 DEF ScanOver, TypeOK, manifests
<1>6. CASE WatcherWakes
  BY <1>6 DEF WatcherWakes, TypeOK, manifests, stopping
<1> QED
  BY <1>1, <1>2, <1>3, <1>4, <1>5, <1>6 DEF Scanner

LEMMA ScanSupInv == ASSUME SupInv, Scanner PROVE SupInv'
<1> USE DEF SupInv
<1>0. TypeOK'
  BY ScanTypes
<1>1. CASE Load
  BY <1>0, <1>1 DEF Load, Launchable, Reserved, Watched, Chosen, Handled, Busy, stopping
<1>2. CASE Choose
  BY <1>0, <1>2 DEF Choose, Reserved, Watched, Chosen, Handled, Busy, stopping
<1>3. ASSUME NEW l \in todo, Launch(l) PROVE SupInv'
  <2>1. l.id \in Plugins /\ l.id \notin supervised /\ scan = "launch" /\ fresh = {}
    BY <1>3 DEF Launch, TypeOK, Chosen
  <2>2. PICK t \in {<<l.id, 1>>, <<l.id, 2>>} :
          /\ threads[t].at = "free"
          /\ threads' = [threads EXCEPT ![t] = [at |-> "head", current |-> l.manifest,
                                                backoff |-> 1]]
          /\ fresh' = {t} /\ handles' = handles \ {t} /\ taken' = taken \ {t}
    BY <1>3 DEF Launch
  <2>3. t \in Threads /\ Id(t) = l.id
    BY <2>1, <2>2, ThreadFacts
  <2>4. \A u \in Threads : Busy(u)' => u = t \/ Busy(u)
    BY <2>2 DEF Busy, TypeOK
  <2>5. \A u \in Threads : Busy(u) => Id(u) # l.id
    BY <2>1 DEF Reserved
  <2>6. supervised' = supervised \cup {l.id}
    BY <1>3 DEF Launch, Reserve
  <2>7. Reserved'
    BY <2>3, <2>4, <2>5, <2>6 DEF Reserved
  <2>8. Watched'
    BY <1>3, <2>2, <2>3 DEF Launch, Watched, TypeOK
  <2>9. Chosen'
    BY <1>3, <2>1, <2>6 DEF Launch, Chosen
  <2>10. Handled'
    BY <1>3, <2>1, <2>2, <2>4 DEF Launch, Handled
  <2> QED
    BY <1>0, <2>7, <2>8, <2>9, <2>10
<1>4. CASE Push
  BY <1>0, <1>4 DEF Push, Reserved, Watched, Chosen, Handled, Busy, stopping
<1>5. CASE ScanOver
  BY <1>0, <1>5 DEF ScanOver, Reserved, Watched, Chosen, Handled, Busy
<1>6. CASE WatcherWakes
  BY <1>0, <1>6 DEF WatcherWakes, Reserved, Watched, Chosen, Handled, Busy, stopping
<1> QED
  BY <1>1, <1>2, <1>3, <1>4, <1>5, <1>6 DEF Scanner

----------------------------------------------------------------------------
(* A supervisor thread.                                                     *)

Record == [at : Places, current : {Absent} \cup Manifests, backoff : 1 .. MaxBackoff]

\* What every step of a thread but its last does: it stays at work, in a place
\* that fits what becomes of its process.
Works(t) ==
  /\ \E r \in Record :
       /\ r.at # "free" /\ threads' = [threads EXCEPT ![t] = r]
       /\ \E c \in {"none", "alive", "exited"} :
            /\ child' = [child EXCEPT ![t] = c]
            /\ c # "none" => r.at \in {"wait", "poll", "grace"}
  /\ faults' \in 0 .. MaxFaults
  /\ strays' \subseteq Plugins
  /\ ThreadOnly /\ UNCHANGED supervised

LEMMA WorksSupInv ==
  ASSUME SupInv, NEW t \in Threads, Busy(t), Works(t)
  PROVE  SupInv'
<1> USE DEF SupInv
<1>1. PICK r \in Record, c \in {"none", "alive", "exited"} :
        /\ r.at # "free" /\ threads' = [threads EXCEPT ![t] = r]
        /\ child' = [child EXCEPT ![t] = c]
        /\ c # "none" => r.at \in {"wait", "poll", "grace"}
  BY DEF Works
<1>2. threads' \in [Threads -> Record] /\ child' \in [Threads -> {"none", "alive", "exited"}]
  BY <1>1 DEF TypeOK, Record
<1>3. TypeOK'
  BY <1>2 DEF Works, TypeOK, Record, ThreadOnly, manifests, scanning, stopping
<1>4. \A u \in Threads : Busy(u)' => Busy(u)
  BY <1>1 DEF Busy, TypeOK
<1>5. Reserved'
  BY <1>4 DEF Reserved, Works
<1>6. Watched'
  BY <1>1 DEF Watched, TypeOK
<1>7. Chosen' /\ Handled'
  BY <1>4 DEF Chosen, Handled, Works, ThreadOnly, manifests, scanning, stopping
<1> QED
  BY <1>3, <1>5, <1>6, <1>7

\* A step that only moves the thread, and may end its process.
LEMMA MoveWorks ==
  ASSUME TypeOK, NEW t \in Threads, NEW place \in Places \ {"free"}, Goto(t, place),
         NEW c \in {"none", "alive", "exited"}, child' = [child EXCEPT ![t] = c],
         c # "none" => place \in {"wait", "poll", "grace"},
         faults' \in 0 .. MaxFaults, strays' \subseteq Plugins,
         ThreadOnly, UNCHANGED supervised
  PROVE  Works(t)
<1> DEFINE r == [threads[t] EXCEPT !.at = place]
<1>1. threads[t] \in Record
  BY DEF TypeOK, Record
<1>2. r \in Record /\ r.at = place
  BY <1>1 DEF Record
<1>3. threads' = [threads EXCEPT ![t] = r]
  BY DEF Goto, TypeOK
<1> QED
  BY <1>2, <1>3 DEF Works

\* A step that makes the thread back off.
LEMMA BackOffWorks ==
  ASSUME TypeOK, NEW t \in Threads, NEW b \in 1 .. MaxBackoff, BackOff(t, b),
         child' = [child EXCEPT ![t] = "none"],
         faults' \in 0 .. MaxFaults, strays' \subseteq Plugins,
         ThreadOnly, UNCHANGED supervised
  PROVE  Works(t)
<1> DEFINE r == [threads[t] EXCEPT !.at = "backoff", !.backoff = NextBackoff(b)]
<1>1. threads[t] \in Record
  BY DEF TypeOK, Record
<1>2. NextBackoff(b) \in 1 .. MaxBackoff
  BY NextBackoffRange
<1>3. r \in Record /\ r.at = "backoff"
  BY <1>1, <1>2 DEF Record, Places
<1>4. threads' = [threads EXCEPT ![t] = r]
  BY DEF BackOff, TypeOK
<1> QED
  BY <1>3, <1>4 DEF Works

LEMMA FaultType == TypeOK /\ Fault => faults' \in 0 .. MaxFaults
BY SupervisorAssumption DEF TypeOK, Fault

LEMMA StepWorks ==
  ASSUME SupInv, NEW t \in Threads, Supervise(t), ~ThreadEnds(t)
  PROVE  Busy(t) /\ Works(t)
<1> USE DEF SupInv
<1>0. /\ child[t] \in {"none", "alive", "exited"}
      /\ child = [child EXCEPT ![t] = child[t]]
      /\ faults \in 0 .. MaxFaults /\ strays \subseteq Plugins
      /\ Id(t) \in Plugins
      /\ threads[t].backoff \in 1 .. MaxBackoff /\ 1 \in 1 .. MaxBackoff
      /\ child[t] # "none" => threads[t].at \in {"wait", "poll", "grace"}
  BY ThreadFacts, SupervisorAssumption DEF TypeOK, Watched
<1>1. CASE LoopHead(t)
  <2> DEFINE place == IF stop THEN "ending" ELSE "spawn"
  <2>1. place \in Places \ {"free"} /\ Goto(t, place)
    BY <1>1 DEF LoopHead, Places
  <2>2. child[t] = "none"
    BY <1>0, <1>1 DEF LoopHead, At
  <2>3. child' = [child EXCEPT ![t] = "none"]
    BY <1>0, <1>1, <2>2 DEF LoopHead
  <2> HIDE DEF place
  <2> QED
    BY <1>0, <1>1, <2>1, <2>3, MoveWorks DEF LoopHead, At, Busy
<1>2. CASE Spawn(t)
  <2>1. "wait" \in Places \ {"free"}
    BY DEF Places
  <2> QED
    BY <1>0, <1>2, <2>1, MoveWorks DEF Spawn, At, Busy
<1>3. CASE SpawnFails(t)
  <2>1. child' = [child EXCEPT ![t] = "none"]
    BY <1>0, <1>3 DEF SpawnFails, At
  <2>2. faults' \in 0 .. MaxFaults
    BY <1>0, <1>3, FaultType DEF SpawnFails
  <2> QED
    BY <1>0, <1>3, <2>1, <2>2, BackOffWorks DEF SpawnFails, At, Busy
<1>4. CASE BackoffOver(t)
  <2> DEFINE place == IF stop THEN "ending" ELSE "head"
  <2>1. place \in Places \ {"free"} /\ Goto(t, place)
    BY <1>4 DEF BackoffOver, Places
  <2>2. child[t] = "none"
    BY <1>0, <1>4 DEF BackoffOver, At
  <2>3. child' = [child EXCEPT ![t] = "none"]
    BY <1>0, <1>4, <2>2 DEF BackoffOver
  <2> HIDE DEF place
  <2> QED
    BY <1>0, <1>4, <2>1, <2>3, MoveWorks DEF BackoffOver, At, Busy
<1>5. CASE SeesExit(t) \/ LosesChild(t)
  <2>1. faults' \in 0 .. MaxFaults /\ strays' \subseteq Plugins
    BY <1>0, <1>5, FaultType DEF SeesExit, LosesChild
  <2>2. child' = [child EXCEPT ![t] = "none"] /\ AfterExit(t) /\ Busy(t)
        /\ ThreadOnly /\ UNCHANGED supervised
    BY <1>5 DEF SeesExit, LosesChild, At, Busy
  <2>3. CASE stop
    <3>1. "ending" \in Places \ {"free"} /\ Goto(t, "ending")
      BY <2>2, <2>3 DEF Places, AfterExit
    <3> QED
      BY <2>1, <2>2, <3>1, MoveWorks
  <2>4. CASE ~stop
    <3>1. PICK b \in {threads[t].backoff, 1} : BackOff(t, b)
      BY <2>2, <2>4 DEF AfterExit
    <3> QED
      BY <1>0, <2>1, <2>2, <3>1, BackOffWorks
  <2> QED
    BY <2>3, <2>4
<1>6. CASE SeesStop(t) \/ PollDue(t)
  <2>1. "grace" \in Places \ {"free"} /\ "poll" \in Places \ {"free"}
    BY DEF Places
  <2> QED
    BY <1>0, <1>6, <2>1, MoveWorks DEF SeesStop, PollDue, At, Busy
<1>7. CASE GraceOver(t)
  <2>1. "ending" \in Places \ {"free"}
    BY DEF Places
  <2> QED
    BY <1>0, <1>7, <2>1, MoveWorks DEF GraceOver, At, Busy
<1>8. CASE ReadManifest(t)
  <2>0. Busy(t) /\ ThreadOnly /\ UNCHANGED <<supervised, strays>>
        /\ faults' \in 0 .. MaxFaults
    BY <1>0, <1>8, FaultType DEF ReadManifest, At, Busy
  <2>1. CASE Goto(t, "ending") /\ child' = [child EXCEPT ![t] = "none"]
    <3>1. "ending" \in Places \ {"free"}
      BY DEF Places
    <3> QED
      BY <1>0, <2>0, <2>1, <3>1, MoveWorks
  <2>2. CASE /\ threads' = [threads EXCEPT ![t] = [at |-> "head", backoff |-> 1,
                                                   current |-> disk[Id(t)]]]
             /\ child' = [child EXCEPT ![t] = "none"]
    <3>1. [at |-> "head", backoff |-> 1, current |-> disk[Id(t)]] \in Record
      BY <1>0 DEF Record, Places, TypeOK
    <3> QED
      BY <1>0, <2>0, <2>2, <3>1 DEF Works
  <2>3. CASE Goto(t, "wait") /\ UNCHANGED child
    <3>1. "wait" \in Places \ {"free"}
      BY DEF Places
    <3> QED
      BY <1>0, <2>0, <2>3, <3>1, MoveWorks
  <2> QED
    BY <1>8, <2>1, <2>2, <2>3 DEF ReadManifest
<1> QED
  BY <1>1, <1>2, <1>3, <1>4, <1>5, <1>6, <1>7, <1>8 DEF Supervise

LEMMA EndSupInv == ASSUME SupInv, NEW t \in Threads, ThreadEnds(t) PROVE SupInv'
<1> USE DEF SupInv
<1>1. threads' = [threads EXCEPT ![t] = Free] /\ supervised' = supervised \ {Id(t)}
      /\ UNCHANGED <<child, strays, faults>> /\ ThreadOnly
  BY DEF ThreadEnds
<1>2. Free \in Record /\ Free.at = "free"
  BY SupervisorAssumption DEF Free, Record, Places
<1>3. \A u \in Threads : (Busy(u)' <=> Busy(u) /\ u # t)
  BY <1>1, <1>2 DEF Busy, TypeOK
<1>4. Busy(t) /\ threads[t].at = "ending"
  BY DEF ThreadEnds, At, Busy
<1>5. TypeOK'
  BY <1>1, <1>2 DEF TypeOK, Record, ThreadOnly, manifests, scanning, stopping
<1>6. Reserved'
  BY <1>1, <1>3, <1>4 DEF Reserved
<1>7. Watched'
  BY <1>1, <1>4 DEF Watched, TypeOK
<1>8. Chosen' /\ Handled'
  BY <1>1, <1>3 DEF Chosen, Handled, ThreadOnly, manifests, scanning, stopping
<1> QED
  BY <1>5, <1>6, <1>7, <1>8

----------------------------------------------------------------------------
(* The stop, the surroundings, and the theorems.                            *)

LEMMA OtherSupInv ==
  ASSUME SupInv,
         \/ Main \/ RequestStop \/ \E t \in Threads : ChildExits(t)
         \/ \E p \in Plugins : StrayExits(p) \/ ManifestChanges(p)
  PROVE  SupInv'
<1> USE DEF SupInv, TypeOK, Reserved, Watched, Chosen, Handled, Busy
<1>1. CASE TakeHandles
  BY <1>1 DEF TakeHandles, manifests
<1>2. ASSUME NEW h \in taken, Join(h) PROVE SupInv'
  <2>1. h \in Threads => ~Busy(h)
    BY <1>2, ThreadFacts DEF Join, Over
  <2> QED
    BY <1>2, <2>1 DEF Join, manifests, scanning
<1>3. CASE Leave
  BY <1>3 DEF Leave, manifests, scanning
<1>4. CASE RequestStop
  BY <1>4 DEF RequestStop, manifests, scanning
<1>5. ASSUME NEW t \in Threads, ChildExits(t) PROVE SupInv'
  BY <1>5 DEF ChildExits, manifests, scanning, stopping
<1>6. ASSUME NEW p \in Plugins, StrayExits(p) PROVE SupInv'
  BY <1>6 DEF StrayExits, manifests, scanning, stopping
<1>7. ASSUME NEW p \in Plugins, ManifestChanges(p) PROVE SupInv'
  <2>1. disk' \in [Plugins -> {Absent} \cup Manifests]
    BY <1>7 DEF ManifestChanges
  <2>2. binaries' \in [Plugins -> SUBSET Versions]
    BY <1>7 DEF ManifestChanges
  <2>3. changes' \in 0 .. MaxChanges
    BY <1>7, SupervisorAssumption DEF ManifestChanges
  <2> QED
    BY <1>7, <2>1, <2>2, <2>3 DEF ManifestChanges, scanning, stopping
<1> QED
  BY <1>1, <1>2, <1>3, <1>4, <1>5, <1>6, <1>7 DEF Main

LEMMA StepSupInv == SupInv /\ [Next]_vars => SupInv'
<1> SUFFICES ASSUME SupInv, [Next]_vars PROVE SupInv'
  OBVIOUS
<1>1. CASE UNCHANGED vars
  BY <1>1 DEF SupInv, TypeOK, Reserved, Watched, Chosen, Handled, Busy, vars, manifests,
              scanning, stopping
<1>2. CASE Scanner
  BY <1>2, ScanSupInv
<1>3. ASSUME NEW t \in Threads, Supervise(t) PROVE SupInv'
  BY <1>3, StepWorks, WorksSupInv, EndSupInv
<1>4. CASE \/ Main \/ RequestStop \/ \E t \in Threads : ChildExits(t)
           \/ \E p \in Plugins : StrayExits(p) \/ ManifestChanges(p)
  BY <1>4, OtherSupInv
<1> QED
  BY <1>1, <1>2, <1>3, <1>4 DEF Next

\* Every variable keeps its type; the backoff stays within MAX_BACKOFF.
THEOREM SupervisorTypes == Spec => []TypeOK
<1>1. SupInv => TypeOK
  BY DEF SupInv
<1> QED
  BY <1>1, InitSupInv, StepSupInv, PTL DEF Spec

\* No plugin runs twice under the supervisor: the watcher chooses outside the
\* set, the place in it is taken before the thread exists and freed by its last
\* step.
THEOREM SupervisorOneProcess == Spec => []OneProcess
<1>1. SupInv => OneProcess
  BY DEF SupInv, Reserved, Watched, OneProcess, Busy
<1> QED
  BY <1>1, InitSupInv, StepSupInv, PTL DEF Spec

\* Once shutdown has returned, the only processes left are those of threads
\* whose handle came after it had taken the others.
THEOREM SupervisorLeavesOnlyLate == Spec => []LeavesOnlyLate
<1>1. SupInv => LeavesOnlyLate
  BY DEF SupInv, Watched, Handled, LeavesOnlyLate, Busy
<1> QED
  BY <1>1, InitSupInv, StepSupInv, PTL DEF Spec

----------------------------------------------------------------------------
(* The set of supervised ids.                                               *)

\* An id is in the set exactly as long as a thread works for it: no plugin
\* keeps its place after the last step of its thread, which would hide it from
\* every later scan (supervisor.rs:197), and none loses it before.
PlacesExact == \A p \in Plugins : p \in supervised <=> \E t \in Threads : Id(t) = p /\ Busy(t)

LEMMA StepPlaces == SupInv /\ PlacesExact /\ [Next]_vars => PlacesExact'
<1> SUFFICES ASSUME SupInv, PlacesExact, [Next]_vars PROVE PlacesExact'
  OBVIOUS
<1> USE DEF PlacesExact
<1>1. ASSUME UNCHANGED <<supervised, threads>> PROVE PlacesExact'
  BY <1>1 DEF Busy
<1>2. ASSUME NEW l \in todo, Launch(l) PROVE PlacesExact'
  <2>1. l.id \in Plugins
    BY DEF SupInv, TypeOK
  <2>2. PICK t \in {<<l.id, 1>>, <<l.id, 2>>} :
          threads' = [threads EXCEPT ![t] = [at |-> "head", current |-> l.manifest,
                                             backoff |-> 1]]
    BY <1>2 DEF Launch
  <2>3. t \in Threads /\ Id(t) = l.id
    BY <2>1, <2>2, ThreadFacts
  <2>4. \A u \in Threads : Busy(u)' <=> u = t \/ Busy(u)
    BY <2>2, <2>3 DEF Busy, SupInv, TypeOK
  <2>5. supervised' = supervised \cup {l.id}
    BY <1>2 DEF Launch, Reserve
  <2> QED
    BY <2>3, <2>4, <2>5
<1>3. ASSUME Scanner, \A l \in todo : ~Launch(l) PROVE PlacesExact'
  BY <1>1, <1>3 DEF Scanner, Load, Choose, Push, ScanOver, WatcherWakes
<1>4. ASSUME NEW t \in Threads, ThreadEnds(t) PROVE PlacesExact'
  <2>1. threads' = [threads EXCEPT ![t] = Free] /\ supervised' = supervised \ {Id(t)}
    BY <1>4 DEF ThreadEnds
  <2>2. Busy(t) /\ \A u \in Threads : Busy(u)' <=> Busy(u) /\ u # t
    BY <1>4, <2>1 DEF ThreadEnds, At, Busy, Free, SupInv, TypeOK
  <2>3. \A u \in Threads : Id(u) = Id(t) /\ Busy(u) => u = t
    BY <2>2 DEF SupInv, Reserved
  <2> QED
    BY <2>1, <2>2, <2>3
<1>5. ASSUME NEW t \in Threads, Supervise(t), ~ThreadEnds(t) PROVE PlacesExact'
  <2>1. Busy(t) /\ Works(t)
    BY <1>5, StepWorks
  <2>2. \A u \in Threads : Busy(u)' <=> Busy(u)
    BY <2>1 DEF Works, Busy, Record, SupInv, TypeOK
  <2>3. supervised' = supervised
    BY <2>1 DEF Works
  <2> QED
    BY <2>2, <2>3
<1>6. CASE \/ Main \/ RequestStop \/ \E t \in Threads : ChildExits(t)
           \/ \E p \in Plugins : StrayExits(p) \/ ManifestChanges(p)
  BY <1>1, <1>6 DEF Main, TakeHandles, Join, Leave, RequestStop, ChildExits,
                    StrayExits, ManifestChanges
<1>7. CASE UNCHANGED vars
  BY <1>1, <1>7 DEF vars
<1> QED
  BY <1>2, <1>3, <1>4, <1>5, <1>6, <1>7 DEF Next

\* A plugin whose thread has ended can be launched by the next scan, and one
\* whose thread has not is passed over by it, whatever the two do meanwhile.
THEOREM SupervisorPlacesExact == Spec => []PlacesExact
<1>1. Init => PlacesExact
  BY DEF Init, PlacesExact, Busy, Free
<1>2. SupInv /\ PlacesExact /\ [Next]_vars => SupInv' /\ PlacesExact'
  BY StepSupInv, StepPlaces
<1> QED
  BY InitSupInv, <1>1, <1>2, PTL DEF Spec
=============================================================================
