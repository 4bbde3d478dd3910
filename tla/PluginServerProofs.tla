------------------------- MODULE PluginServerProofs -------------------------
(***************************************************************************)
(* Proofs about PluginServer: its types, the cap on the sessions, that the *)
(* live store never looks up to date when it is not, and that a revocation *)
(* it knows of lets no further session in.                                 *)
(***************************************************************************)
EXTENDS PluginServer, TLAPS, FiniteSetTheorems

\* The count is exact, and a session on its way to a worker has its place.
Counted ==
  /\ active = Cardinality(Live) + Pending + leaked
  /\ Cardinality(Live) + leaked <= MaxSessions
  /\ acceptor = "admit" => Cardinality(Live) + leaked < MaxSessions

ServerInv == TypeOK /\ Counted

\* The live workers are finitely many; one more, or one less, counts as one.
LEMMA LiveFinite == IsFiniteSet(Live) /\ Cardinality(Live) \in Nat
<1>1. IsFiniteSet(Live)
  BY ServerAssumption, FS_Subset DEF Live
<1> QED
  BY <1>1, FS_CardinalityType

LEMMA LiveGrows ==
  ASSUME NEW w \in Workers \ Live, Live' = Live \cup {w}
  PROVE  Cardinality(Live') = Cardinality(Live) + 1
BY LiveFinite, FS_AddElement

LEMMA LiveShrinks ==
  ASSUME NEW w \in Live, Live' = Live \ {w}
  PROVE  Cardinality(Live') = Cardinality(Live) - 1
BY LiveFinite, FS_RemoveElement

LEMMA InitServerInv == Init => ServerInv
<1> SUFFICES ASSUME Init PROVE ServerInv
  OBVIOUS
<1>1. Empty \in [Plugins -> Entries] /\ Entries \subseteq Files
  BY DEF Empty, Entries, Files
<1>2. TypeOK
  <2>1. NoWorker \in [at : {"none", "hello", "open", "closed"},
                      plugin : Plugins \cup {"none"}, snapshot : [Plugins -> Entries]]
    BY <1>1 DEF NoWorker
  <2>2. dir \in [Plugins -> Files]
    BY DEF Init, Files
  <2>3. sessions \in [Workers -> [at : {"none", "hello", "open", "closed"},
                                 plugin : Plugins \cup {"none"},
                                 snapshot : [Plugins -> Entries]]]
    BY <2>1 DEF Init
  <2>4. stamp \in 1 .. MaxChanges + 1 /\ lastFp \in 0 .. MaxChanges + 1
          /\ fp \in 1 .. MaxChanges + 1 /\ faults \in 0 .. MaxFaults
    BY ServerAssumption DEF Init
  <2> QED
    BY <1>1, <2>2, <2>3, <2>4 DEF Init, TypeOK
<1>3. Live = {}
  BY DEF Init, Live, NoWorker
<1>4. Cardinality(Live) = 0
  BY <1>3, FS_EmptySet
<1> QED
  BY <1>2, <1>4, ServerAssumption DEF Init, ServerInv, Counted, Pending

\* What a session may hold.
Sessions == [at : {"none", "hello", "open", "closed"},
             plugin : Plugins \cup {"none"}, snapshot : [Plugins -> Entries]]

\* A step that moves one session and leaves the threads and the directory
\* alone keeps the types, if what it leaves of the session is one.
LEMMA SessionTypes ==
  ASSUME TypeOK, NEW w \in Workers, NEW s \in Sessions,
         sessions' = [sessions EXCEPT ![w] = s],
         active' \in Nat, leaked' \in Nat, faults' \in 0 .. MaxFaults,
         UNCHANGED <<directory, reloading, acceptor, stop>>
  PROVE  TypeOK'
<1>1. sessions' \in [Workers -> Sessions]
  BY DEF TypeOK, Sessions
<1> HIDE DEF Sessions
<1>2. UNCHANGED <<dir, stamp, store, lastFp, reload, fp, unread, loading, skipped,
                  acceptor, stop>>
  BY DEF directory, reloading
<1>3. sessions' \in [Workers -> [at : {"none", "hello", "open", "closed"},
                                plugin : Plugins \cup {"none"},
                                snapshot : [Plugins -> Entries]]]
  BY <1>1 DEF Sessions
<1> QED
  BY <1>2, <1>3 DEF TypeOK, Entries, Files

\* A session with another place, and another plugin.
LEMMA SessionMoves ==
  ASSUME NEW s \in Sessions, NEW x \in {"none", "hello", "open", "closed"}
  PROVE  [s EXCEPT !.at = x] \in Sessions /\ [s EXCEPT !.at = x].at = x
BY DEF Sessions

LEMMA SessionOpens ==
  ASSUME NEW s \in Sessions, NEW p \in Plugins
  PROVE  /\ [s EXCEPT !.at = "open", !.plugin = p] \in Sessions
         /\ [s EXCEPT !.at = "open", !.plugin = p].at = "open"
BY DEF Sessions

\* The steps of a worker keep the types.
LEMMA WorkerTypes ==
  ASSUME ServerInv, NEW w \in Workers, Worker(w)
  PROVE  TypeOK'
<1>1. TypeOK /\ active \in Nat /\ leaked \in Nat /\ faults \in 0 .. MaxFaults
  BY DEF ServerInv, TypeOK
<1>2. NoWorker \in Sessions
  BY DEF NoWorker, Empty, Sessions, Entries
<1>3. sessions[w] \in Sessions
  BY <1>1 DEF TypeOK, Sessions
<1>4. ASSUME NEW p \in Plugins, Opens(w, p) PROVE TypeOK'
  <2> DEFINE s == [sessions[w] EXCEPT !.at = "open", !.plugin = p]
  <2>1. s \in Sessions
    BY <1>3, SessionOpens
  <2>2. sessions' = [sessions EXCEPT ![w] = s]
    BY <1>1, <1>4 DEF Opens, TypeOK
  <2> HIDE DEF s
  <2> QED
    BY <1>1, <1>4, <2>1, <2>2, SessionTypes DEF Opens, WorkerOnly
<1>5. CASE SessionEnds(w)
  <2> DEFINE s == [sessions[w] EXCEPT !.at = "closed"]
  <2>1. s \in Sessions
    BY <1>3, SessionMoves
  <2>2. sessions' = [sessions EXCEPT ![w] = s]
    BY <1>5 DEF SessionEnds
  <2> HIDE DEF s
  <2> QED
    BY <1>1, <1>5, <2>1, <2>2, SessionTypes DEF SessionEnds, WorkerOnly
<1>6. CASE WorkerReturns(w)
  <2>1. w \in Live
    BY <1>6 DEF WorkerReturns, Live
  <2>2. Cardinality(Live) > 0
    BY <2>1, LiveFinite, FS_EmptySet
  <2>3. active' \in Nat
    BY <1>1, <1>6, <2>2, LiveFinite DEF WorkerReturns, ServerInv, Counted, Pending
  <2> QED
    BY <1>1, <1>2, <1>6, <2>3, SessionTypes DEF WorkerReturns, WorkerOnly
<1>7. CASE WorkerPanics(w)
  <2>1. leaked' \in Nat /\ faults' \in 0 .. MaxFaults
    BY <1>1, <1>7, ServerAssumption DEF WorkerPanics, Fault
  <2> QED
    BY <1>1, <1>2, <1>7, <2>1, SessionTypes DEF WorkerPanics, WorkerOnly
<1> QED
  BY <1>4, <1>5, <1>6, <1>7 DEF Worker

LEMMA NextTypes == ServerInv /\ [Next]_vars => TypeOK' 
<1> SUFFICES ASSUME ServerInv, [Next]_vars PROVE TypeOK'
  OBVIOUS
<1> USE ServerAssumption DEF ServerInv, TypeOK, Entries, Files
<1> USE DEF directory, reloading, accepting
<1>1. CASE Reloader
  <2>1. CASE ReloadWakes
    <3>1. Empty \in [Plugins -> Entries]
      BY DEF Empty
    <3> QED
      BY <2>1, <3>1 DEF ReloadWakes
  <2>2. ASSUME NEW p \in Plugins, LoadOne(p) PROVE TypeOK'
    <3>1. loading' \in [Plugins -> Entries]
      BY <2>2 DEF LoadOne
    <3>2. faults' \in 0 .. MaxFaults
      BY <2>2 DEF LoadOne, Fault
    <3> QED
      BY <2>2, <3>1, <3>2 DEF LoadOne
  <2>3. CASE Swap
    BY <2>3 DEF Swap, LoadedUnder
  <2>4. CASE LoadFails
    BY <2>4 DEF LoadFails, Fault
  <2> QED
    BY <1>1, <2>1, <2>2, <2>3, <2>4 DEF Reloader
<1>2. CASE Acceptor
  <2> USE DEF AcceptOnly
  <2>1. CASE CreatePipe
    BY <2>1 DEF CreatePipe
  <2>2. CASE WaitOver
    BY <2>2 DEF WaitOver, Fault
  <2>3. CASE CountSession
    BY <2>3 DEF CountSession
  <2>4. CASE Refuse
    BY <2>4, LiveFinite DEF Refuse, Counted, Pending
  <2>5. ASSUME NEW w \in Workers, Admit(w) PROVE TypeOK'
    BY <2>5 DEF Admit, Snapshot
  <2>6. CASE SpawnFails
    BY <2>6, LiveFinite DEF SpawnFails, Fault, Counted, Pending
  <2> QED
    BY <1>2, <2>1, <2>2, <2>3, <2>4, <2>5, <2>6 DEF Acceptor
<1>3. CASE ClientConnects
  BY <1>3 DEF ClientConnects, AcceptOnly
<1>4. ASSUME NEW w \in Workers, Worker(w) PROVE TypeOK'
  BY <1>4, WorkerTypes
<1>5. CASE RequestStop
  BY <1>5 DEF RequestStop
<1>6. ASSUME NEW p \in Plugins, ManifestChanges(p) PROVE TypeOK'
  BY <1>6 DEF ManifestChanges
<1>7. CASE UNCHANGED vars
  BY <1>7 DEF vars
<1> QED
  BY <1>1, <1>2, <1>3, <1>4, <1>5, <1>6, <1>7 DEF Next

\* The steps that count leave the workers alone, or move one of them.
LEMMA NextCounted == ServerInv /\ [Next]_vars => Counted'
<1> SUFFICES ASSUME ServerInv, [Next]_vars PROVE Counted'
  OBVIOUS
<1> USE LiveFinite, ServerAssumption DEF ServerInv
<1>0. active \in Nat /\ leaked \in Nat
  BY DEF TypeOK
<1>1. ASSUME UNCHANGED <<sessions, active, leaked>>,
             acceptor' = "admit" => acceptor = "admit",
             acceptor' = "refuse" <=> acceptor = "refuse",
             acceptor = "admit" => acceptor' = "admit"
      PROVE  Counted'
  <2>1. Live' = Live
    BY <1>1 DEF Live
  <2> QED
    BY <1>1, <2>1 DEF Counted, Pending
<1>2. CASE Reloader
  BY <1>1, <1>2 DEF Reloader, ReloadWakes, LoadOne, Swap, LoadFails, accepting
<1>3. CASE Acceptor
  <2>1. CASE CreatePipe \/ WaitOver
    BY <1>1, <2>1 DEF CreatePipe, WaitOver
  <2>2. CASE CountSession
    <3>1. Live' = Live
      BY <2>2 DEF CountSession, Live
    <3> QED
      BY <1>0, <2>2, <3>1 DEF CountSession, Full, Counted, Pending
  <2>3. CASE Refuse \/ SpawnFails
    <3>1. Live' = Live
      BY <2>3 DEF Refuse, SpawnFails, Live
    <3> QED
      BY <1>0, <2>3, <3>1 DEF Refuse, SpawnFails, Counted, Pending
  <2>4. ASSUME NEW w \in Workers, Admit(w) PROVE Counted'
    <3>1. Live' = Live \cup {w} /\ w \notin Live
      BY <2>4 DEF Admit, Live, TypeOK
    <3>2. Cardinality(Live') = Cardinality(Live) + 1
      BY <3>1, LiveGrows
    <3> QED
      BY <1>0, <2>4, <3>2 DEF Admit, Counted, Pending
  <2> QED
    BY <1>3, <2>1, <2>2, <2>3, <2>4 DEF Acceptor
<1>4. CASE ClientConnects
  BY <1>1, <1>4 DEF ClientConnects
<1>5. ASSUME NEW w \in Workers, Worker(w) PROVE Counted'
  <2>1. CASE (\E p \in Plugins : Opens(w, p)) \/ SessionEnds(w)
    <3>1. PICK s \in {"open", "closed"} :
            /\ sessions[w].at # "none"
            /\ sessions'[w].at = s
            /\ \A v \in Workers \ {w} : sessions'[v] = sessions[v]
      <4>1. DOMAIN sessions = Workers
        BY DEF TypeOK
      <4>2. sessions[w] \in Sessions
        BY DEF TypeOK, Sessions
      <4>3. sessions[w].at # "none"
        BY <2>1 DEF Opens, SessionEnds
      <4>4. CASE SessionEnds(w)
        <5>1. sessions' = [sessions EXCEPT ![w].at = "closed"]
          BY <4>4 DEF SessionEnds
        <5>2. sessions'[w].at = "closed"
          BY <4>1, <4>2, <5>1, SessionMoves
        <5> QED
          BY <4>1, <4>3, <5>1, <5>2
      <4>5. ASSUME NEW p \in Plugins, Opens(w, p)
            PROVE  /\ sessions'[w].at = "open"
                   /\ \A v \in Workers \ {w} : sessions'[v] = sessions[v]
        <5>1. sessions' = [sessions EXCEPT ![w] =
                             [sessions[w] EXCEPT !.at = "open", !.plugin = p]]
          BY <4>1, <4>5 DEF Opens
        <5>2. [sessions[w] EXCEPT !.at = "open", !.plugin = p].at = "open"
          BY <4>2, SessionOpens
        <5> QED
          BY <4>1, <5>1, <5>2
      <4> QED
        BY <2>1, <4>3, <4>4, <4>5
    <3>2. Live' = Live
      BY <3>1 DEF Live
    <3> QED
      BY <2>1, <3>2 DEF Opens, SessionEnds, WorkerOnly, Counted, Pending
  <2>2. CASE WorkerReturns(w) \/ WorkerPanics(w)
    <3>1. w \in Live
      BY <2>2 DEF WorkerReturns, WorkerPanics, Live
    <3>2. Live' = Live \ {w}
      BY <2>2 DEF WorkerReturns, WorkerPanics, NoWorker, Live, TypeOK
    <3>3. Cardinality(Live') = Cardinality(Live) - 1
      BY <3>1, <3>2, LiveShrinks
    <3> QED
      BY <1>0, <2>2, <3>3 DEF WorkerReturns, WorkerPanics, WorkerOnly, Counted, Pending
  <2> QED
    BY <1>5, <2>1, <2>2 DEF Worker
<1>6. CASE RequestStop \/ \E p \in Plugins : ManifestChanges(p)
  BY <1>1, <1>6 DEF RequestStop, ManifestChanges, accepting
<1>7. CASE UNCHANGED vars
  BY <1>1, <1>7 DEF vars, accepting
<1> QED
  BY <1>2, <1>3, <1>4, <1>5, <1>6, <1>7 DEF Next

LEMMA ServerInvariant == Spec => []ServerInv
<1>1. ServerInv /\ [Next]_vars => ServerInv'
  BY NextTypes, NextCounted DEF ServerInv
<1> QED
  BY InitServerInv, <1>1, PTL DEF Spec

\* Every variable keeps its type; the counter never wraps below zero.
THEOREM ServerTypes == Spec => []TypeOK
<1>1. ServerInv => TypeOK
  BY DEF ServerInv
<1> QED
  BY <1>1, ServerInvariant, PTL

\* The accept thread and the workers, counting without a lock (server.rs:292
\* and 341), never let more than MaxSessions workers run.
THEOREM ServerCapHolds == Spec => []CapHolds
<1>1. ServerInv => CapHolds
  BY LiveFinite, ServerAssumption DEF ServerInv, TypeOK, Counted, CapHolds
<1> QED
  BY <1>1, ServerInvariant, PTL

\* A client is refused only when no place is left, whatever failed before.
THEOREM ServerRefusesOnlyWhenFull == Spec => RefusesOnlyWhenFull
<1>1. ServerInv /\ [Next]_vars
        => [acceptor = "connected" /\ acceptor' = "refuse"
              => Cardinality(Live) + leaked >= MaxSessions]_vars
  <2> SUFFICES ASSUME ServerInv, Next, acceptor = "connected", acceptor' = "refuse"
               PROVE  Cardinality(Live) + leaked >= MaxSessions
    BY DEF vars, directory, reloading, accepting
  <2>1. CountSession
    BY DEF Next, Reloader, ReloadWakes, LoadOne, Swap, LoadFails, Acceptor,
           CreatePipe, WaitOver, Refuse, Admit, SpawnFails, ClientConnects,
           Worker, Opens, SessionEnds, WorkerReturns, WorkerPanics, WorkerOnly,
           RequestStop, ManifestChanges, accepting
  <2> QED
    BY <2>1, LiveFinite, ServerAssumption
    DEF CountSession, Full, ServerInv, Counted, Pending, TypeOK
<1> QED
  BY <1>1, ServerInvariant, PTL DEF Spec, RefusesOnlyWhenFull

----------------------------------------------------------------------------
(* The store, and the fingerprint that goes with it.                        *)

\* What has been read of the directory, or stored, is what is in it.
ReadOf(entries, p) == p \in skipped \/ entries[p] = Parsed(p)

\* A fingerprint is never ahead of the directory, and while the directory is
\* read the one of the store is behind.  What was read under the present one
\* is still in the files.
StoreInv ==
  /\ lastFp <= stamp /\ fp <= stamp
  /\ reload = "load" => lastFp < fp
  /\ reload = "load" /\ fp = stamp
       => \A p \in Plugins \ unread : ReadOf(loading, p)
  /\ lastFp = stamp => \A p \in Plugins : ReadOf(store, p)

\* The live store never looks up to date when it is not: while the fingerprint
\* it was loaded under is the one of the directory, which is when reload_loop
\* goes back to sleep (server.rs:434), every entry of it is what its manifest
\* says, but for manifests that could not be read.
StoreCurrent ==
  lastFp = stamp => \A p \in Plugins : p \in skipped \/ store[p] = Parsed(p)

LEMMA InitStoreInv == Init => StoreInv
BY DEF Init, StoreInv, ReadOf

\* A change of the directory leaves every fingerprint behind; the steps of the
\* reload thread are the only others that matter.
LEMMA NextStoreInv == TypeOK /\ StoreInv /\ [Next]_vars => StoreInv'
<1> SUFFICES ASSUME TypeOK, StoreInv, [Next]_vars PROVE StoreInv'
  OBVIOUS
<1>0. stamp \in Int /\ lastFp \in Int /\ fp \in Int
  BY ServerAssumption DEF TypeOK
<1>1. ASSUME UNCHANGED <<directory, reloading>> PROVE StoreInv'
  BY <1>1 DEF StoreInv, ReadOf, Parsed, directory, reloading
<1>2. CASE ReloadWakes
  <2>1. stamp' = stamp /\ lastFp' = lastFp /\ store' = store
          /\ skipped' = skipped /\ dir' = dir
    BY <1>2 DEF ReloadWakes, directory
  <2>2. lastFp = stamp => \A p \in Plugins : ReadOf(store, p)'
    BY <2>1 DEF StoreInv, ReadOf, Parsed
  <2>3. CASE reload' = "load"
    <3>1. fp' = stamp /\ unread' = Plugins /\ stamp # lastFp
      BY <1>2, <2>3 DEF ReloadWakes
    <3> QED
      BY <1>0, <2>1, <2>2, <3>1 DEF StoreInv
  <2>4. CASE reload' # "load"
    <3>1. fp' = fp
      BY <1>2, <2>4 DEF ReloadWakes
    <3> QED
      BY <2>1, <2>2, <2>4, <3>1 DEF StoreInv
  <2> QED
    BY <2>3, <2>4
<1>3. ASSUME NEW q \in Plugins, LoadOne(q) PROVE StoreInv'
  <2>1. /\ reload = "load" /\ lastFp # stamp
        /\ UNCHANGED <<stamp, dir, store, lastFp, reload, fp>>
    BY <1>0, <1>3 DEF LoadOne, StoreInv, directory
  <2>2. \A p \in Plugins \ unread' :
          ReadOf(loading, p)' \/ (p # q /\ p \notin unread
                                    /\ (ReadOf(loading, p) => ReadOf(loading, p)'))
    <3> SUFFICES ASSUME NEW p \in Plugins \ unread'
                 PROVE  \/ ReadOf(loading, p)'
                        \/ (p # q /\ p \notin unread
                              /\ (ReadOf(loading, p) => ReadOf(loading, p)'))
      OBVIOUS
    <3> QED
      BY <1>3, <2>1 DEF LoadOne, ReadOf, Parsed, TypeOK
  <2> QED
    BY <2>1, <2>2 DEF StoreInv
<1>4. CASE Swap
  <2>1. /\ reload = "load" /\ reload' = "sleep" /\ unread = {}
        /\ store' = loading /\ lastFp' = fp
        /\ UNCHANGED <<stamp, dir, fp, skipped>>
    BY <1>4 DEF Swap, LoadedUnder, directory
  <2> QED
    BY <2>1 DEF StoreInv, ReadOf, Parsed
<1>5. CASE LoadFails
  BY <1>5 DEF LoadFails, StoreInv, ReadOf, Parsed, directory
<1>6. ASSUME NEW q \in Plugins, ManifestChanges(q) PROVE StoreInv'
  <2>1. stamp' = stamp + 1 /\ UNCHANGED <<lastFp, fp, reload>>
    BY <1>6 DEF ManifestChanges, reloading
  <2>2. lastFp' # stamp' /\ fp' # stamp' /\ lastFp' <= stamp' /\ fp' <= stamp'
    BY <1>0, <2>1 DEF StoreInv
  <2> QED
    BY <2>1, <2>2 DEF StoreInv
<1>7. ASSUME Acceptor \/ ClientConnects \/ RequestStop
             \/ (\E w \in Workers : Worker(w)) \/ UNCHANGED vars
      PROVE  UNCHANGED <<directory, reloading>>
  BY <1>7 DEF Acceptor, CreatePipe, WaitOver, CountSession, Refuse, Admit,
              SpawnFails, ClientConnects, AcceptOnly, RequestStop, Worker, Opens,
              SessionEnds, WorkerReturns, WorkerPanics, WorkerOnly, vars
<1> QED
  BY <1>1, <1>2, <1>3, <1>4, <1>5, <1>6, <1>7 DEF Next, Reloader

\* A change of the manifests is never missed, even one that comes while the
\* directory is being read, and whatever fails (server.rs:433-465).
THEOREM ServerStoreCurrent == Spec => []StoreCurrent
<1>1. StoreInv => StoreCurrent
  BY DEF StoreInv, StoreCurrent, ReadOf
<1>2. Spec => []StoreInv
  BY InitStoreInv, NextStoreInv, ServerTypes, PTL DEF Spec
<1> QED
  BY <1>1, <1>2, PTL

----------------------------------------------------------------------------
(* A revocation and the sessions that were admitted before it.              *)

\* The sessions that may still open as plugin p: they were admitted with a
\* snapshot in which it is enrolled, and have not said hello yet.
MayOpen(p) ==
  {w \in Workers : sessions[w].at = "hello" /\ sessions[w].snapshot[p] = "enrolled"}

\* A session opens only as a plugin of the snapshot it was admitted with; and
\* while p is not enrolled in the live store no session joins those that may
\* still open as p.  So from the swap that makes a revocation known on, until
\* p is enrolled again, only sessions admitted before it can open, each once.
RevocationCloses ==
  [][\A p \in Plugins :
       /\ \A w \in Workers :
            sessions[w].at = "hello" /\ sessions'[w].at = "open"
              /\ sessions'[w].plugin = p => w \in MayOpen(p) \ MayOpen(p)'
       /\ store[p] # "enrolled" => MayOpen(p)' \subseteq MayOpen(p)]_vars

\* What a step does to the session of one worker.
LEMMA SessionStep ==
  ASSUME TypeOK, Next, NEW w \in Workers
  PROVE  \/ sessions'[w] = sessions[w]
         \/ sessions'[w].at \in {"none", "closed"}
         \/ /\ sessions[w].at = "none" /\ sessions'[w].at = "hello"
            /\ sessions'[w].snapshot = store
         \/ /\ sessions[w].at = "hello" /\ sessions'[w].at = "open"
            /\ sessions[w].snapshot[sessions'[w].plugin] = "enrolled"
<1> DEFINE G == \/ sessions'[w] = sessions[w]
                \/ sessions'[w].at \in {"none", "closed"}
                \/ /\ sessions[w].at = "none" /\ sessions'[w].at = "hello"
                   /\ sessions'[w].snapshot = store
                \/ /\ sessions[w].at = "hello" /\ sessions'[w].at = "open"
                   /\ sessions[w].snapshot[sessions'[w].plugin] = "enrolled"
<1>0. DOMAIN sessions = Workers /\ sessions[w] \in Sessions
  BY DEF TypeOK, Sessions
<1>1. ASSUME UNCHANGED sessions PROVE G
  BY <1>1
<1>2. ASSUME NEW v \in Workers, Admit(v) PROVE G
  <2>1. sessions' = [sessions EXCEPT ![v] = [at |-> "hello", plugin |-> "none",
                                             snapshot |-> store]]
    BY <1>2 DEF Admit, Snapshot
  <2>2. v = w => sessions[w].at = "none"
    BY <1>2 DEF Admit, Live
  <2> QED
    BY <1>0, <2>1, <2>2
<1>3. ASSUME NEW v \in Workers, NEW p \in Plugins, Opens(v, p) PROVE G
  <2>1. sessions' = [sessions EXCEPT ![v] =
                       [sessions[v] EXCEPT !.at = "open", !.plugin = p]]
    BY <1>0, <1>3 DEF Opens
  <2>2. CASE v = w
    <3> DEFINE s == [sessions[w] EXCEPT !.at = "open", !.plugin = p]
    <3>1. s.at = "open" /\ s.plugin = p
      BY <1>0 DEF Sessions
    <3>2. sessions'[w] = s
      BY <1>0, <2>1, <2>2
    <3>3. sessions[w].at = "hello" /\ sessions[w].snapshot[p] = "enrolled"
      BY <1>3, <2>2 DEF Opens
    <3> HIDE DEF s
    <3> QED
      BY <3>1, <3>2, <3>3
  <2>3. CASE v # w
    BY <1>0, <2>1, <2>3
  <2> QED
    BY <2>2, <2>3
<1>4. ASSUME NEW v \in Workers, SessionEnds(v) PROVE G
  <2>1. sessions' = [sessions EXCEPT ![v] = [sessions[v] EXCEPT !.at = "closed"]]
    BY <1>4 DEF SessionEnds
  <2>2. [sessions[w] EXCEPT !.at = "closed"].at = "closed"
    BY <1>0, SessionMoves
  <2> QED
    BY <1>0, <2>1, <2>2
<1>5. ASSUME NEW v \in Workers, WorkerReturns(v) \/ WorkerPanics(v) PROVE G
  <2>1. sessions' = [sessions EXCEPT ![v] = NoWorker] /\ NoWorker.at = "none"
    BY <1>5 DEF WorkerReturns, WorkerPanics, NoWorker
  <2> QED
    BY <1>0, <2>1
<1>6. ASSUME Acceptor PROVE G
  BY <1>1, <1>2, <1>6 DEF Acceptor, CreatePipe, WaitOver, CountSession, Refuse, SpawnFails
<1>7. ASSUME Reloader \/ ClientConnects \/ RequestStop
               \/ (\E p \in Plugins : ManifestChanges(p))
      PROVE  G
  BY <1>1, <1>7 DEF Reloader, ReloadWakes, LoadOne, Swap, LoadFails, ClientConnects,
                    RequestStop, ManifestChanges, accepting
<1> HIDE DEF G
<1>8. ASSUME NEW v \in Workers, Worker(v) PROVE G
  BY <1>3, <1>4, <1>5, <1>8 DEF Worker
<1>9. G
  BY <1>6, <1>7, <1>8 DEF Next
<1> QED
  BY <1>9 DEF G

\* The safety half of RevocationReaches: a revocation that the live store
\* knows of closes the door of the handshakes (server.rs:305-342 and 592-606),
\* for any interleaving of reloads, admissions and sessions.
THEOREM ServerRevocationCloses == Spec => RevocationCloses
<1>1. TypeOK /\ [Next]_vars
        => [\A p \in Plugins :
              /\ \A w \in Workers :
                   sessions[w].at = "hello" /\ sessions'[w].at = "open"
                     /\ sessions'[w].plugin = p => w \in MayOpen(p) \ MayOpen(p)'
              /\ store[p] # "enrolled" => MayOpen(p)' \subseteq MayOpen(p)]_vars
  <2> SUFFICES ASSUME TypeOK, Next, NEW p \in Plugins, NEW w \in Workers
               PROVE  /\ sessions[w].at = "hello" /\ sessions'[w].at = "open"
                           /\ sessions'[w].plugin = p => w \in MayOpen(p) \ MayOpen(p)'
                      /\ store[p] # "enrolled" /\ w \in MayOpen(p)' => w \in MayOpen(p)
    BY DEF MayOpen
  <2> QED
    BY SessionStep DEF MayOpen
<1> QED
  BY <1>1, ServerTypes, PTL DEF Spec, RevocationCloses
=============================================================================
