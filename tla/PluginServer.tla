---------------------------- MODULE PluginServer ----------------------------
(***************************************************************************)
(* The plugin server (plugin/server.rs): the accept thread with its cap on *)
(* the sessions, one worker per session, and the thread that loads the     *)
(* manifest directory again when its fingerprint changes.                  *)
(*                                                                         *)
(* Abstractions.  Of a manifest only what a handshake asks is kept:        *)
(* enrolled, revoked, absent, or torn (its file is being written).  The    *)
(* identity of a client (path, hash, signature) and the syntax of its      *)
(* frames may fail at any handshake.  A fingerprint is the number of       *)
(* changes of the directory, 0 where the code has 0 for "none".            *)
(***************************************************************************)
EXTENDS Integers, FiniteSets

CONSTANTS
  Plugins,      (* the plugin ids                                           *)
  MaxSessions,  (* MAX_CONCURRENT_SESSIONS                                  *)
  Workers,      (* room for worker threads, more than MaxSessions           *)
  MaxChanges,   (* bound: changes of the manifest directory                 *)
  MaxFaults     (* bound: calls that fail, workers that panic               *)

ASSUME ServerAssumption ==
  /\ MaxSessions \in Nat \ {0}
  /\ IsFiniteSet(Workers) /\ Cardinality(Workers) > MaxSessions
  /\ MaxChanges \in Nat /\ MaxFaults \in Nat

VARIABLES
  dir,          (* the file of each plugin in the manifest directory        *)
  stamp,        (* its fingerprint                                          *)
  store,        (* the live manifest store                                  *)
  lastFp,       (* the fingerprint it was loaded under                      *)
  reload,       (* where the reload thread is                               *)
  fp,           (* the fingerprint it has taken                             *)
  unread,       (* the files it has still to read                           *)
  loading,      (* what it has read so far                                  *)
  skipped,      (* the files it could not read though they were complete    *)
  acceptor,     (* where the accept thread is                               *)
  active,       (* the shared counter of sessions                           *)
  sessions,     (* the worker threads: place, plugin, snapshot of the store *)
  leaked,       (* workers that panicked and never decremented the counter  *)
  stop,         (* SHUTDOWN                                                 *)
  faults

directory == <<dir, stamp>>
reloading == <<store, lastFp, reload, fp, unread, loading, skipped>>
accepting == <<acceptor, active, sessions, leaked>>
vars == <<directory, reloading, accepting, stop, faults>>

Files   == {"absent", "torn", "enrolled", "revoked"}
Entries == {"absent", "enrolled", "revoked"}
Empty   == [p \in Plugins |-> "absent"]

NoWorker == [at |-> "none", plugin |-> "none", snapshot |-> Empty]

Fault == faults < MaxFaults /\ faults' = faults + 1

Live == {w \in Workers : sessions[w].at # "none"}

\* spawn_server: the first load comes before the two threads start.
Init ==
  /\ dir \in [Plugins -> {"absent", "enrolled", "revoked"}] /\ stamp = 1
  /\ store = Empty /\ lastFp = 0
  /\ reload = "load" /\ fp = 1 /\ unread = Plugins /\ loading = Empty
  /\ skipped = {}
  /\ acceptor = "off" /\ active = 0
  /\ sessions = [w \in Workers |-> NoWorker] /\ leaked = 0
  /\ stop = FALSE /\ faults = 0

----------------------------------------------------------------------------
(* reload_loop, and load_dir, which the initial load uses too.              *)

\* Mutation: the fingerprint is the one of the directory after the load.
LoadedUnder_Late == stamp

\* The fingerprint is taken before the directory is read.
LoadedUnder == fp

\* The interval is over, or the flag is seen in it.
ReloadWakes ==
  /\ reload = "sleep"
  /\ IF stop
       THEN reload' = "ended" /\ UNCHANGED <<fp, unread, loading>>
       ELSE IF stamp = lastFp
         THEN UNCHANGED <<reload, fp, unread, loading>>
         ELSE /\ reload' = "load" /\ fp' = stamp
              /\ unread' = Plugins /\ loading' = Empty
  /\ UNCHANGED <<store, lastFp, skipped, directory, accepting, stop, faults>>

\* load_one: a file that cannot be read or parsed is passed over.
LoadOne(p) ==
  /\ reload = "load" /\ p \in unread
  /\ unread' = unread \ {p}
  /\ \/ /\ loading' = [loading EXCEPT ![p] = IF dir[p] = "torn" THEN "absent"
                                                               ELSE dir[p]]
        /\ skipped' = skipped \ {p}
        /\ UNCHANGED faults
     \/ /\ Fault
        /\ skipped' = skipped \cup {p}
        /\ UNCHANGED loading
  /\ UNCHANGED <<store, lastFp, reload, fp, directory, accepting, stop>>

\* The store is swapped; after the first load the accept thread starts.
Swap ==
  /\ reload = "load" /\ unread = {}
  /\ store' = loading /\ lastFp' = LoadedUnder
  /\ reload' = "sleep"
  /\ acceptor' = IF acceptor = "off" THEN "head" ELSE acceptor
  /\ UNCHANGED <<fp, unread, loading, skipped, directory, active, sessions,
                 leaked, stop, faults>>

\* load_dir fails: the store stays, empty at first, and the next interval
\* tries again.
LoadFails ==
  /\ reload = "load" /\ Fault
  /\ reload' = "sleep"
  /\ acceptor' = IF acceptor = "off" THEN "head" ELSE acceptor
  /\ UNCHANGED <<store, lastFp, fp, unread, loading, skipped, directory, active,
                 sessions, leaked, stop>>

----------------------------------------------------------------------------
(* accept_loop.                                                             *)

AcceptOnly == UNCHANGED <<directory, reloading, stop>>

\* A pipe instance is created, if the flag is not set.
CreatePipe ==
  /\ acceptor = "head"
  /\ acceptor' = IF stop THEN "ended" ELSE "waiting"
  /\ AcceptOnly /\ UNCHANGED <<active, sessions, leaked, faults>>

\* Mutation: the wait for a client does not look at the flag.
WaitOver_OnError ==
  /\ acceptor = "waiting" /\ Fault
  /\ acceptor' = "head"
  /\ AcceptOnly /\ UNCHANGED <<active, sessions, leaked>>

\* wait_for_client sees the flag, or fails.
WaitOver ==
  /\ acceptor = "waiting"
  /\ IF stop THEN UNCHANGED faults ELSE Fault
  /\ acceptor' = "head"
  /\ AcceptOnly /\ UNCHANGED <<active, sessions, leaked>>

ClientConnects ==
  /\ acceptor = "waiting"
  /\ acceptor' = "connected"
  /\ AcceptOnly /\ UNCHANGED <<active, sessions, leaked, faults>>

\* Mutation: one session too many is let in.
Full_OffByOne(count) == count > MaxSessions

Full(count) == count >= MaxSessions

\* Mutation: the counter is read first, and incremented only if there is room.
CountSession_ReadsFirst ==
  /\ acceptor = "connected"
  /\ active' = IF Full(active) THEN active ELSE active + 1
  /\ acceptor' = IF Full(active) THEN "refuse" ELSE "admit"
  /\ AcceptOnly /\ UNCHANGED <<sessions, leaked, faults>>

\* The counter is incremented, and what it was decides.
CountSession ==
  /\ acceptor = "connected"
  /\ active' = active + 1
  /\ acceptor' = IF Full(active) THEN "refuse" ELSE "admit"
  /\ AcceptOnly /\ UNCHANGED <<sessions, leaked, faults>>

Refuse ==
  /\ acceptor = "refuse"
  /\ active' = active - 1
  /\ acceptor' = "head"
  /\ AcceptOnly /\ UNCHANGED <<sessions, leaked, faults>>

\* Mutation: every session sees what was enrolled at the start.
Snapshot_First == [p \in Plugins |-> "enrolled"]

Snapshot == store

\* The worker thread is spawned with a snapshot of the store.
Admit(w) ==
  /\ acceptor = "admit" /\ w \notin Live
  /\ sessions' = [sessions EXCEPT ![w] = [at |-> "hello", plugin |-> "none",
                                          snapshot |-> Snapshot]]
  /\ acceptor' = "head"
  /\ AcceptOnly /\ UNCHANGED <<active, leaked, faults>>

\* Mutation: a thread that is not spawned keeps its place.
SpawnFails_Keeps ==
  /\ acceptor = "admit" /\ Fault
  /\ acceptor' = "head"
  /\ AcceptOnly /\ UNCHANGED <<active, sessions, leaked>>

SpawnFails ==
  /\ acceptor = "admit" /\ Fault
  /\ active' = active - 1
  /\ acceptor' = "head"
  /\ AcceptOnly /\ UNCHANGED <<sessions, leaked>>

----------------------------------------------------------------------------
(* handle_session, of worker w.                                             *)

WorkerOnly == UNCHANGED <<directory, reloading, acceptor, stop>>

\* A handshake in order: validate_handshake asks the snapshot.
Opens(w, p) ==
  /\ sessions[w].at = "hello" /\ sessions[w].snapshot[p] = "enrolled"
  /\ sessions' = [sessions EXCEPT ![w].at = "open", ![w].plugin = p]
  /\ WorkerOnly /\ UNCHANGED <<active, leaked, faults>>

\* The handshake is refused, for any of its reasons, or the session ends: by a
\* goodbye, the end of the pipe, an error, or a second hello.
SessionEnds(w) ==
  /\ sessions[w].at \in {"hello", "open"}
  /\ sessions' = [sessions EXCEPT ![w].at = "closed"]
  /\ WorkerOnly /\ UNCHANGED <<active, leaked, faults>>

\* The pipe is closed first, and then the counter decremented.
WorkerReturns(w) ==
  /\ sessions[w].at = "closed"
  /\ sessions' = [sessions EXCEPT ![w] = NoWorker]
  /\ active' = active - 1
  /\ WorkerOnly /\ UNCHANGED <<leaked, faults>>

\* A panic unwinds past the decrement.
WorkerPanics(w) ==
  /\ sessions[w].at \in {"hello", "open"} /\ Fault
  /\ sessions' = [sessions EXCEPT ![w] = NoWorker]
  /\ leaked' = leaked + 1
  /\ WorkerOnly /\ UNCHANGED active

----------------------------------------------------------------------------
(* The surroundings.                                                        *)

RequestStop ==
  /\ ~stop /\ stop' = TRUE
  /\ UNCHANGED <<directory, reloading, accepting, faults>>

\* wedr-plugin writes, rewrites or removes a manifest.
ManifestChanges(p) ==
  /\ stamp <= MaxChanges
  /\ \E f \in Files \ {dir[p]} : dir' = [dir EXCEPT ![p] = f]
  /\ stamp' = stamp + 1
  /\ UNCHANGED <<reloading, accepting, stop, faults>>

Reloader == ReloadWakes \/ (\E p \in Plugins : LoadOne(p)) \/ Swap \/ LoadFails

Acceptor ==
  \/ CreatePipe \/ WaitOver \/ CountSession \/ Refuse
  \/ (\E w \in Workers : Admit(w)) \/ SpawnFails

Worker(w) ==
  \/ (\E p \in Plugins : Opens(w, p)) \/ SessionEnds(w) \/ WorkerReturns(w)
  \/ WorkerPanics(w)

Next ==
  \/ Reloader \/ Acceptor \/ ClientConnects
  \/ \E w \in Workers : Worker(w)
  \/ RequestStop \/ \E p \in Plugins : ManifestChanges(p)

\* The two threads of the server are scheduled, and a worker whose session is
\* over.  A client need not connect, say hello, or leave.
Spec ==
  /\ Init /\ [][Next]_vars
  /\ WF_vars(Reloader) /\ WF_vars(Acceptor)
  /\ \A w \in Workers : WF_vars(WorkerReturns(w))

----------------------------------------------------------------------------
(* Properties.                                                              *)

TypeOK ==
  /\ dir \in [Plugins -> Files] /\ stamp \in 1 .. MaxChanges + 1
  /\ store \in [Plugins -> Entries] /\ loading \in [Plugins -> Entries]
  /\ lastFp \in 0 .. MaxChanges + 1 /\ fp \in 1 .. MaxChanges + 1
  /\ reload \in {"sleep", "load", "ended"}
  /\ unread \subseteq Plugins /\ skipped \subseteq Plugins
  /\ acceptor \in {"off", "head", "waiting", "connected", "refuse", "admit", "ended"}
  /\ active \in Nat /\ leaked \in Nat
  /\ sessions \in [Workers -> [at : {"none", "hello", "open", "closed"},
                               plugin : Plugins \cup {"none"},
                               snapshot : [Plugins -> Entries]]]
  /\ stop \in BOOLEAN /\ faults \in 0 .. MaxFaults

\* The place that the accept thread has taken for the session it admits.
Pending == IF acceptor \in {"refuse", "admit"} THEN 1 ELSE 0

\* Workers and the accept thread count up and down on their own, without a
\* lock: together they never let more than MAX_CONCURRENT_SESSIONS workers run
\* (server.rs:22), and the counter is exact but for workers that panicked.
CapHolds ==
  /\ Cardinality(Live) <= MaxSessions
  /\ active = Cardinality(Live) + Pending + leaked

\* A client is refused only when all the places are taken by workers, or lost
\* to panics: no failure, refusal or end of a session costs a place.
RefusesOnlyWhenFull ==
  [][acceptor = "connected" /\ acceptor' = "refuse"
       => Cardinality(Live) + leaked >= MaxSessions]_vars

Parsed(p) == IF dir[p] = "torn" THEN "absent" ELSE dir[p]

\* Once the directory is left alone the live store becomes what is in it, even
\* if it changed while it was being read, but for files that could not be read.
StoreFollows ==
  \A p \in Plugins, e \in Entries :
    <>[](Parsed(p) = e /\ p \notin skipped /\ ~stop) => <>[](store[p] = e)

\* A revocation reaches the handshakes: sessions accepted before it may still
\* open with their snapshot, but from some moment on no session of that plugin
\* opens any more.
RevocationReaches ==
  \A p \in Plugins :
    <>[](dir[p] \in {"revoked", "absent"} /\ p \notin skipped)
      => <>[][\A w \in Workers :
                ~(sessions[w].at = "hello" /\ sessions'[w].at = "open"
                    /\ sessions'[w].plugin = p)]_vars

\* Both threads end after SHUTDOWN, however many sessions stay.
ThreadsEnd == stop ~> acceptor = "ended" /\ reload = "ended"
=============================================================================
