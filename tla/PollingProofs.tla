--------------------------- MODULE PollingProofs ---------------------------
(***************************************************************************)
(* What is proved of Polling for every value of its constants: its types,  *)
(* that the receiver can follow the snapshots, and that the deletions it   *)
(* is told of are real.                                                    *)
(***************************************************************************)
EXTENDS Polling, TLAPS, FiniteSetTheorems

----------------------------------------------------------------------------
(* What is read                                                             *)

LEMMA ReadRecords ==
  /\ Absent \in Items /\ Absent \in Read /\ Items \subseteq Read
  /\ \A c \in Configs \cup {0}, u \in BOOLEAN : Item(c, u) \in Read
BY DEF Items, Read

\* An item is absent, or there with its configuration and its state.
LEMMA ReadShape ==
  ASSUME NEW x \in Read
  PROVE  /\ x.there \in BOOLEAN /\ x.up \in BOOLEAN /\ x.cfg \in Configs \cup {0}
         /\ ~x.there => x = Absent
         /\ x.there => x = Item(x.cfg, x.up)
<1>1. CASE x = Absent
  BY <1>1 DEF Absent
<1>2. CASE \E c \in Configs \cup {0}, u \in BOOLEAN : x = Item(c, u)
  BY <1>2 DEF Item
<1> QED
  BY <1>1, <1>2 DEF Read, Items

----------------------------------------------------------------------------
(* Types                                                                    *)

\* Only of services that are there the configuration is to be read.
TypeInv ==
  /\ TypeOK
  /\ surface = "services" => \A n \in unread : taking[n].there

LEMMA DiffTypes ==
  ASSUME TypeInv
  PROVE  Diff \subseteq [name : Names, snap : Read,
                         type : {"create", "start", "stop", "modify", "delete"}]
<1>1. \A n \in Names : prev[n] \in Read /\ taking[n] \in Read
  BY DEF TypeInv, TypeOK
<1> QED
  BY <1>1 DEF Diff, ServiceDiff, TaskDiff, Created, Deleted, Flipped, Both, Entry

LEMMA SnapshotTypes ==
  ASSUME TypeInv, Ends \/ Enumerate \/ ProbeFails \/ QueryConfig \/ OpenRoot
                  \/ ReadTask \/ SnapshotFails
  PROVE  TypeInv'
<1> USE PollingAssumption
<1>a. Missing \subseteq Names /\ Nothing \in [Names -> Read]
  BY ReadRecords DEF Missing, Nothing
<1>b. \A n \in Names : world[n] \in Items /\ world[n] \in Read /\ prev[n] \in Read
                       /\ taking[n] \in Read
  BY ReadRecords DEF TypeInv, TypeOK
<1>c. \A n \in Names : /\ world[n].up \in BOOLEAN /\ world[n].cfg \in Configs \cup {0}
                       /\ prev[n].cfg \in Configs \cup {0}
  BY <1>b, ReadShape
<1>1. CASE Ends
  BY <1>1 DEF Ends, TypeInv, TypeOK, machine, loop, snapshot, emission
<1>2. CASE Enumerate
  <2>1. taking' \in [Names -> Read]
    BY <1>2, <1>b, <1>c, ReadRecords DEF Enumerate
  <2>2. unread' \subseteq {n \in Names : world[n].there} /\ surface' = "services"
    BY <1>2 DEF Enumerate
  <2>3. \A n \in unread' : taking'[n].there
    BY <1>2, <2>2 DEF Enumerate, Item
  <2>4. /\ full' \in BOOLEAN /\ unread' \subseteq Names
    BY <1>2, <2>2 DEF Enumerate
  <2>5. /\ gone' = Missing /\ misread' = {} /\ pc' = "read"
        /\ UNCHANGED <<surface, stop, world, changes, prev, first, since, emission>>
    BY <1>2 DEF Enumerate
  <2>6. faults' \in 0 .. MaxFaults
    BY <1>2 DEF Enumerate, NoFault, TypeInv, TypeOK
  <2> QED
    BY <1>a, <2>1, <2>2, <2>3, <2>4, <2>5, <2>6 DEF TypeInv, TypeOK, emission
<1>3. CASE ProbeFails
  BY <1>3, <1>a DEF ProbeFails, Fault, TypeInv, TypeOK, emission
<1>4. CASE QueryConfig
  <2>1. PICK n \in unread :
          /\ unread' = unread \ {n}
          /\ \/ /\ taking' = [taking EXCEPT ![n] = Item(world[n].cfg, @.up)]
                /\ NoFault
             \/ UNCHANGED taking /\ Fault
    BY <1>4 DEF QueryConfig
  <2>2. n \in Names /\ surface = "services"
    BY <1>4 DEF QueryConfig, TypeInv, TypeOK
  <2>3. LET item == Item(world[n].cfg, taking[n].up)
        IN  item \in Read /\ item.there
    BY <2>2, <1>b, <1>c, ReadRecords, ReadShape DEF Item
  <2>4. taking' \in [Names -> Read] /\ \A m \in unread' : taking'[m].there
    BY <2>1, <2>2, <2>3 DEF TypeInv, TypeOK
  <2>5. faults' \in 0..MaxFaults
    BY <2>1 DEF Fault, NoFault, TypeInv, TypeOK
  <2> QED
    BY <1>4, <2>1, <2>4, <2>5
       DEF QueryConfig, TypeInv, TypeOK, machine, loop, emission
<1>5. CASE OpenRoot
  BY <1>5, <1>a DEF OpenRoot, NoFault, TypeInv, TypeOK, loop, emission
<1>6. CASE ReadTask
  <2>1. PICK n \in unread :
          /\ unread' = unread \ {n}
          /\ \/ /\ taking' = [taking EXCEPT ![n] = world[n]]
                /\ NoFault /\ UNCHANGED misread
             \/ Fault /\ misread' = misread \cup {n} /\ UNCHANGED taking
    BY <1>6 DEF ReadTask
  <2>2. taking' \in [Names -> Read] /\ misread' \subseteq Names
    BY <2>1, <1>b DEF TypeInv, TypeOK
  <2>3. faults' \in 0..MaxFaults
    BY <2>1 DEF Fault, NoFault, TypeInv, TypeOK
  <2> QED
    BY <1>6, <2>1, <2>2, <2>3
       DEF ReadTask, TypeInv, TypeOK, machine, loop, emission
<1>7. CASE SnapshotFails
  BY <1>7 DEF SnapshotFails, Fault, TypeInv, TypeOK, machine, snapshot, emission
<1> QED
  BY <1>1, <1>2, <1>3, <1>4, <1>5, <1>6, <1>7

LEMMA EmissionTypes ==
  ASSUME TypeInv, Taken \/ Emit \/ Emitted \/ Wake
  PROVE  TypeInv'
<1> USE PollingAssumption
<1>1. CASE Taken
  <2>1. since' \in Nat
    BY <1>1 DEF Taken, TypeInv, TypeOK
  <2>2. /\ prev' \in [Names -> Read] /\ view' \in [Names -> Read]
        /\ first' \in BOOLEAN /\ pc' \in {"sleep", "emit"}
    BY <1>1 DEF Taken, TypeInv, TypeOK
  <2>3. queue' = queue \/ queue' = Diff
    BY <1>1 DEF Taken
  <2>4. queue' \subseteq
          [name : Names, snap : Read,
           type : {"create", "start", "stop", "modify", "delete"}]
    BY <2>3, DiffTypes DEF TypeInv, TypeOK
  <2> QED
    BY <1>1, <2>1, <2>2, <2>4
       DEF Taken, NoFault, TypeInv, TypeOK, machine, snapshot
<1>2. CASE Emit
  <2>1. PICK e \in queue :
          /\ queue' = queue \ {e}
          /\ \/ /\ view' = [view EXCEPT ![e.name] = Told(e)]
                /\ stale' = stale \ {e.name} /\ UNCHANGED dropped
             \/ /\ dropped < MaxRefused /\ dropped' = dropped + 1
                /\ stale' = stale \cup {e.name} /\ UNCHANGED view
    BY <1>2 DEF Emit
  <2>2. e.name \in Names /\ Told(e) \in Read
    BY ReadRecords DEF Told, TypeInv, TypeOK
  <2>3. view' \in [Names -> Read] /\ stale' \subseteq Names
        /\ dropped' \in 0..MaxRefused
    BY <2>1, <2>2 DEF TypeInv, TypeOK
  <2> QED
    BY <1>2, <2>1, <2>3
       DEF Emit, NoFault, TypeInv, TypeOK, machine, loop, snapshot
<1>3. CASE Emitted
  BY <1>3 DEF Emitted, NoFault, TypeInv, TypeOK, machine, snapshot, emission
<1>4. CASE Wake
  BY <1>4 DEF Wake, NoFault, TypeInv, TypeOK, machine, loop, snapshot, emission
<1> QED
  BY <1>1, <1>2, <1>3, <1>4

LEMMA NextTypes == TypeInv /\ [Next]_vars => TypeInv'
<1> SUFFICES ASSUME TypeInv, [Next]_vars PROVE TypeInv'
  OBVIOUS
<1> USE PollingAssumption
<1>1. CASE Thread
  BY <1>1, SnapshotTypes, EmissionTypes DEF Thread
<1>2. CASE Change
  <2>1. PICK n \in Names, item \in Items :
          /\ world' = [world EXCEPT ![n] = item]
          /\ gone' = IF item.there THEN gone ELSE gone \cup {n}
    BY <1>2 DEF Change
  <2> QED
    BY <1>2, <2>1 DEF Change, TypeInv, TypeOK, loop, snapshot, emission
<1>3. CASE Shutdown
  BY <1>3 DEF Shutdown, TypeInv, TypeOK, machine, loop, snapshot, emission
<1>4. CASE UNCHANGED vars
  BY <1>4 DEF vars, TypeInv, TypeOK, machine, loop, snapshot, emission
<1> QED
  BY <1>1, <1>2, <1>3, <1>4 DEF Next

LEMMA InitTypes == Init => TypeInv
<1> SUFFICES ASSUME Init PROVE TypeInv
  OBVIOUS
<1>1. Nothing \in [Names -> Read]
  BY ReadRecords DEF Nothing
<1>2. world \in [Names -> Items]
  <2>1. \A c \in Configs, u \in BOOLEAN : Item(c, u) \in Items
    BY DEF Items
  <2>2. {Absent} \cup {Item(c, FALSE) : c \in Configs} \subseteq Items
    BY <2>1, ReadRecords
  <2> QED
    BY <2>2 DEF Init
<1>3. TypeOK
  <2>1. 0 \in Nat /\ 0 \in 0..MaxRefused /\ 0 \in 0..MaxChanges /\ 0 \in 0..MaxFaults
    BY PollingAssumption
  <2> QED
    BY <1>1, <1>2, <2>1 DEF Init, TypeOK
<1> QED
  BY <1>3 DEF Init, TypeInv

\* The collectors (polling/services.rs, polling/tasks.rs) keep their types.
THEOREM PollingTypes == Spec => []TypeOK
<1>1. TypeInv => TypeOK
  BY DEF TypeInv
<1> QED
  BY <1>1, InitTypes, NextTypes, PTL DEF Spec

----------------------------------------------------------------------------
(* The receiver                                                             *)

\* A line tells of its name what the snapshot being emitted holds.
FollowInv ==
  /\ pc # "emit" => /\ queue = {}
                    /\ \A n \in Names \ stale : view[n] = prev[n]
  /\ pc = "emit" => \A n \in Names \ stale :
                      (\A e \in queue : e.name # n) => view[n] = taking[n]
  /\ \A e \in queue : /\ Told(e) = taking[e.name]
                      /\ e.type = "delete" => ~taking[e.name].there
  /\ IsFiniteSet(stale) /\ Cardinality(stale) <= dropped

\* A name of which the difference says nothing has not changed.
LEMMA DiffCovers ==
  ASSUME TypeInv, NEW n \in Names, \A e \in Diff : e.name # n
  PROVE  prev[n] = taking[n]
<1>1. prev[n] \in Read /\ taking[n] \in Read
  BY DEF TypeInv, TypeOK
<1>2. prev[n].there <=> taking[n].there
  <2>1. prev[n].there /\ ~taking[n].there => Entry(n, "delete", prev[n]) \in Diff
    BY DEF Diff, ServiceDiff, TaskDiff, Deleted
  <2>2. ~prev[n].there /\ taking[n].there => Entry(n, "create", taking[n]) \in Diff
    BY DEF Diff, ServiceDiff, TaskDiff, Created
  <2> QED
    BY <1>1, <2>1, <2>2, ReadShape DEF Entry
<1>3. CASE ~taking[n].there
  BY <1>1, <1>2, <1>3, ReadShape
<1>4. CASE n \in Both /\ surface = "services"
  <2>1. prev[n].up # taking[n].up =>
          Entry(n, IF taking[n].up THEN "start" ELSE "stop", taking[n]) \in Diff
    BY <1>4 DEF Diff, ServiceDiff, Flipped
  <2>2. prev[n].cfg # taking[n].cfg => Entry(n, "modify", taking[n]) \in Diff
    BY <1>4 DEF Diff, ServiceDiff
  <2>3. prev[n].up = taking[n].up /\ prev[n].cfg = taking[n].cfg
    BY <2>1, <2>2 DEF Entry
  <2>4. prev[n] = Item(prev[n].cfg, prev[n].up)
        /\ taking[n] = Item(taking[n].cfg, taking[n].up)
    BY <1>1, <1>4, ReadShape DEF Both
  <2> QED
    BY <2>3, <2>4
<1>5. CASE n \in Both /\ surface # "services"
  <2>1. prev[n] # taking[n] => Entry(n, "modify", taking[n]) \in Diff
    BY <1>5 DEF Diff, TaskDiff
  <2> QED
    BY <2>1 DEF Entry
<1> QED
  BY <1>1, <1>2, <1>3, <1>4, <1>5 DEF Both

\* What the difference tells is what the snapshot holds.
LEMMA DiffTells ==
  ASSUME TypeInv, NEW e \in Diff
  PROVE  /\ Told(e) = taking[e.name]
         /\ e.type = "delete" => ~taking[e.name].there
<1>1. CASE e \in Deleted
  <2>1. PICK n \in Names : e = Entry(n, "delete", prev[n]) /\ ~taking[n].there
    BY <1>1 DEF Deleted
  <2>2. taking[n] = Absent
    BY <2>1, ReadShape DEF TypeInv, TypeOK
  <2> QED
    BY <2>1, <2>2 DEF Entry, Told
<1>2. CASE e \notin Deleted
  <2>1. PICK n \in Names, t \in {"create", "start", "stop", "modify"} :
          e = Entry(n, t, taking[n])
    BY <1>2 DEF Diff, ServiceDiff, TaskDiff, Created, Flipped, Both
  <2> QED
    BY <2>1 DEF Entry, Told
<1> QED
  BY <1>1, <1>2

LEMMA TakenFollows ==
  ASSUME TypeInv, FollowInv, Taken
  PROVE  FollowInv'
<1>1. CASE pc' = "sleep"
  BY <1>1 DEF Taken, FollowInv, snapshot
<1>2. CASE pc' = "emit"
  <2>1. queue' = Diff /\ pc # "emit"
        /\ UNCHANGED <<view, prev, stale, dropped, taking>>
    BY <1>2 DEF Taken, snapshot
  <2>2. ASSUME NEW n \in Names \ stale', \A e \in queue' : e.name # n
        PROVE  view'[n] = taking'[n]
    BY <2>1, <2>2, DiffCovers DEF FollowInv
  <2>3. \A e \in queue' : Told(e)' = taking'[e.name]
                          /\ (e.type = "delete" => ~taking'[e.name].there)
    BY <2>1, DiffTells DEF Told
  <2> QED
    BY <1>2, <2>1, <2>2, <2>3 DEF FollowInv
<1> QED
  BY <1>1, <1>2 DEF Taken

LEMMA EmitFollows ==
  ASSUME TypeInv, FollowInv, Emit
  PROVE  FollowInv'
<1>1. PICK e \in queue :
        /\ queue' = queue \ {e}
        /\ \/ /\ view' = [view EXCEPT ![e.name] = Told(e)]
              /\ stale' = stale \ {e.name} /\ UNCHANGED dropped
           \/ /\ dropped < MaxRefused /\ dropped' = dropped + 1
              /\ stale' = stale \cup {e.name} /\ UNCHANGED view
  BY DEF Emit
<1>2. pc = "emit" /\ pc' = "emit" /\ taking' = taking /\ prev' = prev
  BY DEF Emit, snapshot, loop
<1>3. e.name \in Names /\ Told(e) = taking[e.name] /\ dropped \in Nat
  BY PollingAssumption DEF TypeInv, TypeOK, FollowInv
<1>4. ASSUME NEW n \in Names \ stale', \A f \in queue' : f.name # n
      PROVE  view'[n] = taking'[n]
  <2>1. CASE n = e.name
    BY <1>1, <1>2, <1>3, <1>4, <2>1 DEF TypeInv, TypeOK
  <2>2. CASE n # e.name
    <3>1. n \in Names \ stale /\ \A f \in queue : f.name # n
      BY <1>1, <1>4, <2>2
    <3>2. view[n] = taking[n]
      BY <1>2, <3>1 DEF FollowInv
    <3> QED
      BY <1>1, <1>2, <2>2, <3>2 DEF TypeInv, TypeOK
  <2> QED
    BY <2>1, <2>2
<1>5. \A f \in queue' : Told(f)' = taking'[f.name]
                        /\ (f.type = "delete" => ~taking'[f.name].there)
  BY <1>1, <1>2 DEF Told, FollowInv
<1>6. IsFiniteSet(stale') /\ Cardinality(stale') <= dropped'
  <2>1. IsFiniteSet(stale) /\ Cardinality(stale) \in Nat /\ Cardinality(stale) <= dropped
    BY FS_CardinalityType DEF FollowInv
  <2>2. CASE stale' = stale \ {e.name} /\ UNCHANGED dropped
    <3>1. IsFiniteSet(stale')
          /\ Cardinality(stale') \in {Cardinality(stale), Cardinality(stale) - 1}
      BY <2>1, <2>2, FS_RemoveElement
    <3> QED
      BY <1>3, <2>1, <2>2, <3>1
  <2>3. CASE dropped' = dropped + 1 /\ stale' = stale \cup {e.name}
    <3>1. IsFiniteSet(stale')
          /\ Cardinality(stale') \in {Cardinality(stale), Cardinality(stale) + 1}
      BY <2>1, <2>3, FS_AddElement
    <3> QED
      BY <1>3, <2>1, <2>3, <3>1
  <2> QED
    BY <1>1, <2>2, <2>3
<1> QED
  BY <1>2, <1>4, <1>5, <1>6 DEF FollowInv

LEMMA NextFollows == TypeInv /\ FollowInv /\ [Next]_vars => FollowInv'
<1> SUFFICES ASSUME TypeInv, FollowInv, [Next]_vars PROVE FollowInv'
  OBVIOUS
<1>1. CASE Taken \/ Emit
  BY <1>1, TakenFollows, EmitFollows
<1>2. CASE Ends \/ Enumerate \/ ProbeFails \/ QueryConfig \/ OpenRoot
           \/ ReadTask \/ SnapshotFails \/ Wake
  <2>1. pc # "emit" /\ pc' # "emit" /\ UNCHANGED <<emission, prev>>
    BY <1>2 DEF Ends, Enumerate, ProbeFails, QueryConfig, OpenRoot, ReadTask,
       SnapshotFails, Wake, loop
  <2> QED
    BY <2>1 DEF FollowInv, emission
<1>3. CASE Emitted
  BY <1>3 DEF Emitted, FollowInv, emission, snapshot
<1>4. CASE Change \/ Shutdown \/ UNCHANGED vars
  <2>1. UNCHANGED <<pc, prev, taking, queue, view, stale, dropped>>
    BY <1>4 DEF Change, Shutdown, vars, loop, snapshot, emission
  <2> QED
    BY <2>1 DEF FollowInv, Told
<1> QED
  BY <1>1, <1>2, <1>3, <1>4 DEF Next, Thread

\* diff_and_emit of the services and of the tasks: the receiver knows of a name
\* what the next difference starts from, but for the lines that were refused
\* and counted.
THEOREM PollingViewFollows == Spec => []ViewFollows
<1>1. Init => FollowInv
  BY FS_EmptySet, PollingAssumption DEF Init, FollowInv
<1>2. FollowInv => ViewFollows
  BY DEF FollowInv, ViewFollows
<1> QED
  BY <1>1, <1>2, InitTypes, NextTypes, NextFollows, PTL DEF Spec

----------------------------------------------------------------------------
(* Deletions                                                                *)

\* While a snapshot is taken and emitted, what it lacks was absent, was missed,
\* or is still to be read.
LacksInv ==
  /\ pc \in {"read", "emit"} =>
       \A n \in Names :
         /\ ~world[n].there => n \in gone
         /\ ~taking[n].there =>
              n \in gone \cup misread \/ (surface = "tasks" /\ n \in unread)
  /\ pc = "emit" => unread = {}

LEMMA SnapshotLacks ==
  ASSUME TypeInv, LacksInv, Enumerate \/ ProbeFails \/ QueryConfig \/ OpenRoot \/ ReadTask
  PROVE  LacksInv'
<1>1. CASE Enumerate
  <2>1. pc' = "read" /\ world' = world /\ gone' = Missing
    BY <1>1 DEF Enumerate
  <2>2. \A n \in Names : world[n].there => taking'[n].there
    BY <1>1 DEF Enumerate, Item
  <2> QED
    BY <2>1, <2>2 DEF Missing, LacksInv
<1>2. CASE ProbeFails
  <2>1. pc' = "read" /\ world' = world /\ gone' = Missing /\ misread' = Names
    BY <1>2 DEF ProbeFails
  <2> QED
    BY <2>1 DEF Missing, LacksInv
<1>3. CASE OpenRoot
  BY <1>3 DEF OpenRoot, Missing, LacksInv
<1>4. CASE QueryConfig
  <2>1. PICK n \in unread :
          \/ taking' = [taking EXCEPT ![n] = Item(world[n].cfg, @.up)]
          \/ UNCHANGED taking
    BY <1>4 DEF QueryConfig
  <2>2. \A m \in Names : taking[m].there => taking'[m].there
    BY <2>1 DEF Item, TypeInv, TypeOK
  <2>3. pc = "read" /\ surface = "services" /\ UNCHANGED <<pc, surface, machine, misread>>
    BY <1>4 DEF QueryConfig
  <2> QED
    BY <2>2, <2>3 DEF LacksInv, machine
<1>5. CASE ReadTask
  <2>1. PICK n \in unread :
          /\ unread' = unread \ {n}
          /\ \/ /\ taking' = [taking EXCEPT ![n] = world[n]]
                /\ UNCHANGED misread
             \/ misread' = misread \cup {n} /\ UNCHANGED taking
    BY <1>5 DEF ReadTask
  <2>2. UNCHANGED <<machine, pc, surface>> /\ pc = "read" /\ n \in Names
    BY <1>5 DEF ReadTask, TypeInv, TypeOK
  <2>3. ASSUME NEW m \in Names, ~taking'[m].there
        PROVE  m \in gone' \cup misread' \/ (surface' = "tasks" /\ m \in unread')
    <3>1. CASE m = n
      <4>1. CASE taking' = [taking EXCEPT ![n] = world[n]]
        <5>1. taking'[n] = world[n]
          BY <2>2, <4>1 DEF TypeInv, TypeOK
        <5> QED
          BY <2>2, <2>3, <3>1, <5>1 DEF LacksInv, machine
      <4>2. CASE misread' = misread \cup {n}
        BY <3>1, <4>2
      <4> QED
        BY <2>1, <4>1, <4>2
    <3>2. CASE m # n
      <4>1. ~taking[m].there
        BY <2>1, <2>3, <3>2 DEF TypeInv, TypeOK
      <4> QED
        BY <2>1, <2>2, <3>2, <4>1 DEF LacksInv, machine
    <3> QED
      BY <3>1, <3>2
  <2> QED
    BY <2>2, <2>3 DEF LacksInv, machine
<1> QED
  BY <1>1, <1>2, <1>3, <1>4, <1>5

LEMMA NextLacks == TypeInv /\ LacksInv /\ [Next]_vars => LacksInv'
<1> SUFFICES ASSUME TypeInv, LacksInv, [Next]_vars PROVE LacksInv'
  OBVIOUS
<1>1. CASE Enumerate \/ ProbeFails \/ QueryConfig \/ OpenRoot \/ ReadTask
  BY <1>1, SnapshotLacks
<1>2. CASE Ends \/ SnapshotFails \/ Emitted \/ Wake
  BY <1>2 DEF Ends, SnapshotFails, Emitted, Wake, LacksInv
<1>3. CASE Taken
  BY <1>3 DEF Taken, LacksInv, machine, snapshot
<1>4. CASE Emit
  BY <1>4 DEF Emit, LacksInv, machine, snapshot
<1>5. CASE Change
  <2>1. PICK n \in Names, item \in Items :
          /\ world' = [world EXCEPT ![n] = item]
          /\ gone' = IF item.there THEN gone ELSE gone \cup {n}
    BY <1>5 DEF Change
  <2>2. UNCHANGED <<pc, surface, taking, unread, misread>>
    BY <1>5 DEF Change, snapshot
  <2> QED
    BY <2>1, <2>2 DEF LacksInv, TypeInv, TypeOK
<1>6. CASE Shutdown \/ UNCHANGED vars
  BY <1>6 DEF Shutdown, vars, LacksInv, machine, snapshot
<1> QED
  BY <1>1, <1>2, <1>3, <1>4, <1>5, <1>6 DEF Next, Thread

\* A deletion is told of what was absent while the snapshot was taken, or of
\* what a tolerated failure has hidden.
THEOREM PollingDeletesAreReal == Spec => []DeletesAreReal
<1>1. Init => LacksInv /\ FollowInv
  BY FS_EmptySet, PollingAssumption DEF Init, LacksInv, FollowInv
<1>2. TypeInv /\ FollowInv /\ LacksInv => DeletesAreReal
  <2> SUFFICES ASSUME TypeInv, FollowInv, LacksInv,
                      NEW e \in queue, e.type = "delete"
               PROVE  e.name \in gone \cup misread
    BY DEF DeletesAreReal
  <2>1. pc = "emit" /\ ~taking[e.name].there
    BY DEF FollowInv
  <2>2. e.name \in Names
    BY DEF TypeInv, TypeOK
  <2> QED
    BY <2>1, <2>2 DEF LacksInv
<1> QED
  BY <1>1, <1>2, InitTypes, NextTypes, NextFollows, NextLacks, PTL DEF Spec
=============================================================================
