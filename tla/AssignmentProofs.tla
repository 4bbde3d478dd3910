-------------------------- MODULE AssignmentProofs --------------------------
(***************************************************************************)
(* What is proved of Assignment for every value of its constants: its      *)
(* types, that only verified programs are kept, that what the server shows *)
(* as started is enrolled, that instances it does not know of have cost a  *)
(* loss, and that no action touches the instance of another package.       *)
(***************************************************************************)
EXTENDS Assignment, TLAPS, FiniteSetTheorems

----------------------------------------------------------------------------
(* Types                                                                    *)

\* What is left alone of the plugins is spelled out.
USE DEF plugins

LEMMA ReportTypes ==
  ASSUME TypeOK, pc \in Acting,
         NEW status \in Phases, status = "started" => got.version \in Versions,
         Record(status) \/ UNCHANGED server
  PROVE  /\ assigned' \in [Packages -> 0..MaxVersion]
         /\ phase' \in [Packages -> Phases]
         /\ idLocal' \in [Packages -> Nat]
         /\ done' \in [Packages -> 0..MaxVersion]
<1>1. CASE UNCHANGED server
  BY <1>1 DEF server, TypeOK
<1>2. CASE Record(status)
  <2>1. cur.pkg \in Packages /\ got.id \in Nat /\ got.version \in 0..MaxVersion
    BY DEF TypeOK, Actions
  <2>2. phase' \in [Packages -> Phases] /\ assigned' = assigned
    BY <1>2 DEF Record, TypeOK
  <2>3. \/ idLocal' = idLocal
        \/ idLocal' = [idLocal EXCEPT ![cur.pkg] = got.id]
        \/ idLocal' = [idLocal EXCEPT ![cur.pkg] = 0]
    BY <1>2 DEF Record
  <2>4. \/ done' = done
        \/ done' = [done EXCEPT ![cur.pkg] = got.version]
        \/ done' = [done EXCEPT ![cur.pkg] = 0]
    BY <1>2 DEF Record
  <2>5. idLocal' \in [Packages -> Nat]
    <3>1. idLocal \in [Packages -> Nat]
      BY DEF TypeOK
    <3> QED
      BY <2>1, <2>3, <3>1
  <2>6. done' \in [Packages -> 0..MaxVersion]
    <3>1. done \in [Packages -> 0..MaxVersion] /\ 0 \in 0..MaxVersion
      BY AssignmentAssumption DEF TypeOK
    <3> QED
      BY <2>1, <2>4, <3>1
  <2> QED
    BY <2>2, <2>5, <2>6 DEF TypeOK
<1> QED
  BY <1>1, <1>2

LEMMA ReportsTypes ==
  ASSUME TypeOK, \/ ReportInstalling \/ ReportInstalled \/ ReportStarted
                  \/ ReportRevoked \/ ReportFailure
  PROVE  TypeOK'
<1>1. PICK status \in Phases :
        /\ Record(status) \/ UNCHANGED server
        /\ status = "started" => got.version \in Versions
        /\ pc \in Acting
  BY DEF ReportInstalling, ReportInstalled, ReportStarted, ReportRevoked,
     ReportFailure, Report, Phases, Acting, Versioned, TypeOK
<1>2. faults' \in 0..MaxFaults /\ UNCHANGED <<orders, crashes>>
  BY ProcessAssumption
     DEF ReportInstalling, ReportInstalled, ReportStarted, ReportRevoked,
         ReportFailure, Report, Goto, NoFault, Fault, TypeOK, ProcessTypes
<1>3. /\ pc' \in {"info", "enroll", "batch", "fail"}
      /\ pc' = "enroll" => pc = "installed"
  BY DEF ReportInstalling, ReportInstalled, ReportStarted, ReportRevoked,
     ReportFailure, Report, Goto
<1>4. UNCHANGED <<agent, disk, plugins>>
  BY DEF ReportInstalling, ReportInstalled, ReportStarted, ReportRevoked,
     ReportFailure, Report
<1> QED
  BY <1>1, <1>2, <1>3, <1>4, ReportTypes
     DEF TypeOK, ProcessTypes, agent, disk, Acting, Versioned

LEMMA BatchTypes ==
  ASSUME TypeOK, Heartbeat \/ Begin \/ BatchDone
  PROVE  TypeOK'
<1>1. CASE Heartbeat
  <2>1. \A p \in Packages : Todo(p) \in {"install", "update", "revoke", "none"}
    BY DEF Todo
  <2>2. batch' \subseteq Actions
    BY <1>1, <2>1 DEF Heartbeat, Actions, TypeOK
  <2>3. inFlight' \subseteq Packages
    BY <1>1, <2>2 DEF Heartbeat, Actions, TypeOK
  <2> QED
    BY <1>1, <2>2, <2>3
       DEF Heartbeat, Goto, NoFault, server, disk, Acting, Versioned, TypeOK,
           ProcessTypes
<1>2. CASE Begin
  <2>1. PICK a \in batch :
          /\ cur' = a /\ batch' = batch \ {a}
          /\ got' = [NoneYet EXCEPT !.id = a.id]
          /\ pc' = IF a.kind = "revoke" THEN "revoke" ELSE "installing"
    BY <1>2 DEF Begin, Goto
  <2>2. a \in Actions
    BY DEF TypeOK, Actions
  <2>3. got' \in [version : 0..MaxVersion, partial : {"none", "good", "bad"}, id : Nat]
    BY <2>1, <2>2, AssignmentAssumption DEF NoneYet, Actions
  <2> QED
    BY <1>2, <2>1, <2>2, <2>3
       DEF Begin, Goto, NoFault, server, disk, Acting, Versioned, TypeOK,
           ProcessTypes
<1>3. CASE BatchDone
  <2>1. NoneYet \in [version : 0..MaxVersion, partial : {"none", "good", "bad"}, id : Nat]
    BY AssignmentAssumption DEF NoneYet
  <2> QED
    BY <1>3, <2>1
       DEF BatchDone, Goto, NoFault, server, disk, Acting, Versioned, TypeOK,
           TypeOK, ProcessTypes
<1> QED
  BY <1>1, <1>2, <1>3

LEMMA FileTypes ==
  ASSUME TypeOK, GetInfo \/ Download \/ Verify \/ Replace \/ Rename
  PROVE  TypeOK'
<1>1. faults' \in 0..MaxFaults /\ UNCHANGED <<orders, crashes>>
  BY ProcessAssumption
     DEF GetInfo, Download, Verify, Replace, Rename, Goto, NoFault, Fault, TypeOK,
         ProcessTypes
<1>2. UNCHANGED <<server, batch, cur, inFlight, manifests, lastId, plugins>>
  BY DEF GetInfo, Download, Verify, Replace, Rename, agent, disk
<1>3. cur \in Actions
  BY DEF GetInfo, Download, Verify, Replace, Rename, Acting, TypeOK
<1>4. CASE GetInfo
  <2>1. assigned[cur.pkg] \in 0..MaxVersion
    BY <1>3 DEF Actions, TypeOK
  <2>2. \/ /\ pc' = "download" /\ assigned[cur.pkg] # 0
           /\ got' = [got EXCEPT !.version = assigned[cur.pkg]]
        \/ pc' = "fail" /\ got' = got
    BY <1>4 DEF GetInfo, Goto
  <2>3. /\ got' \in [version : 0..MaxVersion, partial : {"none", "good", "bad"},
                     id : Nat]
        /\ pc' = "download" => got'.version \in Versions
    BY <2>1, <2>2, AssignmentAssumption DEF Versions, TypeOK
  <2> QED
    BY <1>1, <1>2, <1>3, <1>4, <2>2, <2>3
       DEF GetInfo, server, disk, Acting, Versioned, TypeOK, ProcessTypes
<1>5. CASE Download
  <2>1. /\ got' \in [version : 0..MaxVersion, partial : {"none", "good", "bad"},
                     id : Nat]
        /\ got'.version = got.version
    BY <1>5 DEF Download, TypeOK
  <2>2. pc = "download" /\ pc' \in {"verify", "fail"}
    BY <1>5 DEF Download, Goto
  <2> QED
    BY <1>1, <1>2, <1>3, <1>5, <2>1, <2>2
       DEF Download, server, disk, Acting, Versioned, TypeOK, ProcessTypes
<1>6. CASE Verify
  <2>1. pc = "verify" /\ pc' \in {"replace", "fail"}
    BY <1>6 DEF Verify, Goto
  <2>2. UNCHANGED <<server, agent, disk, plugins>>
    BY <1>6 DEF Verify
  <2> QED
    BY <1>1, <1>3, <2>1, <2>2
       DEF server, agent, disk, Acting, Versioned, TypeOK, ProcessTypes
<1>7. CASE Replace \/ Rename
  <2>1. bin' \in [Packages -> [Versions -> {"none", "good", "bad"}]]
    <3>1. CASE Replace
      <4>1. bin' = bin \/ bin' = [bin EXCEPT ![cur.pkg][got.version] = "none"]
        BY <3>1 DEF Replace
      <4> DEFINE row == [bin[cur.pkg] EXCEPT ![got.version] = "none"]
      <4>2. bin' = [bin EXCEPT ![cur.pkg] = row] \/ bin' = bin
        BY <4>1
      <4>3. row \in [Versions -> {"none", "good", "bad"}]
        BY <1>3 DEF TypeOK, Actions
      <4> HIDE DEF row
      <4> QED
        BY <4>2, <4>3 DEF TypeOK
    <3>2. CASE Rename
      <4>1. got.partial \in {"none", "good", "bad"}
        BY DEF TypeOK
      <4>2. \/ bin' = [bin EXCEPT ![cur.pkg][got.version] = got.partial]
            \/ bin' = bin
        BY <3>2 DEF Rename
      <4> DEFINE row == [bin[cur.pkg] EXCEPT ![got.version] = got.partial]
      <4>3. bin' = [bin EXCEPT ![cur.pkg] = row] \/ bin' = bin
        BY <4>2
      <4>4. cur.pkg \in Packages
        BY <3>2 DEF Rename, Acting, TypeOK, Actions
      <4>5. row \in [Versions -> {"none", "good", "bad"}]
        BY <4>1, <4>4 DEF TypeOK
      <4> HIDE DEF row
      <4> QED
        BY <4>3, <4>5 DEF TypeOK
    <3> QED
      BY <1>7, <3>1, <3>2
  <2>2. /\ pc \in {"replace", "rename"}
        /\ pc' \in {"rename", "installed", "update", "fail"} /\ got' = got
    BY <1>7 DEF Replace, Rename, Goto, agent
  <2> QED
    BY <1>1, <1>2, <1>3, <2>1, <2>2
       DEF server, Acting, Versioned, TypeOK, ProcessTypes
<1> QED
  BY <1>4, <1>5, <1>6, <1>7

ManifestSet == [id : Nat, pkg : Packages, version : Versions, revoked : BOOLEAN]

LEMMA EnrollTypes ==
  ASSUME TypeOK, Enroll \/ Update \/ Remove \/ KillRunning
  PROVE  TypeOK'
<1>1. UNCHANGED <<server, batch, cur, inFlight, bin>> /\ cur \in Actions
  BY DEF Enroll, Update, Remove, KillRunning, agent, disk, Acting, TypeOK
<1>2. CASE Enroll
  <2>1. /\ \/ /\ lastId' = lastId + 1
              /\ manifests' = manifests \cup {Manifest(lastId + 1)}
              /\ got' = [got EXCEPT !.id = lastId + 1]
           \/ UNCHANGED <<lastId, manifests, got>>
        /\ pc' \in {"started", "fail"} /\ faults' \in 0..MaxFaults
        /\ UNCHANGED <<orders, crashes, plugins>> /\ pc = "enroll"
    BY <1>2, ProcessAssumption
       DEF Enroll, Invoke, Goto, NoFault, Fault, TypeOK, ProcessTypes
  <2>2. Manifest(lastId + 1) \in ManifestSet
    BY <1>1, <2>1 DEF Manifest, ManifestSet, Actions, Versioned, TypeOK
  <2>3. manifests' \subseteq ManifestSet /\ lastId' \in Nat
    BY <2>1, <2>2 DEF ManifestSet, TypeOK
  <2>4. /\ got' \in [version : 0..MaxVersion, partial : {"none", "good", "bad"},
                     id : Nat]
        /\ got'.version = got.version
    BY <2>1 DEF TypeOK
  <2> QED
    BY <1>1, <2>1, <2>3, <2>4
       DEF server, Acting, Versioned, ManifestSet, TypeOK, ProcessTypes
<1>3. CASE Update \/ Remove
  <2>1. /\ manifests' \subseteq manifests \cup {Manifest(got.id)}
        /\ pc = "update" \/ manifests' \subseteq manifests
        /\ pc \in {"update", "remove"} /\ pc' \in {"kill", "cleanup", "fail"}
        /\ pc' = "kill" => pc = "update"
        /\ faults' \in 0..MaxFaults
        /\ UNCHANGED <<orders, crashes, plugins, got, lastId>>
    BY <1>3, ProcessAssumption
       DEF Update, Remove, Invoke, Known, Goto, NoFault, Fault, agent, TypeOK,
           ProcessTypes
  <2>2. pc = "update" => Manifest(got.id) \in ManifestSet
    BY <1>1 DEF Manifest, ManifestSet, Actions, Versioned, TypeOK
  <2>3. manifests' \subseteq ManifestSet
    BY <2>1, <2>2 DEF ManifestSet, TypeOK
  <2> QED
    BY <1>1, <2>1, <2>3
       DEF server, Acting, Versioned, ManifestSet, TypeOK, ProcessTypes
<1>4. CASE KillRunning
  BY <1>1, <1>4, ProcessAssumption
     DEF KillRunning, Goto, NoFault, Fault, server, agent, disk, Acting, Versioned,
         TypeOK, ProcessTypes
<1> QED
  BY <1>2, <1>3, <1>4

LEMMA RevokeTypes ==
  ASSUME TypeOK, Revoke \/ Cleanup
  PROVE  TypeOK'
<1>1. cur \in Actions
  BY DEF Revoke, Cleanup, Acting, TypeOK
<1>2. CASE Revoke
  <2>1. /\ manifests' \subseteq
             manifests \cup {[m EXCEPT !.revoked = TRUE] : m \in manifests}
        /\ pc' \in {"remove", "fail"} /\ faults' \in 0..MaxFaults
        /\ UNCHANGED <<orders, crashes, plugins, server, batch, cur, inFlight, bin,
                       lastId>>
    BY <1>2, ProcessAssumption
       DEF Revoke, Invoke, Known, Goto, NoFault, Fault, TypeOK, ProcessTypes
  <2>2. manifests' \subseteq ManifestSet
    <3>1. \A m \in ManifestSet : [m EXCEPT !.revoked = TRUE] \in ManifestSet
      BY DEF ManifestSet
    <3>2. manifests \subseteq ManifestSet
      BY DEF ManifestSet, TypeOK
    <3> QED
      BY <2>1, <3>1, <3>2
  <2>3. Known = {} \/ (CHOOSE m \in Known : TRUE) \in manifests
    BY DEF Known
  <2>4. (IF Known = {} THEN 0 ELSE (CHOOSE m \in Known : TRUE).version) \in 0..MaxVersion
    BY <2>3, AssignmentAssumption DEF Versions, TypeOK
  <2>5. got' \in [version : 0..MaxVersion, partial : {"none", "good", "bad"}, id : Nat]
    BY <1>2, <2>4 DEF Revoke, TypeOK
  <2> QED
    BY <1>1, <2>1, <2>2, <2>5
       DEF server, Acting, Versioned, ManifestSet, TypeOK, ProcessTypes
<1>3. CASE Cleanup
  <2>1. /\ bin' \in [Packages -> [Versions -> {"none", "good", "bad"}]]
        /\ faults' \in 0..MaxFaults
    BY <1>3, ProcessAssumption
       DEF Cleanup, NoFault, Fault, TypeOK, ProcessTypes
  <2> QED
    BY <1>1, <1>3, <2>1
       DEF Cleanup, Goto, server, agent, Acting, Versioned, TypeOK, ProcessTypes
<1> QED
  BY <1>2, <1>3

LEMMA OtherTypes ==
  ASSUME TypeOK, Scan \/ Launch \/ Supervise \/ Crash \/ Restart \/ World
  PROVE  TypeOK'
<1>1. CASE Scan \/ Launch \/ Supervise \/ PluginExits
  <2> DEFINE Instances == [id : Nat, pkg : Packages, version : Versions]
  <2>1. \A m \in manifests : Current(m) \in Instances
    BY DEF Current, TypeOK
  <2>2. /\ watched \subseteq Instances /\ children \subseteq Instances
        /\ orphans \subseteq Instances
    BY DEF TypeOK
  <2> HIDE DEF Instances
  <2>3. /\ watched' \subseteq Instances /\ children' \subseteq Instances
        /\ orphans' \subseteq Instances
    BY <1>1, <2>1, <2>2 DEF Scan, Launch, Supervise, PluginExits
  <2> QED
    BY <1>1, <2>3
       DEF Instances, Scan, Launch, Supervise, PluginExits, process, server, agent, disk, TypeOK,
           ProcessTypes
<1>2. CASE Crash
  <2>1. NoneYet \in [version : 0..MaxVersion, partial : {"none", "good", "bad"}, id : Nat]
    BY AssignmentAssumption DEF NoneYet
  <2> QED
    BY <1>2, <2>1, ProcessAssumption
       DEF Crash, Die, server, disk, Acting, Versioned, TypeOK, ProcessTypes
<1>3. CASE Restart
  BY <1>3 DEF Restart, Goto, NoFault, server, agent, disk, Acting, Versioned, TypeOK,
     ProcessTypes
<1>4. CASE \E p \in Packages : Withdraw(p) \/ \E v \in Versions : Assign(p, v)
  <2>1. assigned' \in [Packages -> 0..MaxVersion]
    <3>1. \E p \in Packages, v \in 0..MaxVersion : assigned' = [assigned EXCEPT ![p] = v]
      BY <1>4, AssignmentAssumption DEF Withdraw, Assign, Versions
    <3> QED
      BY <3>1 DEF TypeOK
  <2>2. orders' \in 0..MaxOrders
    BY <1>4, ProcessAssumption DEF Withdraw, Assign, Order, TypeOK, ProcessTypes
  <2> QED
    BY <1>4, <2>1, <2>2
       DEF Withdraw, Assign, Order, agent, disk, TypeOK, ProcessTypes
<1> QED
  BY <1>1, <1>2, <1>3, <1>4 DEF World

LEMMA NextTypes == TypeOK /\ [Next]_vars => TypeOK'
<1> SUFFICES ASSUME TypeOK, [Next]_vars PROVE TypeOK'
  OBVIOUS
<1>1. CASE Thread
  BY <1>1, BatchTypes, ReportsTypes, FileTypes, EnrollTypes, RevokeTypes DEF Thread
<1>2. CASE Scan \/ Launch \/ Supervise \/ Crash \/ Restart \/ World
  BY <1>2, OtherTypes
<1>3. CASE UNCHANGED vars
  BY <1>3 DEF vars, process, server, agent, disk, TypeOK, ProcessTypes
<1> QED
  BY <1>1, <1>2, <1>3 DEF Next

LEMMA InitTypes == Init => TypeOK
<1> SUFFICES ASSUME Init PROVE TypeOK
  OBVIOUS
<1>1. 0 \in 0..MaxVersion /\ 0 \in 0..MaxOrders /\ 0 \in 0..MaxFaults /\ 0 \in 0..MaxCrashes
  BY AssignmentAssumption, ProcessAssumption
<1>2. NoneYet \in [version : 0..MaxVersion, partial : {"none", "good", "bad"}, id : Nat]
  BY <1>1 DEF NoneYet
<1> QED
  BY <1>1, <1>2
     DEF Init, ProcessInit, Phases, Acting, Versioned, TypeOK, ProcessTypes

\* The plugin actions (plugin/assignment.rs) keep their types: an action is
\* under way where the thread executes one, in a version the server has named.
THEOREM AssignmentTypes == Spec => []TypeOK
BY InitTypes, NextTypes, PTL DEF Spec

----------------------------------------------------------------------------
(* The programs                                                             *)

\* A download that is not the one announced does not get past its verification.
VerifiedInv ==
  /\ VerifiedOnly
  /\ Hashed /\ pc \in {"replace", "rename"} => got.partial # "bad"

LEMMA ThreadVerifies ==
  ASSUME TypeOK, VerifiedInv, Thread
  PROVE  VerifiedInv'
<1>1. CASE Replace
  <2>1. UNCHANGED got
    BY <1>1 DEF Replace, agent
  <2>2. \A p \in Packages, v \in Versions :
          bin'[p][v] \in {bin[p][v], "none"}
    BY <1>1 DEF Replace, TypeOK
  <2> QED
    BY <1>1, <2>1, <2>2 DEF Replace, VerifiedInv, VerifiedOnly
<1>2. CASE Rename
  <2>1. \A p \in Packages, v \in Versions :
          bin'[p][v] \in {bin[p][v], got.partial}
    BY <1>2 DEF Rename, TypeOK
  <2>2. pc = "rename" /\ pc' \notin {"replace", "rename"}
    BY <1>2 DEF Rename, Goto
  <2> QED
    BY <2>1, <2>2 DEF VerifiedInv, VerifiedOnly
<1>3. CASE Cleanup
  <2>1. \A p \in Packages, v \in Versions :
          bin'[p][v] \in {bin[p][v], "none"}
    BY <1>3 DEF Cleanup, TypeOK
  <2> QED
    BY <1>3, <2>1 DEF Cleanup, Goto, VerifiedInv, VerifiedOnly
<1>4. CASE Verify
  BY <1>4 DEF Verify, Goto, agent, disk, VerifiedInv, VerifiedOnly
<1>5. CASE \/ Heartbeat \/ Begin \/ BatchDone \/ ReportFailure
           \/ ReportInstalling \/ GetInfo \/ Download
           \/ ReportInstalled \/ Enroll \/ Update \/ KillRunning \/ ReportStarted
           \/ Revoke \/ Remove \/ ReportRevoked
  <2>1. UNCHANGED bin
    BY <1>5 DEF Heartbeat, Begin, BatchDone, ReportFailure, ReportInstalling,
       GetInfo, Download, ReportInstalled, Enroll, Update, KillRunning,
       ReportStarted, Revoke, Remove, ReportRevoked, Report, disk
  <2>2. pc' \notin {"replace", "rename"}
    BY <1>5 DEF Heartbeat, Begin, BatchDone, ReportFailure, ReportInstalling,
       GetInfo, Download, ReportInstalled, Enroll, Update, KillRunning,
       ReportStarted, Revoke, Remove, ReportRevoked, Report, Invoke, Goto
  <2> QED
    BY <2>1, <2>2 DEF VerifiedInv, VerifiedOnly
<1> QED
  BY <1>1, <1>2, <1>3, <1>4, <1>5 DEF Thread

LEMMA NextVerifies == TypeOK /\ VerifiedInv /\ [Next]_vars => VerifiedInv'
<1> SUFFICES ASSUME TypeOK, VerifiedInv, [Next]_vars PROVE VerifiedInv'
  OBVIOUS
<1>1. CASE Thread
  BY <1>1, ThreadVerifies
<1>2. CASE Scan \/ Launch \/ Supervise \/ PluginExits
  BY <1>2 DEF Scan, Launch, Supervise, PluginExits, process, agent, disk, VerifiedInv,
     VerifiedOnly
<1>3. CASE Crash \/ Restart
  BY <1>3 DEF Crash, Die, Restart, Goto, disk, VerifiedInv, VerifiedOnly
<1>4. CASE \E p \in Packages : Withdraw(p) \/ \E v \in Versions : Assign(p, v)
  BY <1>4 DEF Withdraw, Assign, Order, agent, disk, VerifiedInv, VerifiedOnly
<1>5. CASE UNCHANGED vars
  BY <1>5 DEF vars, process, agent, disk, VerifiedInv, VerifiedOnly
<1> QED
  BY <1>1, <1>2, <1>3, <1>4, <1>5 DEF Next, World

\* download_and_verify (plugin/assignment.rs) gives a file its name only after
\* its hash was compared, so no crash or failure leaves another one under it.
THEOREM AssignmentVerifiedOnly == Spec => []VerifiedOnly
<1>1. Init => VerifiedInv
  BY DEF Init, ProcessInit, VerifiedInv, VerifiedOnly
<1>2. VerifiedInv => VerifiedOnly
  BY DEF VerifiedInv
<1> QED
  BY <1>1, <1>2, InitTypes, NextTypes, NextVerifies, PTL DEF Spec

----------------------------------------------------------------------------
(* The enrollments                                                          *)

Enrolled(p) ==
  \E m \in manifests : m.id = idLocal[p] /\ ~m.revoked /\ m.version = done[p]

\* The server waits for the revocation, and assigns nothing before it.
Leaving(p) == assigned[p] = 0 /\ idLocal[p] # 0

\* No two packages have the same instance; what is shown as started is enrolled
\* or about to be revoked.
ServerInv ==
  /\ \A p \in Packages : idLocal[p] <= lastId
  /\ \A p, q \in Packages : p # q /\ idLocal[p] # 0 => idLocal[p] # idLocal[q]
  /\ \A p \in Packages :
       phase[p] = "started" => done[p] # 0 /\ (Enrolled(p) \/ Leaving(p))

\* The actions still to begin are one for each package, and as the server would
\* ask for them now, for it learns of a package only by executing its action.
BatchInv ==
  \A a \in batch :
    /\ a.id = idLocal[a.pkg]
    /\ a.kind # "install" => a.id # 0
    /\ a.kind = "revoke" => assigned[a.pkg] = 0
    /\ \A b \in batch : a.pkg = b.pkg => a = b
    /\ pc \in Acting => a.pkg # cur.pkg

\* The instance of the action under way is of no other package; the package is
\* not shown as started while it changes, and is enrolled before it is.
ActionInv ==
  pc \in Acting =>
    /\ got.id <= lastId
    /\ got.id # 0 => \A q \in Packages \ {cur.pkg} : idLocal[q] # got.id
    /\ cur.kind # "install" => got.id # 0
    /\ pc \in Versioned \cup {"info"} => phase[cur.pkg] # "started"
    /\ pc = "update" => cur.kind # "install"
    /\ pc \in {"kill", "started"} =>
         /\ got.id # 0
         /\ \E m \in manifests :
              m.id = got.id /\ ~m.revoked /\ m.version = got.version
    /\ pc \in {"revoke", "remove", "cleanup", "revoked"} =>
         cur.kind = "revoke" /\ Leaving(cur.pkg)

EnrolledInv == ServerInv /\ BatchInv /\ ActionInv

\* A status that is recorded is about the package of the action only, and
\* "started" comes after the enrollment.
LEMMA RecordKeeps ==
  ASSUME TypeOK, EnrolledInv, pc \in Acting, NEW status \in Phases, Record(status),
         status = "started" => pc = "started",
         UNCHANGED <<agent, disk>>
  PROVE  /\ ServerInv'
         /\ \A q \in Packages \ {cur.pkg} :
              UNCHANGED <<assigned[q], phase[q], idLocal[q], done[q]>>
         /\ phase'[cur.pkg] = status
<1> DEFINE p == cur.pkg
<1>1. p \in Packages /\ cur' = cur /\ got' = got /\ batch' = batch
      /\ manifests' = manifests /\ lastId' = lastId /\ assigned' = assigned
  BY DEF Record, agent, disk, TypeOK, Actions
<1>2. /\ idLocal' \in [Packages -> Nat] /\ got.id \in Nat /\ lastId \in Nat
      /\ idLocal'[p] = CASE status = "started" -> got.id
                         [] status = "revoked" -> 0
                         [] OTHER -> idLocal[p]
      /\ \A q \in Packages \ {p} : idLocal'[q] = idLocal[q]
  BY <1>1 DEF Record, TypeOK
<1>3. /\ done'[p] = CASE status = "started" -> got.version
                      [] status = "revoked" -> 0
                      [] OTHER -> done[p]
      /\ \A q \in Packages \ {p} : done'[q] = done[q]
  BY <1>1 DEF Record, TypeOK
<1>4. phase'[p] = status /\ \A q \in Packages \ {p} : phase'[q] = phase[q]
  BY <1>1 DEF Record, TypeOK
<1>5. /\ got.id <= lastId
      /\ got.id # 0 => \A q \in Packages \ {p} : idLocal[q] # got.id
  BY DEF EnrolledInv, ActionInv
<1>6. \A q \in Packages : idLocal'[q] <= lastId'
  BY <1>1, <1>2, <1>5 DEF EnrolledInv, ServerInv, TypeOK
<1>7. ASSUME NEW q \in Packages, NEW r \in Packages, q # r, idLocal'[q] # 0
      PROVE  idLocal'[q] # idLocal'[r]
  BY <1>2, <1>5, <1>7 DEF EnrolledInv, ServerInv
<1>8. ASSUME NEW q \in Packages, phase'[q] = "started"
      PROVE  done'[q] # 0 /\ (Enrolled(q)' \/ Leaving(q)')
  <2>1. CASE q # p
    <3>1. done[q] # 0 /\ (Enrolled(q) \/ Leaving(q))
      BY <1>4, <1>8, <2>1 DEF EnrolledInv, ServerInv
    <3> QED
      BY <1>1, <1>2, <1>3, <2>1, <3>1 DEF Enrolled, Leaving
  <2>2. CASE q = p
    <3>1. status = "started" /\ pc = "started"
      BY <1>4, <1>8, <2>2
    <3>2. idLocal'[p] = got.id /\ done'[p] = got.version /\ got.version \in Versions
      BY <1>2, <1>3, <3>1 DEF TypeOK, Versioned
    <3>3. \E m \in manifests : m.id = got.id /\ ~m.revoked /\ m.version = got.version
      BY <3>1 DEF EnrolledInv, ActionInv, Acting
    <3>4. got.version # 0
      BY <3>2, AssignmentAssumption DEF Versions
    <3> QED
      BY <1>1, <2>2, <3>2, <3>3, <3>4 DEF Enrolled
  <2> QED
    BY <2>1, <2>2
<1>9. ServerInv'
  BY <1>6, <1>7, <1>8 DEF ServerInv
<1> QED
  BY <1>1, <1>2, <1>3, <1>4, <1>9

LEMMA ReportKeeps ==
  ASSUME TypeOK, EnrolledInv,
         \/ ReportInstalling \/ ReportInstalled \/ ReportStarted
         \/ ReportRevoked \/ ReportFailure
  PROVE  EnrolledInv'
<1>1. PICK status \in Phases :
        /\ Record(status) \/ UNCHANGED server
        /\ status = "started" => pc = "started"
        /\ pc' \in {"info", "enroll"} => Record(status) /\ status # "started"
  BY DEF ReportInstalling, ReportInstalled, ReportStarted, ReportRevoked,
     ReportFailure, Report, Goto, Phases
<1>2. /\ pc \in Acting /\ pc' \in {"info", "enroll", "batch", "fail"}
      /\ UNCHANGED <<agent, disk>> /\ cur \in Actions
  BY DEF ReportInstalling, ReportInstalled, ReportStarted, ReportRevoked,
     ReportFailure, Report, Goto, Acting, TypeOK
<1>3. CASE UNCHANGED server
  <2>1. ServerInv' /\ BatchInv'
    BY <1>2, <1>3 DEF server, agent, disk, EnrolledInv, ServerInv, BatchInv,
       Enrolled, Leaving, Acting
  <2>2. pc' \in {"info", "enroll"} => phase'[cur.pkg] # "started"
    BY <1>1, <1>2, RecordKeeps
  <2> QED
    BY <1>2, <1>3, <2>1, <2>2
       DEF server, agent, disk, EnrolledInv, ActionInv, Acting, Versioned
<1>4. CASE Record(status)
  <2>1. /\ ServerInv' /\ phase'[cur.pkg] = status
        /\ \A q \in Packages \ {cur.pkg} :
             UNCHANGED <<assigned[q], phase[q], idLocal[q], done[q]>>
    BY <1>1, <1>2, <1>4, RecordKeeps
  <2>2. BatchInv'
    <3>1. \A a \in batch : a.pkg \in Packages \ {cur.pkg}
      BY <1>2 DEF EnrolledInv, BatchInv, TypeOK, Actions
    <3> QED
      BY <1>2, <2>1, <3>1 DEF EnrolledInv, BatchInv, agent
  <2>3. ActionInv'
    BY <1>1, <1>2, <2>1
       DEF agent, disk, EnrolledInv, ActionInv, Acting, Versioned
  <2> QED
    BY <2>1, <2>2, <2>3 DEF EnrolledInv
<1> QED
  BY <1>1, <1>3, <1>4

\* Steps of an action that neither the server nor the manifests see.
LEMMA FilesKeep ==
  ASSUME TypeOK, EnrolledInv,
         GetInfo \/ Download \/ Verify \/ Replace \/ Rename \/ KillRunning \/ Cleanup
  PROVE  EnrolledInv'
<1>1. /\ UNCHANGED <<server, manifests, lastId, batch, cur>> /\ got'.id = got.id
      /\ pc \in Acting /\ pc' \in Acting
  BY DEF GetInfo, Download, Verify, Replace, Rename, KillRunning, Cleanup, Goto,
     agent, disk, Acting, TypeOK
<1>2. ServerInv' /\ BatchInv'
  BY <1>1 DEF server, EnrolledInv, ServerInv, BatchInv, Enrolled, Leaving
<1>3. /\ pc' \in Versioned \cup {"info"} => pc \in Versioned \cup {"info"}
      /\ pc' = "update" => cur.kind # "install"
      /\ pc' \in {"kill", "started"} =>
           pc \in {"kill", "started"} /\ got' = got
      /\ pc' \in {"revoke", "remove", "cleanup", "revoked"} =>
           pc \in {"revoke", "remove", "cleanup", "revoked"}
  BY DEF GetInfo, Download, Verify, Replace, Rename, KillRunning, Cleanup, Goto,
     agent, Versioned
<1>4. ActionInv'
  BY <1>1, <1>3 DEF server, EnrolledInv, ActionInv, Leaving
<1> QED
  BY <1>2, <1>4 DEF EnrolledInv

\* What wedr-plugin does concerns the instance of the action: no other package
\* has it, and its own is not shown as started, or is about to be revoked.
LEMMA ManifestsKeep ==
  ASSUME TypeOK, EnrolledInv, pc \in Acting,
         UNCHANGED <<server, batch, cur>>,
         lastId' \in Nat, lastId <= lastId',
         phase[cur.pkg] # "started" \/ Leaving(cur.pkg),
         \A m \in manifests : m.id # got.id => m \in manifests',
         manifests \subseteq manifests' \/ got.id # 0
  PROVE  ServerInv'
<1>1. \A q \in Packages : idLocal[q] \in Nat /\ lastId \in Nat
  BY DEF TypeOK
<1>2. ASSUME NEW q \in Packages, phase[q] = "started"
      PROVE  done[q] # 0 /\ (Enrolled(q)' \/ Leaving(q))
  <2>1. done[q] # 0 /\ (Enrolled(q) \/ Leaving(q))
    BY <1>2 DEF EnrolledInv, ServerInv
  <2>2. CASE q = cur.pkg
    BY <1>2, <2>1, <2>2
  <2>3. CASE q # cur.pkg
    <3>1. got.id # 0 => idLocal[q] # got.id
      BY <2>3 DEF EnrolledInv, ActionInv
    <3>2. Enrolled(q) => Enrolled(q)'
      BY <3>1 DEF Enrolled, server
    <3> QED
      BY <2>1, <3>2
  <2> QED
    BY <2>2, <2>3
<1> QED
  BY <1>1, <1>2 DEF server, EnrolledInv, ServerInv, Leaving

LEMMA ManifestFields ==
  ASSUME NEW id
  PROVE  /\ Manifest(id).id = id /\ Manifest(id).version = got.version
         /\ ~Manifest(id).revoked
BY DEF Manifest

LEMMA EnrollKeeps ==
  ASSUME TypeOK, EnrolledInv, Enroll
  PROVE  EnrolledInv'
<1>1. /\ pc = "enroll" /\ pc' \in {"started", "fail"}
      /\ UNCHANGED <<server, batch, cur>>
      /\ \/ /\ lastId' = lastId + 1
            /\ manifests' = manifests \cup {Manifest(lastId + 1)}
            /\ got' = [got EXCEPT !.id = lastId + 1]
         \/ UNCHANGED <<lastId, manifests, got>> /\ pc' = "fail"
  BY DEF Enroll, Invoke, Goto
<1>2. lastId \in Nat /\ got.id <= lastId /\ phase[cur.pkg] # "started"
  BY <1>1 DEF EnrolledInv, ActionInv, Acting, Versioned, TypeOK
<1>3. ServerInv'
  BY <1>1, <1>2, ManifestsKeep DEF Acting
<1>4. BatchInv'
  BY <1>1 DEF server, EnrolledInv, BatchInv, Acting
<1>5. CASE UNCHANGED <<lastId, manifests, got>> /\ pc' = "fail"
  BY <1>1, <1>3, <1>4, <1>5
     DEF server, EnrolledInv, ActionInv, Acting, Versioned
<1>6. CASE /\ lastId' = lastId + 1
           /\ manifests' = manifests \cup {Manifest(lastId + 1)}
           /\ got' = [got EXCEPT !.id = lastId + 1]
  <2>1. got'.id = lastId + 1 /\ got'.version = got.version
    BY <1>6 DEF TypeOK
  <2>2. \A q \in Packages : idLocal'[q] # got'.id
    BY <1>1, <1>2, <2>1 DEF server, EnrolledInv, ServerInv, TypeOK
  <2>3. \E m \in manifests' :
          m.id = got'.id /\ ~m.revoked /\ m.version = got'.version
    <3>1. Manifest(lastId + 1) \in manifests'
      BY <1>6
    <3> QED
      BY <2>1, <3>1, ManifestFields
  <2>4. got'.id <= lastId' /\ got'.id # 0
    BY <1>2, <1>6, <2>1
  <2>5. phase'[cur'.pkg] # "started"
    BY <1>1, <1>2 DEF server
  <2> QED
    BY <1>1, <1>3, <1>4, <2>2, <2>3, <2>4, <2>5 DEF EnrolledInv, ActionInv
<1> QED
  BY <1>1, <1>5, <1>6

LEMMA UpdateKeeps ==
  ASSUME TypeOK, EnrolledInv, Update
  PROVE  EnrolledInv'
<1>1. /\ pc = "update" /\ pc' \in {"kill", "fail"}
      /\ UNCHANGED <<server, batch, cur, got, lastId>>
      /\ \/ manifests' = (manifests \ Known) \cup {Manifest(got.id)}
         \/ UNCHANGED manifests /\ pc' = "fail"
  BY DEF Update, Invoke, Goto, agent
<1>2. /\ lastId \in Nat /\ got.id # 0 /\ phase[cur.pkg] # "started"
      /\ cur.kind # "install"
  BY <1>1 DEF EnrolledInv, ActionInv, Acting, Versioned, TypeOK
<1>3. ServerInv'
  BY <1>1, <1>2, ManifestsKeep DEF Acting, Known
<1>4. BatchInv'
  BY <1>1 DEF server, EnrolledInv, BatchInv, Acting
<1>5. pc' = "kill" => \E m \in manifests' :
                        m.id = got.id /\ ~m.revoked /\ m.version = got.version
  <2>1. pc' = "kill" => Manifest(got.id) \in manifests'
    BY <1>1
  <2> QED
    BY <2>1, ManifestFields
<1> QED
  BY <1>1, <1>2, <1>3, <1>4, <1>5
     DEF server, EnrolledInv, ActionInv, Acting, Versioned

LEMMA RevokeKeeps ==
  ASSUME TypeOK, EnrolledInv, Revoke \/ Remove
  PROVE  EnrolledInv'
<1>1. /\ pc \in {"revoke", "remove"} /\ pc' \in {"remove", "cleanup", "fail"}
      /\ UNCHANGED <<server, batch, cur, lastId>> /\ got'.id = got.id
      /\ \A m \in manifests : m.id # got.id => m \in manifests'
  BY DEF Revoke, Remove, Invoke, Known, Goto, agent, TypeOK
<1>2. lastId \in Nat /\ got.id # 0 /\ Leaving(cur.pkg) /\ cur.kind = "revoke"
  BY <1>1 DEF EnrolledInv, ActionInv, Acting, TypeOK
<1>3. ServerInv'
  BY <1>1, <1>2, ManifestsKeep DEF Acting
<1>4. BatchInv'
  BY <1>1 DEF server, EnrolledInv, BatchInv, Acting
<1> QED
  BY <1>1, <1>2, <1>3, <1>4
     DEF server, EnrolledInv, ActionInv, Acting, Versioned, Leaving

LEMMA BatchKeeps ==
  ASSUME TypeOK, EnrolledInv, Heartbeat \/ Begin \/ BatchDone
  PROVE  EnrolledInv'
<1>1. ServerInv' /\ UNCHANGED <<server, manifests, lastId>>
  <2>1. UNCHANGED <<server, manifests, lastId>>
    BY DEF Heartbeat, Begin, BatchDone, disk
  <2> QED
    BY <2>1 DEF server, EnrolledInv, ServerInv, Enrolled, Leaving
<1>2. CASE Heartbeat
  <2>1. \A a \in batch' : \E p \in Packages :
          a = [kind |-> Todo(p), pkg |-> p, id |-> idLocal[p]] /\ Todo(p) # "none"
    BY <1>2 DEF Heartbeat
  <2>2. \A p \in Packages :
          /\ Todo(p) \notin {"install", "none"} => idLocal[p] # 0
          /\ Todo(p) = "revoke" => assigned[p] = 0
    BY DEF Todo
  <2>3. pc' = "batch"
    BY <1>2 DEF Heartbeat, Goto
  <2>4. BatchInv'
    BY <1>1, <2>1, <2>2, <2>3 DEF server, BatchInv, Acting
  <2> QED
    BY <1>1, <2>3, <2>4 DEF EnrolledInv, ActionInv, Acting
<1>3. CASE Begin
  <2>1. PICK a \in batch :
          /\ cur' = a /\ batch' = batch \ {a}
          /\ got' = [NoneYet EXCEPT !.id = a.id]
          /\ pc' = IF a.kind = "revoke" THEN "revoke" ELSE "installing"
    BY <1>3 DEF Begin, Goto
  <2>2. a.pkg \in Packages /\ got'.id = a.id /\ a.id = idLocal[a.pkg]
        /\ (a.kind # "install" => a.id # 0) /\ (a.kind = "revoke" => assigned[a.pkg] = 0)
    BY <2>1 DEF NoneYet, EnrolledInv, BatchInv, TypeOK, Actions
  <2>3. BatchInv'
    BY <1>1, <2>1 DEF server, EnrolledInv, BatchInv
  <2>4. /\ got'.id <= lastId'
        /\ got'.id # 0 => \A q \in Packages \ {cur'.pkg} : idLocal'[q] # got'.id
    BY <1>1, <2>1, <2>2 DEF server, EnrolledInv, ServerInv
  <2> QED
    BY <1>1, <2>1, <2>2, <2>3, <2>4
       DEF server, EnrolledInv, ActionInv, Acting, Versioned, Leaving
<1>4. CASE BatchDone
  BY <1>1, <1>4 DEF BatchDone, Goto, EnrolledInv, BatchInv, ActionInv, Acting
<1> QED
  BY <1>2, <1>3, <1>4

\* The server assigns nothing to a package it waits for.
LEMMA ServerKeeps ==
  ASSUME TypeOK, EnrolledInv, NEW p \in Packages,
         Withdraw(p) \/ \E v \in Versions : Assign(p, v)
  PROVE  EnrolledInv'
<1>1. UNCHANGED <<pc, phase, idLocal, done, agent, disk>>
  BY DEF Withdraw, Assign, Order
<1>2. \A q \in Packages : assigned[q] = 0 /\ idLocal[q] # 0 => assigned'[q] = 0
  BY DEF Withdraw, Assign, TypeOK
<1>3. ServerInv'
  BY <1>1, <1>2 DEF disk, EnrolledInv, ServerInv, Enrolled, Leaving
<1>4. BatchInv'
  <2>1. \A a \in batch : a.pkg \in Packages
    BY DEF TypeOK, Actions
  <2> QED
    BY <1>1, <1>2, <2>1 DEF agent, EnrolledInv, BatchInv
<1>5. ActionInv'
  <2>1. pc \in Acting => cur.pkg \in Packages
    BY DEF TypeOK, Actions
  <2> QED
    BY <1>1, <1>2, <2>1 DEF agent, disk, EnrolledInv, ActionInv, Leaving, Acting
<1> QED
  BY <1>3, <1>4, <1>5 DEF EnrolledInv

LEMMA NextKeeps == TypeOK /\ EnrolledInv /\ [Next]_vars => EnrolledInv'
<1> SUFFICES ASSUME TypeOK, EnrolledInv, [Next]_vars PROVE EnrolledInv'
  OBVIOUS
<1>1. CASE Thread
  BY <1>1, BatchKeeps, ReportKeeps, FilesKeep, EnrollKeeps, UpdateKeeps, RevokeKeeps
     DEF Thread
<1>2. CASE Scan \/ Launch \/ Supervise \/ PluginExits \/ UNCHANGED vars
  <2>1. UNCHANGED <<pc, server, agent, disk>>
    BY <1>2 DEF Scan, Launch, Supervise, PluginExits, process, vars
  <2> QED
    BY <2>1 DEF server, agent, disk, EnrolledInv, ServerInv, BatchInv, ActionInv,
       Enrolled, Leaving
<1>3. CASE Crash
  BY <1>3 DEF Crash, Die, server, disk, EnrolledInv, ServerInv, BatchInv, ActionInv,
     Enrolled, Leaving, Acting
<1>4. CASE Restart
  BY <1>4 DEF Restart, Goto, server, agent, disk, EnrolledInv, ServerInv, BatchInv,
     ActionInv, Enrolled, Leaving, Acting
<1>5. CASE \E p \in Packages : Withdraw(p) \/ \E v \in Versions : Assign(p, v)
  BY <1>5, ServerKeeps
<1> QED
  BY <1>1, <1>2, <1>3, <1>4, <1>5 DEF Next, World

\* handle_install, handle_update and handle_revoke (plugin/assignment.rs) report
\* a package as started only when it is enrolled in that version, and what the
\* server shows so stays enrolled: no failure, lost report or crash in another
\* action takes it away.
THEOREM AssignmentStartedIsEnrolled == Spec => []StartedIsEnrolled
<1>1. Init => EnrolledInv
  BY DEF Init, ProcessInit, EnrolledInv, ServerInv, BatchInv, ActionInv, Acting
<1>2. TypeOK /\ EnrolledInv => StartedIsEnrolled
  <2> SUFFICES ASSUME TypeOK, EnrolledInv, NEW p \in Packages,
                      phase[p] = "started" /\ done[p] = assigned[p]
               PROVE  Enrolled(p)
    BY DEF StartedIsEnrolled, Enrolled
  <2> QED
    BY DEF EnrolledInv, ServerInv, Leaving
<1> QED
  BY <1>1, <1>2, InitTypes, NextTypes, NextKeeps, PTL DEF Spec

----------------------------------------------------------------------------
(* The instances nobody knows of                                            *)

\* An action knows the instance of its package as the server does, until it has
\* failed; what is revoked is gone before the server hears of it; and no two
\* manifests have one identifier, so that a report makes one of them known.
OrphanInv ==
  /\ IsFiniteSet(manifests)
  /\ \A m, n \in manifests : m.id = n.id => m = n
  /\ \A m \in manifests : m.id # 0 /\ m.id <= lastId
  /\ \A a \in batch : a.kind = "install" => a.id = 0
  /\ pc \in Acting \ {"fail"} =>
       idLocal[cur.pkg] = IF cur.kind = "install" THEN 0 ELSE got.id
  /\ pc \in {"installed", "enroll"} => cur.kind = "install"
  /\ pc \in {"cleanup", "revoked"} => Known = {}
  /\ OrphansNeedLoss

Strength == TypeOK /\ EnrolledInv /\ OrphanInv

\* What pays for an orphan, and for the instance just enrolled.
Credit == IF pc = "started" /\ cur.kind = "install" THEN 1 ELSE 0
Losses == faults + crashes + Credit

LEMMA LossesType ==
  ASSUME TypeOK, TypeOK'
  PROVE  /\ faults \in Nat /\ crashes \in Nat /\ Losses \in Nat
         /\ faults' \in Nat /\ crashes' \in Nat /\ Losses' \in Nat
<1>1. faults \in 0..MaxFaults /\ crashes \in 0..MaxCrashes
      /\ faults' \in 0..MaxFaults /\ crashes' \in 0..MaxCrashes
  BY DEF TypeOK, ProcessTypes
<1>2. faults \in Nat /\ crashes \in Nat /\ faults' \in Nat /\ crashes' \in Nat
  BY <1>1, ProcessAssumption
<1>3. Credit \in Nat /\ Credit' \in Nat
  BY DEF Credit
<1>4. Losses \in Nat
  BY <1>2, <1>3 DEF Losses
<1>5. Losses' \in Nat
  <2>1. Losses' = faults' + crashes' + Credit'
    BY DEF Losses
  <2>2. \A x, y, z \in Nat : x + y + z \in Nat
    OBVIOUS
  <2> QED
    BY <1>2, <1>3, <2>1, <2>2, Zenon
<1> QED
  BY <1>2, <1>4, <1>5

LEMMA FewerUnknown ==
  ASSUME IsFiniteSet(manifests), Unknown' \subseteq Unknown
  PROVE  /\ Cardinality(Unknown') <= Cardinality(Unknown)
         /\ Cardinality(Unknown') \in Nat /\ Cardinality(Unknown) \in Nat
<1>1. IsFiniteSet(Unknown)
  BY FS_Subset DEF Unknown
<1>2. IsFiniteSet(Unknown')
  BY <1>1, FS_Subset
<1> QED
  BY <1>1, <1>2, FS_Subset, FS_CardinalityType

\* A step with no new orphan, and nothing that was paid forgotten.
LEMMA NoNewOrphan ==
  ASSUME TypeOK, TypeOK', OrphanInv, Unknown' \subseteq Unknown, Losses <= Losses'
  PROVE  OrphansNeedLoss'
<1>1. Cardinality(Unknown) <= Losses
  BY DEF OrphanInv, OrphansNeedLoss, Losses, Credit
<1>2. Cardinality(Unknown') <= Losses'
  BY <1>1, FewerUnknown, LossesType DEF OrphanInv, Losses
<1> QED
  BY <1>2 DEF OrphansNeedLoss, Losses, Credit

\* Steps that neither the server nor the manifests see.
LEMMA FilesOrphan ==
  ASSUME Strength, TypeOK',
         GetInfo \/ Download \/ Verify \/ Replace \/ Rename \/ KillRunning \/ Cleanup
  PROVE  OrphanInv'
<1>1. /\ UNCHANGED <<server, manifests, lastId, batch, cur, crashes>>
      /\ got'.id = got.id
      /\ pc \in Acting \ {"fail", "started"} /\ faults <= faults'
      /\ pc' \in {"installed", "enroll"} => cur.kind = "install"
      /\ pc' \in {"cleanup", "revoked"} => pc = "cleanup"
  BY LossesType DEF Strength, GetInfo, Download, Verify, Replace, Rename, KillRunning, Cleanup,
     Goto, Fault, NoFault, agent, disk, Acting, TypeOK
<1>2. Losses <= Losses'
  BY <1>1, LossesType DEF Losses, Credit, Strength
<1>3. Unknown' = Unknown /\ Known' = Known
  BY <1>1 DEF Unknown, Known, server
<1>4. OrphansNeedLoss'
  BY <1>2, <1>3, NoNewOrphan DEF Strength
<1> QED
  BY <1>1, <1>3, <1>4 DEF Strength, OrphanInv, server

\* A step that the losses pay for, with nothing new on disk.
LEMMA SameDisk ==
  ASSUME Strength, TypeOK', Unknown' \subseteq Unknown, Losses <= Losses',
         UNCHANGED <<manifests, lastId, batch, cur, got>>,
         \/ pc' \notin Acting \ {"fail"}
         \/ pc' \in {"info", "enroll"} /\ pc \in Acting \ {"fail"} /\ idLocal' = idLocal,
         pc' = "enroll" => pc = "installed"
  PROVE  OrphanInv'
<1>1. OrphansNeedLoss'
  BY NoNewOrphan DEF Strength
<1> QED
  BY <1>1 DEF Strength, OrphanInv, Acting, Known

LEMMA QuietReportOrphan ==
  ASSUME Strength, TypeOK', ReportInstalling \/ ReportInstalled \/ ReportFailure
  PROVE  OrphanInv'
<1>1. /\ UNCHANGED <<agent, disk, crashes>> /\ faults <= faults'
      /\ pc \in {"installing", "installed", "fail"}
      /\ pc' \in {"info", "enroll", "fail", "batch"}
      /\ pc' = "info" => pc = "installing"
      /\ pc' = "enroll" => pc = "installed"
  BY LossesType DEF Strength, ReportInstalling, ReportInstalled, ReportFailure,
     Report, Goto, Fault, NoFault
<1>2. idLocal' = idLocal
  BY DEF ReportInstalling, ReportInstalled, ReportFailure, Report, Record, server
<1>3. Losses <= Losses'
  BY <1>1, LossesType DEF Losses, Credit, Strength
<1>4. Unknown' = Unknown
  BY <1>1, <1>2 DEF Unknown, disk
<1> QED
  BY <1>1, <1>2, <1>3, <1>4, SameDisk DEF agent, disk, Acting

\* The report of a new instance makes it known; one that is lost is paid for.
LEMMA StartedOrphan ==
  ASSUME Strength, TypeOK', ReportStarted
  PROVE  OrphanInv'
<1>1. /\ UNCHANGED <<agent, disk, crashes>> /\ pc = "started"
      /\ cur.pkg \in Packages
      /\ \/ pc' = "batch" /\ faults' = faults /\ Record("started")
         \/ pc' = "fail" /\ faults' = faults + 1 /\ (Record("started") \/ UNCHANGED server)
  BY DEF Strength, TypeOK, Actions, Acting, ReportStarted, Report, Goto, Fault, NoFault
<1>2. \/ idLocal' = idLocal
      \/ idLocal' = [idLocal EXCEPT ![cur.pkg] = got.id]
  BY <1>1 DEF Record, server
<1>3. Record("started") => idLocal' = [idLocal EXCEPT ![cur.pkg] = got.id]
  BY DEF Record
<1>4. idLocal[cur.pkg] = IF cur.kind = "install" THEN 0 ELSE got.id
  BY <1>1 DEF Strength, OrphanInv, Acting
<1>5. /\ \A m \in manifests : m.id # 0
      /\ idLocal \in [Packages -> Nat]
  BY DEF Strength, OrphanInv, TypeOK
<1>6. Unknown' \subseteq Unknown
  BY <1>1, <1>2, <1>4, <1>5 DEF Unknown, disk
<1>7. CASE pc' = "fail" \/ cur.kind # "install"
  <2>1. Losses <= Losses'
    BY <1>1, <1>7, LossesType DEF Losses, Credit, Strength
  <2> QED
    BY <1>1, <1>6, <2>1, SameDisk DEF agent, disk, Acting
<1>8. CASE pc' # "fail" /\ cur.kind = "install"
  <2>1. PICK m \in manifests : m.id = got.id
    BY <1>1 DEF Strength, EnrolledInv, ActionInv, Acting
  <2>2. m \in Unknown
    <3>1. got.id # 0 /\ \A q \in Packages \ {cur.pkg} : idLocal[q] # got.id
      BY <1>1, <1>5, <2>1 DEF Strength, EnrolledInv, ActionInv, Acting
    <3> QED
      BY <1>4, <1>8, <2>1, <3>1 DEF Unknown
  <2>3. m \notin Unknown'
    <3>1. idLocal'[cur.pkg] = got.id
      BY <1>1, <1>3, <1>5, <1>8
    <3> QED
      BY <1>1, <2>1, <3>1 DEF Unknown
  <2>4. IsFiniteSet(Unknown)
    BY FS_Subset DEF Strength, OrphanInv, Unknown
  <2>5. Cardinality(Unknown \ {m}) = Cardinality(Unknown) - 1 /\ IsFiniteSet(Unknown \ {m})
        /\ Cardinality(Unknown) \in Nat
    BY <2>2, <2>4, FS_RemoveElement, FS_CardinalityType
  <2>6. Unknown' \subseteq Unknown \ {m}
    BY <1>6, <2>3
  <2>7. Cardinality(Unknown') <= Cardinality(Unknown) - 1 /\ IsFiniteSet(Unknown')
    BY <2>5, <2>6, FS_Subset
  <2>8. Cardinality(Unknown') \in Nat
    BY <2>7, FS_CardinalityType
  <2>9. Cardinality(Unknown) <= faults + crashes + 1
    BY <1>1, <1>8 DEF Strength, OrphanInv, OrphansNeedLoss
  <2>10. Cardinality(Unknown') <= faults + crashes
    BY <2>5, <2>7, <2>8, <2>9, LossesType DEF Strength
  <2>11. OrphansNeedLoss'
    BY <1>1, <1>8, <2>10, LossesType DEF OrphansNeedLoss, Strength
  <2> QED
    BY <1>1, <1>8, <2>11 DEF Strength, OrphanInv, Acting, agent, disk
<1> QED
  BY <1>7, <1>8

LEMMA RevokedOrphan ==
  ASSUME Strength, TypeOK', ReportRevoked
  PROVE  OrphanInv'
<1>1. /\ UNCHANGED <<agent, disk, crashes>> /\ pc = "revoked"
      /\ cur.pkg \in Packages /\ pc' \in {"batch", "fail"} /\ faults <= faults'
      /\ Record("revoked") \/ UNCHANGED server
  BY LossesType
     DEF Strength, TypeOK, Actions, Acting, ReportRevoked, Report, Goto, Fault, NoFault
<1>2. idLocal' = idLocal \/ idLocal' = [idLocal EXCEPT ![cur.pkg] = 0]
  BY <1>1 DEF Record, server
<1>3. idLocal[cur.pkg] = got.id /\ Known = {} /\ idLocal \in [Packages -> Nat]
  BY <1>1 DEF Strength, OrphanInv, EnrolledInv, ActionInv, Acting, TypeOK
<1>4. Unknown' \subseteq Unknown
  BY <1>1, <1>2, <1>3 DEF Unknown, Known, disk
<1>5. Losses <= Losses'
  BY <1>1, LossesType DEF Losses, Credit, Strength
<1> QED
  BY <1>1, <1>4, <1>5, SameDisk DEF agent, disk, Acting

LEMMA EnrollOrphan ==
  ASSUME Strength, TypeOK', Enroll
  PROVE  OrphanInv'
<1>1. /\ UNCHANGED <<server, batch, cur, crashes>> /\ pc = "enroll"
      /\ \/ /\ lastId' = lastId + 1
            /\ manifests' = manifests \cup {Manifest(lastId + 1)}
            /\ got' = [got EXCEPT !.id = lastId + 1]
            /\ \/ pc' = "started" /\ faults' = faults
               \/ pc' = "fail" /\ faults' = faults + 1
         \/ /\ UNCHANGED <<lastId, manifests, got>>
            /\ pc' = "fail" /\ faults' = faults + 1
  BY DEF Enroll, Invoke, Goto, Fault, NoFault
<1>2. cur.kind = "install" /\ idLocal[cur.pkg] = 0 /\ lastId \in Nat
  BY <1>1 DEF Strength, OrphanInv, Acting, TypeOK
<1>3. CASE UNCHANGED <<lastId, manifests, got>> /\ pc' = "fail" /\ faults' = faults + 1
  <2>1. Losses <= Losses'
    BY <1>1, <1>3, LossesType DEF Losses, Credit, Strength
  <2>2. Unknown' = Unknown
    BY <1>1, <1>3 DEF Unknown, server
  <2> QED
    BY <1>1, <1>3, <2>1, <2>2, SameDisk DEF Acting
<1>4. CASE /\ lastId' = lastId + 1
           /\ manifests' = manifests \cup {Manifest(lastId + 1)}
           /\ got' = [got EXCEPT !.id = lastId + 1]
           /\ \/ pc' = "started" /\ faults' = faults
              \/ pc' = "fail" /\ faults' = faults + 1
  <2> DEFINE new == Manifest(lastId + 1)
  <2>1. new.id = lastId + 1
    BY ManifestFields
  <2> HIDE DEF new
  <2>2. Unknown' \subseteq Unknown \cup {new}
    BY <1>1, <1>4 DEF Unknown, server, new
  <2>3. IsFiniteSet(manifests') /\ IsFiniteSet(Unknown)
    BY <1>4, FS_AddElement, FS_Subset DEF Strength, OrphanInv, Unknown
  <2>4. IsFiniteSet(Unknown \cup {new}) /\ Cardinality(Unknown) \in Nat
        /\ Cardinality(Unknown \cup {new}) <= Cardinality(Unknown) + 1
        /\ Cardinality(Unknown \cup {new}) \in Nat
    <3>1. Cardinality(Unknown) \in Nat
      BY <2>3, FS_CardinalityType
    <3>2. /\ IsFiniteSet(Unknown \cup {new})
          /\ Cardinality(Unknown \cup {new}) =
               IF new \in Unknown THEN Cardinality(Unknown) ELSE Cardinality(Unknown) + 1
      BY <2>3, FS_AddElement
    <3> QED
      BY <3>1, <3>2
  <2>5. Cardinality(Unknown') <= Cardinality(Unknown) + 1 /\ Cardinality(Unknown') \in Nat
    <3>1. /\ IsFiniteSet(Unknown')
          /\ Cardinality(Unknown') <= Cardinality(Unknown \cup {new})
      BY <2>2, <2>4, FS_Subset
    <3>2. Cardinality(Unknown') \in Nat
      BY <3>1, FS_CardinalityType
    <3> QED
      BY <2>4, <3>1, <3>2
  <2>6. Cardinality(Unknown) <= faults + crashes
    BY <1>1, <2>4, LossesType DEF Strength, OrphanInv, OrphansNeedLoss
  <2>7. Cardinality(Unknown') <= faults + crashes + 1
    <3>1. \A x, y, f, c \in Nat : x <= y + 1 /\ y <= f + c => x <= f + c + 1
      OBVIOUS
    <3>2. faults \in Nat /\ crashes \in Nat
      BY LossesType DEF Strength
    <3> QED
      BY <2>4, <2>5, <2>6, <3>1, <3>2, Zenon
  <2>8. OrphansNeedLoss'
    BY <1>1, <1>2, <1>4, <2>5, <2>7, LossesType DEF OrphansNeedLoss, Strength
  <2>9. \A m \in manifests' : m.id # 0 /\ m.id <= lastId'
    BY <1>2, <1>4, <2>1 DEF Strength, OrphanInv, new, TypeOK
  <2>10. \A m, n \in manifests' : m.id = n.id => m = n
    <3>1. \A m \in manifests : m.id # new.id
      BY <1>2, <2>1 DEF Strength, OrphanInv, TypeOK
    <3> QED
      BY <1>4, <3>1 DEF Strength, OrphanInv, new
  <2> QED
    BY <1>1, <1>2, <1>4, <2>3, <2>8, <2>9, <2>10
       DEF Strength, OrphanInv, Acting, server
<1> QED
  BY <1>1, <1>3, <1>4

\* The program wedr-plugin updates, revokes or removes an instance the server
\* knows.
LEMMA KnownOrphan ==
  ASSUME Strength, TypeOK', Update \/ Revoke \/ Remove
  PROVE  OrphanInv'
<1>1. /\ UNCHANGED <<server, batch, cur, lastId, crashes>> /\ faults <= faults'
      /\ pc \in {"update", "revoke", "remove"} /\ got'.id = got.id
      /\ pc' \in {"kill", "remove", "cleanup", "fail"}
      /\ pc' = "cleanup" => manifests' = manifests \ Known
  BY LossesType DEF Strength, TypeOK, Update, Revoke, Remove, Invoke, Goto, Fault,
     NoFault, agent
<1>2. /\ idLocal[cur.pkg] = got.id /\ cur.pkg \in Packages
      /\ got.id # 0 /\ got.id <= lastId
  BY <1>1 DEF Strength, OrphanInv, EnrolledInv, ActionInv, Acting, TypeOK, Actions
<1>3. PICK one : /\ one.id = got.id
                 /\ \/ manifests' = manifests
                    \/ manifests' = manifests \ Known
                    \/ manifests' = (manifests \ Known) \cup {one}
  <2>1. CASE Update
    BY <2>1, ManifestFields DEF Update, Invoke
  <2>2. CASE Revoke
    <3>1. CASE manifests' = manifests
      BY <3>1, ManifestFields
    <3>2. CASE manifests' = (manifests \ Known) \cup
                              {[m EXCEPT !.revoked = TRUE] : m \in Known}
               /\ Known # {}
      <4>1. PICK k \in Known : TRUE
        BY <3>2
      <4>2. Known = {k}
        BY <4>1 DEF Known, Strength, OrphanInv
      <4>3. [k EXCEPT !.revoked = TRUE].id = got.id
        BY <4>1 DEF Known, Strength, TypeOK
      <4>4. manifests' = (manifests \ Known) \cup {[k EXCEPT !.revoked = TRUE]}
        BY <3>2, <4>2
      <4> QED
        BY <4>3, <4>4
    <3> QED
      BY <2>2, <3>1, <3>2 DEF Revoke, Invoke
  <2>3. CASE Remove
    BY <2>3, ManifestFields DEF Remove, Invoke
  <2> QED
    BY <2>1, <2>2, <2>3
<1>4. Unknown' \subseteq Unknown
  BY <1>1, <1>2, <1>3 DEF Unknown, server
<1>5. Losses <= Losses'
  BY <1>1, LossesType DEF Losses, Credit, Strength
<1>6. OrphansNeedLoss'
  BY <1>4, <1>5, NoNewOrphan DEF Strength
<1>7. IsFiniteSet(manifests')
  <2>1. IsFiniteSet(manifests) /\ IsFiniteSet(manifests \ Known)
    BY FS_Subset DEF Strength, OrphanInv
  <2> QED
    BY <1>3, <2>1, FS_AddElement
<1>8. /\ \A m \in manifests' : m.id # 0 /\ m.id <= lastId'
      /\ \A m, n \in manifests' : m.id = n.id => m = n
  BY <1>1, <1>2, <1>3 DEF Strength, OrphanInv, Known
<1>9. pc' = "cleanup" => Known' = {}
  BY <1>1 DEF Known
<1> QED
  BY <1>1, <1>2, <1>6, <1>7, <1>8, <1>9
     DEF Strength, OrphanInv, EnrolledInv, ActionInv, Acting, server

LEMMA BatchOrphan ==
  ASSUME Strength, TypeOK', Heartbeat \/ Begin \/ BatchDone
  PROVE  OrphanInv'
<1>1. /\ UNCHANGED <<server, manifests, lastId, faults, crashes>>
      /\ pc \in {"idle", "batch"} /\ pc' \in {"idle", "batch", "installing", "revoke"}
  BY DEF Heartbeat, Begin, BatchDone, NoFault, Goto, disk
<1>2. OrphansNeedLoss'
  <2>1. Unknown' = Unknown
    BY <1>1 DEF Unknown, server
  <2>2. Losses <= Losses'
    BY <1>1, LossesType DEF Losses, Credit, Strength
  <2> QED
    BY <2>1, <2>2, NoNewOrphan DEF Strength
<1>3. \A a \in batch' : a.kind = "install" => a.id = 0
  <2>1. CASE Heartbeat
    <3>1. \A a \in batch' : \E p \in Packages :
            a = [kind |-> Todo(p), pkg |-> p, id |-> idLocal[p]]
      BY <2>1 DEF Heartbeat
    <3>2. \A p \in Packages : Todo(p) = "install" => idLocal[p] = 0
      BY DEF Todo
    <3> QED
      BY <3>1, <3>2
  <2> QED
    BY <2>1 DEF Begin, BatchDone, Strength, OrphanInv
<1>4. pc' \in {"installing", "revoke"} =>
        idLocal[cur'.pkg] = IF cur'.kind = "install" THEN 0 ELSE got'.id
  <2> SUFFICES ASSUME pc' \in {"installing", "revoke"}
               PROVE  idLocal[cur'.pkg] = IF cur'.kind = "install" THEN 0 ELSE got'.id
    OBVIOUS
  <2>1. PICK a \in batch : cur' = a /\ got' = [NoneYet EXCEPT !.id = a.id]
    BY DEF Heartbeat, Begin, BatchDone, Goto
  <2>2. a.id = idLocal[a.pkg] /\ got'.id = a.id /\ (a.kind = "install" => a.id = 0)
    BY <2>1 DEF NoneYet, Strength, EnrolledInv, BatchInv, OrphanInv
  <2> QED
    BY <2>1, <2>2
<1> QED
  BY <1>1, <1>2, <1>3, <1>4 DEF Strength, OrphanInv, Acting, server

LEMMA NextOrphan == Strength /\ TypeOK' /\ [Next]_vars => OrphanInv'
<1> SUFFICES ASSUME Strength, TypeOK', [Next]_vars PROVE OrphanInv'
  OBVIOUS
<1>1. CASE Thread
  BY <1>1, BatchOrphan, QuietReportOrphan, StartedOrphan, RevokedOrphan, FilesOrphan,
     EnrollOrphan, KnownOrphan DEF Thread
<1>2. CASE Crash
  <2>1. /\ UNCHANGED <<server, disk, faults>> /\ crashes' = crashes + 1
        /\ pc' = "down" /\ batch' = {}
    BY <1>2 DEF Crash, Die
  <2>2. Unknown' = Unknown
    BY <2>1 DEF Unknown, server, disk
  <2>3. Losses <= Losses'
    BY <2>1, LossesType DEF Losses, Credit, Strength
  <2>4. OrphansNeedLoss'
    BY <2>2, <2>3, NoNewOrphan DEF Strength
  <2> QED
    BY <2>1, <2>4 DEF Strength, OrphanInv, Acting, disk
<1>3. CASE \/ Scan \/ Launch \/ Supervise \/ PluginExits \/ Restart \/ UNCHANGED vars
           \/ \E p \in Packages : Withdraw(p) \/ \E v \in Versions : Assign(p, v)
  <2>1. /\ UNCHANGED <<idLocal, agent, disk, faults, crashes>>
        /\ pc' = pc \/ (pc \notin Acting /\ pc' = "idle")
    <3>1. CASE Scan \/ Launch \/ Supervise \/ PluginExits \/ UNCHANGED vars
      <4>1. UNCHANGED <<process, server, agent, disk>>
        BY <3>1 DEF Scan, Launch, Supervise, PluginExits, vars
      <4> QED
        BY <4>1 DEF process, server
    <3>2. CASE Restart
      BY <3>2 DEF Restart, Goto, NoFault, server, agent, disk, Acting
    <3>3. CASE \E p \in Packages : Withdraw(p) \/ \E v \in Versions : Assign(p, v)
      BY <3>3 DEF Withdraw, Assign, Order, agent, disk
    <3> QED
      BY <1>3, <3>1, <3>2, <3>3
  <2>2. Unknown' = Unknown /\ Known' = Known
    BY <2>1 DEF Unknown, Known, disk, agent
  <2>3. Losses <= Losses'
    BY <2>1, LossesType DEF Losses, Credit, Strength, Acting, agent
  <2>4. OrphansNeedLoss'
    BY <2>2, <2>3, NoNewOrphan DEF Strength
  <2> QED
    BY <2>1, <2>2, <2>4 DEF Strength, OrphanInv, Acting, disk, agent
<1> QED
  BY <1>1, <1>2, <1>3 DEF Next, World

LEMMA InitOrphan == Init => OrphanInv
<1> SUFFICES ASSUME Init PROVE OrphanInv
  OBVIOUS
<1>1. manifests = {} /\ Unknown = {} /\ pc = "idle" /\ batch = {}
      /\ faults = 0 /\ crashes = 0
  BY DEF Init, ProcessInit, Unknown
<1>2. IsFiniteSet(manifests) /\ Cardinality(Unknown) = 0
  BY <1>1, FS_EmptySet
<1> QED
  BY <1>1, <1>2 DEF OrphanInv, OrphansNeedLoss, Acting

\* Every instance that the server does not know of, beyond the one being
\* enrolled, has cost a failing call, a lost report or a crash of its own
\* (plugin/assignment.rs): enroll is not repeated for nothing.
THEOREM AssignmentOrphansNeedLoss == Spec => []OrphansNeedLoss
<1>1. Init => EnrolledInv
  BY DEF Init, ProcessInit, EnrolledInv, ServerInv, BatchInv, ActionInv, Acting
<1>2. OrphanInv => OrphansNeedLoss
  BY DEF OrphanInv
<1> QED
  BY <1>1, <1>2, InitOrphan, InitTypes, NextTypes, NextKeeps, NextOrphan, PTL
     DEF Spec, Strength

----------------------------------------------------------------------------
(* Whose instances an action touches                                        *)

\* The instance that the server knows for a package, and the one an action has
\* in hand, are of that package: an identifier that was given to one is never
\* used for another, however many reports are lost in between.
OwnInv ==
  /\ \A p \in Packages, m \in manifests : m.id = idLocal[p] => m.pkg = p
  /\ pc \in Acting => \A m \in Known : m.pkg = cur.pkg

\* Only an action changes a manifest, and only of its own package: no install,
\* update or revoke rewrites, revokes or removes the enrollment of another.
OthersUntouched ==
  [][\A m \in (manifests \ manifests') \cup (manifests' \ manifests) :
       pc \in Acting /\ m.pkg = cur.pkg]_vars

\* Steps after which the server knows for each package what it knew, or
\* nothing, or the instance of the action for its package.
LEMMA ReportsOwn ==
  ASSUME Strength, OwnInv, UNCHANGED <<manifests, cur, got>>, pc \in Acting,
         UNCHANGED server \/ (\E status \in Phases : Record(status))
  PROVE  OwnInv'
<1>0. /\ idLocal \in [Packages -> Nat] /\ cur.pkg \in Packages
      /\ \A m \in manifests : m.id # 0
  BY DEF Strength, TypeOK, Actions, OrphanInv
<1>1. \/ idLocal' = idLocal
      \/ idLocal' = [idLocal EXCEPT ![cur.pkg] = got.id]
      \/ idLocal' = [idLocal EXCEPT ![cur.pkg] = 0]
  BY DEF Record, server
<1>2. ASSUME NEW p \in Packages, NEW m \in manifests, m.id = idLocal'[p]
      PROVE  m.pkg = p
  <2>1. CASE p = cur.pkg /\ idLocal'[p] = got.id
    BY <1>2, <2>1 DEF OwnInv, Known
  <2>2. CASE idLocal'[p] = idLocal[p]
    BY <1>2, <2>2 DEF OwnInv
  <2>3. idLocal'[p] # 0
    BY <1>0, <1>2
  <2> QED
    BY <1>0, <1>1, <2>1, <2>2, <2>3
<1>3. Known' = Known
  BY DEF Known
<1> QED
  BY <1>2, <1>3 DEF OwnInv

\* Steps that neither the server nor the manifests see.
LEMMA QuietOwn ==
  ASSUME OwnInv, UNCHANGED <<idLocal, manifests>>,
         pc' \in Acting => pc \in Acting /\ cur' = cur /\ got'.id = got.id
  PROVE  OwnInv'
BY DEF OwnInv, Known

\* An action begins with the instance that the server knows for its package.
LEMMA BatchOwn ==
  ASSUME Strength, OwnInv, Heartbeat \/ Begin \/ BatchDone
  PROVE  OwnInv'
<1>1. CASE Heartbeat \/ BatchDone
  <2>1. UNCHANGED <<idLocal, manifests>> /\ pc' \notin Acting
    BY <1>1 DEF Heartbeat, BatchDone, Goto, server, disk, Acting
  <2> QED
    BY <2>1, QuietOwn
<1>2. CASE Begin
  <2>1. UNCHANGED <<idLocal, manifests>>
    BY <1>2 DEF Begin, server, disk
  <2>2. PICK a \in batch : cur' = a /\ got' = [NoneYet EXCEPT !.id = a.id]
    BY <1>2 DEF Begin
  <2>3. got'.id = idLocal[cur'.pkg] /\ cur'.pkg \in Packages
    BY <2>2 DEF NoneYet, Strength, EnrolledInv, BatchInv, TypeOK, Actions
  <2> QED
    BY <2>1, <2>3 DEF OwnInv, Known
<1> QED
  BY <1>1, <1>2

\* What wedr-plugin is asked: a new identifier, or one that is known, which
\* keeps its package.
LEMMA InstanceOwn ==
  ASSUME Strength, OwnInv, Enroll \/ Update \/ Revoke \/ Remove
  PROVE  /\ OwnInv'
         /\ pc \in Acting
         /\ \A m \in (manifests \ manifests') \cup (manifests' \ manifests) :
              m.pkg = cur.pkg
<1>0. /\ UNCHANGED <<idLocal, cur>> /\ pc \in Acting
      /\ lastId \in Nat /\ \A p \in Packages : idLocal[p] \in Nat /\ idLocal[p] <= lastId
  BY DEF Strength, TypeOK, EnrolledInv, ServerInv, Enroll, Update, Revoke, Remove,
         Acting, server, agent
<1>1. CASE Enroll
  <2> DEFINE new == Manifest(lastId + 1)
  <2>1. new.id = lastId + 1 /\ new.pkg = cur.pkg
    BY DEF Manifest
  <2> HIDE DEF new
  <2>2. \/ manifests' = manifests \cup {new} /\ got'.id = lastId + 1
        \/ UNCHANGED <<manifests, got>>
    BY <1>1 DEF Enroll, Invoke, new, Strength, TypeOK
  <2>3. \A m \in manifests : m.id \in Nat /\ m.id <= lastId
    BY DEF Strength, OrphanInv, TypeOK
  <2>4. \A p \in Packages : new.id # idLocal[p]
    BY <1>0, <2>1
  <2>5. \A m \in manifests : m.id # lastId + 1
    BY <1>0, <2>3
  <2> QED
    BY <1>0, <2>1, <2>2, <2>4, <2>5 DEF OwnInv, Known
<1>2. CASE Update \/ Revoke \/ Remove
  <2>1. got'.id = got.id
    BY <1>2 DEF Update, Revoke, Remove, agent, Strength, TypeOK
  <2>2. /\ manifests \ manifests' \subseteq Known
        /\ \A m \in manifests' \ manifests : m.id = got.id /\ m.pkg = cur.pkg
    <3>1. CASE Update
      BY <3>1 DEF Update, Invoke, Manifest
    <3>2. CASE Revoke
      <4> DEFINE marked == {[k EXCEPT !.revoked = TRUE] : k \in Known}
      <4>1. manifests' = manifests \/ manifests' = (manifests \ Known) \cup marked
        BY <3>2 DEF Revoke, Invoke
      <4>2. ASSUME NEW m \in marked PROVE m.id = got.id /\ m.pkg = cur.pkg
        <5>1. PICK k \in Known : m = [k EXCEPT !.revoked = TRUE]
          OBVIOUS
        <5>2. k.id = got.id /\ k.pkg = cur.pkg
          BY <1>0 DEF Known, OwnInv
        <5>3. k \in [id : Nat, pkg : Packages, version : Versions, revoked : BOOLEAN]
          BY DEF Known, Strength, TypeOK
        <5> QED
          BY <5>1, <5>2, <5>3
      <4> HIDE DEF marked
      <4> QED
        BY <4>1, <4>2
    <3>3. CASE Remove
      BY <3>3 DEF Remove, Invoke
    <3> QED
      BY <1>2, <3>1, <3>2, <3>3
  <2>3. \A m \in Known : m.pkg = cur.pkg
    BY <1>0 DEF OwnInv
  <2>4. \A m \in manifests' : m.id = got.id => m.pkg = cur.pkg
    BY <2>2, <2>3 DEF Known
  <2>5. ASSUME NEW p \in Packages, NEW m \in manifests', m.id = idLocal[p]
        PROVE  m.pkg = p
    <3>1. CASE m \in manifests
      BY <2>5, <3>1 DEF OwnInv
    <3>2. CASE m \notin manifests
      <4>1. m.id = got.id /\ m.pkg = cur.pkg /\ got.id # 0 /\ cur.pkg \in Packages
        BY <1>0, <1>2, <2>2, <3>2
           DEF Strength, EnrolledInv, ActionInv, TypeOK, Actions, Update, Revoke, Remove
      <4>2. p = cur.pkg
        BY <1>0, <2>5, <4>1 DEF Strength, EnrolledInv, ActionInv
      <4> QED
        BY <4>1, <4>2
    <3> QED
      BY <3>1, <3>2
  <2> QED
    BY <1>0, <2>1, <2>2, <2>3, <2>4, <2>5 DEF OwnInv, Known
<1> QED
  BY <1>1, <1>2

LEMMA NextOwn ==
  ASSUME Strength, OwnInv, [Next]_vars
  PROVE  /\ OwnInv'
         /\ \A m \in (manifests \ manifests') \cup (manifests' \ manifests) :
              pc \in Acting /\ m.pkg = cur.pkg
<1>1. CASE Heartbeat \/ Begin \/ BatchDone
  BY <1>1, BatchOwn DEF Heartbeat, Begin, BatchDone, disk
<1>2. CASE \/ ReportInstalling \/ ReportInstalled \/ ReportStarted \/ ReportRevoked
           \/ ReportFailure
  <2>1. /\ UNCHANGED <<manifests, cur, got>> /\ pc \in Acting
        /\ UNCHANGED server \/ (\E status \in Phases : Record(status))
    BY <1>2 DEF ReportInstalling, ReportInstalled, ReportStarted, ReportRevoked,
                ReportFailure, Report, agent, disk, Acting, Phases
  <2> QED
    BY <2>1, ReportsOwn
<1>3. CASE GetInfo \/ Download \/ Verify \/ Replace \/ Rename \/ KillRunning \/ Cleanup
  <2>1. /\ UNCHANGED <<server, manifests, cur>> /\ got'.id = got.id /\ pc \in Acting
    BY <1>3 DEF GetInfo, Download, Verify, Replace, Rename, KillRunning, Cleanup,
                agent, disk, Acting, Strength, TypeOK
  <2> QED
    BY <2>1, QuietOwn DEF server
<1>4. CASE Enroll \/ Update \/ Revoke \/ Remove
  BY <1>4, InstanceOwn
<1>5. CASE Crash \/ Restart
  <2>1. UNCHANGED <<idLocal, manifests>> /\ pc' \notin Acting
    BY <1>5 DEF Crash, Die, Restart, Goto, server, disk, Acting
  <2> QED
    BY <2>1, QuietOwn
<1>6. CASE \/ Scan \/ Launch \/ Supervise \/ PluginExits \/ UNCHANGED vars
           \/ \E p \in Packages : Withdraw(p) \/ \E v \in Versions : Assign(p, v)
  <2>1. UNCHANGED <<pc, idLocal, agent, disk>>
    <3>1. CASE Scan \/ Launch \/ Supervise \/ PluginExits \/ UNCHANGED vars
      BY <3>1 DEF Scan, Launch, Supervise, PluginExits, vars, process, server
    <3>2. CASE \E p \in Packages : Withdraw(p) \/ \E v \in Versions : Assign(p, v)
      BY <3>2 DEF Withdraw, Assign, Order
    <3> QED
      BY <1>6, <3>1, <3>2
  <2> QED
    BY <2>1, QuietOwn DEF agent, disk
<1> QED
  BY <1>1, <1>2, <1>3, <1>4, <1>5, <1>6 DEF Next, Thread, World

\* handle_update and handle_revoke (plugin/assignment.rs) hand wedr-plugin the
\* plugin_id of their own package only, whatever reports, enrollments and
\* processes were lost before.
THEOREM AssignmentOthersUntouched == Spec => OthersUntouched
<1>1. Init => EnrolledInv /\ OwnInv
  BY DEF Init, ProcessInit, EnrolledInv, ServerInv, BatchInv, ActionInv, OwnInv, Acting
<1>2. Strength /\ OwnInv /\ [Next]_vars
        => [\A m \in (manifests \ manifests') \cup (manifests' \ manifests) :
              pc \in Acting /\ m.pkg = cur.pkg]_vars
  BY NextOwn
<1>3. Strength /\ OwnInv /\ [Next]_vars => OwnInv'
  BY NextOwn
<1> QED
  BY <1>1, <1>2, <1>3, InitTypes, NextTypes, NextKeeps, InitOrphan, NextOrphan, PTL
     DEF Spec, Strength, OthersUntouched
=============================================================================
