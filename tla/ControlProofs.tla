--------------------------- MODULE ControlProofs ---------------------------
(***************************************************************************)
(* What is proved of ControlPlane for every value of its constants: the    *)
(* file to quarantine is never lost; the saved firewall stays the one of   *)
(* before the first isolation; a second execution of a command has cost a  *)
(* loss; an acknowledged command has been executed, and is never executed  *)
(* again; what is reported of an isolation or of its end is true of the    *)
(* firewall; the process runs the configuration that is on disk, and       *)
(* restarts at most once for each change of it; what a synchronisation     *)
(* reports of the rules is true; and every variable keeps its type.        *)
(***************************************************************************)
EXTENDS ControlPlane, FiniteSetTheorems, WellFoundedInduction, TLAPS

\* Where a quarantine is, the source is still there, or the copy is whole.
FileInv ==
  /\ FileNeverLost
  /\ pc \in {"quarantine.rename", "quarantine.copy"} => file.src
  /\ pc = "quarantine.remove" => file.dst = "whole"
  /\ file = [src |-> file.src, dst |-> file.dst]

QuarantinePlaces == {"quarantine.rename", "quarantine.copy", "quarantine.remove"}

\* A step that leaves the file alone and enters no place of the quarantine.
LEMMA FileUntouched ==
  ASSUME FileInv, UNCHANGED file, pc' = pc \/ pc' \notin QuarantinePlaces
  PROVE  FileInv'
BY DEF FileInv, FileNeverLost, QuarantinePlaces

LEMMA QuarantineKeepsFile ==
  ASSUME FileInv, Quarantine
  PROVE  FileInv'
<1>1. CASE QuarantineChecks
  BY <1>1 DEF QuarantineChecks, FileInv, FileNeverLost, Goto, Answer, effects
<1>2. CASE QuarantineRename
  BY <1>2 DEF QuarantineRename, FileInv, FileNeverLost, Goto, Answer
<1>3. CASE QuarantineCopy
  BY <1>3 DEF QuarantineCopy, FileInv, FileNeverLost, Goto, Answer
<1>4. CASE QuarantineRemove
  BY <1>4 DEF QuarantineRemove, FileInv, FileNeverLost, Goto, Answer
<1> QED
  BY <1>1, <1>2, <1>3, <1>4 DEF Quarantine

LEMMA CommandsKeepFile ==
  ASSUME FileInv, CommandStep
  PROVE  FileInv'
<1>1. CASE Dispatch
  BY <1>1, FileUntouched
     DEF Dispatch, Goto, KnownKinds, QuarantinePlaces, effects
<1>2. CASE AckCommand
  BY <1>2, FileUntouched DEF AckCommand, Goto, QuarantinePlaces, effects
<1>3. CASE (Isolate \/ Unisolate) /\ UNCHANGED <<server, beatVars, effects>>
  <2>1. pc' \notin QuarantinePlaces
    BY <1>3 DEF Isolate, Unisolate, ResolveHosts, SaveFirewall, ResetRules,
         BlockAll, AllowLoopback, AllowServer, AllowDhcp, ReportIsolated,
         ImportBackup, RemoveBackup, FallbackReset, FallbackPolicy,
         ReportUnisolated, Answer, Goto, QuarantinePlaces
  <2> QED
    BY <1>3, <2>1, FileUntouched DEF effects
<1>4. CASE Simple
  BY <1>4, FileUntouched
     DEF Simple, KillProcess, ScanNow, NoOpAck, Answer, Goto, QuarantinePlaces,
         effects
<1>5. CASE Quarantine
  BY <1>5, QuarantineKeepsFile
<1>6. CASE Shell
  BY <1>6, FileUntouched
     DEF Shell, ShellSpawn, ShellReaped, ShellTimesOut, ShellWaitFails, ShellRead,
         Answer, Goto, QuarantinePlaces, effects
<1>7. CASE Update
  BY <1>7, FileUntouched
     DEF Update, UpdateDownload, UpdateLaunch, Answer, Goto, QuarantinePlaces
<1> QED
  BY <1>1, <1>2, <1>3, <1>4, <1>5, <1>6, <1>7 DEF CommandStep

\* Every step of the pull leaves the commands alone and ends in a place of its
\* own.
LEMMA PullKeepsFile ==
  ASSUME FileInv, Pull, UNCHANGED commandVars
  PROVE  FileInv'
<1>1. UNCHANGED file
  BY DEF commandVars, effects
<1>2. pc' \notin QuarantinePlaces
  BY DEF Pull, OpenProfileJson, WriteProfileJson, WriteTemplate, WriteOverrides,
     ParseTemplate, WriteRules, ForceReload, StoreForced, FlipState, Goto,
     QuarantinePlaces
<1> QED
  BY <1>1, <1>2, FileUntouched

LEMMA ThreadKeepsFile ==
  ASSUME FileInv, HeartbeatThread
  PROVE  FileInv'
<1>1. CASE Heartbeat
  BY <1>1, FileUntouched
     DEF Heartbeat, ReceiveCommands, effects, Goto, QuarantinePlaces
<1>2. CASE CommandsDone
  BY <1>2, FileUntouched
     DEF CommandsDone, commandVars, effects, Goto, QuarantinePlaces
<1>3. CASE CheckProfile
  BY <1>3, FileUntouched
     DEF CheckProfile, DecidePull, commandVars, effects, Goto, QuarantinePlaces
<1>4. CASE Request
  <2>1. pc' \notin QuarantinePlaces
    BY <1>4 DEF Request, GetMetadata, GetTemplate, PullFails, Goto,
       QuarantinePlaces
  <2> QED
    BY <1>4, <2>1, FileUntouched DEF Request, commandVars, effects
<1>5. CASE CommandStep /\ UNCHANGED profileVars
  BY <1>5, CommandsKeepFile
<1>6. CASE Pull /\ UNCHANGED commandVars
  BY <1>6, PullKeepsFile
<1> QED
  BY <1>1, <1>2, <1>3, <1>4, <1>5, <1>6 DEF HeartbeatThread

\* What the end of the process leaves alone.
LEMMA DeathKeepsFile ==
  ASSUME FileInv, CommandsDie, pc' = "down"
  PROVE  FileInv'
BY FileUntouched DEF CommandsDie, QuarantinePlaces

LEMMA OthersKeepFile ==
  ASSUME FileInv, ReloadThread \/ Crash \/ Stop \/ Restart \/ World
  PROVE  FileInv'
<1>1. CASE ReloadThread
  BY <1>1, FileUntouched
     DEF ReloadThread, Reload, ReloadStarts, ReloadPolls, ReloadParses,
         ReloadStores, process, commandVars, effects
<1>2. CASE Crash
  BY <1>2, DeathKeepsFile DEF Crash, Die
<1>3. CASE Stop
  BY <1>3, DeathKeepsFile DEF Stop, Goto
<1>4. CASE Restart
  BY <1>4, FileUntouched
     DEF Restart, Goto, commandVars, effects, QuarantinePlaces
<1>5. CASE CommandWorld /\ UNCHANGED profileVars
  BY <1>5, FileUntouched
     DEF CommandWorld, Issue, Configure, ShellRuns, HolderExits, Order, process,
         effects
<1>6. CASE (Publish \/ EditRules) /\ UNCHANGED commandVars
  BY <1>6, FileUntouched DEF Publish, EditRules, Order, commandVars, effects
<1> QED
  BY <1>1, <1>2, <1>3, <1>4, <1>5, <1>6 DEF World

LEMMA NextKeepsFile == FileInv /\ [Next]_vars => FileInv'
<1> SUFFICES ASSUME FileInv, [Next]_vars PROVE FileInv'
  OBVIOUS
<1>1. CASE HeartbeatThread
  BY <1>1, ThreadKeepsFile
<1>2. CASE ReloadThread \/ Crash \/ Stop \/ Restart \/ World
  BY <1>2, OthersKeepFile
<1>3. CASE UNCHANGED vars
  BY <1>3, FileUntouched DEF vars, process, commandVars, effects
<1> QED
  BY <1>1, <1>2, <1>3 DEF Next

\* execute_quarantine (control/executor.rs) removes the source only once the
\* copy is whole, so the file is never lost, whatever fails or dies.
THEOREM ControlFileNeverLost == Spec => []FileNeverLost
<1>1. Init => FileInv
  BY DEF Init, ProcessInit, CommandsInit, FileInv, FileNeverLost
<1>2. FileInv => FileNeverLost
  BY DEF FileInv
<1> QED
  BY <1>1, <1>2, NextKeepsFile, PTL DEF Spec

----------------------------------------------------------------------------
(* The saved firewall                                                       *)

\* Where the firewall may be open although its backup is kept.
OpenWithBackup == {"isolate.reset", "isolate.block", "unisolate.remove"}

FirewallInv ==
  /\ fw \in [rules : Nat, block : BOOLEAN, allow : SUBSET AllowRules]
  /\ backup \subseteq [rules : Nat, block : BOOLEAN, allow : SUBSET AllowRules]
  /\ own \in Nat

\* Until a call fails: the backup is the firewall of before; a host that is cut
\* off has its backup, and outside three places a backup means it is cut off.
\* So neither a second isolation nor the administrator changes the reference.
ReferenceInv ==
  /\ FirewallInv
  /\ ~before.block
  /\ clean => /\ backup \subseteq {before}
              /\ fw.block => backup # {}
              /\ backup # {} => fw.block \/ pc \in OpenWithBackup
              /\ pc \in {"isolate.reset", "isolate.block"} => backup # {}
              /\ pc = "unisolate.remove" => ~fw.block
              /\ pc = "unisolate.policy" => backup = {}

LEMMA DefaultsType ==
  /\ Defaults \in [rules : Nat, block : BOOLEAN, allow : SUBSET AllowRules]
  /\ ~Defaults.block
BY DEF Defaults, Configured

LEMMA FirewallUntouched ==
  ASSUME ReferenceInv, UNCHANGED firewall,
         \/ pc' = pc
         \/ /\ pc \notin OpenWithBackup
            /\ pc' \notin OpenWithBackup \cup {"unisolate.policy"}
  PROVE  ReferenceInv'
BY DEF ReferenceInv, FirewallInv, firewall, OpenWithBackup

LEMMA IsolateKeepsReference ==
  ASSUME ReferenceInv, Isolate
  PROVE  ReferenceInv'
<1>1. CASE ResolveHosts \/ ReportIsolated
  BY <1>1, FirewallUntouched
     DEF ResolveHosts, ReportIsolated, Answer, Goto, OpenWithBackup
<1>2. CASE SaveFirewall
  <2>1. FirewallInv' /\ ~before'.block
    BY <1>2 DEF SaveFirewall, ReferenceInv, FirewallInv
  <2>2. clean' => clean /\ backup' \subseteq {before'} /\ backup' # {}
    BY <1>2 DEF SaveFirewall, ReferenceInv, OpenWithBackup
  <2> QED
    BY <1>2, <2>1, <2>2 DEF SaveFirewall, Goto, ReferenceInv, OpenWithBackup
<1>3. CASE ResetRules
  <2>1. FirewallInv'
    BY <1>3, DefaultsType DEF ResetRules, Netsh, ReferenceInv, FirewallInv
  <2>2. clean' => clean /\ ~fw'.block
    BY <1>3, DefaultsType DEF ResetRules, Netsh
  <2> QED
    BY <1>3, <2>1, <2>2 DEF ResetRules, Goto, ReferenceInv, OpenWithBackup
<1>4. CASE BlockAll
  <2>1. FirewallInv'
    BY <1>4 DEF BlockAll, Netsh, ReferenceInv, FirewallInv
  <2>2. clean' => clean /\ fw'.block
    BY <1>4 DEF BlockAll, Netsh, ReferenceInv, FirewallInv
  <2> QED
    BY <1>4, <2>1, <2>2 DEF BlockAll, Goto, ReferenceInv, OpenWithBackup
<1>5. CASE AllowLoopback \/ AllowServer \/ AllowDhcp
  BY <1>5 DEF AllowLoopback, AllowServer, AllowDhcp, Netsh, Allow, AllowRules,
     Goto, ReferenceInv, FirewallInv, OpenWithBackup
<1> QED
  BY <1>1, <1>2, <1>3, <1>4, <1>5 DEF Isolate

LEMMA UnisolateKeepsReference ==
  ASSUME ReferenceInv, Unisolate
  PROVE  ReferenceInv'
<1>1. CASE ImportBackup
  BY <1>1 DEF ImportBackup, Goto, ReferenceInv, FirewallInv, OpenWithBackup
<1>2. CASE RemoveBackup
  BY <1>2 DEF RemoveBackup, Goto, ReferenceInv, FirewallInv, OpenWithBackup
<1>3. CASE FallbackReset
  <2>1. FirewallInv'
    BY <1>3, DefaultsType DEF FallbackReset, ReferenceInv, FirewallInv
  <2>2. clean' => clean /\ ~fw'.block
    BY <1>3, DefaultsType DEF FallbackReset
  <2> QED
    BY <1>3, <2>1, <2>2 DEF FallbackReset, Goto, ReferenceInv, OpenWithBackup
<1>4. CASE FallbackPolicy
  <2>1. FirewallInv'
    BY <1>4 DEF FallbackPolicy, Netsh, ReferenceInv, FirewallInv
  <2>2. clean => backup = {}
    BY <1>4 DEF FallbackPolicy, ReferenceInv, OpenWithBackup
  <2> QED
    BY <1>4, <2>1 DEF FallbackPolicy, Netsh, Goto, ReferenceInv, FirewallInv,
       OpenWithBackup
<1>5. CASE ReportUnisolated
  BY <1>5, FirewallUntouched
     DEF ReportUnisolated, Answer, Goto, OpenWithBackup
<1> QED
  BY <1>1, <1>2, <1>3, <1>4, <1>5 DEF Unisolate

\* An administrator configures only a host that is not cut off, which has no
\* backup then.
LEMMA ConfigureKeepsReference ==
  ASSUME ReferenceInv, Configure
  PROVE  ReferenceInv'
<1>1. FirewallInv' /\ ~fw'.block
  BY DEF Configure, Configured, ReferenceInv, FirewallInv
<1> QED
  BY <1>1 DEF Configure, Order, ReferenceInv, OpenWithBackup

\* A death in the middle of an (un)isolation ends what is promised.
LEMMA DeathKeepsReference ==
  ASSUME ReferenceInv, CommandsDie, pc' = "down"
  PROVE  ReferenceInv'
BY DEF CommandsDie, IsolationDies, InIsolation, ReferenceInv, FirewallInv,
   OpenWithBackup

LEMMA CommandsKeepReference ==
  ASSUME ReferenceInv, CommandStep
  PROVE  ReferenceInv'
<1>1. CASE Dispatch
  BY <1>1, FirewallUntouched
     DEF Dispatch, Goto, KnownKinds, OpenWithBackup, isolation
<1>2. CASE AckCommand
  BY <1>2, FirewallUntouched DEF AckCommand, Goto, OpenWithBackup
<1>3. CASE Isolate \/ Unisolate
  BY <1>3, IsolateKeepsReference, UnisolateKeepsReference
<1>4. CASE Simple
  BY <1>4, FirewallUntouched
     DEF Simple, KillProcess, ScanNow, NoOpAck, Answer, Goto, OpenWithBackup
<1>5. CASE Quarantine
  BY <1>5, FirewallUntouched
     DEF Quarantine, QuarantineChecks, QuarantineRename, QuarantineCopy,
         QuarantineRemove, Answer, Goto, OpenWithBackup
<1>6. CASE Shell
  BY <1>6, FirewallUntouched
     DEF Shell, ShellSpawn, ShellReaped, ShellTimesOut, ShellWaitFails, ShellRead,
         Answer, Goto, OpenWithBackup, isolation
<1>7. CASE Update
  BY <1>7, FirewallUntouched
     DEF Update, UpdateDownload, UpdateLaunch, Answer, Goto, OpenWithBackup
<1> QED
  BY <1>1, <1>2, <1>3, <1>4, <1>5, <1>6, <1>7 DEF CommandStep

LEMMA ThreadKeepsReference ==
  ASSUME ReferenceInv, HeartbeatThread
  PROVE  ReferenceInv'
<1>1. CASE Heartbeat
  BY <1>1, FirewallUntouched
     DEF Heartbeat, ReceiveCommands, isolation, Goto, OpenWithBackup
<1>2. CASE CommandsDone
  BY <1>2, FirewallUntouched
     DEF CommandsDone, commandVars, isolation, Goto, OpenWithBackup
<1>3. CASE CheckProfile
  BY <1>3, FirewallUntouched
     DEF CheckProfile, DecidePull, commandVars, isolation, Goto, OpenWithBackup
<1>4. CASE Request
  <2>1. pc \notin OpenWithBackup /\ pc' \notin OpenWithBackup \cup {"unisolate.policy"}
    BY <1>4 DEF Request, GetMetadata, GetTemplate, PullFails, Requesting, Goto,
       OpenWithBackup
  <2> QED
    BY <1>4, <2>1, FirewallUntouched DEF Request, commandVars, isolation
<1>5. CASE CommandStep /\ UNCHANGED profileVars
  BY <1>5, CommandsKeepReference
<1>6. CASE Pull /\ UNCHANGED commandVars
  <2>1. pc \notin OpenWithBackup /\ pc' \notin OpenWithBackup \cup {"unisolate.policy"}
    BY <1>6 DEF Pull, OpenProfileJson, WriteProfileJson, WriteTemplate,
       WriteOverrides, ParseTemplate, WriteRules, ForceReload, StoreForced,
       FlipState, Goto, OpenWithBackup
  <2> QED
    BY <1>6, <2>1, FirewallUntouched DEF commandVars, isolation
<1> QED
  BY <1>1, <1>2, <1>3, <1>4, <1>5, <1>6 DEF HeartbeatThread

LEMMA OthersKeepReference ==
  ASSUME ReferenceInv, ReloadThread \/ Crash \/ Stop \/ Restart \/ World
  PROVE  ReferenceInv'
<1>1. CASE ReloadThread
  BY <1>1, FirewallUntouched
     DEF ReloadThread, Reload, ReloadStarts, ReloadPolls, ReloadParses,
         ReloadStores, process, commandVars, isolation
<1>2. CASE Crash
  BY <1>2, DeathKeepsReference DEF Crash, Die
<1>3. CASE Stop
  BY <1>3, DeathKeepsReference DEF Stop, Goto
<1>4. CASE Restart
  BY <1>4, FirewallUntouched
     DEF Restart, Goto, commandVars, isolation, OpenWithBackup
<1>5. CASE CommandWorld /\ UNCHANGED profileVars
  BY <1>5, FirewallUntouched, ConfigureKeepsReference
     DEF CommandWorld, Issue, ShellRuns, HolderExits, Order, process, isolation
<1>6. CASE (Publish \/ EditRules) /\ UNCHANGED commandVars
  BY <1>6, FirewallUntouched
     DEF Publish, EditRules, Order, commandVars, isolation
<1> QED
  BY <1>1, <1>2, <1>3, <1>4, <1>5, <1>6 DEF World

LEMMA NextKeepsReference == ReferenceInv /\ [Next]_vars => ReferenceInv'
<1> SUFFICES ASSUME ReferenceInv, [Next]_vars PROVE ReferenceInv'
  OBVIOUS
<1>1. CASE HeartbeatThread
  BY <1>1, ThreadKeepsReference
<1>2. CASE ReloadThread \/ Crash \/ Stop \/ Restart \/ World
  BY <1>2, OthersKeepReference
<1>3. CASE UNCHANGED vars
  BY <1>3, FirewallUntouched DEF vars, process, commandVars, isolation
<1> QED
  BY <1>1, <1>2, <1>3 DEF Next

\* execute_isolate (control/executor.rs) keeps the first backup: executed again
\* for a lost acknowledgement, or by a new process, it never saves the firewall
\* of a host that is already cut off.
THEOREM ControlReferenceKept == Spec => []ReferenceKept
<1>1. Init => ReferenceInv
  BY DEF Init, ProcessInit, CommandsInit, IsolationInit, Configured,
     ReferenceInv, FirewallInv
<1>2. ReferenceInv => ReferenceKept
  BY DEF ReferenceInv, ReferenceKept
<1> QED
  BY <1>1, <1>2, NextKeepsReference, PTL DEF Spec

----------------------------------------------------------------------------
(* Executions and acknowledgements                                          *)

\* Where no command is being executed or acknowledged.
Between == {"idle", "commands", "profile", "stopping", "down", "pull",
            "pull.template", "pull.open", "pull.write", "pull.audit",
            "pull.overrides", "pull.parse", "pull.rules", "pull.reload",
            "pull.store", "pull.flip"}

Bookkeeping == <<pending, todo, current, attempts, lost, orders, crashes>>

BookTypes ==
  /\ \A c \in pending \cup todo : c.id \in Ids
  /\ attempts \in [Ids -> Nat] /\ lost \in Nat /\ crashes \in Nat /\ orders \in Nat
  /\ pc \notin Between => current.id \in Ids

\* A command the server still waits for has cost a loss for each execution, but
\* for the one under way; and what is to be executed is still waited for, once.
ExecutionInv ==
  /\ BookTypes
  /\ \A i \in Ids : /\ attempts[i] <= 1 + lost + crashes
                    /\ i > orders => attempts[i] = 0
  /\ \A c \in pending :
       pc \in Between \/ c.id # current.id => attempts[c.id] <= lost + crashes
  /\ \A c \in todo : /\ c \in pending
                     /\ pc \notin Between => c.id # current.id
  /\ \A c, d \in pending : c.id = d.id => c = d
  /\ \A c \in pending : c.id <= orders

LEMMA BookUntouched ==
  ASSUME ExecutionInv, UNCHANGED Bookkeeping, pc' \in Between <=> pc \in Between
  PROVE  ExecutionInv'
BY DEF ExecutionInv, BookTypes, Bookkeeping

LEMMA DispatchBooked ==
  ASSUME ExecutionInv, Dispatch
  PROVE  ExecutionInv'
<1>1. PICK c \in todo :
        /\ current' = c /\ todo' = todo \ {c}
        /\ attempts' = [attempts EXCEPT ![c.id] = @ + 1]
        /\ pc' = IF c.kind \in KnownKinds THEN c.kind ELSE "unknown"
  BY DEF Dispatch, Goto
<1>2. /\ UNCHANGED <<pending, lost, orders, crashes>> /\ pc \in Between
      /\ pc' \notin Between
  BY <1>1 DEF Dispatch, Goto, server, Between, KnownKinds
<1>3. /\ c \in pending /\ c.id \in Ids /\ c.id <= orders
      /\ attempts[c.id] <= lost + crashes
  BY <1>2 DEF ExecutionInv, BookTypes
<1>4. /\ attempts' \in [Ids -> Nat] /\ attempts'[c.id] = attempts[c.id] + 1
      /\ \A i \in Ids \ {c.id} : attempts'[i] = attempts[i]
  BY <1>1, <1>3 DEF ExecutionInv, BookTypes
<1>5. BookTypes'
  BY <1>1, <1>2, <1>3, <1>4 DEF ExecutionInv, BookTypes
<1>6. \A i \in Ids : /\ attempts'[i] <= 1 + lost + crashes
                     /\ i > orders => attempts'[i] = 0
  BY <1>3, <1>4 DEF ExecutionInv, BookTypes, Ids
<1>7. \A d \in todo' : d \in pending /\ d.id # c.id
  BY <1>1, <1>3 DEF ExecutionInv
<1>8. \A d \in pending : d.id # c.id => attempts'[d.id] <= lost + crashes
  BY <1>2, <1>4 DEF ExecutionInv, BookTypes
<1> QED
  BY <1>1, <1>2, <1>5, <1>6, <1>7, <1>8 DEF ExecutionInv

LEMMA AckBooked ==
  ASSUME ExecutionInv, AckCommand
  PROVE  ExecutionInv'
<1>1. /\ pc \notin Between /\ pc' \in Between /\ current.id \in Ids
      /\ UNCHANGED <<todo, attempts, orders, crashes>>
  BY DEF AckCommand, Goto, Between, ExecutionInv, BookTypes
<1>2. \/ lost' = lost /\ pending' = {c \in pending : c.id # current.id}
      \/ lost' = lost + 1 /\ pending' = pending
  BY DEF AckCommand, Record, AckLost, server
<1>3. BookTypes'
  BY <1>1, <1>2 DEF ExecutionInv, BookTypes
<1>4. /\ \A i \in Ids : attempts[i] <= 1 + lost'+ crashes
      /\ \A c \in pending' : attempts[c.id] <= lost' + crashes
  BY <1>1, <1>2 DEF ExecutionInv, BookTypes
<1>5. \A c \in todo : c \in pending'
  BY <1>1, <1>2 DEF ExecutionInv
<1> QED
  BY <1>1, <1>2, <1>3, <1>4, <1>5 DEF ExecutionInv

LEMMA IssueBooked ==
  ASSUME ExecutionInv, NEW kind, Issue(kind)
  PROVE  ExecutionInv'
<1>1. /\ pending' = pending \cup {[id |-> orders + 1, kind |-> kind]}
      /\ orders' = orders + 1 /\ orders < MaxOrders
      /\ UNCHANGED <<pc, todo, current, attempts, lost, crashes>>
  BY DEF Issue, Order, beatVars
<1>2. orders + 1 \in Ids
  BY <1>1, ProcessAssumption DEF ExecutionInv, BookTypes, Ids
<1>3. attempts[orders + 1] = 0
  BY <1>2 DEF ExecutionInv, BookTypes
<1>4. BookTypes'
  BY <1>1, <1>2 DEF ExecutionInv, BookTypes
<1>5. \A c \in pending' :
        pc \in Between \/ c.id # current.id => attempts[c.id] <= lost + crashes
  BY <1>1, <1>3 DEF ExecutionInv, BookTypes
<1>6. /\ \A c \in pending' : c.id <= orders'
      /\ \A c, d \in pending' : c.id = d.id => c = d
  BY <1>1 DEF ExecutionInv, BookTypes, Ids
<1> QED
  BY <1>1, <1>4, <1>5, <1>6 DEF ExecutionInv, BookTypes, Ids

\* The end of the process forgets what is left to execute.
LEMMA DeathBooked ==
  ASSUME ExecutionInv, CommandsDie, pc' = "down", UNCHANGED orders,
         \/ crashes' = crashes + 1
         \/ crashes' = crashes /\ pc \in Between
  PROVE  ExecutionInv'
<1>1. UNCHANGED <<pending, attempts, lost>> /\ todo' = {} /\ pc' \in Between
  BY DEF CommandsDie, server, Between
<1>2. \A c \in pending : attempts[c.id] <= lost + crashes'
  BY DEF ExecutionInv, BookTypes
<1> QED
  BY <1>1, <1>2 DEF ExecutionInv, BookTypes

LEMMA CommandsBooked ==
  ASSUME ExecutionInv, CommandStep
  PROVE  ExecutionInv'
<1>1. CASE Dispatch \/ AckCommand
  BY <1>1, DispatchBooked, AckBooked
<1>2. CASE (Isolate \/ Unisolate) /\ UNCHANGED <<server, beatVars, effects>>
  <2>1. pc \notin Between /\ pc' \notin Between /\ UNCHANGED <<orders, crashes>>
    BY <1>2 DEF Isolate, Unisolate, ResolveHosts, SaveFirewall, ResetRules,
         BlockAll, AllowLoopback, AllowServer, AllowDhcp, ReportIsolated,
         ImportBackup, RemoveBackup, FallbackReset, FallbackPolicy,
         ReportUnisolated, Answer, Goto, Between
  <2> QED
    BY <1>2, <2>1, BookUntouched DEF server, beatVars, Bookkeeping
<1>3. CASE Simple
  BY <1>3, BookUntouched
     DEF Simple, KillProcess, ScanNow, NoOpAck, Answer, Goto, Between, server,
         beatVars, Bookkeeping
<1>4. CASE Quarantine
  BY <1>4, BookUntouched
     DEF Quarantine, QuarantineChecks, QuarantineRename, QuarantineCopy,
         QuarantineRemove, Answer, Goto, Between, server, beatVars, Bookkeeping
<1>5. CASE Shell
  BY <1>5, BookUntouched
     DEF Shell, ShellSpawn, ShellReaped, ShellTimesOut, ShellWaitFails, ShellRead,
         Answer, Goto, Between, server, beatVars, Bookkeeping
<1>6. CASE Update
  BY <1>6, BookUntouched
     DEF Update, UpdateDownload, UpdateLaunch, Answer, Goto, Between, server,
         beatVars, Bookkeeping
<1> QED
  BY <1>1, <1>2, <1>3, <1>4, <1>5, <1>6 DEF CommandStep

LEMMA ThreadBooked ==
  ASSUME ExecutionInv, HeartbeatThread
  PROVE  ExecutionInv'
<1>1. CASE Heartbeat
  BY <1>1 DEF Heartbeat, ReceiveCommands, Goto, server, Between, ExecutionInv,
     BookTypes
<1>2. CASE CommandsDone \/ CheckProfile
  BY <1>2, BookUntouched
     DEF CommandsDone, CheckProfile, DecidePull, Goto, Between, commandVars, server,
         beatVars, Bookkeeping
<1>3. CASE Request
  <2>1. pc \in Between /\ pc' \in Between /\ UNCHANGED <<orders, crashes>>
    BY <1>3 DEF Request, GetMetadata, GetTemplate, PullFails, Requesting, Goto,
       Between
  <2> QED
    BY <1>3, <2>1, BookUntouched
       DEF Request, commandVars, server, beatVars, Bookkeeping
<1>4. CASE CommandStep /\ UNCHANGED profileVars
  BY <1>4, CommandsBooked
<1>5. CASE Pull /\ UNCHANGED commandVars
  <2>1. pc \in Between /\ pc' \in Between /\ UNCHANGED <<orders, crashes>>
    BY <1>5 DEF Pull, OpenProfileJson, WriteProfileJson, WriteTemplate,
       WriteOverrides, ParseTemplate, WriteRules, ForceReload, StoreForced,
       FlipState, Goto, Between
  <2> QED
    BY <1>5, <2>1, BookUntouched DEF commandVars, server, beatVars, Bookkeeping
<1> QED
  BY <1>1, <1>2, <1>3, <1>4, <1>5 DEF HeartbeatThread

\* An order that is not a command.
LEMMA OrderBooked ==
  ASSUME ExecutionInv, Order, UNCHANGED <<pending, todo, current, attempts, lost>>
  PROVE  ExecutionInv'
BY DEF Order, ExecutionInv, BookTypes, Ids

LEMMA OthersBooked ==
  ASSUME ExecutionInv, ReloadThread \/ Crash \/ Stop \/ Restart \/ World
  PROVE  ExecutionInv'
<1>1. CASE ReloadThread
  BY <1>1, BookUntouched
     DEF ReloadThread, Reload, ReloadStarts, ReloadPolls, ReloadParses,
         ReloadStores, process, commandVars, server, beatVars, Bookkeeping
<1>2. CASE Crash
  BY <1>2, DeathBooked DEF Crash, Die
<1>3. CASE Stop
  BY <1>3, DeathBooked DEF Stop, Goto, Between
<1>4. CASE Restart
  BY <1>4, BookUntouched
     DEF Restart, Goto, Between, commandVars, server, beatVars, Bookkeeping
<1>5. CASE \E kind \in Kinds : Issue(kind)
  BY <1>5, IssueBooked
<1>6. CASE ShellRuns \/ HolderExits
  BY <1>6, BookUntouched
     DEF ShellRuns, HolderExits, process, server, beatVars, Bookkeeping
<1>7. CASE Configure /\ UNCHANGED <<server, beatVars, effects>>
  BY <1>7, OrderBooked DEF Configure, server, beatVars
<1>8. CASE (Publish \/ EditRules) /\ UNCHANGED commandVars
  BY <1>8, OrderBooked DEF Publish, EditRules, commandVars, server, beatVars
<1> QED
  BY <1>1, <1>2, <1>3, <1>4, <1>5, <1>6, <1>7, <1>8 DEF World, CommandWorld

LEMMA NextBooked == ExecutionInv /\ [Next]_vars => ExecutionInv'
<1> SUFFICES ASSUME ExecutionInv, [Next]_vars PROVE ExecutionInv'
  OBVIOUS
<1>1. CASE HeartbeatThread
  BY <1>1, ThreadBooked
<1>2. CASE ReloadThread \/ Crash \/ Stop \/ Restart \/ World
  BY <1>2, OthersBooked
<1>3. CASE UNCHANGED vars
  BY <1>3, BookUntouched
     DEF vars, process, commandVars, server, beatVars, Bookkeeping
<1> QED
  BY <1>1, <1>2, <1>3 DEF Next

\* The heartbeat loop (control/heartbeat.rs) executes a command again only for
\* an acknowledgement that was lost or a process that died before it.
THEOREM ControlReexecutionNeedsLoss == Spec => []ReexecutionNeedsLoss
<1>1. Init => ExecutionInv
  BY DEF Init, ProcessInit, CommandsInit, ExecutionInv, BookTypes, Between, Ids
<1>2. ExecutionInv => ReexecutionNeedsLoss
  BY DEF ExecutionInv, ReexecutionNeedsLoss
<1> QED
  BY <1>1, <1>2, NextBooked, PTL DEF Spec

----------------------------------------------------------------------------
(* The configuration                                                        *)

\* Where a pull may have written overrides this process has not read.
Changing == {"pull.parse", "pull.rules", "pull.reload", "pull.store", "pull.flip"}

Pulls == [meta : Nat, template : Nat, changed : BOOLEAN, bundle : BOOLEAN]

\* A process runs what is on disk, is about to end for it, or has met a template
\* that it cannot decode.
ConfigInv ==
  /\ got \in Pulls /\ published \in editions /\ editions \subseteq Nat
  /\ pc \in Changing \cup {"pull.open", "pull.write", "pull.audit", "pull.overrides"}
       => got.template \in editions
  /\ pc \notin {"down", "stopping"} =>
       \/ config = Effective
       \/ editions \cap Malformed # {}
       \/ pc \in Changing /\ got.changed = TRUE

LEMMA ConfigUntouched ==
  ASSUME ConfigInv, UNCHANGED <<offer, got, overrides, config>>,
         \/ pc' = pc
         \/ pc' \in {"down", "stopping"}
         \/ /\ pc \notin Changing \cup {"down", "stopping"}
            /\ pc' \notin Changing \cup {"pull.open", "pull.write", "pull.audit",
                                         "pull.overrides"}
  PROVE  ConfigInv'
BY DEF ConfigInv, Effective, Changing, offer

\* No command is executed in the middle of a pull.
LEMMA CommandsElsewhere ==
  ASSUME CommandStep
  PROVE  /\ pc \notin Changing \cup {"down", "stopping"}
         /\ pc' \notin Changing \cup {"pull.open", "pull.write", "pull.audit",
                                      "pull.overrides"}
<1>1. CASE Dispatch \/ AckCommand \/ Simple \/ Update
  BY <1>1 DEF Dispatch, KnownKinds, AckCommand, Simple, KillProcess, ScanNow,
     NoOpAck, Update, UpdateDownload, UpdateLaunch, Answer, Goto, Changing
<1>2. CASE Isolate \/ Unisolate
  BY <1>2 DEF Isolate, Unisolate, ResolveHosts, SaveFirewall, ResetRules,
     BlockAll, AllowLoopback, AllowServer, AllowDhcp, ReportIsolated,
     ImportBackup, RemoveBackup, FallbackReset, FallbackPolicy,
     ReportUnisolated, Answer, Goto, Changing
<1>3. CASE Quarantine \/ Shell
  BY <1>3 DEF Quarantine, QuarantineChecks, QuarantineRename, QuarantineCopy,
     QuarantineRemove, Shell, ShellSpawn, ShellReaped, ShellTimesOut,
     ShellWaitFails, ShellRead, Answer, Goto, Changing
<1> QED
  BY <1>1, <1>2, <1>3 DEF CommandStep

LEMMA RequestsKeepConfig ==
  ASSUME ConfigInv, Request
  PROVE  ConfigInv'
<1>1. UNCHANGED <<offer, overrides, config>> /\ pc \in {"pull", "pull.template"}
  BY DEF Request, GetMetadata, GetTemplate, PullFails, Requesting, files, memory
<1>2. NoPull \in Pulls /\ [NoPull EXCEPT !.meta = published] \in Pulls
      /\ [got EXCEPT !.template = published] \in Pulls
      /\ [got EXCEPT !.template = published].template = published
  BY DEF NoPull, Pulls, ConfigInv
<1>3. \/ got' = NoPull /\ pc' = "idle"
      \/ got' = [NoPull EXCEPT !.meta = published] /\ pc' = "pull.template"
      \/ got' = [got EXCEPT !.template = published] /\ pc' = "pull.open"
  BY DEF Request, GetMetadata, GetTemplate, PullFails, Goto
<1>4. config = Effective \/ editions \cap Malformed # {}
  BY <1>1 DEF ConfigInv, Changing
<1> QED
  BY <1>1, <1>2, <1>3, <1>4 DEF ConfigInv, Effective, Changing, offer

LEMMA PullKeepsConfig ==
  ASSUME ConfigInv, Pull
  PROVE  ConfigInv'
<1>a. NoPull \in Pulls /\ UNCHANGED offer
  BY DEF NoPull, Pulls, Pull, OpenProfileJson, WriteProfileJson,
     WriteTemplate, WriteOverrides, ParseTemplate, WriteRules, ForceReload,
     StoreForced, FlipState
<1>b. [got EXCEPT !.bundle = TRUE] \in Pulls
      /\ [got EXCEPT !.bundle = TRUE].template = got.template
      /\ [got EXCEPT !.bundle = TRUE].changed = got.changed
  BY DEF Pulls, ConfigInv
<1>1. CASE OpenProfileJson \/ WriteProfileJson \/ WriteTemplate
  <2>1. /\ UNCHANGED <<overrides, config>> /\ pc \notin Changing
        /\ pc \in {"pull.open", "pull.write", "pull.audit"}
        /\ \/ got' = got /\ pc' \in {"pull.write", "pull.audit", "pull.overrides"}
           \/ got' = NoPull /\ pc' = "idle"
    BY <1>1 DEF OpenProfileJson, WriteProfileJson, WriteTemplate, Goto, memory,
       Changing
  <2> QED
    BY <1>a, <2>1 DEF ConfigInv, Effective, Changing, offer
<1>2. CASE WriteOverrides
  <2>1. pc = "pull.overrides" /\ pc' = "pull.parse" /\ config' = config
    BY <1>2 DEF WriteOverrides, Goto, memory
  <2>2. got' \in Pulls /\ got'.template = got.template
    BY <1>2 DEF WriteOverrides, Pulls, ConfigInv
  <2>3. overrides' = overrides \/ got'.changed = TRUE
    BY <1>2 DEF WriteOverrides, Pulls, ConfigInv
  <2> QED
    BY <1>a, <2>1, <2>2, <2>3 DEF ConfigInv, Effective, Changing, offer
<1>3. CASE ParseTemplate
  <2>1. /\ pc = "pull.parse" /\ UNCHANGED <<overrides, config>>
        /\ \/ got.template \in Malformed /\ got' = NoPull /\ pc' = "idle"
           \/ got' = got /\ pc' = "pull.rules"
    BY <1>3 DEF ParseTemplate, Goto, files, memory
  <2> QED
    BY <1>a, <2>1 DEF ConfigInv, Effective, Changing, offer
<1>4. CASE WriteRules \/ ForceReload \/ StoreForced
  <2>1. /\ UNCHANGED <<overrides, config>> /\ pc \in Changing /\ pc' \in Changing
        /\ got' = got \/ got' = [got EXCEPT !.bundle = TRUE]
    BY <1>4 DEF WriteRules, ForceReload, StoreForced, Goto, files, memory, Changing
  <2> QED
    BY <1>a, <1>b, <2>1 DEF ConfigInv, Effective, Changing, offer
<1>5. CASE FlipState
  <2>1. /\ UNCHANGED <<overrides, config>> /\ got' = NoPull
        /\ \/ got.changed /\ pc' = "stopping"
           \/ ~got.changed /\ pc' = "idle"
    BY <1>5 DEF FlipState, Goto, files
  <2> QED
    BY <1>5, <1>a, <2>1 DEF FlipState, ConfigInv, Effective, Changing, offer
<1> QED
  BY <1>1, <1>2, <1>3, <1>4, <1>5 DEF Pull

LEMMA NextKeepsConfig == ConfigInv /\ [Next]_vars => ConfigInv'
<1> SUFFICES ASSUME ConfigInv, [Next]_vars PROVE ConfigInv'
  OBVIOUS
<1>1. CASE Heartbeat \/ CommandsDone \/ CheckProfile
  BY <1>1, ConfigUntouched
     DEF Heartbeat, HearVersion, CommandsDone, CheckProfile, DecidePull, Goto,
         profileVars, files, memory, Changing
<1>2. CASE Request
  BY <1>2, RequestsKeepConfig
<1>3. CASE CommandStep /\ UNCHANGED profileVars
  BY <1>3, CommandsElsewhere, ConfigUntouched DEF profileVars, files, memory
<1>4. CASE Pull
  BY <1>4, PullKeepsConfig
<1>5. CASE ReloadThread
  BY <1>5, ConfigUntouched
     DEF ReloadThread, Reload, ReloadStarts, ReloadPolls, ReloadParses,
         ReloadStores, process, files, memory
<1>6. CASE Crash \/ Stop
  <2>1. pc' = "down" /\ UNCHANGED <<offer, overrides, config>> /\ got' = NoPull
    BY <1>6 DEF Crash, Die, Stop, Goto, ProfileDies, files
  <2> QED
    BY <2>1 DEF ConfigInv, Changing, NoPull, Pulls, offer
<1>7. CASE Restart
  BY <1>7 DEF Restart, Boot, Goto, ConfigInv, Effective, Changing, files, offer
<1>8. CASE CommandWorld /\ UNCHANGED profileVars
  BY <1>8, ConfigUntouched
     DEF CommandWorld, Issue, Configure, ShellRuns, HolderExits, Order, process,
         profileVars, files, memory
<1>9. CASE Publish
  <2>1. /\ published' \in Nat /\ editions' = editions \cup {published'}
        /\ UNCHANGED <<pc, got, overrides, config>>
    BY <1>9 DEF Publish, Profiles, Order, files, memory
  <2> QED
    BY <2>1 DEF ConfigInv, Effective
<1>10. CASE EditRules
  BY <1>10, ConfigUntouched DEF EditRules, Order, memory
<1>11. CASE UNCHANGED vars
  BY <1>11, ConfigUntouched DEF vars, process, profileVars, files, memory
<1> QED
  BY <1>1, <1>2, <1>3, <1>4, <1>5, <1>6, <1>7, <1>8, <1>9, <1>10, <1>11
     DEF Next, HeartbeatThread, World

\* The pull (control/sync.rs) ends the process for every change of its overrides
\* but those of a template it cannot decode, and the new one reads the file.
THEOREM ControlConfigInForce == Spec => []ConfigInForce
<1>1. Init => ConfigInv
  BY DEF Init, ProcessInit, ProfileInit, ConfigInv, Effective, Absent, NoPull,
     Pulls, Changing
<1>2. ConfigInv => ConfigInForce
  BY DEF ConfigInv, ConfigInForce, Changing
<1> QED
  BY <1>1, <1>2, NextKeepsConfig, PTL DEF Spec
----------------------------------------------------------------------------
(* The restarts for a new configuration                                     *)

LEMMA FirstNumber ==
  ASSUME NEW T, T \subseteq Nat, T # {}
  PROVE  \E x \in T : \A y \in T : x <= y
<1> DEFINE Less == OpToRel(<, Nat)
<1>1. IsWellFoundedOn(Less, Nat)
  BY NatLessThanWellFounded
<1>2. Less = {p \in Nat \X Nat : p[1] < p[2]}
  BY DEF OpToRel
<1> HIDE DEF Less
<1>3. PICK x \in T : \A y \in T : <<y, x>> \notin Less
  BY <1>1, WFMin
<1>4. \A y \in T : ~(y < x)
  BY <1>2, <1>3
<1> QED
  BY <1>3, <1>4

LEMMA LastNumber ==
  ASSUME NEW T, T \subseteq Nat, T # {}, NEW b \in Nat, \A y \in T : y <= b
  PROVE  Max(T) \in T /\ \A y \in T : y <= Max(T)
<1>1. PICK k \in {c \in Nat : \A y \in T : y <= c} :
        \A c \in {c \in Nat : \A y \in T : y <= c} : k <= c
  BY FirstNumber
<1>2. k \in T
  <2> SUFFICES ASSUME k \notin T PROVE FALSE
    OBVIOUS
  <2>1. \A y \in T : y < k
    BY <1>1
  <2>2. k \in Nat /\ k # 0
    <3>1. PICK y \in T : y < k
      BY <2>1
    <3>2. y \in Nat /\ k \in Nat
      BY <1>1
    <3> QED
      BY <3>1, <3>2
  <2>3. k - 1 \in Nat /\ \A y \in T : y <= k - 1
    BY <2>1, <2>2
  <2>4. k <= k - 1
    BY <1>1, <2>3
  <2> QED
    BY <2>2, <2>4
<1>3. \A y \in T : k >= y
  BY <1>1
<1> QED
  BY <1>2, <1>3 DEF Max

\* What Previous is among the profiles E, and the profiles among them, up to q,
\* that ask for another configuration than the one before.
PreviousIn(E, p) == Max({e \in E : e < p})
ChangesUpTo(E, q) ==
  {p \in E \ {0} : p <= q /\ Asked(p) # Asked(PreviousIn(E, p))}

\* Where two profiles ask for different configurations, one of those between
\* them, the later one included, has changed it.
LEMMA ChangeBetween ==
  ASSUME NEW E, E \subseteq Nat, NEW q \in E, NEW t \in E, q <= t,
         Asked(q) # Asked(t)
  PROVE  \E p \in ChangesUpTo(E, t) : q < p
<1> DEFINE D == {p \in E : q < p /\ p <= t /\ Asked(p) # Asked(q)}
<1>0. \A e \in E : e \in Nat
  OBVIOUS
<1>1. t \in D
  BY <1>0
<1>2. PICK p \in D : \A d \in D : p <= d
  BY <1>1, FirstNumber
<1> DEFINE r == PreviousIn(E, p)
<1>3. r \in E /\ r < p /\ q <= r
  <2> DEFINE T == {e \in E : e < p}
  <2>0. p \in Nat /\ q < p
    BY <1>0, <1>2
  <2>1. T \subseteq Nat /\ q \in T
    BY <1>0, <2>0
  <2>2. ASSUME NEW y \in T PROVE y <= p
    <3>1. y \in Nat /\ y < p
      BY <1>0
    <3> QED
      BY <2>0, <3>1
  <2>3. T \subseteq Nat /\ q \in T /\ \A y \in T : y <= p
    BY <2>1, <2>2
  <2> HIDE DEF T
  <2>4. Max(T) \in T /\ \A y \in T : y <= Max(T)
    BY <2>0, <2>3, LastNumber
  <2> QED
    BY <2>3, <2>4 DEF T, PreviousIn
<1>4. Asked(r) = Asked(q)
  <2>0. r \in Nat /\ p \in Nat /\ q \in Nat /\ t \in Nat /\ p <= t
    BY <1>0, <1>2, <1>3
  <2> HIDE DEF r
  <2>1. r # q => q < r /\ r <= t
    BY <2>0, <1>3
  <2>2. ~(p <= r)
    BY <2>0, <1>3
  <2>3. r \notin D
    BY <1>2, <2>2
  <2> QED
    BY <1>3, <2>1, <2>3
<1>5. p \in ChangesUpTo(E, t)
  BY <1>2, <1>4 DEF ChangesUpTo
<1> QED
  BY <1>2, <1>5

LEMMA ChangesGrow ==
  ASSUME NEW E, E \subseteq Nat, NEW q \in E, NEW t \in E, q <= t
  PROVE  /\ Cardinality(ChangesUpTo(E, q)) \in Nat
         /\ Cardinality(ChangesUpTo(E, t)) \in Nat
         /\ Cardinality(ChangesUpTo(E, q)) <= Cardinality(ChangesUpTo(E, t))
         /\ Asked(q) # Asked(t) =>
              Cardinality(ChangesUpTo(E, q)) < Cardinality(ChangesUpTo(E, t))
<1> DEFINE Cq == ChangesUpTo(E, q)
           Ct == ChangesUpTo(E, t)
<1>0. q \in Nat /\ t \in Nat /\ \A e \in E : e \in Nat
  OBVIOUS
<1>1. Cq \subseteq Ct /\ Ct \subseteq 0..t
  <2>1. ASSUME NEW p \in Cq PROVE p \in Ct
    <3>1. p \in Nat /\ p <= q
      BY <1>0 DEF ChangesUpTo
    <3>2. p <= t
      BY <1>0, <3>1
    <3> QED
      BY <3>2 DEF ChangesUpTo
  <2>2. ASSUME NEW p \in Ct PROVE p \in 0..t
    <3>1. p \in Nat /\ p <= t
      BY <1>0 DEF ChangesUpTo
    <3> QED
      BY <1>0, <3>1
  <2> QED
    BY <2>1, <2>2
<1>2. IsFiniteSet(Ct) /\ IsFiniteSet(Cq)
  <2>1. IsFiniteSet(0..t)
    BY <1>0, FS_Interval
  <2>2. IsFiniteSet(Ct)
    BY <1>1, <2>1, FS_Subset
  <2> QED
    BY <1>1, <2>2, FS_Subset
<1>3. Cardinality(Ct) \in Nat /\ Cardinality(Cq) \in Nat
  BY <1>2, FS_CardinalityType
<1>4. Cardinality(Cq) <= Cardinality(Ct)
  BY <1>1, <1>2, FS_Subset
<1>5. ASSUME Asked(q) # Asked(t) PROVE Cardinality(Cq) < Cardinality(Ct)
  <2>1. PICK p \in Ct : q < p
    BY <1>5, ChangeBetween
  <2>2. Cq \subseteq Ct \ {p}
    BY <1>1, <2>1 DEF ChangesUpTo
  <2>3. /\ IsFiniteSet(Ct \ {p})
        /\ Cardinality(Ct \ {p}) = Cardinality(Ct) - 1
    BY <1>2, <2>1, FS_RemoveElement
  <2>4. Cardinality(Cq) <= Cardinality(Ct \ {p})
    BY <2>2, <2>3, FS_Subset
  <2> QED
    BY <1>3, <2>3, <2>4
<1> QED
  BY <1>3, <1>4, <1>5

\* A profile published later changes nothing of this.
LEMMA ChangesStay ==
  ASSUME NEW E, E \subseteq Nat, NEW n \in Nat, \A e \in E : e < n, NEW q \in E
  PROVE  ChangesUpTo(E \cup {n}, q) = ChangesUpTo(E, q)
<1>1. ASSUME NEW p \in E PROVE PreviousIn(E \cup {n}, p) = PreviousIn(E, p)
  <2>1. {e \in E \cup {n} : e < p} = {e \in E : e < p}
    OBVIOUS
  <2> QED
    BY <2>1 DEF PreviousIn
<1>2. \A p \in E \cup {n} : p <= q => p \in E
  OBVIOUS
<1> QED
  BY <1>1, <1>2 DEF ChangesUpTo

\* Where the template of a pull is known.
WithTemplate ==
  Changing \cup {"pull.open", "pull.write", "pull.audit", "pull.overrides"}

Due == IF got.changed THEN 1 ELSE 0

\* The overrides on disk are those that a profile q asked for, no later than the
\* template of the pull under way; each restart, the one that is due included,
\* has cost a change up to q.
RestartInv ==
  /\ restarts \in Nat
  /\ \A e \in editions : e <= published
  /\ got.changed => pc \in Changing
  /\ \E q \in editions :
       /\ overrides = Asked(q)
       /\ pc \in WithTemplate => q <= got.template
       /\ restarts + Due <= Cardinality(ChangesUpTo(editions, q))

LEMMA RestartsUntouched ==
  ASSUME ConfigInv, RestartInv, UNCHANGED <<offer, overrides, restarts>>,
         got'.changed \in BOOLEAN,
         got'.changed => got.changed /\ pc' \in Changing,
         pc' \in WithTemplate =>
           \/ pc \in WithTemplate /\ got'.template = got.template
           \/ got'.template = published
  PROVE  RestartInv'
<1>1. PICK q \in editions :
        /\ overrides = Asked(q)
        /\ pc \in WithTemplate => q <= got.template
        /\ restarts + Due <= Cardinality(ChangesUpTo(editions, q))
  BY DEF RestartInv
<1>2. q <= published /\ restarts \in Nat
  BY DEF RestartInv
<1>3. /\ q \in Nat /\ got.template \in Nat /\ published \in Nat
      /\ got.changed \in BOOLEAN
  BY DEF ConfigInv, Pulls
<1>4. UNCHANGED <<editions, published>>
  BY DEF offer
<1>5. pc' \in WithTemplate => q <= got'.template
  BY <1>1, <1>2
<1>6. Cardinality(ChangesUpTo(editions, q)) \in Nat
  <2>1. editions \subseteq Nat /\ q <= q
    BY <1>3 DEF ConfigInv
  <2> QED
    BY <2>1, ChangesGrow
<1>7. restarts' + Due' <= Cardinality(ChangesUpTo(editions, q))
  <2>1. CASE got'.changed
    <3>1. Due = 1 /\ Due' = 1
      BY <2>1 DEF Due
    <3> QED
      BY <1>1, <1>2, <3>1
  <2>2. CASE ~got'.changed
    <3>1. Due' = 0 /\ Due \in {0, 1}
      BY <2>2 DEF Due
    <3> QED
      BY <1>1, <1>2, <1>6, <3>1
  <2> QED
    BY <2>1, <2>2
<1> QED
  BY <1>1, <1>2, <1>4, <1>5, <1>7 DEF RestartInv

\* Overrides that have changed are those of a later template: a change between.
LEMMA OverridesKeepRestarts ==
  ASSUME ConfigInv, RestartInv, WriteOverrides
  PROVE  RestartInv'
<1>1. /\ pc = "pull.overrides" /\ pc' = "pull.parse"
      /\ UNCHANGED <<editions, published, restarts>>
  BY DEF WriteOverrides, Goto, offer
<1>2. PICK q \in editions :
        /\ overrides = Asked(q) /\ q <= got.template
        /\ restarts + Due <= Cardinality(ChangesUpTo(editions, q))
  BY <1>1 DEF RestartInv, WithTemplate
<1>3. /\ editions \subseteq Nat /\ got \in Pulls /\ got.template \in editions
      /\ ~got.changed
  BY <1>1 DEF ConfigInv, RestartInv, Changing
<1>4. Due = 0 /\ restarts \in Nat
  BY <1>3 DEF Due, RestartInv
<1> DEFINE t == got.template
           Grown == Cardinality(ChangesUpTo(editions, t))
<1>5. /\ Cardinality(ChangesUpTo(editions, q)) \in Nat /\ Grown \in Nat
      /\ Cardinality(ChangesUpTo(editions, q)) <= Grown
      /\ Asked(q) # Asked(t) => Cardinality(ChangesUpTo(editions, q)) < Grown
  BY <1>2, <1>3, ChangesGrow
<1>6. CASE /\ overrides' = Asked(t)
           /\ got' = [got EXCEPT !.changed = overrides # Asked(t)]
  <2>1. got'.template = t /\ got'.changed = (Asked(q) # Asked(t))
    BY <1>2, <1>3, <1>6 DEF Pulls
  <2>2. restarts + Due' <= Grown
    <3>1. CASE Asked(q) = Asked(t)
      <4>1. Due' = 0
        BY <2>1, <3>1 DEF Due
      <4> QED
        BY <1>2, <1>4, <1>5, <4>1
    <3>2. CASE Asked(q) # Asked(t)
      <4>1. Due' = 1
        BY <2>1, <3>2 DEF Due
      <4> QED
        BY <1>2, <1>4, <1>5, <3>2, <4>1
    <3> QED
      BY <3>1, <3>2
  <2>3. t \in Nat
    BY <1>3
  <2>4. \E e \in editions' :
          /\ overrides' = Asked(e)
          /\ pc' \in WithTemplate => e <= got'.template
          /\ restarts' + Due' <= Cardinality(ChangesUpTo(editions', e))
    BY <1>1, <1>3, <1>6, <2>1, <2>2, <2>3
  <2> QED
    BY <1>1, <2>4 DEF RestartInv, Changing
<1>7. CASE UNCHANGED <<overrides, got>>
  <2>1. got'.changed \in BOOLEAN
    BY <1>3, <1>7 DEF Pulls
  <2> QED
    BY <1>1, <1>3, <1>7, <2>1, RestartsUntouched DEF offer, WithTemplate
<1> QED
  BY <1>6, <1>7 DEF WriteOverrides

\* The restart that is due happens.
LEMMA FlipKeepsRestarts ==
  ASSUME ConfigInv, RestartInv, FlipState
  PROVE  RestartInv'
<1>1. /\ pc' \in {"stopping", "idle"} /\ got' = NoPull
      /\ UNCHANGED <<editions, published, overrides>>
      /\ \/ got.changed /\ restarts' = restarts + 1
         \/ ~got.changed /\ restarts' = restarts
  BY DEF FlipState, Goto, offer, files
<1>2. PICK q \in editions :
        /\ overrides = Asked(q)
        /\ restarts + Due <= Cardinality(ChangesUpTo(editions, q))
  BY DEF RestartInv
<1>3. Due' = 0 /\ restarts \in Nat /\ restarts' \in Nat
  BY <1>1 DEF Due, NoPull, RestartInv
<1>4. restarts' = restarts + Due
  BY <1>1, <1>3 DEF Due
<1>5. restarts' + Due' = restarts + Due
  BY <1>3, <1>4
<1> QED
  BY <1>1, <1>2, <1>3, <1>5 DEF RestartInv, WithTemplate, Changing, NoPull

LEMMA PublishKeepsRestarts ==
  ASSUME ConfigInv, RestartInv, Publish
  PROVE  RestartInv'
<1>1. /\ published' \in Nat /\ published < published'
      /\ editions' = editions \cup {published'}
      /\ UNCHANGED <<pc, got, overrides, restarts>>
  BY DEF Publish, Profiles, Order, files
<1>2. /\ editions \subseteq Nat /\ published \in Nat
      /\ \A e \in editions : e \in Nat /\ e <= published
  BY DEF ConfigInv, RestartInv
<1>3. \A e \in editions : e < published'
  BY <1>1, <1>2
<1>4. \A q \in editions : ChangesUpTo(editions', q) = ChangesUpTo(editions, q)
  BY <1>1, <1>2, <1>3, ChangesStay
<1>5. \A e \in editions' : e <= published'
  BY <1>1, <1>2, <1>3
<1>6. Due' = Due
  BY <1>1 DEF Due
<1>7. PICK q \in editions :
        /\ overrides = Asked(q)
        /\ pc \in WithTemplate => q <= got.template
        /\ restarts + Due <= Cardinality(ChangesUpTo(editions, q))
  BY DEF RestartInv
<1>8. \E e \in editions' :
        /\ overrides' = Asked(e)
        /\ pc' \in WithTemplate => e <= got'.template
        /\ restarts' + Due' <= Cardinality(ChangesUpTo(editions', e))
  BY <1>1, <1>4, <1>6, <1>7
<1> QED
  BY <1>1, <1>5, <1>8 DEF RestartInv

LEMMA PullKeepsRestarts ==
  ASSUME ConfigInv, RestartInv, Pull
  PROVE  RestartInv'
<1>1. got \in Pulls /\ NoPull \in Pulls /\ ~NoPull.changed
  BY DEF ConfigInv, NoPull, Pulls
<1>2. /\ [got EXCEPT !.bundle = TRUE].template = got.template
      /\ [got EXCEPT !.bundle = TRUE].changed = got.changed
      /\ got.changed \in BOOLEAN /\ NoPull.changed \in BOOLEAN
  BY <1>1 DEF Pulls, NoPull
<1>3. CASE OpenProfileJson \/ WriteProfileJson \/ WriteTemplate
  <2>1. /\ UNCHANGED <<offer, overrides, restarts>>
        /\ pc \in WithTemplate \ Changing
        /\ \/ got' = got
           \/ got' = NoPull /\ pc' = "idle"
    BY <1>3 DEF OpenProfileJson, WriteProfileJson, WriteTemplate, Goto,
       WithTemplate, Changing
  <2>2. ~got.changed
    BY <2>1 DEF RestartInv
  <2> QED
    BY <1>1, <1>2, <2>1, <2>2, RestartsUntouched DEF WithTemplate, Changing
<1>4. CASE ParseTemplate \/ WriteRules \/ ForceReload \/ StoreForced
  <2>1. /\ UNCHANGED <<offer, overrides, restarts>> /\ pc \in WithTemplate
        /\ \/ /\ pc' \in Changing
              /\ got' = got \/ got' = [got EXCEPT !.bundle = TRUE]
           \/ got' = NoPull /\ pc' = "idle"
    BY <1>4 DEF ParseTemplate, WriteRules, ForceReload, StoreForced, Goto,
       files, WithTemplate, Changing
  <2> QED
    BY <1>1, <1>2, <2>1, RestartsUntouched DEF WithTemplate, Changing
<1> QED
  BY <1>3, <1>4, OverridesKeepRestarts, FlipKeepsRestarts DEF Pull

LEMMA NextKeepsRestarts ==
  ASSUME ConfigInv, RestartInv, [Next]_vars
  PROVE  RestartInv'
<1>0. got \in Pulls /\ NoPull \in Pulls
      /\ got.changed \in BOOLEAN /\ NoPull.changed = FALSE
  BY DEF ConfigInv, NoPull, Pulls
<1>1. CASE Heartbeat \/ CommandsDone \/ CheckProfile
  <2>1. /\ UNCHANGED <<offer, overrides, restarts, got>>
        /\ pc \notin Changing /\ pc' \notin WithTemplate
    BY <1>1 DEF Heartbeat, HearVersion, CommandsDone, CheckProfile, DecidePull,
       Goto, profileVars, files, WithTemplate, Changing
  <2>2. ~got.changed
    BY <2>1 DEF RestartInv
  <2> QED
    BY <1>0, <2>1, <2>2, RestartsUntouched
<1>2. CASE Request
  <2>1. /\ UNCHANGED <<offer, overrides, restarts>>
        /\ pc \in {"pull", "pull.template"}
        /\ \/ got' = NoPull /\ pc' = "idle"
           \/ got' = [NoPull EXCEPT !.meta = published] /\ pc' = "pull.template"
           \/ got' = [got EXCEPT !.template = published] /\ pc' = "pull.open"
    BY <1>2 DEF Request, GetMetadata, GetTemplate, PullFails, Requesting, Goto,
       files
  <2>2. ~got.changed
    BY <2>1 DEF RestartInv, Changing
  <2>3. /\ [NoPull EXCEPT !.meta = published].changed = FALSE
        /\ [got EXCEPT !.template = published].changed = got.changed
        /\ [got EXCEPT !.template = published].template = published
    BY <1>0 DEF Pulls, NoPull
  <2> QED
    BY <1>0, <2>1, <2>2, <2>3, RestartsUntouched DEF WithTemplate, Changing
<1>3. CASE CommandStep /\ UNCHANGED profileVars
  <2>1. ~got.changed
    BY <1>3, CommandsElsewhere DEF RestartInv
  <2> QED
    BY <1>0, <1>3, <2>1, CommandsElsewhere, RestartsUntouched
       DEF profileVars, files, WithTemplate
<1>4. CASE Pull
  BY <1>4, PullKeepsRestarts
<1>5. CASE ReloadThread \/ EditRules \/ UNCHANGED vars
           \/ (CommandWorld /\ UNCHANGED profileVars)
  <2>1. UNCHANGED <<offer, overrides, restarts, got, pc>>
    BY <1>5 DEF ReloadThread, Reload, ReloadStarts, ReloadPolls, ReloadParses,
       ReloadStores, process, files, EditRules, Order, vars, profileVars,
       CommandWorld, Issue, Configure, ShellRuns, HolderExits
  <2> QED
    BY <1>0, <2>1, RestartsUntouched DEF RestartInv
<1>6. CASE Crash \/ Stop
  <2>1. pc' = "down" /\ UNCHANGED <<offer, overrides, restarts>> /\ got' = NoPull
    BY <1>6 DEF Crash, Die, Stop, Goto, ProfileDies, files
  <2> QED
    BY <1>0, <2>1, RestartsUntouched DEF WithTemplate, Changing
<1>7. CASE Restart
  <2>1. /\ pc = "down" /\ pc' = "idle" /\ got' = got
        /\ UNCHANGED <<offer, overrides, restarts>>
    BY <1>7 DEF Restart, Boot, Goto, files
  <2>2. ~got.changed
    BY <2>1 DEF RestartInv, Changing
  <2> QED
    BY <1>0, <2>1, <2>2, RestartsUntouched DEF WithTemplate, Changing
<1>8. CASE Publish
  BY <1>8, PublishKeepsRestarts
<1> QED
  BY <1>1, <1>2, <1>3, <1>4, <1>5, <1>6, <1>7, <1>8
     DEF Next, HeartbeatThread, World

\* What the agent restarts for is a change of its overrides on disk
\* (control/sync.rs), so a pull that is forced or repeated, a crash in the middle
\* of one and profiles that were skipped cost no restart more.
THEOREM ControlRestartsBounded == Spec => []RestartsBounded
<1>1. Init => ConfigInv /\ RestartInv
  <2> SUFFICES ASSUME Init PROVE ConfigInv /\ RestartInv
    OBVIOUS
  <2>1. ConfigInv
    BY DEF Init, ProcessInit, ProfileInit, ConfigInv, Effective, Absent, NoPull,
       Pulls, Changing
  <2>2. /\ pc = "idle" /\ editions = {0} /\ published = 0 /\ restarts = 0
        /\ overrides = Asked(0) /\ Due = 0 /\ ~got.changed
    BY DEF Init, ProcessInit, ProfileInit, Asked, Due, NoPull
  <2>3. Cardinality(ChangesUpTo(editions, 0)) \in Nat
    BY <2>2, ChangesGrow
  <2>4. restarts + Due <= Cardinality(ChangesUpTo(editions, 0))
    BY <2>2, <2>3
  <2> QED
    BY <2>1, <2>2, <2>4 DEF RestartInv, WithTemplate, Changing
<1>2. ConfigInv /\ RestartInv => RestartsBounded
  <2> SUFFICES ASSUME ConfigInv, RestartInv PROVE RestartsBounded
    OBVIOUS
  <2> DEFINE All == {p \in editions \ {0} : Asked(p) # Asked(Previous(p))}
  <2>1. PICK q \in editions :
          restarts + Due <= Cardinality(ChangesUpTo(editions, q))
    BY DEF RestartInv
  <2>2. /\ editions \subseteq Nat /\ published \in Nat /\ restarts \in Nat
        /\ Due \in {0, 1}
    BY DEF ConfigInv, RestartInv, Due
  <2>3. IsFiniteSet(All) /\ ChangesUpTo(editions, q) \subseteq All
    <3>1. All \subseteq 0..published
      <4> SUFFICES ASSUME NEW p \in All PROVE p \in 0..published
        OBVIOUS
      <4>1. p \in Nat /\ p <= published
        BY <2>2 DEF RestartInv
      <4> QED
        BY <2>2, <4>1
    <3>2. IsFiniteSet(0..published)
      BY <2>2, FS_Interval
    <3>3. ChangesUpTo(editions, q) \subseteq All
      BY DEF ChangesUpTo, Previous, PreviousIn
    <3> QED
      BY <3>1, <3>2, <3>3, FS_Subset
  <2>4. /\ Cardinality(ChangesUpTo(editions, q)) <= Cardinality(All)
        /\ Cardinality(ChangesUpTo(editions, q)) \in Nat
        /\ Cardinality(All) \in Nat
    BY <2>3, FS_Subset, FS_CardinalityType
  <2>5. restarts <= Cardinality(All)
    BY <2>1, <2>2, <2>4
  <2> QED
    BY <2>5 DEF RestartsBounded
<1>3. ConfigInv /\ RestartInv /\ [Next]_vars => (ConfigInv /\ RestartInv)'
  BY NextKeepsConfig, NextKeepsRestarts
<1> QED
  BY <1>1, <1>2, <1>3, PTL DEF Spec

----------------------------------------------------------------------------
(* What a synchronisation reports: the rules that are accepted              *)

RulesOf(p) == IF p = 0 THEN <<>> ELSE Template[p]
Nothing    == [accepted |-> <<>>, claimed |-> {}, refused |-> 0]

\* The fold of Outcome, as a function of the rules considered.
ParseStep(f, rules, s) ==
  IF s = {} THEN Nothing ELSE Consider(f[s \ {Max(s)}], rules[Max(s)])
IsParse(f, rules) ==
  f = [s \in SUBSET DOMAIN rules |-> ParseStep(f, rules, s)]

LEMMA RulesType ==
  ASSUME NEW p \in Profiles
  PROVE  \E n \in Nat :
           /\ DOMAIN RulesOf(p) = 1..n
           /\ \A i \in 1..n : RulesOf(p)[i] \in [enabled : BOOLEAN, parses : BOOLEAN,
                                                 groups : SUBSET STRING]
<1> DEFINE Rules == [enabled : BOOLEAN, parses : BOOLEAN, groups : SUBSET STRING]
<1>1. Template \in Seq(Seq(Rules))
  BY ProfileAssumption
<1> HIDE DEF Rules
<1>2. CASE p = 0
  <2>1. DOMAIN RulesOf(p) = 1..0
    BY <1>2 DEF RulesOf
  <2>2. \A i \in 1..0 : RulesOf(p)[i] \in Rules
    OBVIOUS
  <2> QED
    BY <2>1, <2>2 DEF Rules
<1>3. CASE p # 0
  <2>1. p \in 1..Len(Template)
    BY <1>1, <1>3 DEF Profiles
  <2>2. Template[p] \in Seq(Rules)
    BY <1>1, <2>1
  <2>3. /\ Len(Template[p]) \in Nat
        /\ DOMAIN Template[p] = 1..Len(Template[p])
        /\ \A i \in 1..Len(Template[p]) : Template[p][i] \in Rules
    BY <2>2
  <2> QED
    BY <1>3, <2>3 DEF RulesOf, Rules
<1> QED
  BY <1>2, <1>3

\* The last of some of the first k rules, and those before it.
LEMMA LastRule ==
  ASSUME NEW k \in Nat, NEW s \in SUBSET (1..k), s # {}
  PROVE  /\ k # 0 /\ k - 1 \in Nat
         /\ Max(s) \in s /\ s \ {Max(s)} \in SUBSET (1..(k - 1))
<1>1. s \subseteq Nat /\ \A y \in s : y <= k
  OBVIOUS
<1>2. Max(s) \in s /\ \A y \in s : y <= Max(s)
  BY <1>1, LastNumber
<1>3. Max(s) \in 1..k
  BY <1>2
<1>4. k # 0 /\ k - 1 \in Nat
  BY <1>3
<1>5. ASSUME NEW y \in s, y # Max(s) PROVE y \in 1..(k - 1)
  <2>1. y \in 1..k /\ y <= Max(s) /\ Max(s) <= k
    BY <1>2, <1>3
  <2> QED
    BY <1>3, <1>5, <2>1
<1> QED
  BY <1>2, <1>4, <1>5

LEMMA ParseExists ==
  ASSUME NEW rules, NEW n \in Nat, DOMAIN rules = 1..n
  PROVE  \E f : IsParse(f, rules)
<1> DEFINE Upto(f, k) == \A s \in SUBSET (1..k) : f[s] = ParseStep(f, rules, s)
           Missing == {k \in Nat : ~\E f : Upto(f, k)}
<1>1. 0 \notin Missing
  <2> DEFINE f == [s \in SUBSET (1..0) |-> Nothing]
  <2>1. \A s \in SUBSET (1..0) : s = {}
    OBVIOUS
  <2>2. Upto(f, 0)
    BY <2>1 DEF ParseStep
  <2> QED
    BY <2>2
<1>2. ASSUME NEW k \in Nat, k # 0, k - 1 \notin Missing PROVE k \notin Missing
  <2>1. k - 1 \in Nat
    BY <1>2
  <2>2. PICK f : Upto(f, k - 1)
    BY <1>2, <2>1
  <2> DEFINE h == [s \in SUBSET (1..k) |-> ParseStep(f, rules, s)]
  <2>3. ASSUME NEW s \in SUBSET (1..k) PROVE h[s] = ParseStep(h, rules, s)
    <3>1. CASE s = {}
      BY <3>1 DEF ParseStep
    <3>2. CASE s # {}
      <4> DEFINE r == s \ {Max(s)}
      <4>1. r \in SUBSET (1..(k - 1)) /\ r \in SUBSET (1..k)
        BY <3>2, LastRule
      <4>2. h[r] = f[r]
        BY <2>2, <4>1
      <4> QED
        BY <3>2, <4>2 DEF ParseStep
    <3> QED
      BY <3>1, <3>2
  <2>4. Upto(h, k)
    BY <2>3
  <2> HIDE DEF h, Upto
  <2>5. \E e : Upto(e, k)
    BY <2>4
  <2> QED
    BY <2>5
<1> HIDE DEF Missing
<1>3. Missing = {}
  <2> SUFFICES ASSUME Missing # {} PROVE FALSE
    OBVIOUS
  <2>1. Missing \subseteq Nat
    BY DEF Missing
  <2>2. PICK k \in Missing : \A j \in Missing : k <= j
    BY <2>1, FirstNumber
  <2>3. k \in Nat /\ k # 0
    BY <1>1, <2>1, <2>2
  <2>4. k - 1 \in Nat /\ ~(k <= k - 1)
    BY <2>3
  <2> QED
    BY <1>2, <2>2, <2>3, <2>4
<1>4. PICK f : Upto(f, n)
  BY <1>3 DEF Missing
<1> DEFINE h == [s \in SUBSET (1..n) |-> f[s]]
<1>5. \A s \in SUBSET (1..n) : h[s] = ParseStep(f, rules, s)
  BY <1>4
<1>6. ASSUME NEW s \in SUBSET (1..n)
      PROVE  ParseStep(f, rules, s) = ParseStep(h, rules, s)
  <2>1. s \ {Max(s)} \in SUBSET (1..n)
    OBVIOUS
  <2>2. h[s \ {Max(s)}] = f[s \ {Max(s)}]
    BY <2>1
  <2> QED
    BY <2>2 DEF ParseStep
<1>7. h = [s \in SUBSET (1..n) |-> ParseStep(h, rules, s)]
  BY <1>5, <1>6
<1> QED
  BY <1>7 DEF IsParse

\* What is accepted is in the template, and declares no group twice.
SoundOutcome(o, rules) ==
  /\ o.accepted \in Seq({rules[i] : i \in DOMAIN rules})
  /\ \A i \in 1..Len(o.accepted) :
       /\ o.accepted[i].groups \subseteq o.claimed
       /\ \A j \in 1..(i - 1) :
            o.accepted[i].groups \cap o.accepted[j].groups = {}
  /\ o = [accepted |-> o.accepted, claimed |-> o.claimed, refused |-> o.refused]

LEMMA ConsiderKeepsSound ==
  ASSUME NEW rules, NEW o, SoundOutcome(o, rules), NEW k \in DOMAIN rules
  PROVE  SoundOutcome(Consider(o, rules[k]), rules)
<1> DEFINE rule == rules[k]
           R == {rules[i] : i \in DOMAIN rules}
           more == Append(o.accepted, rule)
<1>1. /\ o.accepted \in Seq(R) /\ rule \in R
      /\ o = [accepted |-> o.accepted, claimed |-> o.claimed, refused |-> o.refused]
  BY DEF SoundOutcome
<1>2. CASE ~rule.enabled
  BY <1>2 DEF Consider
<1>3. CASE /\ rule.enabled
           /\ ~rule.parses \/ rule.groups \cap o.claimed # {}
  <2>1. /\ Consider(o, rule).accepted = o.accepted
        /\ Consider(o, rule).claimed = o.claimed
        /\ Consider(o, rule) = [accepted |-> o.accepted, claimed |-> o.claimed,
                                refused |-> o.refused + 1]
    BY <1>1, <1>3 DEF Consider
  <2> QED
    BY <2>1 DEF SoundOutcome
<1>4. CASE /\ rule.enabled /\ rule.parses
           /\ rule.groups \cap o.claimed = {}
  <2>1. /\ Consider(o, rule).accepted = more
        /\ Consider(o, rule).claimed = o.claimed \cup rule.groups
        /\ Consider(o, rule) = [accepted |-> more,
                                claimed |-> o.claimed \cup rule.groups,
                                refused |-> o.refused]
    BY <1>1, <1>4 DEF Consider
  <2> HIDE DEF rule, R
  <2>2. /\ more \in Seq(R) /\ Len(more) = Len(o.accepted) + 1
        /\ Len(o.accepted) \in Nat
        /\ more[Len(o.accepted) + 1] = rule
        /\ \A i \in 1..Len(o.accepted) : more[i] = o.accepted[i]
    BY <1>1
  <2> HIDE DEF more
  <2>3. ASSUME NEW i \in 1..Len(more)
        PROVE  /\ more[i].groups \subseteq o.claimed \cup rule.groups
               /\ \A j \in 1..(i - 1) : more[i].groups \cap more[j].groups = {}
    <3>1. CASE i \in 1..Len(o.accepted)
      <4>1. \A j \in 1..(i - 1) : j \in 1..Len(o.accepted)
        BY <2>2, <3>1
      <4> QED
        BY <2>2, <3>1, <4>1 DEF SoundOutcome
    <3>2. CASE i = Len(o.accepted) + 1
      <4>1. \A j \in 1..(i - 1) : j \in 1..Len(o.accepted)
        BY <2>2, <3>2
      <4>2. \A j \in 1..(i - 1) : more[j].groups \subseteq o.claimed
        BY <2>2, <4>1 DEF SoundOutcome
      <4> QED
        BY <1>4, <2>2, <3>2, <4>2
    <3> QED
      BY <2>2, <3>1, <3>2
  <2> DEFINE next == Consider(o, rule)
  <2>4. /\ next.accepted = more /\ next.claimed = o.claimed \cup rule.groups
        /\ next = [accepted |-> next.accepted, claimed |-> next.claimed,
                   refused |-> next.refused]
    BY <2>1
  <2> HIDE DEF next
  <2>5. SoundOutcome(next, rules)
    BY <2>2, <2>3, <2>4 DEF SoundOutcome, R
  <2> QED
    BY <2>5 DEF next, rule
<1> QED
  BY <1>2, <1>3, <1>4

LEMMA OutcomeIsSound ==
  ASSUME NEW p \in Profiles
  PROVE  SoundOutcome(Outcome(p), RulesOf(p))
<1> DEFINE rules == RulesOf(p)
           fold == CHOOSE f : IsParse(f, rules)
<1>1. PICK n \in Nat : DOMAIN rules = 1..n
  BY RulesType
<1>2. Outcome(p) = fold[DOMAIN rules]
  BY DEF Outcome, FoldLeft, MapThenFoldSet, IsParse, ParseStep, RulesOf, Nothing
<1>3. IsParse(fold, rules)
  BY <1>1, ParseExists
<1> HIDE DEF rules, fold
<1>4. \A s \in SUBSET (1..n) : fold[s] = ParseStep(fold, rules, s)
  BY <1>1, <1>3 DEF IsParse
<1> DEFINE Unsound == {k \in 0..n : \E s \in SUBSET (1..k) :
                                      ~SoundOutcome(fold[s], rules)}
<1>5. Unsound = {}
  <2> SUFFICES ASSUME Unsound # {} PROVE FALSE
    OBVIOUS
  <2>1. Unsound \subseteq Nat
    OBVIOUS
  <2>2. PICK k \in Unsound : \A j \in Unsound : k <= j
    BY <2>1, FirstNumber
  <2>3. k \in Nat /\ k <= n
    OBVIOUS
  <2>4. PICK s \in SUBSET (1..k) : ~SoundOutcome(fold[s], rules)
    BY <2>2
  <2>5. s \in SUBSET (1..n) /\ fold[s] = ParseStep(fold, rules, s)
    BY <1>4, <2>3
  <2>6. CASE s = {}
    <3>1. fold[s] = Nothing
      BY <2>5, <2>6 DEF ParseStep
    <3>2. SoundOutcome(Nothing, rules)
      BY DEF SoundOutcome, Nothing
    <3> QED
      BY <2>4, <3>1, <3>2
  <2>7. CASE s # {}
    <3> DEFINE r == s \ {Max(s)}
    <3>1. k - 1 \in Nat /\ Max(s) \in s /\ r \in SUBSET (1..(k - 1))
      BY <2>3, <2>7, LastRule
    <3>2. k - 1 \notin Unsound
      <4>1. ~(k <= k - 1)
        BY <2>3
      <4> QED
        BY <2>2, <4>1
    <3>3. k - 1 \in 0..n
      BY <2>3, <3>1
    <3>4. SoundOutcome(fold[r], rules)
      BY <3>1, <3>2, <3>3
    <3>5. fold[s] = Consider(fold[r], rules[Max(s)])
      BY <2>5, <2>7 DEF ParseStep
    <3>6. Max(s) \in DOMAIN rules
      BY <1>1, <2>5, <3>1
    <3> QED
      BY <2>4, <3>4, <3>5, <3>6, ConsiderKeepsSound
  <2> QED
    BY <2>6, <2>7
<1>6. n \notin Unsound /\ n \in 0..n /\ 1..n \in SUBSET (1..n)
  BY <1>5
<1>7. SoundOutcome(fold[1..n], rules)
  BY <1>6
<1> QED
  BY <1>1, <1>2, <1>7 DEF rules

----------------------------------------------------------------------------
(* What a synchronisation reports: the rules that are in force              *)

Applying == {"pull.reload", "pull.store", "pull.flip"}

\* The rules of p are on disk and, but for a reload that came late, in memory.
InForce(p) ==
  /\ serverFile = p
  /\ engine = Off \/ raced \/ engine.server = p

LocalCause ==
  \/ faults > 0
  \/ \E e \in 0..localFile : \/ e \in Unparsable
                             \/ \E p \in editions \ {0} :
                                  GroupsOf(p) \cap LocalGroups[e] # {}

\* From the write of the rules to the report, what is to be reported is in
\* force or has failed, and then for a local cause; after it, what was.
ReportInv ==
  /\ editions \subseteq Profiles /\ localFile \in Nat /\ faults \in Nat
  /\ "bundle" \in errors \/ got.bundle => LocalCause
  /\ got.bundle => pc = "pull.flip"
  /\ pc \in {"pull.reload", "pull.store"} => serverFile = got.template
  /\ pc = "pull.store" =>
       read.local \in 0..localFile /\ read.server = got.template
  /\ pc = "pull.flip" => got.bundle \/ InForce(got.template)
  /\ pc \notin Applying /\ applied # Cut =>
       "bundle" \in errors \/ InForce(applied)

\* The rules of the server are refused only for those of the operator: none of
\* theirs collide.
LEMMA RefusedForLocal ==
  ASSUME NEW f, f.server \in Profiles, ~Loads(f)
  PROVE  \/ f.local \in Unparsable
         \/ f.server # 0 /\ GroupsOf(f.server) \cap LocalGroups[f.local] # {}
<1> DEFINE p == f.server
           o == Outcome(p)
<1>1. SoundOutcome(o, RulesOf(p))
  BY OutcomeIsSound
<1>2. PICK n \in Nat : DOMAIN RulesOf(p) = 1..n
  BY RulesType
<1>3. CASE f.local \in Unparsable
  BY <1>3
<1>4. CASE f.local \notin Unparsable
  <2>1. PICK i \in 1..Len(o.accepted) :
          o.accepted[i].groups \cap LocalGroups[f.local] # {}
    BY <1>1, <1>4 DEF Loads, SoundOutcome
  <2>2. o.accepted[i] \in {RulesOf(p)[k] : k \in DOMAIN RulesOf(p)}
    BY <1>1 DEF SoundOutcome
  <2>3. PICK k \in DOMAIN RulesOf(p) : o.accepted[i] = RulesOf(p)[k]
    BY <2>2
  <2>4. p # 0
    BY <2>3 DEF RulesOf
  <2>5. k \in DOMAIN Template[p] /\ o.accepted[i] = Template[p][k]
    BY <2>3, <2>4 DEF RulesOf
  <2>6. DOMAIN Template[p] = 1..Len(Template[p])
    <3>1. p \in 1..Len(Template)
      BY <2>4, ProfileAssumption DEF Profiles
    <3> QED
      BY <3>1, ProfileAssumption
  <2>7. o.accepted[i].groups \subseteq GroupsOf(p)
    BY <2>5, <2>6 DEF GroupsOf
  <2> QED
    BY <2>1, <2>4, <2>7
<1> QED
  BY <1>3, <1>4

\* A cause stays one.
LEMMA CauseStays ==
  ASSUME LocalCause, faults \in Nat, faults' \in Nat, faults <= faults',
         localFile \in Nat, localFile' \in Nat, localFile <= localFile',
         editions \subseteq editions'
  PROVE  LocalCause'
<1>1. CASE faults > 0
  BY <1>1 DEF LocalCause
<1>2. CASE \E e \in 0..localFile :
             \/ e \in Unparsable
             \/ \E p \in editions \ {0} : GroupsOf(p) \cap LocalGroups[e] # {}
  <2>1. PICK e \in 0..localFile :
          \/ e \in Unparsable
          \/ \E p \in editions \ {0} : GroupsOf(p) \cap LocalGroups[e] # {}
    BY <1>2
  <2>2. e \in 0..localFile'
    OBVIOUS
  <2> QED
    BY <2>1, <2>2 DEF LocalCause
<1> QED
  BY <1>1, <1>2 DEF LocalCause

LEMMA FaultCounts ==
  ASSUME faults \in Nat, NoFault \/ Fault
  PROVE  faults' \in Nat /\ faults <= faults' /\ (Fault => faults' > 0)
<1>1. CASE NoFault
  BY <1>1 DEF NoFault, Fault
<1>2. CASE Fault
  BY <1>2 DEF Fault
<1> QED
  BY <1>1, <1>2

LEMMA ReportUntouched ==
  ASSUME ReportInv, NoFault \/ Fault,
         UNCHANGED <<offer, serverFile, localFile, errors, applied, engine, raced>>,
         \/ UNCHANGED <<pc, got, read>>
         \/ pc \notin Applying /\ pc' \notin Applying /\ got'.bundle = FALSE
  PROVE  ReportInv'
<1>1. /\ faults' \in Nat /\ faults <= faults' /\ faults \in Nat
      /\ localFile \in Nat /\ editions' = editions
  BY FaultCounts DEF ReportInv, offer
<1>2. LocalCause => LocalCause'
  BY <1>1, CauseStays
<1>3. \A p : InForce(p) => InForce(p)'
  BY DEF InForce
<1>4. CASE UNCHANGED <<pc, got, read>>
  BY <1>1, <1>2, <1>3, <1>4 DEF ReportInv, InForce
<1>5. CASE pc \notin Applying /\ pc' \notin Applying /\ got'.bundle = FALSE
  BY <1>1, <1>2, <1>5 DEF ReportInv, InForce, Applying
<1> QED
  BY <1>4, <1>5

LEMMA WriteKeepsReport ==
  ASSUME ConfigInv, ReportInv, WriteRules
  PROVE  ReportInv'
<1>1. /\ pc = "pull.rules" /\ got \in Pulls
      /\ UNCHANGED <<editions, localFile, errors, applied, engine, raced>>
  BY DEF WriteRules, offer, memory, detection, ConfigInv
<1>2. NoFault \/ Fault
  BY DEF WriteRules
<1>3. /\ faults' \in Nat /\ faults <= faults' /\ faults \in Nat
      /\ localFile \in Nat /\ (Fault => faults' > 0)
  BY <1>2, FaultCounts DEF ReportInv
<1>4. LocalCause => LocalCause'
  BY <1>1, <1>3, CauseStays
<1>5. CASE /\ serverFile' = got.template /\ UNCHANGED got
           /\ Goto(IF engine = Off THEN "pull.flip" ELSE "pull.reload")
  BY <1>1, <1>3, <1>4, <1>5 DEF ReportInv, InForce, Applying, Goto
<1>6. CASE /\ Fault /\ got' = [got EXCEPT !.bundle = TRUE]
           /\ Goto("pull.flip") /\ UNCHANGED serverFile
  <2>1. got'.bundle = TRUE /\ LocalCause' /\ pc' = "pull.flip"
    BY <1>1, <1>3, <1>6 DEF Pulls, LocalCause, Goto
  <2> QED
    BY <1>1, <1>3, <2>1 DEF ReportInv, Applying
<1> QED
  BY <1>5, <1>6 DEF WriteRules

LEMMA ForceKeepsReport ==
  ASSUME ReportInv, ForceReload
  PROVE  ReportInv'
<1>1. /\ pc = "pull.reload" /\ pc' = "pull.store" /\ read' = OnDisk
      /\ UNCHANGED <<faults, editions, got, serverFile, localFile, errors>>
  BY DEF ForceReload, Goto, NoFault, offer, files, memory
<1>2. read'.local = localFile /\ read'.server = serverFile
  BY <1>1 DEF OnDisk
<1>3. LocalCause' = LocalCause
  BY <1>1 DEF LocalCause
<1> QED
  BY <1>1, <1>2, <1>3 DEF ReportInv, Applying

LEMMA StoreKeepsReport ==
  ASSUME ConfigInv, ReportInv, StoreForced
  PROVE  ReportInv'
<1>1. /\ pc = "pull.store" /\ pc' = "pull.flip"
      /\ UNCHANGED <<faults, editions, serverFile, localFile, errors>>
  BY DEF StoreForced, Goto, NoFault, offer, files, memory
<1>2. LocalCause' = LocalCause
  BY <1>1 DEF LocalCause
<1>3. /\ read.server = got.template /\ read.local \in 0..localFile
      /\ serverFile = got.template /\ got.template \in editions
      /\ editions \subseteq Profiles /\ got \in Pulls /\ localFile \in Nat
  BY <1>1 DEF ReportInv, ConfigInv, Changing
<1>4. CASE Loads(read)
  <2>1. engine' = read /\ raced' = FALSE /\ got' = got
    BY <1>4 DEF StoreForced
  <2> QED
    BY <1>1, <1>2, <1>3, <2>1 DEF ReportInv, InForce, Applying
<1>5. CASE ~Loads(read)
  <2>1. got' = [got EXCEPT !.bundle = TRUE]
    BY <1>5 DEF StoreForced
  <2>2. got'.bundle = TRUE
    BY <1>3, <2>1 DEF Pulls
  <2>3. \/ read.local \in Unparsable
        \/ got.template # 0
           /\ GroupsOf(got.template) \cap LocalGroups[read.local] # {}
    BY <1>3, <1>5, RefusedForLocal
  <2>4. LocalCause
    BY <1>3, <2>3 DEF LocalCause
  <2> QED
    BY <1>1, <1>2, <2>2, <2>4 DEF ReportInv, Applying
<1> QED
  BY <1>4, <1>5

LEMMA FlipKeepsReport ==
  ASSUME ReportInv, FlipState
  PROVE  ReportInv'
<1>1. /\ pc = "pull.flip" /\ pc' \in {"stopping", "idle"} /\ got' = NoPull
      /\ applied' = got.template
      /\ UNCHANGED <<faults, editions, serverFile, localFile, engine, raced>>
  BY DEF FlipState, Goto, NoFault, offer, files, detection
<1>2. "bundle" \in errors' <=> got.bundle
  BY DEF FlipState
<1>3. LocalCause' = LocalCause
  BY <1>1 DEF LocalCause
<1> QED
  BY <1>1, <1>2, <1>3 DEF ReportInv, InForce, Applying, NoPull

LEMMA PullKeepsReport ==
  ASSUME ConfigInv, ReportInv, Pull
  PROVE  ReportInv'
<1>1. CASE \/ OpenProfileJson \/ WriteProfileJson \/ WriteTemplate
           \/ WriteOverrides \/ ParseTemplate
  <2>1. /\ NoFault \/ Fault
        /\ UNCHANGED <<offer, serverFile, localFile, errors, applied, engine, raced>>
        /\ pc \notin Applying /\ pc' \notin Applying
    BY <1>1 DEF OpenProfileJson, WriteProfileJson, WriteTemplate,
       WriteOverrides, ParseTemplate, Goto, files, memory, detection, Applying
  <2>2. \/ got' = got \/ got' = NoPull
        \/ \E b : got' = [got EXCEPT !.changed = b]
    BY <1>1 DEF OpenProfileJson, WriteProfileJson, WriteTemplate,
       WriteOverrides, ParseTemplate
  <2>3. got \in Pulls /\ ~got.bundle
    BY <2>1 DEF ReportInv, ConfigInv, Applying
  <2>4. got'.bundle = FALSE
    BY <2>2, <2>3 DEF NoPull, Pulls
  <2> QED
    BY <2>1, <2>4, ReportUntouched
<1> QED
  BY <1>1, WriteKeepsReport, ForceKeepsReport, StoreKeepsReport, FlipKeepsReport
     DEF Pull

\* The reload thread knows whether what it stores is still on disk.
LEMMA ReloadKeepsReport ==
  ASSUME ReportInv, ReloadThread
  PROVE  ReportInv'
<1>1. UNCHANGED <<pc, faults, offer, got, serverFile, localFile, errors, applied, read>>
  BY DEF ReloadThread, Reload, ReloadStarts, ReloadPolls, ReloadParses,
     ReloadStores, process, files, memory
<1>2. CASE UNCHANGED <<engine, raced>>
  BY <1>1, <1>2, ReportUntouched DEF NoFault
<1>3. CASE engine' = reload.files /\ raced' = (reload.files.server # serverFile)
  <2>1. LocalCause' = LocalCause
    BY <1>1 DEF LocalCause, offer
  <2>2. \A p : InForce(p) => serverFile' = p /\ (raced' \/ engine'.server = p)
    BY <1>1, <1>3 DEF InForce
  <2> QED
    BY <1>1, <2>1, <2>2 DEF ReportInv, InForce, offer
<1> QED
  BY <1>2, <1>3 DEF ReloadThread, Reload, ReloadStarts, ReloadPolls,
     ReloadParses, ReloadStores

\* Commands and requests fail, but write no rules.
LEMMA CommandFaults == CommandStep => NoFault \/ Fault
<1> SUFFICES ASSUME CommandStep PROVE NoFault \/ Fault
  OBVIOUS
<1>1. CASE Dispatch \/ AckCommand \/ Simple \/ Update
  BY <1>1 DEF Dispatch, AckCommand, Record, AckLost, Simple, KillProcess, ScanNow,
     NoOpAck, Update, UpdateDownload, UpdateLaunch
<1>2. CASE Isolate
  BY <1>2 DEF Isolate, ResolveHosts, SaveFirewall, ResetRules,
     BlockAll, AllowLoopback, AllowServer, AllowDhcp, ReportIsolated, Netsh
<1>3. CASE Unisolate
  BY <1>3 DEF Unisolate, ImportBackup, RemoveBackup, FallbackReset,
     FallbackPolicy, ReportUnisolated, Netsh
<1>4. CASE Quarantine \/ Shell
  BY <1>4 DEF Quarantine, QuarantineChecks, QuarantineRename, QuarantineCopy,
     QuarantineRemove, Shell, ShellSpawn, ShellReaped, ShellTimesOut,
     ShellWaitFails, ShellRead
<1> QED
  BY <1>1, <1>2, <1>3, <1>4 DEF CommandStep

LEMMA NextKeepsReport ==
  ASSUME ConfigInv, ReportInv, [Next]_vars
  PROVE  ReportInv'
<1>0. got \in Pulls
  BY DEF ConfigInv
<1>1. CASE Heartbeat \/ CommandsDone \/ CheckProfile
  <2>1. /\ UNCHANGED <<offer, serverFile, localFile, errors, applied, engine, raced, got>>
        /\ NoFault /\ pc \notin Applying /\ pc' \notin Applying
    BY <1>1 DEF Heartbeat, HearVersion, CommandsDone, CheckProfile, DecidePull,
       Goto, profileVars, files, memory, detection, Applying
  <2>2. got.bundle = FALSE
    BY <1>0, <2>1 DEF ReportInv, Pulls, Applying
  <2> QED
    BY <2>1, <2>2, ReportUntouched
<1>2. CASE Request
  <2>1. /\ UNCHANGED <<offer, serverFile, localFile, errors, applied, engine, raced>>
        /\ pc \notin Applying /\ pc' \notin Applying
        /\ \/ got' = NoPull \/ got' = [NoPull EXCEPT !.meta = published]
           \/ got' = [got EXCEPT !.template = published]
    BY <1>2 DEF Request, GetMetadata, GetTemplate, PullFails, Requesting, Goto,
       files, memory, detection, Applying
  <2>2. NoFault \/ Fault
    BY <1>2 DEF Request
  <2>3. got.bundle = FALSE
    BY <1>0, <2>1 DEF ReportInv, Pulls, Applying
  <2>4. got'.bundle = FALSE
    BY <1>0, <2>1, <2>3 DEF NoPull, Pulls
  <2> QED
    BY <2>1, <2>2, <2>4, ReportUntouched
<1>3. CASE CommandStep /\ UNCHANGED profileVars
  <2>1. /\ UNCHANGED <<offer, serverFile, localFile, errors, applied, engine, raced, got>>
        /\ pc \notin Applying /\ pc' \notin Applying
    BY <1>3, CommandsElsewhere
       DEF profileVars, files, memory, detection, Applying, Changing
  <2>2. got.bundle = FALSE
    BY <1>0, <2>1 DEF ReportInv, Pulls, Applying
  <2> QED
    BY <1>3, <2>1, <2>2, CommandFaults, ReportUntouched
<1>4. CASE Pull
  BY <1>4, PullKeepsReport
<1>5. CASE ReloadThread
  BY <1>5, ReloadKeepsReport
<1>6. CASE \/ UNCHANGED vars
           \/ (CommandWorld /\ UNCHANGED profileVars)
  <2>1. /\ UNCHANGED <<offer, serverFile, localFile, errors, applied, engine, raced>>
        /\ UNCHANGED <<pc, got, read>> /\ NoFault
    BY <1>6 DEF vars, process, profileVars, files, memory, detection, Order,
       CommandWorld, Issue, Configure, ShellRuns, HolderExits, NoFault
  <2> QED
    BY <2>1, ReportUntouched
<1>7. CASE Crash \/ Stop
  <2>1. /\ pc' = "down" /\ got' = NoPull /\ errors' = {} /\ applied' = Cut
        /\ UNCHANGED <<faults, editions, serverFile, localFile>>
    BY <1>7 DEF Crash, Die, Stop, Goto, NoFault, ProfileDies, files, offer
  <2> QED
    BY <2>1 DEF ReportInv, NoPull, Applying
<1>8. CASE Restart
  <2>1. /\ pc = "down" /\ pc' = "idle" /\ got' = got
        /\ engine' = OnDisk \/ engine' = Off
        /\ UNCHANGED <<faults, editions, serverFile, localFile, errors, applied>>
    BY <1>8 DEF Restart, Boot, Goto, NoFault, files, offer
  <2>2. \A p : InForce(p) => InForce(p)'
    BY <2>1 DEF InForce, OnDisk
  <2>3. LocalCause' = LocalCause
    BY <2>1 DEF LocalCause
  <2> QED
    BY <2>1, <2>2, <2>3 DEF ReportInv, InForce, OnDisk, Applying
<1>9. CASE Publish \/ EditRules
  <2>1. /\ localFile' \in Nat /\ localFile <= localFile'
        /\ editions' \subseteq Profiles /\ editions \subseteq editions'
        /\ UNCHANGED <<pc, faults, got, read, serverFile, errors, applied, engine,
                       raced>>
    <3>1. localFile \in Nat /\ editions \subseteq Profiles
      BY DEF ReportInv
    <3>2. CASE Publish
      BY <3>1, <3>2 DEF Publish, Order, files, memory, detection
    <3>3. CASE EditRules
      BY <3>1, <3>3, ProfileAssumption
         DEF EditRules, Order, offer, memory, detection
    <3> QED
      BY <1>9, <3>2, <3>3
  <2>2. LocalCause => LocalCause'
    BY <2>1, CauseStays DEF ReportInv
  <2>3. pc = "pull.store" => read.local \in 0..localFile'
    BY <2>1 DEF ReportInv
  <2> QED
    BY <2>1, <2>2, <2>3 DEF ReportInv, InForce
<1> QED
  BY <1>1, <1>2, <1>3, <1>4, <1>5, <1>6, <1>7, <1>8, <1>9
     DEF Next, HeartbeatThread, World

\* apply_template (control/sync.rs) reports what the engine runs, or that it
\* does not; and the parser refuses the whole only for what is local: rules of
\* the server that collide have been sorted out by the check of each of them.
THEOREM ControlAppliedOrReported == Spec => []AppliedOrReported
<1>1. Init => ConfigInv /\ ReportInv
  <2> SUFFICES ASSUME Init PROVE ConfigInv /\ ReportInv
    OBVIOUS
  <2>1. ConfigInv
    BY DEF Init, ProcessInit, ProfileInit, ConfigInv, Effective, Absent, NoPull,
       Pulls, Changing
  <2>2. 0 \in Profiles
    BY ProfileAssumption DEF Profiles
  <2>3. ReportInv
    BY <2>2 DEF Init, ProcessInit, ProfileInit, ReportInv, NoPull, Applying
  <2> QED
    BY <2>1, <2>3
<1>2. ReportInv => AppliedOrReported
  <2> SUFFICES ASSUME ReportInv PROVE AppliedOrReported
    OBVIOUS
  <2>1. ~InPull => pc \notin Applying
    BY DEF InPull, Applying
  <2>2. RefusalIsLocal
    BY DEF ReportInv, RefusalIsLocal, LocalCause
  <2> QED
    BY <2>1, <2>2 DEF ReportInv, AppliedOrReported, InForce
<1>3. ConfigInv /\ ReportInv /\ [Next]_vars => (ConfigInv /\ ReportInv)'
  BY NextKeepsConfig, NextKeepsReport
<1> QED
  BY <1>1, <1>2, <1>3, PTL DEF Spec

----------------------------------------------------------------------------
(* The types                                                                *)

\* A command whose execution is under way is one the server has issued.
TypeInv ==
  /\ TypeOK
  /\ pc \notin Between => current \in CommandOut

LEMMA PlacesTyped ==
  ASSUME TypeInv, [Next]_vars
  PROVE  pc' \in Places /\ ProcessTypes'
<1> USE ProcessAssumption
<1>1. ASSUME UNCHANGED <<orders, crashes>>, NoFault \/ Fault
      PROVE  ProcessTypes'
  BY <1>1 DEF NoFault, Fault, TypeInv, TypeOK, ProcessTypes
<1>2. CASE Heartbeat \/ CommandsDone \/ CheckProfile
  BY <1>1, <1>2 DEF Heartbeat, CommandsDone, CheckProfile, DecidePull, Goto, Places
<1>3. CASE Request
  BY <1>1, <1>3 DEF Request, GetMetadata, GetTemplate, PullFails, Goto, Places
<1>4. CASE CommandStep
  <2>1. NoFault \/ Fault
    BY <1>4, CommandFaults
  <2>2. CASE Dispatch \/ AckCommand \/ Simple \/ Quarantine
    <3>1. UNCHANGED <<orders, crashes>> /\ pc' \in Places
      BY <2>2 DEF Dispatch, AckCommand, Simple, KillProcess, ScanNow, NoOpAck,
         Quarantine, QuarantineChecks, QuarantineRename, QuarantineCopy,
         QuarantineRemove, Answer, Goto, Places
    <3> QED
      BY <1>1, <2>1, <3>1
  <2>3. CASE Isolate \/ Unisolate
    <3>1. UNCHANGED <<orders, crashes>> /\ pc' \in Places
      BY <2>3 DEF Isolate, Unisolate, ResolveHosts, SaveFirewall, ResetRules,
         BlockAll, AllowLoopback, AllowServer, AllowDhcp, ReportIsolated,
         ImportBackup, RemoveBackup, FallbackReset, FallbackPolicy,
         ReportUnisolated, Answer, Goto, Places
    <3> QED
      BY <1>1, <2>1, <3>1
  <2>4. CASE Shell \/ Update
    <3>1. UNCHANGED <<orders, crashes>> /\ pc' \in Places
      BY <2>4 DEF Shell, ShellSpawn, ShellReaped, ShellTimesOut, ShellWaitFails,
         ShellRead, Update, UpdateDownload, UpdateLaunch, Answer, Goto, Places
    <3> QED
      BY <1>1, <2>1, <3>1
  <2> QED
    BY <1>4, <2>2, <2>3, <2>4 DEF CommandStep
<1>5. CASE Pull
  <2>1. UNCHANGED <<orders, crashes>> /\ pc' \in Places /\ (NoFault \/ Fault)
    BY <1>5 DEF Pull, OpenProfileJson, WriteProfileJson, WriteTemplate,
       WriteOverrides, ParseTemplate, WriteRules, ForceReload, StoreForced,
       FlipState, Goto, Places
  <2> QED
    BY <1>1, <2>1
<1>6. CASE ReloadThread \/ UNCHANGED vars
  BY <1>6 DEF ReloadThread, Reload, ReloadStarts, ReloadPolls, ReloadParses,
     ReloadStores, vars, process, TypeInv, TypeOK, ProcessTypes
<1>7. CASE Crash
  BY <1>7 DEF Crash, Die, Places, TypeInv, TypeOK, ProcessTypes
<1>8. CASE Stop \/ Restart
  BY <1>1, <1>8 DEF Stop, Restart, Goto, Places
<1>9. CASE World
  <2>1. \/ UNCHANGED process
        \/ Order
    BY <1>9 DEF World, CommandWorld, Issue, Configure, ShellRuns, HolderExits,
       Publish, EditRules
  <2> QED
    BY <2>1 DEF Order, process, TypeInv, TypeOK, ProcessTypes
<1> QED
  BY <1>2, <1>3, <1>4, <1>5, <1>6, <1>7, <1>8, <1>9 DEF Next, HeartbeatThread

Runs   == [ip : BOOLEAN, ok : BOOLEAN]
Shells == [child : {"none", "runs", "blocked", "exited", "killed"}, held : BOOLEAN]
TwoPlaces == [src : BOOLEAN, dst : {"none", "part", "whole"}]

LEMMA RunsTyped ==
  \A ip, ok \in BOOLEAN : [ip |-> ip, ok |-> ok] \in Runs
BY DEF Runs

LEMMA ShellsTyped ==
  \A child \in {"none", "runs", "blocked", "exited", "killed"}, held \in BOOLEAN :
    [child |-> child, held |-> held] \in Shells
BY DEF Shells

\* The steps of an isolation, or of its end, on the firewall.
LEMMA FirewallTyped ==
  ASSUME IsolationTypes, Isolate \/ Unisolate
  PROVE  IsolationTypes'
<1> USE ProcessAssumption DEF IsolationTypes
<1>1. Defaults \in Firewalls
  BY DEF Defaults, Configured, Firewalls
<1>2. \A rule \in AllowRules : Allow(rule) \in Firewalls
  BY DEF Allow, Firewalls
<1>3. ASSUME NEW b \in BOOLEAN PROVE [fw EXCEPT !.block = b] \in Firewalls
  BY DEF Firewalls
<1>4. /\ [run EXCEPT !.ok = FALSE] \in [ip : BOOLEAN, ok : BOOLEAN]
      /\ Fresh \in [ip : BOOLEAN, ok : BOOLEAN]
      /\ [Fresh EXCEPT !.ok = FALSE] \in [ip : BOOLEAN, ok : BOOLEAN]
  BY DEF Fresh
<1>5. ASSUME NEW effect \in Firewalls, Netsh(effect)
      PROVE  /\ fw' \in Firewalls /\ clean' \in BOOLEAN
             /\ run' \in [ip : BOOLEAN, ok : BOOLEAN]
  BY <1>4, <1>5 DEF Netsh
<1>6. CASE ResolveHosts \/ ReportIsolated \/ ReportUnisolated
  <2>1. UNCHANGED <<fw, backup, own, before, clean>>
    BY <1>6 DEF ResolveHosts, ReportIsolated, ReportUnisolated, firewall
  <2>2. reply' \in Statuses
    BY <1>6 DEF ResolveHosts, ReportIsolated, ReportUnisolated, Answer, Statuses
  <2>3. \/ run' = run
        \/ run' = [ip |-> TRUE, ok |-> TRUE]
        \/ run' = [ip |-> FALSE, ok |-> TRUE]
    BY <1>6 DEF ResolveHosts, ReportIsolated, ReportUnisolated
  <2>4. run \in Runs
    BY DEF Runs
  <2>5. run' \in Runs
    BY <2>3, <2>4, RunsTyped
  <2> QED
    BY <2>1, <2>2, <2>5 DEF Runs
<1>7. CASE SaveFirewall
  BY <1>4, <1>7 DEF SaveFirewall
<1>8. CASE ResetRules \/ BlockAll \/ FallbackPolicy
  BY <1>1, <1>3, <1>5, <1>8 DEF ResetRules, BlockAll, FallbackPolicy
<1>9. CASE AllowLoopback \/ AllowServer \/ AllowDhcp
  BY <1>2, <1>5, <1>9 DEF AllowLoopback, AllowServer, AllowDhcp, AllowRules
<1>10. CASE ImportBackup \/ RemoveBackup \/ FallbackReset
  BY <1>1, <1>4, <1>10 DEF ImportBackup, RemoveBackup, FallbackReset
<1> QED
  BY <1>6, <1>7, <1>8, <1>9, <1>10 DEF Isolate, Unisolate

LEMMA IsolationTyped ==
  ASSUME TypeInv, [Next]_vars
  PROVE  IsolationTypes'
<1> USE DEF isolation, firewall
<1>1. IsolationTypes
  BY DEF TypeInv, TypeOK, CommandTypes
<1>2. ASSUME UNCHANGED firewall, run' \in {run, Fresh}, reply' \in Statuses
      PROVE  IsolationTypes'
  <2>1. UNCHANGED <<fw, backup, own, before, clean>>
    BY <1>2
  <2>2. run \in Runs /\ Fresh \in Runs
    BY <1>1, RunsTyped DEF IsolationTypes, Runs, Fresh
  <2>3. run' \in Runs
    BY <1>2, <2>2
  <2> QED
    BY <1>1, <1>2, <2>1, <2>3 DEF IsolationTypes, Runs
<1>3. reply \in Statuses /\ "none" \in Statuses
  BY <1>1 DEF IsolationTypes, Statuses
<1>4. CASE Heartbeat \/ CommandsDone \/ CheckProfile \/ Request
  BY <1>2, <1>3, <1>4 DEF Heartbeat, ReceiveCommands, CommandsDone, CheckProfile,
     Request, commandVars
<1>5. CASE CommandStep
  <2>1. CASE Isolate \/ Unisolate
    BY <1>1, <2>1, FirewallTyped
  <2>2. CASE Dispatch \/ AckCommand \/ Simple \/ Quarantine
    BY <1>2, <1>3, <2>2 DEF Dispatch, AckCommand, Simple, KillProcess, ScanNow,
       NoOpAck, Quarantine, QuarantineChecks, QuarantineRename, QuarantineCopy,
       QuarantineRemove, Answer, Statuses
  <2>3. CASE Shell \/ Update
    BY <1>2, <1>3, <2>3 DEF Shell, ShellSpawn, ShellReaped, ShellTimesOut,
       ShellWaitFails, ShellRead, Update, UpdateDownload, UpdateLaunch, Answer,
       Statuses
  <2> QED
    BY <1>5, <2>1, <2>2, <2>3 DEF CommandStep
<1>6. CASE (Pull \/ ReloadThread \/ Restart \/ Publish \/ EditRules)
             /\ UNCHANGED commandVars
  BY <1>2, <1>3, <1>6 DEF commandVars
<1>7. CASE Crash \/ Stop
  <2>1. UNCHANGED <<fw, backup, own, before>> /\ clean' = (clean /\ ~InIsolation)
          /\ run' = Fresh /\ reply' = "none"
    BY <1>7 DEF Crash, Stop, CommandsDie, IsolationDies
  <2>2. run' \in [ip : BOOLEAN, ok : BOOLEAN] /\ clean' \in BOOLEAN
    BY <2>1 DEF Fresh
  <2> QED
    BY <1>1, <1>3, <2>1, <2>2 DEF IsolationTypes
<1>8. CASE Configure
  <2>1. own \in 1..MaxOrders + 1 /\ own < MaxOrders + 1 /\ own' = own + 1
          /\ fw' = Configured(own + 1)
    BY <1>1, <1>8 DEF Configure, IsolationTypes
  <2>2. own' \in 1..MaxOrders + 1 /\ own + 1 \in 0..MaxOrders + 1
    BY <2>1, ProcessAssumption
  <2>3. fw' \in Firewalls
    BY <2>1, <2>2 DEF Configured, Firewalls
  <2> QED
    BY <1>1, <1>8, <2>2, <2>3 DEF Configure, IsolationTypes
<1>9. CASE (\E kind \in Kinds : Issue(kind)) \/ ShellRuns \/ HolderExits
  BY <1>2, <1>3, <1>9 DEF Issue, ShellRuns, HolderExits
<1>10. CASE UNCHANGED vars
  BY <1>2, <1>3, <1>10 DEF vars, commandVars
<1> QED
  BY <1>4, <1>5, <1>6, <1>7, <1>8, <1>9, <1>10
  DEF Next, HeartbeatThread, ReloadThread, Restart, World, CommandWorld

BookVars == <<pending, acked, todo, current, force, attempts, lost>>

BooksTyped ==
  /\ pending \subseteq CommandOut /\ todo \subseteq CommandOut
  /\ current \in CommandOut \cup {NoCommand}
  /\ acked \in SUBSET Ack /\ force \in BOOLEAN
  /\ attempts \in [Ids -> Nat] /\ lost \in Nat
  /\ pc \notin Between => current \in CommandOut

\* No command is taken up, or dropped, without Dispatch and AckCommand.
LEMMA BooksOfCommands ==
  ASSUME TypeInv, [Next]_vars
  PROVE  BooksTyped'
<1>1. BooksTyped
  BY DEF TypeInv, TypeOK, CommandTypes, BooksTyped
<1>2. ASSUME UNCHANGED BookVars, pc \in Between => pc' \in Between
      PROVE  BooksTyped'
  BY <1>1, <1>2 DEF BookVars, BooksTyped
<1> USE DEF server, beatVars
<1>3. CASE Heartbeat
  BY <1>1, <1>3 DEF Heartbeat, ReceiveCommands, Goto, BooksTyped, Between
<1>4. CASE Dispatch
  <2>1. PICK c \in todo : /\ current' = c /\ todo' = todo \ {c}
                          /\ force' = (force \/ c.kind = "update_rules")
                          /\ attempts' = [attempts EXCEPT ![c.id] = @ + 1]
    BY <1>4 DEF Dispatch
  <2>2. c \in CommandOut /\ c.id \in Ids
    BY <1>1 DEF BooksTyped, CommandOut
  <2>3. attempts' \in [Ids -> Nat] /\ force' \in BOOLEAN
    BY <1>1, <2>1, <2>2 DEF BooksTyped
  <2> QED
    BY <1>1, <1>4, <2>1, <2>2, <2>3 DEF Dispatch, BooksTyped
<1>5. CASE AckCommand
  <2>1. current \in CommandOut /\ reply \in Statuses
    BY <1>1, <1>5 DEF AckCommand, BooksTyped, Between, TypeInv, TypeOK,
       CommandTypes, IsolationTypes
  <2>2. Recorded \in Ack
    BY <2>1 DEF Recorded, Ack, CommandOut
  <2>3. pc' \in Between
    BY <1>5 DEF AckCommand, Goto, Between
  <2> QED
    BY <1>1, <1>5, <2>2, <2>3 DEF AckCommand, Record, AckLost, BooksTyped
<1>6. CASE CommandStep /\ ~Dispatch /\ ~AckCommand
  <2>1. CASE Isolate \/ Unisolate
    <3>1. pc \notin Between
      BY <2>1 DEF Isolate, Unisolate, ResolveHosts, SaveFirewall, ResetRules,
         BlockAll, AllowLoopback, AllowServer, AllowDhcp, ReportIsolated,
         ImportBackup, RemoveBackup, FallbackReset, FallbackPolicy,
         ReportUnisolated, Between
    <3>2. UNCHANGED <<server, beatVars>>
      BY <1>6, <2>1, <3>1
      DEF CommandStep, Simple, KillProcess, ScanNow, NoOpAck, Quarantine,
          QuarantineChecks, QuarantineRename, QuarantineCopy, QuarantineRemove,
          Shell, ShellSpawn, ShellReaped, ShellTimesOut, ShellWaitFails,
          ShellRead, Update, UpdateDownload, UpdateLaunch
    <3> QED
      BY <1>2, <3>1, <3>2 DEF BookVars
  <2>2. CASE Simple \/ Quarantine
    BY <1>2, <2>2 DEF Simple, KillProcess, ScanNow, NoOpAck, Quarantine,
       QuarantineChecks, QuarantineRename, QuarantineCopy, QuarantineRemove,
       Between, BookVars
  <2>3. CASE Shell \/ Update
    BY <1>2, <2>3 DEF Shell, ShellSpawn, ShellReaped, ShellTimesOut,
       ShellWaitFails, ShellRead, Update, UpdateDownload, UpdateLaunch, Between,
       BookVars
  <2> QED
    BY <1>6, <2>1, <2>2, <2>3 DEF CommandStep
<1>7. CASE CommandsDone \/ CheckProfile \/ Request
  BY <1>2, <1>7 DEF CommandsDone, CheckProfile, DecidePull, Request, GetMetadata,
     GetTemplate, PullFails, Requesting, Goto, commandVars, Between, BookVars
<1>8. CASE Pull /\ UNCHANGED commandVars
  <2>1. pc' \in Between
    BY <1>8 DEF Pull, OpenProfileJson, WriteProfileJson, WriteTemplate,
       WriteOverrides, ParseTemplate, WriteRules, ForceReload, StoreForced,
       FlipState, Goto, Between
  <2> QED
    BY <1>2, <1>8, <2>1 DEF commandVars, BookVars
<1>9. CASE ReloadThread \/ UNCHANGED vars
  BY <1>2, <1>9 DEF ReloadThread, Reload, ReloadStarts, ReloadPolls,
     ReloadParses, ReloadStores, vars, process, commandVars, BookVars
<1>10. CASE Crash \/ Stop
  BY <1>1, <1>10 DEF Crash, Die, Stop, Goto, CommandsDie, BooksTyped, Between
<1>11. CASE Restart
  BY <1>2, <1>11 DEF Restart, Goto, commandVars, Between, BookVars
<1>12. ASSUME NEW kind \in Kinds, Issue(kind) PROVE BooksTyped'
  <2>1. orders \in 0..MaxOrders /\ orders < MaxOrders
    BY <1>12 DEF Issue, Order, TypeInv, TypeOK, ProcessTypes
  <2>2. orders + 1 \in Ids
    BY <2>1, ProcessAssumption DEF Ids
  <2>3. pending' \subseteq CommandOut
    BY <1>1, <1>12, <2>2 DEF Issue, BooksTyped, CommandOut
  <2> QED
    BY <1>1, <1>12, <2>3 DEF Issue, Order, BooksTyped
<1>13. CASE (Configure /\ UNCHANGED <<server, beatVars, effects>>)
              \/ ShellRuns \/ HolderExits
  BY <1>2, <1>13 DEF Configure, ShellRuns, HolderExits, Order, process, BookVars
<1>14. CASE (Publish \/ EditRules) /\ UNCHANGED commandVars
  BY <1>2, <1>14 DEF Publish, EditRules, Order, commandVars, BookVars
<1> QED
  BY <1>3, <1>4, <1>5, <1>6, <1>7, <1>8, <1>9, <1>10, <1>11, <1>12, <1>13, <1>14
  DEF Next, HeartbeatThread, World, CommandWorld

EffectsTyped ==
  /\ file \in [src : BOOLEAN, dst : {"none", "part", "whole"}]
  /\ shell \in [child : {"none", "runs", "blocked", "exited", "killed"},
                held : BOOLEAN]
  /\ installer \in {"none", "good", "bad", "runs"}

LEMMA EffectsOfCommands ==
  ASSUME TypeInv, [Next]_vars
  PROVE  EffectsTyped'
<1> USE DEF effects, commandVars
<1>1. EffectsTyped
  BY DEF TypeInv, TypeOK, CommandTypes, EffectsTyped
<1>2. ASSUME UNCHANGED <<file, shell, installer>> PROVE EffectsTyped'
  BY <1>1, <1>2 DEF EffectsTyped
<1>3. NoShell \in Shells /\ shell \in Shells
  BY <1>1, ShellsTyped DEF NoShell, Shells, EffectsTyped
<1>4. CASE Heartbeat \/ CommandsDone \/ CheckProfile \/ Request
  BY <1>2, <1>4 DEF Heartbeat, ReceiveCommands, CommandsDone, CheckProfile, Request
<1>5. CASE CommandStep
  <2>1. CASE (Isolate \/ Unisolate) /\ UNCHANGED <<server, beatVars, effects>>
    BY <1>2, <2>1
  <2>2. CASE Dispatch \/ AckCommand \/ Simple
    <3>1. UNCHANGED <<file, shell, installer>>
      BY <2>2 DEF Dispatch, AckCommand, Simple, KillProcess, ScanNow, NoOpAck
    <3> QED
      BY <1>2, <3>1
  <2>3. CASE Quarantine
    <3>1. file \in TwoPlaces
      BY <1>1 DEF EffectsTyped, TwoPlaces
    <3>2. /\ [src |-> FALSE, dst |-> "whole"] \in TwoPlaces
          /\ [file EXCEPT !.dst = "part"] \in TwoPlaces
          /\ [file EXCEPT !.dst = "whole"] \in TwoPlaces
          /\ [file EXCEPT !.src = FALSE] \in TwoPlaces
      BY <3>1 DEF TwoPlaces
    <3>3. UNCHANGED <<shell, installer>>
      BY <2>3 DEF Quarantine, QuarantineChecks, QuarantineRename, QuarantineCopy,
         QuarantineRemove
    <3>4. file' \in TwoPlaces
      BY <2>3, <3>1, <3>2 DEF Quarantine, QuarantineChecks, QuarantineRename,
         QuarantineCopy, QuarantineRemove
    <3> QED
      BY <1>1, <3>3, <3>4 DEF EffectsTyped, TwoPlaces
  <2>4. CASE Shell
    <3>1. UNCHANGED <<file, installer>>
      BY <2>4 DEF Shell, ShellSpawn, ShellReaped, ShellTimesOut, ShellWaitFails,
         ShellRead
    <3>2. shell' \in Shells
      BY <1>3, <2>4, ShellsTyped DEF Shell, ShellSpawn, ShellReaped,
         ShellTimesOut, ShellWaitFails, ShellRead
    <3> QED
      BY <1>1, <3>1, <3>2 DEF EffectsTyped, Shells
  <2>5. CASE Update
    BY <1>1, <2>5 DEF Update, UpdateDownload, UpdateLaunch, EffectsTyped
  <2> QED
    BY <1>5, <2>1, <2>2, <2>3, <2>4, <2>5 DEF CommandStep
<1>6. CASE (Pull \/ ReloadThread \/ Restart \/ Publish \/ EditRules)
             /\ UNCHANGED commandVars
  BY <1>2, <1>6
<1>7. CASE Crash \/ Stop
  <2>1. shell' \in Shells /\ file' = file /\ installer' = "none"
    BY <1>3, <1>7 DEF Crash, Stop, CommandsDie
  <2> QED
    BY <1>1, <2>1 DEF EffectsTyped, Shells
<1>8. ASSUME UNCHANGED effects PROVE EffectsTyped'
  BY <1>2, <1>8
<1>9. CASE ShellRuns \/ HolderExits
  <2>1. /\ [shell EXCEPT !.child = "blocked"] \in Shells
        /\ [shell EXCEPT !.held = FALSE] \in Shells
    BY <1>3 DEF Shells
  <2>2. shell' \in Shells /\ UNCHANGED <<file, installer>>
    BY <1>9, <2>1, ShellsTyped DEF ShellRuns, HolderExits
  <2> QED
    BY <1>1, <2>2 DEF EffectsTyped, Shells
<1>10. CASE UNCHANGED vars
  BY <1>2, <1>10 DEF vars
<1>11. CASE HeartbeatThread
  BY <1>4, <1>5, <1>6, <1>11 DEF HeartbeatThread
<1>12. CASE ReloadThread \/ Restart
  BY <1>6, <1>12 DEF ReloadThread, Restart
<1>13. CASE World
  <2>1. CASE CommandWorld
    <3>1. ASSUME NEW kind \in Kinds, Issue(kind) PROVE EffectsTyped'
      BY <1>8, <3>1 DEF Issue
    <3> QED
      BY <1>8, <1>9, <2>1, <3>1 DEF CommandWorld
  <2> QED
    BY <1>6, <1>13, <2>1 DEF World
<1> QED
  BY <1>7, <1>10, <1>11, <1>12, <1>13 DEF Next

\* What a pull, and a reload, write.
LEMMA PullTyped ==
  ASSUME ProfileTypes, Pull \/ Request
  PROVE  ProfileTypes'
<1> USE DEF offer, files, memory, detection
<1>1. NoPull \in [meta : Profiles, template : Profiles,
                  changed : BOOLEAN, bundle : BOOLEAN]
  <2>1. 0 \in Profiles
    BY ProfileAssumption DEF Profiles
  <2> QED
    BY <2>1 DEF NoPull
<1>2. published \in Profiles /\ Off \in RuleFiles /\ OnDisk \in RuleFiles
  BY DEF ProfileTypes, RuleFiles, OnDisk
<1>3. CASE Request
  BY <1>1, <1>2, <1>3 DEF Request, GetMetadata, GetTemplate, PullFails, ProfileTypes
<1>4. CASE OpenProfileJson \/ WriteProfileJson \/ WriteTemplate
  BY <1>1, <1>4 DEF OpenProfileJson, WriteProfileJson, WriteTemplate, ProfileTypes
<1>5. CASE WriteOverrides
  BY <1>5 DEF WriteOverrides, ProfileTypes
<1>6. CASE ParseTemplate
  BY <1>1, <1>6 DEF ParseTemplate, ProfileTypes
<1>7. CASE WriteRules
  BY <1>7 DEF WriteRules, ProfileTypes
<1>8. CASE ForceReload
  BY <1>2, <1>8 DEF ForceReload, ProfileTypes
<1>9. CASE StoreForced
  BY <1>2, <1>9 DEF StoreForced, ProfileTypes
<1>10. CASE FlipState
  BY <1>1, <1>10 DEF FlipState, ProfileTypes
<1> QED
  BY <1>3, <1>4, <1>5, <1>6, <1>7, <1>8, <1>9, <1>10 DEF Pull

LEMMA ReloadTyped ==
  ASSUME ProfileTypes, Reload
  PROVE  ProfileTypes'
<1> USE DEF offer, files, memory
<1>1. Off \in RuleFiles /\ OnDisk \in RuleFiles
  BY DEF ProfileTypes, RuleFiles, OnDisk
<1>2. ASSUME NEW n \in Edits
      PROVE  Thread("wait", n) \in [at : {"start", "wait", "changed", "parsed"},
                                    fp : Edits, seen : Edits, files : RuleFiles]
  BY <1>1 DEF Thread
<1>3. CASE ReloadStarts \/ ReloadPolls \/ ReloadParses
  BY <1>1, <1>2, <1>3 DEF ReloadStarts, ReloadPolls, ReloadParses, ProfileTypes
<1>4. CASE ReloadStores
  BY <1>1, <1>2, <1>4 DEF ReloadStores, ProfileTypes
<1> QED
  BY <1>3, <1>4 DEF Reload

LEMMA ProfileTyped ==
  ASSUME TypeInv, [Next]_vars
  PROVE  ProfileTypes'
<1> USE DEF offer, files, memory, detection
<1>1. ProfileTypes
  BY DEF TypeInv, TypeOK
<1>2. ASSUME UNCHANGED profileVars PROVE ProfileTypes'
  BY <1>1, <1>2 DEF profileVars, ProfileTypes
<1>3. 0 \in Profiles /\ Profiles \subseteq Nat
  BY ProfileAssumption DEF Profiles
<1>4. CASE Heartbeat
  BY <1>1, <1>4 DEF Heartbeat, HearVersion, ProfileTypes
<1>5. CASE CommandsDone \/ CheckProfile
  BY <1>2, <1>5 DEF CommandsDone, CheckProfile, DecidePull
<1>6. CASE Pull \/ Request
  BY <1>1, <1>6, PullTyped
<1>7. CASE ReloadThread
  BY <1>1, <1>7, ReloadTyped DEF ReloadThread
<1>8. CASE Crash \/ Stop
  <2>1. /\ NoPull \in [meta : Profiles, template : Profiles,
                       changed : BOOLEAN, bundle : BOOLEAN]
        /\ Off \in RuleFiles
        /\ Thread("start", 0) \in [at : {"start", "wait", "changed", "parsed"},
                                   fp : Edits, seen : Edits, files : RuleFiles]
    BY <1>3, ProfileAssumption DEF NoPull, RuleFiles, Thread
  <2> QED
    BY <1>1, <1>3, <1>8, <2>1 DEF Crash, Stop, ProfileDies, ProfileTypes
<1>9. CASE Restart
  <2>1. Off \in RuleFiles /\ OnDisk \in RuleFiles
    BY <1>1 DEF ProfileTypes, RuleFiles, OnDisk
  <2>2. Effective \in {Asked(p) : p \in Profiles} \cup {0}
    BY <1>1 DEF Effective, ProfileTypes
  <2> QED
    BY <1>1, <1>3, <1>9, <2>1, <2>2 DEF Restart, Boot, ProfileTypes
<1>10. CASE Publish \/ EditRules
  BY <1>1, <1>10 DEF Publish, EditRules, ProfileTypes
<1>11. CASE CommandStep /\ UNCHANGED profileVars
  BY <1>2, <1>11
<1>12. CASE (CommandWorld /\ UNCHANGED profileVars) \/ UNCHANGED vars
  BY <1>2, <1>12 DEF vars
<1> QED
  BY <1>4, <1>5, <1>6, <1>7, <1>8, <1>9, <1>10, <1>11, <1>12
  DEF Next, HeartbeatThread, World

LEMMA InitTypes == Init => TypeInv
<1> SUFFICES ASSUME Init PROVE TypeInv
  OBVIOUS
<1> USE ProcessAssumption, ProfileAssumption
<1>1. pc \in Places /\ pc \in Between /\ ProcessTypes
  BY DEF Init, ProcessInit, ProcessTypes, Places, Between
<1>2. IsolationTypes
  <2>1. Configured(1) \in Firewalls
    BY DEF Configured, Firewalls
  <2> QED
    BY <2>1 DEF Init, CommandsInit, IsolationInit, IsolationTypes, Fresh, Statuses
<1>3. CommandTypes
  BY <1>2 DEF Init, CommandsInit, CommandTypes, NoShell
<1>4. ProfileTypes
  <2>1. 0 \in Profiles
    BY DEF Profiles
  <2>2. Off \in RuleFiles /\ [local |-> 0, server |-> 0] \in RuleFiles
    BY <2>1 DEF RuleFiles
  <2>3. Absent \in {Asked(p) : p \in Profiles}
    BY <2>1 DEF Asked
  <2> QED
    BY <2>1, <2>2, <2>3
    DEF Init, ProfileInit, ProfileTypes, OnDisk, NoPull, Thread
<1> QED
  BY <1>1, <1>3, <1>4 DEF TypeInv, TypeOK

\* Every variable keeps its type, through failed calls, crashes and restarts of
\* the process (control/heartbeat.rs, executor.rs and sync.rs, detection/mod.rs).
THEOREM ControlTypes == Spec => []TypeOK
<1>1. TypeInv /\ [Next]_vars => TypeInv'
  BY PlacesTyped, IsolationTyped, BooksOfCommands, EffectsOfCommands, ProfileTyped
  DEF TypeInv, TypeOK, CommandTypes, BooksTyped, EffectsTyped
<1>2. TypeInv => TypeOK
  BY DEF TypeInv
<1> QED
  BY InitTypes, <1>1, <1>2, PTL DEF Spec

----------------------------------------------------------------------------
(* What an acknowledgement says                                             *)

IsolatePlaces == {"isolate_endpoint", "isolate.backup", "isolate.reset",
                  "isolate.block", "isolate.loopback", "isolate.server",
                  "isolate.dhcp", "isolate.done"}

UnisolatePlaces == {"unisolate_endpoint", "unisolate.remove",
                    "unisolate.policy", "unisolate.done"}

OtherPlaces == (KnownKinds \ {"isolate_endpoint", "unisolate_endpoint"})
                 \cup {"unknown", "quarantine.rename", "quarantine.copy",
                       "quarantine.remove", "shell.wait", "shell.read",
                       "update.verify"}

\* An execution that is none of the firewall.
ExecutesOther ==
  /\ pc \in OtherPlaces /\ pc' \in OtherPlaces \cup {"ack"}
  /\ UNCHANGED <<firewall, run, server, beatVars, orders>>

\* No command is under way after the step, and no execution was counted.
GoesBetween ==
  /\ pc' \in Between /\ orders' \in {orders, orders + 1}
  /\ UNCHANGED <<server, attempts>>

\* The heartbeat thread and the commands do not see the step.
StaysApart ==
  /\ UNCHANGED <<pc, server, current, attempts, firewall, run, reply>>
  /\ orders' \in {orders, orders + 1}

LEMMA StepKinds ==
  ASSUME [Next]_vars
  PROVE  \/ Dispatch \/ AckCommand
         \/ (Isolate \/ Unisolate) /\ UNCHANGED <<server, beatVars>>
         \/ (\E kind \in Kinds : Issue(kind))
         \/ ExecutesOther \/ GoesBetween \/ StaysApart
<1>1. CASE Simple
  BY <1>1 DEF Simple, KillProcess, ScanNow, NoOpAck, Answer, Goto, ExecutesOther,
              OtherPlaces, KnownKinds
<1>2. CASE Quarantine
  BY <1>2 DEF Quarantine, QuarantineChecks, QuarantineRename, QuarantineCopy,
              QuarantineRemove, Answer, Goto, ExecutesOther, OtherPlaces, KnownKinds
<1>3. CASE Shell
  BY <1>3 DEF Shell, ShellSpawn, ShellReaped, ShellTimesOut, ShellWaitFails,
              ShellRead, Answer, Goto, ExecutesOther, OtherPlaces, KnownKinds,
              isolation
<1>4. CASE Update
  BY <1>4 DEF Update, UpdateDownload, UpdateLaunch, Answer, Goto, ExecutesOther,
              OtherPlaces, KnownKinds
<1>5. CASE CommandStep
  BY <1>1, <1>2, <1>3, <1>4, <1>5 DEF CommandStep
<1>6. CASE Heartbeat \/ CommandsDone \/ CheckProfile
  BY <1>6 DEF Heartbeat, ReceiveCommands, CommandsDone, CheckProfile, DecidePull,
              Goto, commandVars, beatVars, Between, GoesBetween
<1>7. CASE Request
  BY <1>7 DEF Request, GetMetadata, GetTemplate, PullFails, Goto, commandVars,
              beatVars, Between, GoesBetween
<1>8. CASE Pull /\ UNCHANGED commandVars
  <2>1. pc' \in Between /\ orders' = orders
    BY <1>8 DEF Pull, OpenProfileJson, WriteProfileJson, WriteTemplate,
       WriteOverrides, ParseTemplate, WriteRules, ForceReload, StoreForced,
       FlipState, Goto, Between
  <2> QED
    BY <1>8, <2>1 DEF commandVars, beatVars, GoesBetween
<1>9. CASE Crash \/ Stop \/ Restart
  <2>1. pc' \in Between /\ orders' = orders
    BY <1>9 DEF Crash, Stop, Restart, Die, Goto, Between
  <2>2. UNCHANGED <<server, attempts>>
    BY <1>9 DEF Crash, Stop, Restart, CommandsDie, commandVars, beatVars
  <2> QED
    BY <2>1, <2>2 DEF GoesBetween
<1>10. CASE Configure /\ UNCHANGED <<server, beatVars, effects>>
  BY <1>10 DEF Configure, Order, beatVars, Between, GoesBetween
<1>11. CASE ReloadThread \/ UNCHANGED vars
  BY <1>11 DEF ReloadThread, Reload, ReloadStarts, ReloadPolls, ReloadParses,
               ReloadStores, vars, process, commandVars, isolation, beatVars,
               StaysApart
<1>12. CASE ShellRuns \/ HolderExits
  BY <1>12 DEF ShellRuns, HolderExits, process, isolation, beatVars, StaysApart
<1>13. CASE (Publish \/ EditRules) /\ UNCHANGED commandVars
  BY <1>13 DEF Publish, EditRules, Order, commandVars, isolation, beatVars, StaysApart
<1> QED
  BY <1>5, <1>6, <1>7, <1>8, <1>9, <1>10, <1>11, <1>12, <1>13
  DEF Next, HeartbeatThread, World, CommandWorld

\* A command is still waited for until its acknowledgement is recorded, and
\* not after that; the one under way is waited for and has been counted.
AckInv ==
  /\ ExecutionInv
  /\ pc \notin Between => current \in pending /\ attempts[current.id] >= 1
  /\ \A a \in acked : /\ a.id \in Ids /\ a.id <= orders
                      /\ attempts[a.id] >= 1
                      /\ \A c \in pending : c.id # a.id
  /\ \A a, b \in acked : a.id = b.id => a = b

\* The server records one acknowledgement for each command, of a command it has
\* issued and that was executed, and does not ask for it any more.
AcksSound ==
  \A a \in acked : /\ a.id <= orders /\ attempts[a.id] >= 1
                   /\ \A c \in pending : c.id # a.id
                   /\ \A b \in acked : a.id = b.id => a = b

\* What the server knows to be done is not executed again: repetitions, of
\* whatever cause, come before the acknowledgement is recorded.
NeverAgain == [][\A a \in acked : attempts'[a.id] = attempts[a.id]]_vars

LEMMA NextAcks ==
  ASSUME AckInv, [Next]_vars
  PROVE  AckInv' /\ \A a \in acked : attempts'[a.id] = attempts[a.id]
<1>0. ExecutionInv' /\ orders \in Nat /\ attempts \in [Ids -> Nat]
  BY NextBooked DEF AckInv, ExecutionInv, BookTypes
<1>1. ASSUME UNCHANGED <<server, attempts>>, orders' \in {orders, orders + 1},
             pc' \notin Between => pc \notin Between /\ current' = current
      PROVE  AckInv' /\ \A a \in acked : attempts'[a.id] = attempts[a.id]
  <2>1. \A a \in acked : a.id \in Ids /\ a.id <= orders'
    BY <1>0, <1>1 DEF AckInv, Ids
  <2> QED
    BY <1>0, <1>1, <2>1 DEF AckInv, server
<1>2. CASE Dispatch
  <2>1. PICK c \in todo : /\ current' = c
                          /\ attempts' = [attempts EXCEPT ![c.id] = @ + 1]
    BY <1>2 DEF Dispatch
  <2>2. UNCHANGED <<server, orders>> /\ c \in pending /\ c.id \in Ids
    BY <1>2 DEF Dispatch, Goto, AckInv, ExecutionInv, BookTypes
  <2>3. \A a \in acked : a.id \in Ids /\ a.id # c.id
    BY <2>2 DEF AckInv
  <2>4. attempts'[c.id] >= 1 /\ \A a \in acked : attempts'[a.id] = attempts[a.id]
    BY <1>0, <2>1, <2>2, <2>3
  <2> QED
    BY <1>0, <2>1, <2>2, <2>4 DEF AckInv, server
<1>3. CASE AckCommand
  <2>1. UNCHANGED <<orders, attempts>> /\ pc \notin Between /\ pc' \in Between
    BY <1>3 DEF AckCommand, Goto, Between
  <2>2. CASE UNCHANGED server
    BY <1>1, <2>1, <2>2
  <2>3. CASE Record
    <3>1. /\ acked' = acked \cup {Recorded} /\ Recorded.id = current.id
          /\ pending' = {c \in pending : c.id # current.id}
      BY <2>3 DEF Record, Recorded
    <3>2. /\ current \in pending /\ attempts[current.id] >= 1
          /\ current.id \in Ids /\ current.id <= orders
      BY <2>1 DEF AckInv, ExecutionInv, BookTypes
    <3>3. \A a \in acked : a.id # current.id
      BY <3>2 DEF AckInv
    <3> QED
      BY <1>0, <2>1, <3>1, <3>2, <3>3 DEF AckInv
  <2> QED
    BY <1>3, <2>2, <2>3 DEF AckCommand, AckLost
<1>4. ASSUME NEW kind \in Kinds, Issue(kind)
      PROVE  AckInv' /\ \A a \in acked : attempts'[a.id] = attempts[a.id]
  <2>1. /\ pending' = pending \cup {[id |-> orders + 1, kind |-> kind]}
        /\ orders' = orders + 1
        /\ UNCHANGED <<pc, acked, current, attempts>>
    BY <1>4 DEF Issue, Order, beatVars
  <2>2. \A a \in acked : a.id \in Nat /\ a.id <= orders
    BY DEF AckInv, Ids
  <2>3. \A a \in acked : a.id # orders + 1 /\ a.id <= orders + 1
    BY <1>0, <2>2
  <2> QED
    BY <1>0, <2>1, <2>3 DEF AckInv
<1>5. CASE (Isolate \/ Unisolate) /\ UNCHANGED <<server, beatVars>>
  <2>1. pc \notin Between /\ orders' = orders
    BY <1>5 DEF Isolate, Unisolate, ResolveHosts, SaveFirewall, ResetRules,
         BlockAll, AllowLoopback, AllowServer, AllowDhcp, ReportIsolated,
         ImportBackup, RemoveBackup, FallbackReset, FallbackPolicy,
         ReportUnisolated, Answer, Goto, Between
  <2> QED
    BY <1>1, <1>5, <2>1 DEF beatVars
<1>6. CASE ExecutesOther
  <2>1. pc \notin Between
    BY <1>6 DEF ExecutesOther, OtherPlaces, KnownKinds, Between
  <2> QED
    BY <1>1, <1>6, <2>1 DEF ExecutesOther, beatVars
<1>7. CASE GoesBetween \/ StaysApart
  BY <1>1, <1>7 DEF GoesBetween, StaysApart
<1> QED
  BY <1>2, <1>3, <1>4, <1>5, <1>6, <1>7, StepKinds

LEMMA InitAcks == Init => AckInv
BY DEF Init, ProcessInit, CommandsInit, AckInv, ExecutionInv, BookTypes, Between, Ids

\* The loop over the commands (control/heartbeat.rs) acknowledges what it has
\* executed, once: an acknowledgement that is repeated because its answer was
\* lost, or sent by a new process, is never recorded beside another one.
THEOREM ControlAcksSound == Spec => []AcksSound
<1>1. AckInv => AcksSound
  BY DEF AckInv, AcksSound
<1>2. AckInv /\ [Next]_vars => AckInv'
  BY NextAcks
<1> QED
  BY <1>1, <1>2, InitAcks, PTL DEF Spec

\* A list of commands that is worked through is never older than what the
\* server has recorded: todo is emptied with the process, and each command
\* leaves it before it is executed.
THEOREM ControlNeverAgain == Spec => NeverAgain
<1>1. AckInv /\ [Next]_vars => AckInv'
  BY NextAcks
<1>2. AckInv /\ [Next]_vars
        => [\A a \in acked : attempts'[a.id] = attempts[a.id]]_vars
  BY NextAcks
<1> QED
  BY <1>1, <1>2, InitAcks, PTL DEF Spec, NeverAgain

\* Where a command is executed is its own code.
KindInv ==
  pc \notin Between \cup {"ack"} =>
    /\ current.kind = "isolate_endpoint" <=> pc \in IsolatePlaces
    /\ current.kind = "unisolate_endpoint" <=> pc \in UnisolatePlaces

\* A host that is cut off but for what the agent needs: its loopback, its
\* lease, and the server if an address of it is known.
CutOff(ip) ==
  fw.block /\ {"loopback", "dhcp"} \subseteq fw.allow /\ (ip => Reachable)

Released == ~fw.block /\ backup = {}

\* An isolation, or a removal of one, that is acknowledged as a success has
\* taken place: the host is cut off, and reaches the server if its address was
\* resolved; or it is open again and its backup is gone.  For the removal this
\* is so as long as no netsh call or removal of the backup has failed, and no
\* crash has cut one: an isolation that could not save the firewall may be
\* followed by one that saves it blocked, and that is what is imported then.
FirewallReported ==
  pc = "ack" /\ reply = "success" =>
    /\ current.kind = "isolate_endpoint" => CutOff(run.ip)
    /\ current.kind = "unisolate_endpoint" /\ clean => Released

\* What the calls of netsh that have not failed have done so far.
ProgressInv ==
  /\ run.ok /\ pc \in {"isolate.loopback", "isolate.server", "isolate.dhcp",
                       "isolate.done"} => fw.block
  /\ run.ok /\ pc \in {"isolate.server", "isolate.dhcp", "isolate.done"}
       => "loopback" \in fw.allow
  /\ run.ok /\ run.ip /\ pc \in {"isolate.dhcp", "isolate.done"}
       => "server" \in fw.allow
  /\ run.ok /\ pc = "isolate.done" => "dhcp" \in fw.allow
  /\ clean /\ pc = "unisolate.done" => Released

OutcomeInv == ReferenceInv /\ KindInv /\ ProgressInv /\ FirewallReported

LEMMA NextKinds ==
  ASSUME KindInv, [Next]_vars
  PROVE  KindInv'
<1> USE DEF KindInv, IsolatePlaces, UnisolatePlaces, Between
<1>1. CASE Dispatch
  BY <1>1 DEF Dispatch, Goto, KnownKinds
<1>2. CASE AckCommand
  BY <1>2 DEF AckCommand, Goto
<1>3. CASE (Isolate \/ Unisolate) /\ UNCHANGED <<server, beatVars>>
  BY <1>3 DEF Isolate, Unisolate, ResolveHosts, SaveFirewall, ResetRules,
     BlockAll, AllowLoopback, AllowServer, AllowDhcp, ReportIsolated,
     ImportBackup, RemoveBackup, FallbackReset, FallbackPolicy,
     ReportUnisolated, Answer, Goto, beatVars
<1>4. CASE \E kind \in Kinds : Issue(kind)
  BY <1>4 DEF Issue, Order, beatVars
<1>5. CASE ExecutesOther
  BY <1>5 DEF ExecutesOther, OtherPlaces, KnownKinds, beatVars
<1>6. CASE GoesBetween \/ StaysApart
  BY <1>6 DEF GoesBetween, StaysApart
<1> QED
  BY <1>1, <1>2, <1>3, <1>4, <1>5, <1>6, StepKinds

\* Steps outside the firewall change no promise about it.
LEMMA OutcomeUntouched ==
  ASSUME ProgressInv, FirewallReported, UNCHANGED <<firewall, run, reply>>,
         \/ pc' = pc /\ current' = current
         \/ pc' \notin IsolatePlaces \cup UnisolatePlaces \cup {"ack"}
  PROVE  ProgressInv' /\ FirewallReported'
BY DEF ProgressInv, FirewallReported, CutOff, Released, Reachable, firewall,
   IsolatePlaces, UnisolatePlaces

LEMMA IsolateOutcome ==
  ASSUME OutcomeInv, run \in Runs, Isolate, UNCHANGED current
  PROVE  ProgressInv' /\ FirewallReported'
<1>0. /\ fw \in [rules : Nat, block : BOOLEAN, allow : SUBSET AllowRules]
      /\ ProgressInv /\ run \in [ip : BOOLEAN, ok : BOOLEAN]
  BY DEF OutcomeInv, ReferenceInv, FirewallInv, Runs
<1> USE DEF Goto, ProgressInv, FirewallReported
<1>1. CASE ResolveHosts \/ SaveFirewall \/ ResetRules
  BY <1>1 DEF ResolveHosts, SaveFirewall, ResetRules
<1>2. CASE BlockAll
  <2>1. run'.ok => fw'.block
    BY <1>0, <1>2 DEF BlockAll, Netsh
  <2> QED
    BY <1>2, <2>1 DEF BlockAll
<1>3. CASE AllowLoopback
  <2>1. run'.ok => fw'.block /\ "loopback" \in fw'.allow
    BY <1>0, <1>3 DEF AllowLoopback, Netsh, Allow
  <2> QED
    BY <1>3, <2>1 DEF AllowLoopback
<1>4. CASE AllowServer
  <2>1. /\ run'.ok => fw'.block /\ "loopback" \in fw'.allow
        /\ run'.ok /\ run'.ip => "server" \in fw'.allow
    BY <1>0, <1>4 DEF AllowServer, Netsh, Allow
  <2> QED
    BY <1>4, <2>1 DEF AllowServer
<1>5. CASE AllowDhcp
  <2>1. /\ run'.ok => fw'.block /\ {"loopback", "dhcp"} \subseteq fw'.allow
        /\ run'.ok /\ run'.ip => "server" \in fw'.allow
    BY <1>0, <1>5 DEF AllowDhcp, Netsh, Allow
  <2> QED
    BY <1>5, <2>1 DEF AllowDhcp
<1>6. CASE ReportIsolated
  <2>1. /\ pc' = "ack" /\ UNCHANGED <<fw, run>>
        /\ reply' = "success" => run.ok /\ CutOff(run.ip)
    BY <1>0, <1>6 DEF ReportIsolated, Answer, CutOff, Reachable, firewall
  <2>2. current.kind = "isolate_endpoint"
    BY <1>6 DEF ReportIsolated, OutcomeInv, KindInv, IsolatePlaces, Between
  <2> QED
    BY <2>1, <2>2 DEF CutOff, Reachable
<1> QED
  BY <1>1, <1>2, <1>3, <1>4, <1>5, <1>6 DEF Isolate

LEMMA UnisolateOutcome ==
  ASSUME OutcomeInv, Unisolate, UNCHANGED current
  PROVE  ProgressInv' /\ FirewallReported'
<1>0. /\ fw \in [rules : Nat, block : BOOLEAN, allow : SUBSET AllowRules]
      /\ ProgressInv /\ ReferenceInv
  BY DEF OutcomeInv, ReferenceInv, FirewallInv
<1> USE DEF Goto, ProgressInv, FirewallReported
<1>1. CASE ImportBackup \/ FallbackReset
  BY <1>1 DEF ImportBackup, FallbackReset
<1>2. CASE RemoveBackup
  <2>1. clean' => clean /\ backup' = {} /\ ~fw'.block
    BY <1>0, <1>2 DEF RemoveBackup, ReferenceInv
  <2> QED
    BY <1>2, <2>1 DEF RemoveBackup, Released
<1>3. CASE FallbackPolicy
  <2>1. clean' => clean /\ backup' = {} /\ ~fw'.block
    BY <1>0, <1>3 DEF FallbackPolicy, Netsh, ReferenceInv
  <2> QED
    BY <1>3, <2>1 DEF FallbackPolicy, Released
<1>4. CASE ReportUnisolated
  <2>1. pc' = "ack" /\ UNCHANGED <<fw, backup, clean>> /\ (clean => Released)
    BY <1>0, <1>4 DEF ReportUnisolated, Answer, firewall
  <2>2. current.kind = "unisolate_endpoint"
    BY <1>4 DEF ReportUnisolated, OutcomeInv, KindInv, UnisolatePlaces, Between
  <2> QED
    BY <2>1, <2>2 DEF Released
<1> QED
  BY <1>1, <1>2, <1>3, <1>4 DEF Unisolate

LEMMA NextReported ==
  ASSUME OutcomeInv, run \in Runs, [Next]_vars
  PROVE  ProgressInv' /\ FirewallReported'
<1>1. ASSUME pc' \notin IsolatePlaces \cup UnisolatePlaces \cup {"ack"}
      PROVE  ProgressInv' /\ FirewallReported'
  BY <1>1 DEF ProgressInv, FirewallReported, IsolatePlaces, UnisolatePlaces
<1>2. CASE Dispatch
  BY <1>2 DEF Dispatch, Goto, KnownKinds, ProgressInv, FirewallReported
<1>3. CASE AckCommand \/ GoesBetween
  BY <1>1, <1>3 DEF AckCommand, Goto, GoesBetween, IsolatePlaces, UnisolatePlaces,
                    Between
<1>4. CASE (Isolate \/ Unisolate) /\ UNCHANGED <<server, beatVars>>
  BY <1>4, IsolateOutcome, UnisolateOutcome DEF beatVars
<1>5. CASE \E kind \in Kinds : Issue(kind)
  BY <1>5, OutcomeUntouched DEF Issue, Order, isolation, beatVars, OutcomeInv
<1>6. CASE ExecutesOther
  <2>1. pc' # "ack" => pc' \notin IsolatePlaces \cup UnisolatePlaces \cup {"ack"}
    BY <1>6 DEF ExecutesOther, OtherPlaces, KnownKinds, IsolatePlaces, UnisolatePlaces
  <2>2. current'.kind \notin {"isolate_endpoint", "unisolate_endpoint"}
    BY <1>6 DEF ExecutesOther, OtherPlaces, KnownKinds, IsolatePlaces,
                UnisolatePlaces, Between, OutcomeInv, KindInv, beatVars
  <2>3. pc' = "ack" => ProgressInv' /\ FirewallReported'
    BY <2>2 DEF ProgressInv, FirewallReported
  <2> QED
    BY <1>1, <2>1, <2>3
<1>7. CASE StaysApart
  BY <1>7, OutcomeUntouched DEF StaysApart, OutcomeInv
<1> QED
  BY <1>2, <1>3, <1>4, <1>5, <1>6, <1>7, StepKinds

LEMMA NextOutcome == OutcomeInv /\ TypeOK /\ [Next]_vars => OutcomeInv'
<1> SUFFICES ASSUME OutcomeInv, TypeOK, [Next]_vars PROVE OutcomeInv'
  OBVIOUS
<1>1. ReferenceInv' /\ KindInv'
  BY NextKeepsReference, NextKinds DEF OutcomeInv
<1>2. run \in Runs
  BY DEF TypeOK, CommandTypes, IsolationTypes, Runs
<1> QED
  BY <1>1, <1>2, NextReported DEF OutcomeInv

\* The statuses of execute_isolate and execute_unisolate (control/executor.rs)
\* are true when they are acknowledged, whatever was executed, lost or cut by a
\* crash before, and whatever other threads do meanwhile.
THEOREM ControlFirewallReported == Spec => []FirewallReported
<1>1. Init => OutcomeInv
  BY DEF Init, ProcessInit, CommandsInit, IsolationInit, Configured, OutcomeInv,
     ReferenceInv, FirewallInv, KindInv, ProgressInv, FirewallReported, Between
<1>2. OutcomeInv => FirewallReported
  BY DEF OutcomeInv
<1> QED
  BY <1>1, <1>2, NextOutcome, ControlTypes, PTL DEF Spec
=============================================================================
