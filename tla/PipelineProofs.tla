-------------------------- MODULE PipelineProofs ---------------------------
(***************************************************************************)
(* What is proved of Pipeline for every value of its constants: the bounds *)
(* of the backoff; and, as long as batches of one second have numbers of   *)
(* one width, that the writer and the shipper together implement           *)
(* EventDelivery, and what became of every line the server does not have.  *)
(***************************************************************************)
EXTENDS Pipeline, SpoolProofs

\* What the server has done is spelled out wherever it is left alone.
USE DEF Ship!site, Promise!site

\* The threads are down together.
DownTogether == pc = "down" => sp = "down"

LEMMA NextDown ==
  ASSUME DownTogether, [PipelineNext]_pipeVars
  PROVE  DownTogether'
<1>1. CASE ShipperThread
  <2>1. sp # "down" /\ pc' = pc
    BY <1>1 DEF ShipperThread, SpoolUnchanged, Ship!ShipperStep, Ship!ScanKernel,
       Ship!ScanPlugin, Ship!ReadBatch, Ship!PostAccepted, Ship!PostRejected,
       Ship!PostFailed, Ship!RemoveBatch, Ship!ShipperStops
  <2> QED
    BY <2>1 DEF DownTogether
<1>2. CASE Crash /\ Ship!ShipperCrashes
  BY <1>2 DEF Ship!ShipperCrashes, DownTogether
<1>3. CASE Restart
  BY <1>3 DEF Restart, DownTogether
<1>4. CASE (Ship!PluginSeals \/ Ship!RequestStop) /\ SpoolUnchanged
  BY <1>4 DEF Ship!PluginSeals, Ship!RequestStop, Ship!loop, SpoolUnchanged,
     DownTogether
<1>5. CASE /\ Writer \/ ClockMoves \/ \E s \in Senders : TrySubmit(s)
           /\ UNCHANGED shipVars
  <2>1. sp' = sp
    BY <1>5 DEF shipVars
  <2>2. pc' = "down" => pc = "down"
    BY <1>5
    DEF Writer, ClockMoves, TrySubmit, StartWriter, RecvLine, RecvTimeout,
        RecvDisconnected, SealFlush, SealRename, SealCreate, SealCopy,
        SealUnlink, SealFails, Reopen, ListBatches, EvictOldest, EvictDone,
        AfterSeal
  <2> QED
    BY <2>1, <2>2 DEF DownTogether
<1>6. CASE UNCHANGED pipeVars
  BY <1>6 DEF pipeVars, vars, shipVars, DownTogether
<1> QED
  BY <1>1, <1>2, <1>3, <1>4, <1>5, <1>6 DEF PipelineNext

\* The backoff a failure starts from, also while a batch that was accepted is
\* still to be removed; and where that is so the failures are over.
BackoffInv ==
  /\ backoff \in Nat /\ failing \in BOOLEAN
  /\ backoff # 0 => 3 * InitBackoff <= 4 * backoff /\ backoff <= MaxBackoff
  /\ sp = "remove" => failing = FALSE
  /\ BackoffInRange

\* The jitter takes or adds less than a quarter of the backoff.
LEMMA JitterBounds ==
  ASSUME NEW b \in Nat, NEW j \in 0 .. (b \div 2) - 1, b <= MaxBackoff, b > 0,
         NEW n \in Ship!Jittered(b, j, MaxBackoff)
  PROVE  n \in Nat /\ n <= MaxBackoff /\ 4 * n >= 3 * b
<1>1. j \in Nat /\ j \div 2 \in Nat /\ 4 * (j \div 2) <= b
  OBVIOUS
<1>2. MaxBackoff \in Nat
  BY PipelineAssumption
<1>3. CASE n = Ship!AtMost(b + j \div 2, MaxBackoff)
  BY <1>1, <1>2, <1>3 DEF Ship!AtMost
<1>4. CASE n = Ship!AtMost(IF b - j \div 2 >= 1 THEN b - j \div 2 ELSE 1, MaxBackoff)
  BY <1>1, <1>2, <1>4 DEF Ship!AtMost
<1> QED
  BY <1>3, <1>4 DEF Ship!Jittered

\* One more failure keeps the backoff within its bounds, doubled or at first.
LEMMA NextBackoffBounds ==
  ASSUME BackoffInv, NEW n \in Ship!NextBackoffs(backoff, MaxBackoff)
  PROVE  n \in Nat /\ n <= MaxBackoff /\ 4 * n >= 3 * InitBackoff
<1> DEFINE b == Ship!Doubled(backoff, MaxBackoff)
<1>1. InitBackoff \in Nat /\ MaxBackoff \in Nat /\ 4 <= InitBackoff
      /\ InitBackoff <= MaxBackoff
  BY PipelineAssumption
<1>2. b \in Nat /\ b <= MaxBackoff /\ InitBackoff <= b
  BY <1>1 DEF BackoffInv, Ship!Doubled, Ship!AtMost
<1>3. PICK j \in 0 .. (b \div 2) - 1 : n \in Ship!Jittered(b, j, MaxBackoff)
  BY <1>1, <1>2 DEF Ship!NextBackoffs
<1> HIDE DEF b
<1>4. n \in Nat /\ n <= MaxBackoff /\ 4 * n >= 3 * b
  BY <1>1, <1>2, <1>3, JitterBounds
<1> QED
  BY <1>1, <1>2, <1>4

\* A step that fails, that starts afresh, and that has nothing to do with it.
LEMMA FailureBacksOff ==
  ASSUME BackoffInv, Ship!Retry, failing' = TRUE
  PROVE  BackoffInv'
<1>1. backoff' \in Ship!NextBackoffs(backoff, MaxBackoff) /\ sp' = "scan"
  BY DEF Ship!Retry, Ship!ToLoopHead
<1>2. /\ backoff' \in Nat /\ backoff' <= MaxBackoff
      /\ 4 * backoff' >= 3 * InitBackoff
  BY <1>1, NextBackoffBounds
<1>3. InitBackoff \in Nat /\ 4 <= InitBackoff
  BY PipelineAssumption
<1> QED
  BY <1>1, <1>2, <1>3 DEF BackoffInv, BackoffInRange

LEMMA FreshBackoff ==
  ASSUME backoff' = 0, failing' = FALSE
  PROVE  BackoffInv'
BY DEF BackoffInv, BackoffInRange

LEMMA BackoffUntouched ==
  ASSUME BackoffInv, UNCHANGED <<backoff, failing>>,
         sp' = sp \/ "remove" \notin {sp, sp'}
  PROVE  BackoffInv'
BY DEF BackoffInv, BackoffInRange

LEMMA ShipperKeepsBackoff ==
  ASSUME BackoffInv, Ship!ShipperStep
  PROVE  BackoffInv'
<1>1. CASE Ship!ReadBatch
  BY <1>1, FailureBacksOff, BackoffUntouched
  DEF Ship!ReadBatch, Ship!Reject, Ship!ToLoopHead
<1>2. CASE Ship!PostFailed
  BY <1>2, FailureBacksOff DEF Ship!PostFailed
<1>3. CASE Ship!PostRejected
  BY <1>3, BackoffUntouched DEF Ship!PostRejected, Ship!Reject, Ship!ToLoopHead
<1>4. CASE Ship!PostAccepted
  BY <1>4 DEF Ship!PostAccepted, BackoffInv, BackoffInRange
<1>5. CASE Ship!RemoveBatch
  BY <1>5, FreshBackoff DEF Ship!RemoveBatch, BackoffInv
<1>6. CASE Ship!ShipperStops
  BY <1>6, FreshBackoff DEF Ship!ShipperStops
<1>7. CASE Ship!ScanKernel \/ Ship!ScanPlugin
  BY <1>7, BackoffUntouched DEF Ship!ScanKernel, Ship!ScanPlugin, Ship!AfterScan
<1> QED
  BY <1>1, <1>2, <1>3, <1>4, <1>5, <1>6, <1>7 DEF Ship!ShipperStep

LEMMA NextBackoffInv ==
  ASSUME BackoffInv, DownTogether, [PipelineNext]_pipeVars
  PROVE  BackoffInv'
<1>1. CASE ShipperThread
  BY <1>1, ShipperKeepsBackoff DEF ShipperThread
<1>2. CASE Crash /\ Ship!ShipperCrashes
  BY <1>2, FreshBackoff DEF Ship!ShipperCrashes
<1>3. CASE Restart /\ Ship!ShipperStarts
  <2>1. UNCHANGED <<backoff, failing>> /\ sp' = "scan" /\ sp = "down"
    BY <1>3 DEF Ship!ShipperStarts, Restart, DownTogether
  <2> QED
    BY <2>1, BackoffUntouched
<1>4. CASE Ship!PluginSeals \/ Ship!RequestStop
  BY <1>4, BackoffUntouched DEF Ship!PluginSeals, Ship!RequestStop, Ship!loop
<1>5. CASE UNCHANGED shipVars
  BY <1>5, BackoffUntouched DEF shipVars
<1>6. CASE UNCHANGED pipeVars
  BY <1>5, <1>6 DEF pipeVars
<1> QED
  BY <1>1, <1>2, <1>3, <1>4, <1>5, <1>6 DEF PipelineNext

\* However many attempts fail, whatever the jitter, and if batches are rejected
\* in between, the shipper has a backoff of three quarters of a second at least
\* and of max_backoff at most, from the failure until a batch is accepted or the
\* thread ends; before and after that it has none (next_backoff, and the
\* outcomes in shipper_main, of shipper/run.rs).
THEOREM PipelineBackoff == PipelineSpec => []BackoffInRange
<1>1. PipelineInit => BackoffInv /\ DownTogether
  <2> SUFFICES ASSUME PipelineInit PROVE BackoffInv /\ DownTogether
    OBVIOUS
  <2>1. backoff = 0 /\ failing = FALSE /\ sp = "scan" /\ pc # "down"
    BY DEF PipelineInit, Ship!ShipperInit, Init
  <2> QED
    BY <2>1 DEF BackoffInv, BackoffInRange, DownTogether
<1>2. BackoffInv /\ DownTogether /\ [PipelineNext]_pipeVars
        => BackoffInv' /\ DownTogether'
  BY NextBackoffInv, NextDown
<1>3. BackoffInv => BackoffInRange
  BY DEF BackoffInv
<1> QED
  BY <1>1, <1>2, <1>3, PTL DEF PipelineSpec

(***************************************************************************)
(* The promise of EventDelivery.                                           *)
(***************************************************************************)

\* The kernel batch the shipper works on was the first of the directory, and
\* still is, if it is there; no batch will take its name.
PickIsFirst ==
  /\ pick.name \in Names /\ NameUsed(pick.name)
  /\ \A n \in Present : n = pick.name \/ SeqBefore(pick.name, n)
  /\ pc = "create" => SeqBefore(pick.name, cur)
  /\ pc = "copy" => pick.name = cur \/ SeqBefore(pick.name, cur)

\* What was read is what the batch holds, unless it was evicted meanwhile.
BodyIsPick ==
  /\ zst[pick.name].st # "none" =>
       zst[pick.name].st = "done" /\ Range(zst[pick.name].lines) = body
  /\ pc \in {"create", "copy"} => pick.name # cur
  /\ \A n \in Done \ {pick.name} : Promise!Before(body, Range(zst[n].lines))

\* A batch was delivered as a whole, or is younger than all that was.
InOrder(S) == S \subseteq delivered \/ Promise!Before(delivered, S)

DeliveredInOrder ==
  /\ body \cup delivered \subseteq Lines
  /\ \A e \in body \cup delivered : e <= offered
  /\ Promise!Before(body \cup delivered, Held)
  /\ InOrder(body)
  /\ \A n \in Done : InOrder(Range(zst[n].lines))

ShipInv ==
  /\ pc = "down" => sp = "down"
  /\ pick.dir \in {"none", "kernel", "plugin"}
  /\ pick.dir = "none" => pick = Ship!NoPick
  /\ sp \in {"read", "post", "remove"} => pick.dir # "none"
  /\ sp \notin {"post", "remove"} \/ pick.dir # "kernel" => body = {}
  /\ pc \in {"create", "copy"} => \A n \in Present : n = cur \/ SeqBefore(n, cur)
  /\ pick.dir = "kernel" => PickIsFirst
  /\ sp \in {"post", "remove"} /\ pick.dir = "kernel" => BodyIsPick
  /\ DeliveredInOrder
  /\ sp = "remove" => body \subseteq delivered

SpoolInv ==
  TypeInv /\ StatsInv /\ NamesInv /\ AccountInv /\ OrderInv

SpoolVars == <<chan, senders, pc, seal, disk, cap, stats, world, offered, fate>>

LEMMA FaultsOnly ==
  ASSUME SpoolInv, UNCHANGED SpoolVars, faults' \in 0 .. MaxFaults
  PROVE  SpoolInv'
<1> USE DEF SpoolVars, seal, disk, cap, stats, world
<1>1. TypeInv'
  BY DEF SpoolInv, TypeInv, TypeOK, WriterShape
<1>2. StatsInv'
  BY DEF SpoolInv, StatsInv, StatsAccount
<1>3. UNCHANGED <<Done, Present, InStaging, Held>>
  BY DEF Done, Present, InStaging, Held
<1>4. NamesInv'
  BY <1>3 DEF SpoolInv, NamesInv, NameUsed
<1>5. AccountInv'
  BY <1>3 DEF SpoolInv, AccountInv, LineAccounting, OnePlace
<1>6. OrderInv'
  BY <1>3 DEF SpoolInv, OrderInv
<1> QED
  BY <1>1, <1>2, <1>4, <1>5, <1>6 DEF SpoolInv

LEMMA SpoolStep ==
  ASSUME SpoolInv, [Next]_vars
  PROVE  SpoolInv'
<1>1. SaneClock
  BY PipelineAssumption
<1> QED
  BY <1>1, StepTypeInv, StepStatsInv, StepNamesInv, StepAccountInv, StepOrderInv
  DEF SpoolInv

\* While the directory stands, no line leaves it.
LEMMA NothingShipped ==
  ASSUME SpoolInv, UNCHANGED zst, Shipped
  PROVE  UNCHANGED fate
<1>1. fate \in [Lines -> Fates]
  BY DEF SpoolInv, TypeInv, TypeOK
<1>2. \A e \in Lines : fate[e] = "sealed" =>
        \E n \in Names : e \in Range(zst'[n].lines)
  BY DEF SpoolInv, AccountInv, LineAccounting, Done
<1>3. \A e \in Lines : fate'[e] = fate[e]
  BY <1>2 DEF Shipped
<1>4. fate' = [e \in Lines |-> fate'[e]]
  BY DEF Shipped
<1> QED
  BY <1>1, <1>3, <1>4

\* The removal of the batch that was accepted is the one of Spool, unless the
\* batch has been evicted.
LEMMA DropInSpool ==
  ASSUME SpoolInv, ShipInv, sp = "remove", pick.dir = "kernel", Shipped,
         zst' = [zst EXCEPT ![pick.name] = [st |-> "none", lines |-> <<>>]]
  PROVE  \/ UNCHANGED <<zst, fate>>
         \/ /\ zst[pick.name].st = "done" /\ pc # "down"
            /\ zst' = [zst EXCEPT ![pick.name] = NoFile]
            /\ fate' = BecomeOf(Range(zst[pick.name].lines), "shipped")
<1> DEFINE n == pick.name
           S == Range(zst[n].lines)
<1>1. n \in Names /\ zst \in [Names -> Files] /\ pc # "down"
  BY DEF ShipInv, PickIsFirst, SpoolInv, TypeInv, TypeOK
<1>2. CASE zst[n].st = "none"
  <2>1. zst[n] = [st |-> "none", lines |-> <<>>]
    BY <1>1, <1>2 DEF SpoolInv, AccountInv, OnePlace, Files
  <2>2. UNCHANGED zst
    BY <1>1, <2>1
  <2> QED
    BY <2>2, NothingShipped
<1>3. CASE zst[n].st # "none"
  <2>1. n \in Done
    BY <1>1, <1>3 DEF ShipInv, BodyIsPick, Done
  <2>2. /\ zst'[n].lines = <<>>
        /\ \A m \in Names \ {n} : zst'[m] = zst[m]
    BY <1>1
  <2>3. \A m \in Names \ {n} : m \notin Done => Range(zst[m].lines) = {}
    BY EmptyRange DEF SpoolInv, AccountInv, OnePlace, Done
  <2>4. \A m \in Names \ {n} : S \cap Range(zst[m].lines) = {}
    BY <2>1, <2>3 DEF SpoolInv, AccountInv, OnePlace
  <2>5. ASSUME NEW e \in Lines
        PROVE  e \in S <=> /\ fate[e] = "sealed"
                           /\ \A m \in Names : e \notin Range(zst'[m].lines)
    <3>1. CASE e \in S
      <4>1. fate[e] = "sealed"
        BY <2>1, <3>1 DEF SpoolInv, AccountInv, LineAccounting
      <4>2. \A m \in Names : e \notin Range(zst'[m].lines)
        BY <2>2, <2>4, <3>1, EmptyRange
      <4> QED
        BY <3>1, <4>1, <4>2
    <3>2. CASE e \notin S /\ fate[e] = "sealed"
      <4>1. PICK m \in Done : e \in Range(zst[m].lines)
        BY <3>2 DEF SpoolInv, AccountInv, LineAccounting
      <4>2. m \in Names /\ zst'[m] = zst[m]
        BY <2>2, <3>2, <4>1 DEF Done
      <4> QED
        BY <3>2, <4>1, <4>2
    <3> QED
      BY <3>1, <3>2
  <2>6. fate' = BecomeOf(S, "shipped")
    BY <2>5 DEF Shipped, BecomeOf
  <2> QED
    BY <1>1, <2>1, <2>6 DEF NoFile, Done
<1> QED
  BY <1>2, <1>3

LEMMA ShipperOnSpool ==
  ASSUME SpoolInv, ShipInv, ShipperThread
  PROVE  \/ UNCHANGED SpoolVars /\ faults' \in 0 .. MaxFaults
         \/ /\ sp = "remove" /\ pick.dir = "kernel" /\ pick.name \in Names
            /\ ShipperRemoves(pick.name)
<1>0. /\ SpoolUnchanged /\ Shipped /\ Ship!ShipperStep
      /\ faults \in 0 .. MaxFaults /\ MaxFaults \in Nat
  BY SpoolAssumption DEF ShipperThread, SpoolInv, TypeInv, TypeOK
<1>1. UNCHANGED clock
  BY <1>0 DEF Ship!ShipperStep, Ship!ScanKernel, Ship!ScanPlugin, Ship!ReadBatch,
     Ship!PostAccepted, Ship!PostRejected, Ship!PostFailed, Ship!RemoveBatch,
     Ship!ShipperStops, Ship!world
<1>2. faults' \in 0 .. MaxFaults
  BY <1>0 DEF Ship!ShipperStep, Ship!ScanKernel, Ship!ScanPlugin, Ship!ReadBatch,
     Ship!PostAccepted, Ship!PostRejected, Ship!PostFailed, Ship!RemoveBatch,
     Ship!ShipperStops, Ship!Fault
<1>3. CASE UNCHANGED zst
  <2>1. UNCHANGED fate
    BY <1>0, <1>3, NothingShipped
  <2> QED
    BY <1>0, <1>1, <1>2, <1>3, <2>1 DEF SpoolUnchanged, SpoolVars, disk, world
<1>4. CASE Ship!RemoveBatch /\ ~UNCHANGED zst
  <2>1. /\ sp = "remove" /\ pick.dir # "plugin" /\ UNCHANGED faults
        /\ zst' = [zst EXCEPT ![pick.name] = [st |-> "none", lines |-> <<>>]]
    BY <1>4 DEF Ship!RemoveBatch, Ship!Drop, Ship!dirs
  <2>2. pick.dir = "kernel" /\ pick.name \in Names
    BY <2>1 DEF ShipInv, PickIsFirst
  <2>3. /\ zst[pick.name].st = "done" /\ pc # "down"
        /\ zst' = [zst EXCEPT ![pick.name] = NoFile]
        /\ fate' = BecomeOf(Range(zst[pick.name].lines), "shipped")
    BY <1>0, <1>4, <2>1, <2>2, DropInSpool
  <2> QED
    BY <1>0, <1>1, <2>1, <2>2, <2>3 DEF ShipperRemoves, SpoolUnchanged, world
<1>5. Ship!RemoveBatch \/ UNCHANGED zst
  BY <1>0 DEF Ship!ShipperStep, Ship!ScanKernel, Ship!ScanPlugin, Ship!ReadBatch,
     Ship!PostAccepted, Ship!PostRejected, Ship!PostFailed, Ship!ShipperStops,
     Ship!dirs
<1> QED
  BY <1>3, <1>4, <1>5

LEMMA PipelineSpoolInv ==
  ASSUME SpoolInv, ShipInv, [PipelineNext]_pipeVars
  PROVE  SpoolInv'
<1>1. CASE ShipperThread
  <2>1. CASE UNCHANGED SpoolVars /\ faults' \in 0 .. MaxFaults
    BY <2>1, FaultsOnly
  <2>2. CASE pick.name \in Names /\ ShipperRemoves(pick.name)
    BY <2>2, SpoolStep DEF Next
  <2> QED
    BY <1>1, <2>1, <2>2, ShipperOnSpool
<1>2. CASE (Ship!PluginSeals \/ Ship!RequestStop) /\ SpoolUnchanged /\ UNCHANGED fate
  <2>1. UNCHANGED vars
    BY <1>2 DEF SpoolUnchanged, vars, disk, world, Ship!PluginSeals,
                Ship!RequestStop, Ship!dirs
  <2> QED
    BY <2>1, SpoolStep
<1>3. CASE UNCHANGED pipeVars
  BY <1>3, SpoolStep DEF pipeVars
<1>4. CASE \/ Writer \/ \E s \in Senders : TrySubmit(s)
           \/ ClockMoves \/ Crash \/ Restart
  <2>1. Next
    BY <1>4 DEF Next, Surroundings
  <2> QED
    BY <2>1, SpoolStep
<1> QED
  BY <1>1, <1>2, <1>3, <1>4 DEF PipelineNext

\* What a step of the spool does to the directory: what appears there is the
\* batch being sealed, with lines that were held, under a name after all others.
LEMMA DirectoryStep ==
  ASSUME SpoolInv, [Next]_vars
  PROVE  /\ \A n \in Names : NameUsed(n) => NameUsed(n)'
         /\ \A n \in Present' :
              \/ n \in Present /\ zst'[n] = zst[n]
              \/ /\ n = cur /\ pc = "create" /\ pc' = "copy"
                 /\ zst'[n].st = "partial"
              \/ /\ n = cur /\ pc = "copy" /\ pc' = "unlink"
                 /\ Range(zst'[n].lines) \subseteq Held
         /\ pc' \in {"create", "copy"} =>
              \/ /\ pc \in {"create", "copy"} /\ cur' = cur
                 /\ pc' = "create" => pc = "create"
              \/ /\ pc' = "create" /\ pc = "rename"
                 /\ \A n \in Names : NameUsed(n) => SeqBefore(n, cur')
<1>0. /\ clock \in Nat /\ boot \in Nat /\ batches_sealed \in Nat
      /\ cur \in Names /\ zst \in [Names -> Files] /\ listing \subseteq Names
      /\ \A n \in Names : n.ts \in Nat /\ n.seq \in Nat
      /\ boot <= clock /\ SaneClock
  BY NameAssumption, PipelineAssumption
  DEF SpoolInv, TypeInv, TypeOK, Names, Seconds, NamesInv
<1>1. CASE \/ UNCHANGED vars
           \/ \E s \in Senders : TrySubmit(s) \/ DropSender(s)
           \/ StartWriter \/ RecvLine \/ RecvTimeout \/ RecvDisconnected
           \/ SealFlush \/ SealUnlink \/ Reopen \/ ListBatches \/ EvictDone
           \/ Crash
  <2>1. UNCHANGED <<zst, clock, boot, batches_sealed>>
    BY <1>1
    DEF vars, TrySubmit, DropSender, StartWriter, RecvLine, RecvTimeout,
        RecvDisconnected, SealFlush, SealUnlink, Reopen, ListBatches,
        EvictDone, Crash, disk, stats, world
  <2>2. pc' \notin {"create", "copy"} \/ UNCHANGED <<pc, cur>>
    BY <1>1
    DEF vars, TrySubmit, DropSender, StartWriter, RecvLine, RecvTimeout,
        RecvDisconnected, SealFlush, SealUnlink, Reopen, ListBatches,
        EvictDone, Crash, AfterSeal, seal
  <2> QED
    BY <2>1, <2>2 DEF NameUsed, Present
<1>2. CASE SealRename
  <2>1. /\ cur'.ts = clock /\ cur'.seq = batches_sealed
        /\ batches_sealed' = batches_sealed + 1
        /\ UNCHANGED <<zst, clock, boot>> /\ pc = "rename" /\ pc' = "create"
    BY <1>2 DEF SealRename, NextSeq, world
  <2>2. \A n \in Names : NameUsed(n) => NameUsed(n)' /\ SeqBefore(n, cur')
    BY <1>0, <2>1 DEF NameUsed, SeqBefore
  <2> QED
    BY <2>1, <2>2 DEF Present
<1>3. CASE SealCreate
  <2>1. /\ zst'[cur].st = "partial"
        /\ \A n \in Names \ {cur} : zst'[n] = zst[n]
        /\ pc = "create" /\ pc' = "copy"
        /\ UNCHANGED <<cur, clock, boot, batches_sealed>>
    BY <1>0, <1>3 DEF SealCreate, seal, stats, world
  <2> QED
    BY <2>1 DEF NameUsed, Present
<1>4. CASE SealCopy
  <2>1. /\ zst'[cur].lines = staging[cur]
        /\ \A n \in Names \ {cur} : zst'[n] = zst[n]
        /\ pc = "copy" /\ pc' = "unlink"
        /\ UNCHANGED <<cur, clock, boot, batches_sealed>>
    BY <1>0, <1>4 DEF SealCopy, seal, stats, world
  <2>2. Range(staging[cur]) \subseteq Held
    BY <2>1 DEF Held, InStaging
  <2> QED
    BY <2>1, <2>2 DEF NameUsed, Present
<1>5. CASE SealFails
  <2>1. /\ UNCHANGED <<zst, clock, boot>>
        /\ batches_sealed' \in {batches_sealed, batches_sealed + 1}
        /\ pc' \notin {"create", "copy"}
    BY <1>5 DEF SealFails, AfterSeal, NextSeq, disk, world
  <2> QED
    BY <1>0, <2>1 DEF NameUsed, Present
<1>6. CASE EvictOldest \/ \E n \in Names : ShipperRemoves(n)
  <2>1. UNCHANGED <<clock, boot, batches_sealed, pc, cur>>
    BY <1>6 DEF EvictOldest, ShipperRemoves, seal, stats, world
  <2>2. PICK n \in Names : zst' = zst \/ zst' = [zst EXCEPT ![n] = NoFile]
    BY <1>0, <1>6 DEF EvictOldest, ShipperRemoves
  <2>3. \A m \in Names : zst'[m] = zst[m] \/ zst'[m] = NoFile
    BY <1>0, <2>2
  <2>4. NoFile.st = "none"
    BY DEF NoFile
  <2> QED
    BY <2>1, <2>3, <2>4 DEF NameUsed, Present
<1>7. CASE Restart
  <2>1. /\ clock' \in Nat /\ clock' > clock /\ boot' = clock'
        /\ UNCHANGED zst /\ pc' = "start"
    BY <1>0, <1>7, NameAssumption DEF Restart, disk, Seconds
  <2> QED
    BY <1>0, <2>1 DEF NameUsed, Present
<1>8. CASE ClockMoves
  <2>1. /\ clock' \in Nat /\ clock' > clock
        /\ UNCHANGED <<zst, pc, cur, boot, batches_sealed>>
    BY <1>0, <1>8, NameAssumption DEF ClockMoves, disk, seal, stats, Seconds
  <2> QED
    BY <1>0, <2>1 DEF NameUsed, Present
<1> QED
  BY <1>1, <1>2, <1>3, <1>4, <1>5, <1>6, <1>7, <1>8
  DEF Next, Writer, Surroundings

\* A line that comes to be held is the one that is submitted.
LEMMA HeldStep ==
  ASSUME SpoolInv, [Next]_vars
  PROVE  /\ offered' \in Nat /\ offered <= offered'
         /\ \A e \in Held' : e \in Held \/ e = offered + 1
<1>0. /\ offered \in Nat /\ chan \in Seq(Lines) /\ lines \in Seq(Lines)
      /\ staging \in [Names -> Seq(Lines)]
  BY SpoolAssumption DEF SpoolInv, TypeInv, TypeOK
<1>1. CASE \E s \in Senders : TrySubmit(s)
  <2>1. /\ offered' = offered + 1 /\ offered + 1 \in Lines
        /\ UNCHANGED <<lines, pc, staging, cur>>
        /\ chan' = chan \/ chan' = Append(chan, offered + 1)
    BY <1>0, <1>1, SpoolAssumption DEF TrySubmit, seal, disk, Lines
  <2>2. Range(chan') \subseteq Range(chan) \cup {offered + 1}
    BY <1>0, <2>1, AppendRange
  <2> QED
    BY <1>0, <2>1, <2>2 DEF Held, InStaging
<1>2. CASE RecvLine
  <2>1. /\ chan # <<>> /\ chan' = Tail(chan) /\ pc' \in {"recv", "flush"}
        /\ lines' = lines \/ lines' = Append(lines, Head(chan))
        /\ UNCHANGED offered /\ Head(chan) \in Lines
    BY <1>0, <1>2 DEF RecvLine
  <2>2. Range(chan') \subseteq Range(chan) /\ Head(chan) \in Range(chan)
    BY <1>0, <2>1, TailRange DEF SpoolInv, AccountInv, OnePlace
  <2>3. Range(lines') \subseteq Range(lines) \cup {Head(chan)}
    BY <1>0, <2>1, AppendRange
  <2> QED
    BY <1>0, <2>1, <2>2, <2>3 DEF Held, InStaging
<1>3. CASE SealRename
  <2>1. cur' \in Names
    BY <1>3, NameAssumption DEF SealRename, Names, SpoolInv, TypeInv, TypeOK
  <2>2. /\ staging'[cur'] = lines /\ lines' = <<>> /\ pc' = "create"
        /\ UNCHANGED <<chan, offered>>
    BY <1>0, <1>3, <2>1 DEF SealRename
  <2> QED
    BY <1>0, <2>2, EmptyRange DEF Held, InStaging
<1>4. CASE SealCreate
  BY <1>0, <1>4 DEF SealCreate, seal, Held, InStaging
<1>5. CASE \/ UNCHANGED vars \/ ClockMoves \/ Restart \/ StartWriter \/ Crash
           \/ \E s \in Senders : DropSender(s)
           \/ RecvTimeout \/ RecvDisconnected \/ SealFlush \/ SealUnlink
           \/ SealCopy \/ SealFails \/ Reopen \/ ListBatches \/ EvictDone
           \/ EvictOldest \/ \E n \in Names : ShipperRemoves(n)
  <2>1. /\ UNCHANGED offered
        /\ chan' = chan \/ chan' = <<>>
        /\ lines' = lines \/ lines' = <<>>
    BY <1>5
    DEF vars, ClockMoves, Restart, StartWriter, Crash, DropSender, RecvTimeout,
        RecvDisconnected, SealFlush, SealUnlink, SealCopy, SealFails, Reopen,
        ListBatches, EvictDone, EvictOldest, ShipperRemoves, seal
  <2>2. pc' \in {"create", "copy"} => UNCHANGED <<pc, cur, staging>>
    BY <1>5
    DEF vars, ClockMoves, Restart, StartWriter, Crash, DropSender, RecvTimeout,
        RecvDisconnected, SealFlush, SealUnlink, SealCopy, SealFails, Reopen,
        ListBatches, EvictDone, EvictOldest, ShipperRemoves, AfterSeal, seal,
        disk
  <2> QED
    BY <1>0, <2>1, <2>2, EmptyRange DEF Held, InStaging
<1> QED
  BY <1>1, <1>2, <1>3, <1>4, <1>5 DEF Next, Writer, Surroundings

LEMMA InitShipInv == PipelineInit => ShipInv
<1> SUFFICES ASSUME PipelineInit PROVE ShipInv
  OBVIOUS
<1>1. Done = {}
  BY DEF PipelineInit, Init, Done, NoFile
<1>2. DeliveredInOrder
  BY <1>1 DEF PipelineInit, Ship!ShipperInit, DeliveredInOrder, InOrder,
              Promise!Before
<1> QED
  BY <1>2 DEF PipelineInit, Init, Ship!ShipperInit, Ship!NoPick, ShipInv

LEMMA NamesIrreflexive == \A n \in Names : ~SeqBefore(n, n)
BY NameAssumption DEF Names, Seconds, SeqBefore

\* The order of the deliveries, through a step of the spool.
LEMMA OrderThroughSpool ==
  ASSUME SpoolInv, DeliveredInOrder, [Next]_vars, UNCHANGED delivered,
         body' \in {body, {}}
  PROVE  DeliveredInOrder'
<1>0. offered \in Nat /\ \A e \in Lines : e \in Nat
  BY SpoolAssumption DEF SpoolInv, TypeInv, TypeOK, Lines
<1>1. \A e \in body \cup delivered : e \in Nat /\ e <= offered /\ e <= offered'
  BY <1>0, HeldStep DEF DeliveredInOrder
<1>2. \A e \in body \cup delivered, f \in Held' : e < f
  <2> SUFFICES ASSUME NEW e \in body \cup delivered, NEW f \in Held'
               PROVE  e < f
    OBVIOUS
  <2>1. CASE f \in Held
    BY <2>1 DEF DeliveredInOrder, Promise!Before
  <2>2. CASE f = offered + 1
    BY <1>0, <1>1, <2>2
  <2> QED
    BY <2>1, <2>2, HeldStep
<1>3. ASSUME NEW n \in Done'
      PROVE  InOrder(Range(zst[n].lines))'
  <2>1. n \in Present' /\ zst'[n].st = "done"
    BY DEF Done, Present
  <2>2. CASE n \in Present /\ zst'[n] = zst[n]
    BY <2>1, <2>2 DEF DeliveredInOrder, InOrder, Done, Present, Promise!Before
  <2>3. CASE Range(zst'[n].lines) \subseteq Held
    BY <2>3 DEF DeliveredInOrder, InOrder, Promise!Before
  <2> QED
    BY <2>1, <2>2, <2>3, DirectoryStep
<1>4. InOrder(body)'
  BY DEF DeliveredInOrder, InOrder, Promise!Before
<1> QED
  BY <1>1, <1>2, <1>3, <1>4 DEF DeliveredInOrder, Promise!Before

\* The batch the shipper works on, through a step of the spool.
LEMMA PickThroughSpool ==
  ASSUME SpoolInv, ShipInv, pick.dir = "kernel", [Next]_vars, UNCHANGED pick
  PROVE  PickIsFirst'
<1>1. pick.name \in Names /\ NameUsed(pick.name)'
  BY DirectoryStep DEF ShipInv, PickIsFirst
<1>2. \A n \in Present' : n = pick.name \/ SeqBefore(pick.name, n)
  BY DirectoryStep DEF ShipInv, PickIsFirst
<1>3. /\ pc' = "create" => SeqBefore(pick.name, cur')
      /\ pc' = "copy" => pick.name = cur' \/ SeqBefore(pick.name, cur')
  BY DirectoryStep DEF ShipInv, PickIsFirst
<1> QED
  BY <1>1, <1>2, <1>3 DEF PickIsFirst

LEMMA BodyThroughSpool ==
  ASSUME SpoolInv, ShipInv, pick.dir = "kernel", sp \in {"post", "remove"},
         [Next]_vars, UNCHANGED <<pick, body>>
  PROVE  BodyIsPick'
<1> DEFINE p == pick.name
<1>0. p \in Names /\ NameUsed(p) /\ BodyIsPick
  BY DEF ShipInv, PickIsFirst
<1>1. pc' \in {"create", "copy"} => p # cur'
  BY <1>0, DirectoryStep, NamesIrreflexive DEF BodyIsPick
<1>2. zst'[p].st # "none" =>
        zst'[p].st = "done" /\ Range(zst'[p].lines) = body
  BY <1>0, DirectoryStep DEF BodyIsPick, Present
<1>3. ASSUME NEW n \in Done' \ {p}
      PROVE  Promise!Before(body, Range(zst'[n].lines))
  <2>1. n \in Present' /\ zst'[n].st = "done"
    BY DEF Done, Present
  <2>2. CASE n \in Present /\ zst'[n] = zst[n]
    BY <1>0, <2>1, <2>2 DEF BodyIsPick, Done, Present
  <2>3. CASE Range(zst'[n].lines) \subseteq Held
    BY <2>3 DEF ShipInv, DeliveredInOrder, Promise!Before
  <2> QED
    BY <2>1, <2>2, <2>3, DirectoryStep
<1> QED
  BY <1>1, <1>2, <1>3 DEF BodyIsPick, Promise!Before

LEMMA NewestIsLast ==
  ASSUME SpoolInv, ShipInv, [Next]_vars, pc' \in {"create", "copy"}
  PROVE  \A n \in Present' : n = cur' \/ SeqBefore(n, cur')
<1>1. SaneClock /\ Present \subseteq Names
  BY PipelineAssumption DEF Present
<1>2. \A n \in Present : NameUsed(n)
  BY <1>1 DEF SpoolInv, NamesInv
<1> QED
  BY <1>1, <1>2, DirectoryStep DEF ShipInv

\* A step of the spool while the shipper stays where it is, gives up what it
\* was doing, or starts and stops.
LEMMA SpoolKeepsShipInv ==
  ASSUME SpoolInv, ShipInv, [Next]_vars, UNCHANGED delivered,
         pc' = "down" => sp' = "down",
         \/ UNCHANGED <<sp, pick, body>>
         \/ pick' = Ship!NoPick /\ body' = {} /\ sp' \in {"down", "scan"}
         \/ /\ UNCHANGED <<pick, body>>
            /\ sp \in {"down", "scan"} /\ sp' \in {"scan", "stopped"}
  PROVE  ShipInv'
<1>1. body' \in {body, {}} /\ DeliveredInOrder'
  BY OrderThroughSpool DEF ShipInv
<1>2. pc' \in {"create", "copy"} =>
        \A n \in Present' : n = cur' \/ SeqBefore(n, cur')
  BY NewestIsLast
<1>3. CASE pick' = Ship!NoPick /\ body' = {} /\ sp' \in {"down", "scan"}
  BY <1>1, <1>2, <1>3 DEF ShipInv, Ship!NoPick
<1>4. CASE UNCHANGED <<sp, pick, body>>
  <2>1. pick.dir = "kernel" => PickIsFirst'
    BY <1>4, PickThroughSpool
  <2>2. sp \in {"post", "remove"} /\ pick.dir = "kernel" => BodyIsPick'
    BY <1>4, BodyThroughSpool
  <2> QED
    BY <1>1, <1>2, <1>4, <2>1, <2>2 DEF ShipInv
<1>5. CASE /\ UNCHANGED <<pick, body>>
           /\ sp \in {"down", "scan"} /\ sp' \in {"scan", "stopped"}
  <2>1. pick.dir = "kernel" => PickIsFirst'
    BY <1>5, PickThroughSpool
  <2> QED
    BY <1>1, <1>2, <1>5, <2>1 DEF ShipInv
<1> QED
  BY <1>3, <1>4, <1>5

LEMMA SameDirectory ==
  ASSUME UNCHANGED SpoolVars
  PROVE  /\ UNCHANGED <<Done, Present, Held, zst, cur, pc, offered>>
         /\ \A n : NameUsed(n)' <=> NameUsed(n)
BY DEF SpoolVars, seal, disk, cap, stats, world, Done, Present, Held, InStaging,
       NameUsed

\* The two threads read the same names.
LEMMA SameNames ==
  /\ Ship!Names = Names
  /\ \A S : Ship!Oldest(S) = Oldest(S)
  /\ \A f : Ship!Range(f) = Range(f)
<1>1. Ship!Names = Names
  BY DEF Ship!Names, Ship!Seconds, Names, Seconds
<1>2. \A a, b : Ship!NameBefore(a, b) = NameBefore(a, b)
  BY DEF Ship!NameBefore, Ship!TextBefore, Ship!Digits, NameBefore, TextBefore,
         Digits
<1>3. \A S : Ship!Oldest(S) = Oldest(S)
  BY <1>2 DEF Ship!Oldest, Oldest
<1>4. \A f : Ship!Range(f) = Range(f)
  BY DEF Ship!Range, Range
<1> QED
  BY <1>1, <1>3, <1>4

\* The shipper looks for the oldest batch.
LEMMA ScanShipInv ==
  ASSUME OneWidth, SpoolInv, ShipInv, UNCHANGED SpoolVars,
         Ship!ScanKernel \/ Ship!ScanPlugin
  PROVE  ShipInv'
<1>1. /\ UNCHANGED <<Done, Present, Held, zst, cur, pc, offered>>
      /\ \A n : NameUsed(n)' <=> NameUsed(n)
  BY SameDirectory
<1>2. /\ body = {} /\ UNCHANGED <<body, delivered>> /\ sp' # "down"
      /\ sp' \in {"scan", "scan_plugin", "read"} /\ pc # "down"
  BY DEF Ship!ScanKernel, Ship!ScanPlugin, Ship!AfterScan, ShipInv
<1>3. DeliveredInOrder'
  BY <1>1, <1>2 DEF ShipInv, DeliveredInOrder, InOrder, Promise!Before
<1>4. CASE Ship!ScanKernel
  <2>1. {n \in Names : zst[n].st # "none"} = Present
    BY DEF Present
  <2>2. /\ sp' = "scan_plugin"
        /\ \/ pick' = Ship!NoPick
           \/ /\ Present # {}
              /\ pick' = [dir |-> "kernel", name |-> Oldest(Present)]
    BY <1>4, <2>1, SameNames DEF Ship!ScanKernel
  <2>3. CASE pick' = Ship!NoPick
    BY <1>1, <1>2, <1>3, <2>2, <2>3 DEF ShipInv, Ship!NoPick
  <2>4. CASE /\ Present # {}
             /\ pick' = [dir |-> "kernel", name |-> Oldest(Present)]
    <3> DEFINE n == Oldest(Present)
    <3>1. /\ n \in Present /\ n \in Names
          /\ \A m \in Present : m = n \/ SeqBefore(n, m)
      BY <2>4, OldestIsFirst DEF OneWidth, Present
    <3>2. NameUsed(n)
      BY <3>1, PipelineAssumption DEF SpoolInv, NamesInv
    <3>3. /\ pc = "create" => SeqBefore(n, cur)
          /\ pc = "copy" => n = cur \/ SeqBefore(n, cur)
      BY <3>1, PipelineAssumption DEF ShipInv, SpoolInv, NamesInv, Present
    <3>4. PickIsFirst'
      BY <1>1, <2>4, <3>1, <3>2, <3>3 DEF PickIsFirst
    <3> QED
      BY <1>1, <1>2, <1>3, <2>2, <2>4, <3>4 DEF ShipInv
  <2> QED
    BY <2>2, <2>3, <2>4
<1>5. CASE Ship!ScanPlugin
  <2>1. CASE pick' = pick
    <3>1. pick.dir = "kernel" => PickIsFirst'
      BY <1>1, <2>1 DEF ShipInv, PickIsFirst
    <3>2. sp' = "read" => pick'.dir # "none"
      BY <1>5, <2>1 DEF Ship!ScanPlugin, Ship!AfterScan, ShipInv
    <3> QED
      BY <1>1, <1>2, <1>3, <2>1, <3>1, <3>2 DEF ShipInv
  <2>2. CASE pick'.dir = "plugin"
    BY <1>1, <1>2, <1>3, <2>2 DEF ShipInv
  <2> QED
    BY <1>5, <2>1, <2>2 DEF Ship!ScanPlugin
<1> QED
  BY <1>4, <1>5

\* The batch is read whole: its lines are older than all others on disk.
LEMMA ReadShipInv ==
  ASSUME SpoolInv, ShipInv, UNCHANGED SpoolVars, Ship!ReadBatch, sp' = "post"
  PROVE  ShipInv'
<1>1. /\ UNCHANGED <<Done, Present, Held, zst, cur, pc, offered>>
      /\ \A n : NameUsed(n)' <=> NameUsed(n)
  BY SameDirectory
<1>2. /\ UNCHANGED <<pick, delivered>> /\ sp = "read" /\ pc # "down"
      /\ pick.dir \in {"kernel", "plugin"}
      /\ pick.dir = "plugin" \/ zst[pick.name].st = "done"
      /\ body' = IF pick.dir = "plugin" THEN {} ELSE Range(zst[pick.name].lines)
  BY SameNames
  DEF Ship!ReadBatch, Ship!Reject, Ship!Retry, Ship!ToLoopHead, ShipInv
<1>3. CASE pick.dir = "plugin"
  <2>1. body' = {} /\ body = {}
    BY <1>2, <1>3 DEF ShipInv
  <2>2. DeliveredInOrder'
    BY <1>1, <1>2, <2>1 DEF ShipInv, DeliveredInOrder, InOrder, Promise!Before
  <2> QED
    BY <1>1, <1>2, <1>3, <2>1, <2>2 DEF ShipInv
<1>4. CASE pick.dir = "kernel"
  <2> DEFINE p == pick.name
  <2>1. /\ PickIsFirst /\ PickIsFirst' /\ p \in Done
        /\ body' = Range(zst[p].lines)
    BY <1>1, <1>2, <1>4 DEF ShipInv, PickIsFirst, Done
  <2>2. /\ body' \subseteq Lines /\ \A e \in body' : e <= offered
    BY <2>1, SubmittedLines DEF SpoolInv
  <2>3. Promise!Before(body', Held)
    BY <2>1 DEF SpoolInv, OrderInv, Promise!Before
  <2>4. \A n \in Done \ {p} : Promise!Before(body', Range(zst[n].lines))
    <3>1. \A n \in Done \ {p} : SeqBefore(p, n)
      BY <2>1 DEF PickIsFirst, Done, Present
    <3> QED
      BY <2>1, <3>1 DEF SpoolInv, OrderInv, Older, Promise!Before
  <2>5. pc \in {"create", "copy"} => p # cur
    BY <2>1, PipelineAssumption
    DEF SpoolInv, AccountInv, OnePlace, NamesInv, Done
  <2>6. BodyIsPick'
    BY <1>1, <1>2, <2>1, <2>4, <2>5 DEF BodyIsPick, Promise!Before, Done
  <2>7. DeliveredInOrder'
    BY <1>1, <1>2, <2>1, <2>2, <2>3
    DEF ShipInv, DeliveredInOrder, InOrder, Promise!Before
  <2> QED
    BY <1>1, <1>2, <1>4, <2>1, <2>6, <2>7 DEF ShipInv
<1> QED
  BY <1>2, <1>3, <1>4

\* What the server has stored, and what it has not seen yet.
LEMMA PostShipInv ==
  ASSUME SpoolInv, ShipInv, UNCHANGED SpoolVars,
         \/ Ship!PostAccepted \/ Ship!PostRejected \/ Ship!PostFailed
         \/ Ship!ReadBatch /\ sp' # "post"
  PROVE  ShipInv'
<1>1. /\ UNCHANGED <<Done, Present, Held, zst, cur, pc, offered>>
      /\ \A n : NameUsed(n)' <=> NameUsed(n)
  BY SameDirectory
<1>2. /\ delivered' \in {delivered, delivered \cup body}
      /\ sp \in {"read", "post"} /\ pc # "down"
      /\ \/ body' = {} /\ pick' = Ship!NoPick /\ sp' = "scan"
         \/ /\ UNCHANGED <<body, pick>> /\ sp = "post" /\ sp' = "remove"
            /\ delivered' = delivered \cup body
  BY DEF Ship!PostAccepted, Ship!PostRejected, Ship!PostFailed, Ship!ReadBatch,
         Ship!Receive, Ship!Reject, Ship!Retry, Ship!ToLoopHead, ShipInv
<1>3. \A n \in Done : InOrder(Range(zst[n].lines))'
  <2> SUFFICES ASSUME NEW n \in Done PROVE InOrder(Range(zst[n].lines))'
    OBVIOUS
  <2>1. \/ Range(zst[n].lines) = body
        \/ Promise!Before(body, Range(zst[n].lines))
    <3>1. CASE sp = "post" /\ pick.dir = "kernel"
      BY <3>1 DEF ShipInv, BodyIsPick, Done
    <3>2. CASE ~(sp = "post" /\ pick.dir = "kernel")
      BY <1>2, <3>2 DEF ShipInv, Promise!Before
    <3> QED
      BY <3>1, <3>2
  <2>2. InOrder(Range(zst[n].lines))
    BY DEF ShipInv, DeliveredInOrder
  <2> QED
    BY <1>1, <1>2, <2>1, <2>2 DEF InOrder, Promise!Before
<1>4. DeliveredInOrder'
  BY <1>1, <1>2, <1>3 DEF ShipInv, DeliveredInOrder, InOrder, Promise!Before
<1>5. CASE body' = {} /\ pick' = Ship!NoPick /\ sp' = "scan"
  BY <1>1, <1>2, <1>4, <1>5 DEF ShipInv, Ship!NoPick
<1>6. CASE /\ UNCHANGED <<body, pick>> /\ sp = "post" /\ sp' = "remove"
           /\ delivered' = delivered \cup body
  <2>1. pick.dir = "kernel" => PickIsFirst' /\ BodyIsPick'
    BY <1>1, <1>6 DEF ShipInv, PickIsFirst, BodyIsPick, Promise!Before
  <2> QED
    BY <1>1, <1>2, <1>4, <1>6, <2>1 DEF ShipInv
<1> QED
  BY <1>2, <1>5, <1>6

\* The end of an iteration that leaves the directory alone, and of the loop.
LEMMA LoopShipInv ==
  ASSUME SpoolInv, ShipInv, UNCHANGED SpoolVars,
         Ship!RemoveBatch \/ Ship!ShipperStops
  PROVE  ShipInv'
<1>1. /\ UNCHANGED <<Done, Present, Held, zst, cur, pc, offered>>
      /\ \A n : NameUsed(n)' <=> NameUsed(n)
  BY SameDirectory
<1>2. /\ UNCHANGED delivered /\ pc # "down" /\ sp' \in {"scan", "stopped"}
      /\ body' = {}
      /\ pick' \in {pick, Ship!NoPick}
  BY DEF Ship!RemoveBatch, Ship!ToLoopHead, Ship!ShipperStops, ShipInv
<1>3. DeliveredInOrder'
  BY <1>1, <1>2 DEF ShipInv, DeliveredInOrder, InOrder, Promise!Before
<1>4. pick'.dir = "kernel" => PickIsFirst'
  BY <1>1, <1>2 DEF ShipInv, PickIsFirst, Ship!NoPick
<1> QED
  BY <1>1, <1>2, <1>3, <1>4 DEF ShipInv, Ship!NoPick

LEMMA PipelineShipInv ==
  ASSUME OneWidth, SpoolInv, ShipInv, [PipelineNext]_pipeVars
  PROVE  ShipInv'
<1>1. CASE ShipperThread /\ UNCHANGED SpoolVars
  BY <1>1, ScanShipInv, ReadShipInv, PostShipInv, LoopShipInv
  DEF ShipperThread, Ship!ShipperStep
<1>2. CASE /\ ShipperThread /\ sp = "remove" /\ pick.name \in Names
           /\ ShipperRemoves(pick.name)
  <2>1. /\ UNCHANGED delivered /\ pick' = Ship!NoPick /\ body' = {}
        /\ sp' = "scan"
    BY <1>2 DEF ShipperThread, Ship!ShipperStep, Ship!ScanKernel,
       Ship!ScanPlugin, Ship!ReadBatch, Ship!PostAccepted, Ship!PostRejected,
       Ship!PostFailed, Ship!RemoveBatch, Ship!ToLoopHead, Ship!ShipperStops
  <2>2. Next /\ pc' # "down"
    BY <1>2 DEF Next, ShipperRemoves
  <2> QED
    BY <2>1, <2>2, SpoolKeepsShipInv
<1>3. CASE (Ship!PluginSeals \/ Ship!RequestStop) /\ SpoolUnchanged /\ UNCHANGED fate
  <2>1. UNCHANGED vars /\ UNCHANGED <<sp, pick, body, delivered>>
    BY <1>3 DEF SpoolUnchanged, vars, disk, world, Ship!PluginSeals,
                Ship!RequestStop, Ship!dirs, Ship!loop
  <2>2. pc' = "down" => sp' = "down"
    BY <2>1 DEF vars, ShipInv
  <2> QED
    BY <2>1, <2>2, SpoolKeepsShipInv
<1>4. CASE UNCHANGED pipeVars
  <2>1. UNCHANGED vars /\ UNCHANGED <<sp, pick, body, delivered>>
    BY <1>4 DEF pipeVars, shipVars
  <2>2. pc' = "down" => sp' = "down"
    BY <2>1 DEF vars, ShipInv
  <2> QED
    BY <2>1, <2>2, SpoolKeepsShipInv
<1>5. CASE /\ Writer \/ ClockMoves \/ \E s \in Senders : TrySubmit(s)
           /\ UNCHANGED shipVars
  <2>1. Next /\ UNCHANGED <<sp, pick, body, delivered>>
    BY <1>5 DEF Next, Surroundings, shipVars
  <2>2. pc' = "down" => pc = "down"
    BY <1>5
    DEF Writer, ClockMoves, TrySubmit, StartWriter, RecvLine, RecvTimeout,
        RecvDisconnected, SealFlush, SealRename, SealCreate, SealCopy,
        SealUnlink, SealFails, Reopen, ListBatches, EvictOldest, EvictDone,
        AfterSeal
  <2>3. pc' = "down" => sp' = "down"
    BY <2>1, <2>2 DEF ShipInv
  <2> QED
    BY <2>1, <2>3, SpoolKeepsShipInv
<1>6. CASE Crash /\ Ship!ShipperCrashes
  BY <1>6, SpoolKeepsShipInv DEF Next, Surroundings, Ship!ShipperCrashes
<1>7. CASE Restart /\ Ship!ShipperStarts
  <2>1. sp = "down" /\ pc' # "down"
    BY <1>7 DEF Restart, ShipInv
  <2> QED
    BY <1>7, <2>1, SpoolKeepsShipInv DEF Next, Surroundings, Ship!ShipperStarts
<1> QED
  BY <1>1, <1>2, <1>3, <1>4, <1>5, <1>6, <1>7, ShipperOnSpool DEF PipelineNext

LEMMA WithBecomes ==
  ASSUME NEW S \in SUBSET Lines, NEW f, fate' = BecomeOf(S, f)
  PROVE  \A g : With(g)' = IF g = f THEN With(g) \cup S ELSE With(g) \ S
BY DEF With, BecomeOf

LEMMA BecomeHeld ==
  ASSUME NEW S \in SUBSET Lines, fate' = BecomeOf(S, "held")
  PROVE  /\ With("held")' = With("held") \cup S
         /\ With("sealed")' = With("sealed") \ S
         /\ With("evicted")' = With("evicted") \ S
BY WithBecomes

LEMMA BecomeSealed ==
  ASSUME NEW S \in SUBSET Lines, fate' = BecomeOf(S, "sealed")
  PROVE  /\ With("held")' = With("held") \ S
         /\ With("sealed")' = With("sealed") \cup S
         /\ With("evicted")' = With("evicted") \ S
BY WithBecomes

LEMMA BecomeEvicted ==
  ASSUME NEW S \in SUBSET Lines, fate' = BecomeOf(S, "evicted")
  PROVE  /\ With("held")' = With("held") \ S
         /\ With("sealed")' = With("sealed") \ S
         /\ With("evicted")' = With("evicted") \cup S
BY WithBecomes

LEMMA BecomeGone ==
  ASSUME NEW S \in SUBSET Lines, NEW f \in {"refused", "lost", "shipped"},
         fate' = BecomeOf(S, f)
  PROVE  /\ With("held")' = With("held") \ S
         /\ With("sealed")' = With("sealed") \ S
         /\ With("evicted")' = With("evicted") \ S
<1>1. /\ f # "held" /\ f # "sealed" /\ f # "evicted"
  OBVIOUS
<1> QED
  BY <1>1, WithBecomes

LEMMA WithPlaces ==
  ASSUME SpoolInv
  PROVE  /\ With("held") = Held
         /\ \A n \in Done : Range(zst[n].lines) \subseteq With("sealed")
         /\ \A e \in With("sealed") : \E n \in Done : e \in Range(zst[n].lines)
         /\ With("sealed") \cap Held = {} /\ With("evicted") \cap Held = {}
         /\ With("sealed") \cap With("evicted") = {}
         /\ \A e \in With("sealed") : e <= offered
<1>1. With("held") = Held
  BY SubmittedLines DEF SpoolInv, AccountInv, LineAccounting, With
<1>2. /\ \A n \in Done : Range(zst[n].lines) \subseteq With("sealed")
      /\ \A e \in With("sealed") : \E n \in Done : e \in Range(zst[n].lines)
  BY SubmittedLines DEF SpoolInv, AccountInv, LineAccounting, With
<1>3. \A e \in With("sealed") : e <= offered
  BY <1>2, SubmittedLines DEF SpoolInv
<1>4. /\ With("sealed") \cap With("held") = {}
      /\ With("evicted") \cap With("held") = {}
      /\ With("sealed") \cap With("evicted") = {}
  BY DEF With
<1> QED
  BY <1>1, <1>2, <1>3, <1>4

LEMMA SameFateStutters ==
  ASSUME UNCHANGED <<fate, body, delivered, stored, skipped>>
  PROVE  UNCHANGED Promise!vars
BY DEF Promise!vars, With

\* A line is accepted, or costs its producer nothing but itself.
LEMMA SubmitPromise ==
  ASSUME SpoolInv, ShipInv, NEW s \in Senders, TrySubmit(s),
         UNCHANGED <<body, delivered, stored, skipped>>
  PROVE  [Promise!Next]_(Promise!vars)
<1> DEFINE e == offered + 1
<1>1. e \in Lines /\ offered \in Nat
  BY SpoolAssumption DEF TrySubmit, SpoolInv, TypeInv, TypeOK, Lines
<1>2. fate[e] = "unoffered"
  BY <1>1 DEF SpoolInv, AccountInv, LineAccounting
<1>3. e \notin With("held") /\ e \notin With("sealed") /\ e \notin With("evicted")
  BY <1>2 DEF With
<1>4. CASE fate' = BecomeOf({e}, "held")
  <2>1. /\ With("held")' = With("held") \cup {e}
        /\ With("sealed")' = With("sealed") /\ With("evicted")' = With("evicted")
    <3>1. /\ With("held")' = With("held") \cup {e}
          /\ With("sealed")' = With("sealed") \ {e}
          /\ With("evicted")' = With("evicted") \ {e}
      BY <1>1, <1>4, BecomeHeld
    <3> QED
      BY <1>3, <3>1
  <2>2. \A f \in With("held") \cup With("sealed") \cup delivered : f <= offered
    <3>1. With("held") = Held /\ \A f \in With("sealed") : f <= offered
      BY WithPlaces
    <3>2. \A f \in Held : f <= offered
      BY SubmittedLines DEF SpoolInv
    <3>3. \A f \in delivered : f <= offered
      BY DEF ShipInv, DeliveredInOrder
    <3> QED
      BY <3>1, <3>2, <3>3
  <2>3. With("held") \cup With("sealed") \cup delivered \subseteq Lines
    BY DEF With, ShipInv, DeliveredInOrder
  <2>4. \A f \in Lines : f <= offered => f < e
    BY <1>1 DEF Lines
  <2>5. Promise!Accept(e)
    BY <2>1, <2>2, <2>3, <2>4 DEF Promise!Accept, Promise!Before
  <2> QED
    BY <1>1, <2>5 DEF Promise!Next
<1>5. CASE fate' = BecomeOf({e}, "refused")
  <2>1. /\ With("held")' = With("held") \ {e}
        /\ With("sealed")' = With("sealed") \ {e}
        /\ With("evicted")' = With("evicted") \ {e}
    BY <1>1, <1>5, BecomeGone
  <2> QED
    BY <1>3, <2>1 DEF Promise!vars
<1> QED
  BY <1>4, <1>5 DEF TrySubmit

\* What the writer discards was volatile.
LEMMA LosePromise ==
  ASSUME SpoolInv, NEW S, S \subseteq Held, fate' = BecomeOf(S, "lost"),
         UNCHANGED <<body, delivered, stored, skipped>>
  PROVE  [Promise!Next]_(Promise!vars)
<1>1. S \in SUBSET Lines /\ S \in SUBSET With("held")
  BY WithPlaces DEF With
<1>2. /\ With("held")' = With("held") \ S
      /\ With("sealed")' = With("sealed") /\ With("evicted")' = With("evicted")
  <2>1. /\ With("held")' = With("held") \ S
        /\ With("sealed")' = With("sealed") \ S
        /\ With("evicted")' = With("evicted") \ S
    BY <1>1, BecomeGone
  <2>2. With("sealed") \cap S = {} /\ With("evicted") \cap S = {}
    BY WithPlaces
  <2> QED
    BY <2>1, <2>2
<1>3. CASE S = {}
  BY <1>2, <1>3 DEF Promise!vars
<1>4. CASE S # {}
  <2>1. Promise!Lose(S)
    BY <1>2, <1>4 DEF Promise!Lose
  <2> QED
    BY <1>1, <2>1 DEF Promise!Next
<1> QED
  BY <1>3, <1>4

\* A seal takes the oldest of what is held, and adds the youngest to the disk.
LEMMA SealPromise ==
  ASSUME SpoolInv, SealCreate \/ SealCopy,
         UNCHANGED <<body, delivered, stored, skipped>>
  PROVE  [Promise!Next]_(Promise!vars)
<1>1. CASE SealCreate
  <2>1. zst[cur].st # "done"
    BY <1>1, PipelineAssumption DEF SealCreate, SpoolInv, NamesInv
  <2>2. fate' = BecomeOf({}, "lost")
    BY <1>1, <2>1 DEF SealCreate
  <2> QED
    BY <2>2, LosePromise
<1>2. CASE SealCopy
  <2> DEFINE S == InStaging
  <2>1. S \subseteq Held /\ fate' = BecomeOf(S, "sealed") /\ pc = "copy"
    BY <1>2 DEF SealCopy, InStaging, Held
  <2>2. S \in SUBSET Lines /\ S \in SUBSET With("held")
    BY <2>1, WithPlaces DEF With
  <2>3. /\ With("held")' = With("held") \ S
        /\ With("sealed")' = With("sealed") \cup S
        /\ With("evicted")' = With("evicted")
    <3>1. /\ With("held")' = With("held") \ S
          /\ With("sealed")' = With("sealed") \cup S
          /\ With("evicted")' = With("evicted") \ S
      BY <2>1, <2>2, BecomeSealed
    <3>2. With("evicted") \cap S = {}
      BY <2>1, WithPlaces
    <3> QED
      BY <3>1, <3>2
  <2>4. Promise!Before(S, With("held") \ S)
    <3>1. lines = <<>>
      BY <2>1 DEF SpoolInv, TypeInv, WriterShape
    <3>2. With("held") \ S \subseteq Range(chan)
      BY <3>1, WithPlaces, EmptyRange DEF Held
    <3> QED
      BY <3>2 DEF SpoolInv, OrderInv, Promise!Before
  <2>5. Promise!Before(With("sealed"), S)
    BY <2>1, WithPlaces DEF SpoolInv, OrderInv, Promise!Before
  <2>6. CASE S = {}
    BY <2>3, <2>6 DEF Promise!vars
  <2>7. CASE S # {}
    <3>1. Promise!Seal(S)
      BY <2>3, <2>4, <2>5, <2>7 DEF Promise!Seal
    <3> QED
      BY <2>2, <3>1 DEF Promise!Next
  <2> QED
    BY <2>6, <2>7
<1> QED
  BY <1>1, <1>2

\* Only whole batches are evicted: an interrupted one holds no line.
LEMMA EvictPromise ==
  ASSUME SpoolInv, EvictOldest, UNCHANGED <<body, delivered, stored, skipped>>
  PROVE  [Promise!Next]_(Promise!vars)
<1>1. PICK n \in listing :
        \/ /\ zst[n].st # "none"
           /\ fate' = BecomeOf(Range(zst[n].lines), "evicted")
        \/ UNCHANGED fate
  BY DEF EvictOldest
<1>2. CASE UNCHANGED fate
  BY <1>2, SameFateStutters
<1>3. CASE /\ zst[n].st # "none"
           /\ fate' = BecomeOf(Range(zst[n].lines), "evicted")
  <2> DEFINE S == Range(zst[n].lines)
  <2>1. n \in Names
    BY DEF SpoolInv, TypeInv, TypeOK
  <2>2. S \subseteq With("sealed")
    <3>1. CASE n \in Done
      BY <3>1, WithPlaces
    <3>2. CASE n \notin Done
      BY <2>1, <3>2, EmptyRange DEF SpoolInv, AccountInv, OnePlace, Done
    <3> QED
      BY <3>1, <3>2
  <2>3. S \in SUBSET Lines
    BY <2>2 DEF With
  <2>4. /\ With("held")' = With("held") \ S
        /\ With("sealed")' = With("sealed") \ S
        /\ With("evicted")' = With("evicted") \cup S
    BY <1>3, <2>3, BecomeEvicted
  <2>5. With("held") \cap S = {}
    BY <2>2 DEF With
  <2>6. With("held")' = With("held")
    BY <2>4, <2>5
  <2>7. Promise!Evict(S)
    BY <2>2, <2>4, <2>6 DEF Promise!Evict
  <2> QED
    BY <2>2, <2>7 DEF Promise!Next
<1> QED
  BY <1>1, <1>2, <1>3

\* The agent dies with all that was held in memory.
LEMMA CrashPromise ==
  ASSUME SpoolInv, Crash, Ship!ShipperCrashes
  PROVE  [Promise!Next]_(Promise!vars)
<1>1. With("held") = Held /\ With("sealed") \cap Held = {}
      /\ With("evicted") \cap Held = {}
  BY WithPlaces
<1>2. Held \in SUBSET Lines /\ fate' = BecomeOf(Held, "lost")
  BY <1>1 DEF With, Crash
<1>3. /\ With("held")' = With("held") \ Held
      /\ With("sealed")' = With("sealed") \ Held
      /\ With("evicted")' = With("evicted") \ Held
  BY <1>2, BecomeGone
<1>4. /\ With("held")' = {} /\ With("sealed")' = With("sealed")
      /\ With("evicted")' = With("evicted")
  BY <1>1, <1>3
<1>5. Promise!Crash
  BY <1>4 DEF Promise!Crash, Ship!ShipperCrashes
<1> QED
  BY <1>5 DEF Promise!Next

\* The writer thread seals the oldest of what is held, loses what it cannot
\* write, and evicts what is durable.
LEMMA WriterPromise ==
  ASSUME SpoolInv, Writer, UNCHANGED <<body, delivered, stored, skipped>>
  PROVE  [Promise!Next]_(Promise!vars)
<1>1. CASE StartWriter
  <2>1. CASE UNCHANGED fate
    BY <2>1, SameFateStutters
  <2>2. CASE fate' = BecomeOf(Range(chan), "lost")
    BY <2>2, LosePromise DEF Held
  <2> QED
    BY <1>1, <2>1, <2>2 DEF StartWriter
<1>2. CASE RecvLine
  <2>1. CASE UNCHANGED fate
    BY <2>1, SameFateStutters
  <2>2. CASE fate' = BecomeOf({Head(chan)}, "lost")
    <3>1. chan \in Seq(Lines) /\ chan # <<>>
      BY <1>2 DEF RecvLine, SpoolInv, TypeInv, TypeOK
    <3>2. 1 \in DOMAIN chan /\ Head(chan) = chan[1]
      BY <3>1
    <3>3. {Head(chan)} \subseteq Held
      BY <3>2 DEF Held, Range
    <3> QED
      BY <2>2, <3>3, LosePromise
  <2> QED
    BY <1>2, <2>1, <2>2 DEF RecvLine
<1>3. CASE SealFails
  BY <1>3, LosePromise DEF SealFails, Held
<1>4. CASE SealCreate \/ SealCopy
  BY <1>4, SealPromise
<1>5. CASE EvictOldest
  BY <1>5, EvictPromise
<1>6. CASE \/ RecvTimeout \/ RecvDisconnected \/ SealFlush \/ SealRename
           \/ SealUnlink \/ Reopen \/ ListBatches \/ EvictDone
  <2>1. UNCHANGED fate
    BY <1>6 DEF RecvTimeout, RecvDisconnected, SealFlush, SealRename, SealUnlink,
       Reopen, ListBatches, EvictDone
  <2> QED
    BY <2>1, SameFateStutters
<1> QED
  BY <1>1, <1>2, <1>3, <1>4, <1>5, <1>6 DEF Writer

\* What is to be removed is stored, or skipped in a batch that was accepted.
Answered == sp = "remove" => body \subseteq stored \cup skipped

LEMMA NextAnswered ==
  ASSUME Answered, [PipelineNext]_pipeVars
  PROVE  Answered'
<1>1. CASE Ship!PostAccepted
  BY <1>1 DEF Ship!PostAccepted, Ship!Receive, Answered
<1>2. CASE \/ Ship!ScanKernel \/ Ship!ScanPlugin \/ Ship!ReadBatch
           \/ Ship!PostRejected \/ Ship!PostFailed \/ Ship!RemoveBatch
           \/ Ship!ShipperStops
  <2>1. sp' # "remove"
    BY <1>2 DEF Ship!ScanKernel, Ship!ScanPlugin, Ship!AfterScan, Ship!ReadBatch,
       Ship!PostRejected, Ship!PostFailed, Ship!RemoveBatch, Ship!ShipperStops,
       Ship!Reject, Ship!Retry, Ship!ToLoopHead
  <2> QED
    BY <2>1 DEF Answered
<1>3. CASE Ship!ShipperCrashes \/ Ship!ShipperStarts
  BY <1>3 DEF Ship!ShipperCrashes, Ship!ShipperStarts, Answered
<1>4. CASE Ship!PluginSeals \/ Ship!RequestStop
  BY <1>4 DEF Ship!PluginSeals, Ship!RequestStop, Ship!loop, Answered
<1>5. CASE UNCHANGED shipVars
  BY <1>5 DEF shipVars, Answered
<1> QED
  BY <1>1, <1>2, <1>3, <1>4, <1>5
  DEF PipelineNext, ShipperThread, Ship!ShipperStep, pipeVars

\* The shipper sends only what is durable, for the first time in order, and
\* removes only what the server has stored, or skipped in a batch it accepted.
LEMMA ShipperPromise ==
  ASSUME OneWidth, SpoolInv, ShipInv, Answered, ShipperThread
  PROVE  [Promise!Next]_(Promise!vars)
<1>1. CASE /\ sp = "remove" /\ pick.dir = "kernel" /\ pick.name \in Names
           /\ ShipperRemoves(pick.name)
  <2> DEFINE S == Range(zst[pick.name].lines)
  <2>1. /\ zst[pick.name].st = "done" /\ fate' = BecomeOf(S, "shipped")
        /\ S \subseteq With("sealed")
    BY <1>1, WithPlaces DEF ShipperRemoves, Done
  <2>2. S \subseteq stored \cup skipped
    BY <1>1, <2>1 DEF ShipInv, BodyIsPick, Answered
  <2>3. S \in SUBSET Lines
    BY <2>1 DEF With
  <2>4. /\ With("held")' = With("held") \ S
        /\ With("sealed")' = With("sealed") \ S
        /\ With("evicted")' = With("evicted") \ S
    BY <2>1, <2>3, BecomeGone
  <2>5. With("held") \cap S = {} /\ With("evicted") \cap S = {}
    BY <2>1 DEF With
  <2>6. With("held")' = With("held") /\ With("evicted")' = With("evicted")
    BY <2>4, <2>5
  <2>7. body' = {} /\ UNCHANGED <<delivered, stored, skipped>>
    BY <1>1 DEF ShipperThread, Ship!ShipperStep, Ship!ScanKernel, Ship!ScanPlugin,
       Ship!ReadBatch, Ship!PostAccepted, Ship!PostRejected, Ship!PostFailed,
       Ship!RemoveBatch, Ship!ShipperStops, Ship!ToLoopHead
  <2>8. Promise!Release(S)
    BY <2>2, <2>4, <2>6, <2>7 DEF Promise!Release, Promise!KeepOrClose
  <2> QED
    BY <2>1, <2>8 DEF Promise!Next
<1>2. CASE UNCHANGED fate
  <2>1. UNCHANGED <<With("held"), With("sealed"), With("evicted")>>
    BY <1>2 DEF With
  <2>2. CASE /\ UNCHANGED <<delivered, stored, skipped>>
             /\ body' \subseteq With("sealed")
    BY <2>1, <2>2 DEF Promise!Next, Promise!Read
  <2>3. ASSUME NEW likes \in SUBSET body, Ship!Receive(likes),
               NEW accepted \in {{}, body},
               skipped' = (skipped \cup accepted) \ stored',
               body' \in {body, {}}
        PROVE  [Promise!Next]_(Promise!vars)
    <3>1. Promise!Deliver
      BY <2>1, <2>3 DEF Ship!Receive, Promise!Deliver, Promise!KeepOrClose,
         ShipInv, DeliveredInOrder, InOrder
    <3> QED
      BY <3>1 DEF Promise!Next
  <2>4. CASE UNCHANGED <<body, delivered, stored, skipped>>
    BY <1>2, <2>4, SameFateStutters
  <2>5. CASE Ship!ReadBatch
    <3>1. CASE pick.dir = "kernel" /\ zst[pick.name].st = "done" /\ sp' = "post"
      <4>1. pick.name \in Done
        BY <3>1 DEF ShipInv, PickIsFirst, Done
      <4>2. body' = Range(zst[pick.name].lines)
        BY <2>5, <3>1, SameNames DEF Ship!ReadBatch, Ship!Reject, Ship!Retry,
           Ship!ToLoopHead
      <4>3. body' \subseteq With("sealed")
        BY <4>1, <4>2, WithPlaces
      <4> QED
        BY <2>2, <2>5, <4>3 DEF Ship!ReadBatch
    <3>2. CASE ~(pick.dir = "kernel" /\ zst[pick.name].st = "done" /\ sp' = "post")
      <4>1. body' = {}
        BY <2>5, <3>2 DEF Ship!ReadBatch, Ship!Reject, Ship!Retry,
           Ship!ToLoopHead, ShipInv
      <4> QED
        BY <2>2, <2>5, <4>1 DEF Ship!ReadBatch
    <3> QED
      BY <3>1, <3>2
  <2>6. CASE Ship!PostAccepted
    BY <2>3, <2>6 DEF Ship!PostAccepted
  <2>7. CASE Ship!PostFailed
    <3>1. body' = {}
      BY <2>7 DEF Ship!PostFailed, Ship!Retry, Ship!ToLoopHead
    <3>2. CASE UNCHANGED <<delivered, stored, skipped>>
      BY <2>2, <3>1, <3>2
    <3>3. ASSUME NEW likes \in SUBSET body, Ship!Receive(likes),
                 skipped' = skipped \ stored'
          PROVE  [Promise!Next]_(Promise!vars)
      <4>1. skipped' = (skipped \cup {}) \ stored'
        BY <3>3
      <4> QED
        BY <2>3, <3>1, <3>3, <4>1
    <3> QED
      BY <2>7, <3>2, <3>3 DEF Ship!PostFailed
  <2>8. CASE Ship!PostRejected \/ Ship!RemoveBatch
    BY <2>2, <2>8 DEF Ship!PostRejected, Ship!RemoveBatch, Ship!Reject,
       Ship!ToLoopHead
  <2>9. CASE Ship!ScanKernel \/ Ship!ScanPlugin \/ Ship!ShipperStops
    BY <2>4, <2>9 DEF Ship!ScanKernel, Ship!ScanPlugin, Ship!ShipperStops
  <2> QED
    BY <2>5, <2>6, <2>7, <2>8, <2>9 DEF ShipperThread, Ship!ShipperStep
<1> QED
  BY <1>1, <1>2, ShipperOnSpool DEF SpoolVars

\* Every step of the two threads and of their surroundings is one of the promise.
LEMMA StepPromise ==
  ASSUME OneWidth, SpoolInv, ShipInv, Answered, [PipelineNext]_pipeVars
  PROVE  [Promise!Next]_(Promise!vars)
<1> USE DEF shipVars
<1>1. CASE Writer /\ UNCHANGED shipVars
  BY <1>1, WriterPromise
<1>2. CASE (\E s \in Senders : TrySubmit(s)) /\ UNCHANGED shipVars
  BY <1>2, SubmitPromise
<1>3. CASE ClockMoves /\ UNCHANGED shipVars
  BY <1>3, SameFateStutters DEF ClockMoves
<1>4. CASE Crash /\ Ship!ShipperCrashes
  BY <1>4, CrashPromise
<1>5. CASE Restart /\ Ship!ShipperStarts
  BY <1>5, SameFateStutters DEF Restart, Ship!ShipperStarts
<1>6. CASE ShipperThread
  BY <1>6, ShipperPromise
<1>7. CASE (Ship!PluginSeals \/ Ship!RequestStop) /\ SpoolUnchanged /\ UNCHANGED fate
  BY <1>7, SameFateStutters DEF Ship!PluginSeals, Ship!RequestStop, Ship!loop
<1>8. CASE UNCHANGED pipeVars
  BY <1>8, SameFateStutters DEF pipeVars, vars
<1> QED
  BY <1>1, <1>2, <1>3, <1>4, <1>5, <1>6, <1>7, <1>8 DEF PipelineNext

LEMMA InitPromise == PipelineInit => Promise!Init
BY DEF PipelineInit, Init, Ship!ShipperInit, Promise!Init, With

\* The writer thread and the shipper thread, on one directory and through
\* crashes, failed file operations, lost answers and evictions, implement
\* EventDelivery: only sealed lines are sent; only lines that the server has
\* stored, or skipped in a batch it answered with 2xx, or that are evicted leave
\* the disk; and first deliveries are in the order of submission, as long as the
\* directory never holds two batches of one second with numbers of different
\* widths (the names of spool/writer.rs, send_one and oldest_batch of
\* shipper/run.rs).
THEOREM PipelineKeepsPromise ==
  PipelineSpec /\ []OneWidth => KeepsPromise
<1>1. PipelineInit => SpoolInv /\ ShipInv /\ Answered
  BY InitTypeInv, InitStatsInv, InitNamesInv, InitAccountInv, InitOrderInv,
     InitShipInv DEF SpoolInv, PipelineInit, Ship!ShipperInit, Answered
<1>2. SpoolInv /\ ShipInv /\ Answered /\ OneWidth /\ [PipelineNext]_pipeVars
        => SpoolInv' /\ ShipInv' /\ Answered'
  BY PipelineSpoolInv, PipelineShipInv, NextAnswered
<1>3. PipelineInit => Promise!Init
  BY InitPromise
<1>4. SpoolInv /\ ShipInv /\ Answered /\ OneWidth /\ [PipelineNext]_pipeVars
        => [Promise!Next]_(Promise!vars)
  BY StepPromise
<1> QED
  BY <1>1, <1>2, <1>3, <1>4, PTL DEF PipelineSpec, KeepsPromise, Promise!Spec

----------------------------------------------------------------------------
(* What became of the lines that are gone from the disk                     *)

\* A line that has been durable, whatever became of it.
Kept == {"sealed", "shipped", "evicted"}

\* A line that the shipper has removed from the disk is stored, or the server
\* has skipped it in a batch that it answered with 2xx; and all that has reached
\* the server has been durable, nothing of it is counted as refused or lost.  So
\* of the lines that were sealed, those the server does not store in the end are
\* the ones it has skipped, and the ones evicted.
AccountOfServer ==
  /\ \A e \in Lines : fate[e] = "shipped" => e \in stored \cup skipped
  /\ stored \cup skipped \subseteq delivered
  /\ \A e \in delivered : fate[e] \in Kept

ServedInv == AccountOfServer /\ \A e \in body : fate[e] \in Kept

\* Lines that leave what they were without being shipped.
LEMMA ServedMoves ==
  ASSUME ServedInv, ShipInv, NEW S, NEW f \in Fates \ {"shipped"},
         fate' = BecomeOf(S, f), f \in Kept \/ \A e \in S : fate[e] \notin Kept,
         body' \subseteq body, UNCHANGED <<delivered, stored, skipped>>
  PROVE  ServedInv'
<1>1. \A e \in Lines : fate'[e] = IF e \in S THEN f ELSE fate[e]
  BY DEF BecomeOf
<1>2. delivered \subseteq Lines /\ body \subseteq Lines
  BY DEF ShipInv, DeliveredInOrder, BodyIsPick
<1>3. \A e \in Lines : fate[e] \in Kept => fate'[e] \in Kept
  BY <1>1
<1> QED
  BY <1>1, <1>2, <1>3 DEF ServedInv, AccountOfServer

LEMMA ServedStays ==
  ASSUME ServedInv, UNCHANGED <<fate, delivered, stored, skipped>>,
         body' \subseteq body
  PROVE  ServedInv'
BY DEF ServedInv, AccountOfServer

\* What the writer discards has not been durable.
LEMMA ServedLosses ==
  ASSUME SpoolInv, ServedInv, ShipInv, NEW S, S \subseteq Held,
         fate' = BecomeOf(S, "lost"), body' \subseteq body,
         UNCHANGED <<delivered, stored, skipped>>
  PROVE  ServedInv'
<1>1. \A e \in S : fate[e] \notin Kept
  BY WithPlaces DEF With, Kept
<1>2. "lost" \in Fates \ {"shipped"}
  BY DEF Fates
<1> QED
  BY <1>1, <1>2, ServedMoves

LEMMA WriterServes ==
  ASSUME SpoolInv, ShipInv, ServedInv, Writer,
         UNCHANGED <<body, delivered, stored, skipped>>
  PROVE  ServedInv'
<1>0. {"sealed", "evicted"} \subseteq (Fates \ {"shipped"}) \cap Kept
  BY DEF Fates, Kept
<1>1. CASE StartWriter
  <2>1. CASE fate' = BecomeOf(Range(chan), "lost")
    BY <2>1, ServedLosses DEF Held
  <2> QED
    BY <1>1, <2>1, ServedStays DEF StartWriter
<1>2. CASE RecvLine
  <2>1. CASE fate' = BecomeOf({Head(chan)}, "lost")
    <3>1. chan \in Seq(Lines) /\ chan # <<>>
      BY <1>2 DEF RecvLine, SpoolInv, TypeInv, TypeOK
    <3>2. 1 \in DOMAIN chan /\ Head(chan) = chan[1]
      BY <3>1
    <3>3. {Head(chan)} \subseteq Held
      BY <3>2 DEF Held, Range
    <3> QED
      BY <2>1, <3>3, ServedLosses
  <2> QED
    BY <1>2, <2>1, ServedStays DEF RecvLine
<1>3. CASE SealFails
  BY <1>3, ServedLosses DEF SealFails, Held
<1>4. CASE SealCreate
  <2>1. zst[cur].st # "done"
    BY <1>4, PipelineAssumption DEF SealCreate, SpoolInv, NamesInv
  <2>2. fate' = BecomeOf({}, "lost")
    BY <1>4, <2>1 DEF SealCreate
  <2> QED
    BY <2>2, ServedLosses
<1>5. CASE SealCopy
  BY <1>0, <1>5, ServedMoves DEF SealCopy, InStaging
<1>6. CASE EvictOldest
  <2>1. PICK n \in listing : \/ fate' = BecomeOf(Range(zst[n].lines), "evicted")
                             \/ UNCHANGED fate
    BY <1>6 DEF EvictOldest
  <2> QED
    BY <1>0, <2>1, ServedMoves, ServedStays
<1>7. CASE \/ RecvTimeout \/ RecvDisconnected \/ SealFlush \/ SealRename
           \/ SealUnlink \/ Reopen \/ ListBatches \/ EvictDone
  <2>1. UNCHANGED fate
    BY <1>7 DEF RecvTimeout, RecvDisconnected, SealFlush, SealRename, SealUnlink,
       Reopen, ListBatches, EvictDone
  <2> QED
    BY <2>1, ServedStays
<1> QED
  BY <1>1, <1>2, <1>3, <1>4, <1>5, <1>6, <1>7 DEF Writer

\* The shipper reads what is durable, and removes what was answered with 2xx.
LEMMA ShipperServes ==
  ASSUME SpoolInv, ShipInv, Answered, ServedInv, ShipperThread
  PROVE  ServedInv'
<1>1. CASE /\ sp = "remove" /\ pick.dir = "kernel" /\ pick.name \in Names
           /\ ShipperRemoves(pick.name)
  <2> DEFINE S == Range(zst[pick.name].lines)
  <2>1. /\ zst[pick.name].st = "done" /\ fate' = BecomeOf(S, "shipped")
    BY <1>1 DEF ShipperRemoves
  <2>2. S \subseteq stored \cup skipped
    BY <1>1, <2>1 DEF ShipInv, BodyIsPick, Answered
  <2>3. body' = {} /\ UNCHANGED <<delivered, stored, skipped>>
    BY <1>1 DEF ShipperThread, Ship!ShipperStep, Ship!ScanKernel, Ship!ScanPlugin,
       Ship!ReadBatch, Ship!PostAccepted, Ship!PostRejected, Ship!PostFailed,
       Ship!RemoveBatch, Ship!ShipperStops, Ship!ToLoopHead
  <2>4. \A e \in Lines : fate'[e] = IF e \in S THEN "shipped" ELSE fate[e]
    BY <2>1 DEF BecomeOf
  <2>5. delivered \subseteq Lines
    BY DEF ShipInv, DeliveredInOrder
  <2> HIDE DEF S
  <2> QED
    BY <2>2, <2>3, <2>4, <2>5 DEF ServedInv, AccountOfServer, Kept
<1>2. CASE UNCHANGED fate
  <2>1. ASSUME delivered' \subseteq delivered \cup body,
               stored \cup skipped \subseteq stored' \cup skipped',
               stored' \cup skipped' \subseteq delivered',
               \A e \in body' : fate[e] \in Kept
        PROVE  ServedInv'
    BY <1>2, <2>1 DEF ServedInv, AccountOfServer
  <2>2. CASE Ship!ReadBatch
    <3>1. CASE pick.dir = "kernel" /\ zst[pick.name].st = "done" /\ sp' = "post"
      <4>1. pick.name \in Done
        BY <3>1 DEF ShipInv, PickIsFirst, Done
      <4>2. body' = Range(zst[pick.name].lines)
        BY <2>2, <3>1, SameNames DEF Ship!ReadBatch, Ship!Reject, Ship!Retry,
           Ship!ToLoopHead
      <4>3. \A e \in body' : fate[e] = "sealed"
        BY <4>1, <4>2, WithPlaces DEF With
      <4> QED
        BY <2>1, <2>2, <4>3 DEF Ship!ReadBatch, Kept, ServedInv, AccountOfServer
    <3>2. CASE ~(pick.dir = "kernel" /\ zst[pick.name].st = "done" /\ sp' = "post")
      <4>1. body' = {}
        BY <2>2, <3>2 DEF Ship!ReadBatch, Ship!Reject, Ship!Retry,
           Ship!ToLoopHead, ShipInv
      <4> QED
        BY <2>1, <2>2, <4>1 DEF Ship!ReadBatch, ServedInv, AccountOfServer
    <3> QED
      BY <3>1, <3>2
  <2>3. CASE Ship!PostAccepted \/ Ship!PostFailed
    <3>1. body' \in {body, {}}
      BY <2>3 DEF Ship!PostAccepted, Ship!PostFailed, Ship!Retry, Ship!ToLoopHead
    <3>2. CASE UNCHANGED <<delivered, stored, skipped>>
      BY <2>1, <3>1, <3>2 DEF ServedInv, AccountOfServer
    <3>3. CASE \E likes \in SUBSET body :
                 /\ Ship!Receive(likes)
                 /\ skipped' \in {(skipped \cup body) \ stored', skipped \ stored'}
      BY <2>1, <3>1, <3>3 DEF ServedInv, AccountOfServer, Ship!Receive
    <3> QED
      BY <2>3, <3>2, <3>3 DEF Ship!PostAccepted, Ship!PostFailed
  <2>4. CASE \/ Ship!ScanKernel \/ Ship!ScanPlugin \/ Ship!PostRejected
             \/ Ship!RemoveBatch \/ Ship!ShipperStops
    <3>1. UNCHANGED <<delivered, stored, skipped>> /\ body' \in {body, {}}
      BY <2>4 DEF Ship!ScanKernel, Ship!ScanPlugin, Ship!PostRejected,
         Ship!RemoveBatch, Ship!ShipperStops, Ship!Reject, Ship!ToLoopHead
    <3> QED
      BY <1>2, <3>1, ServedStays
  <2> QED
    BY <2>2, <2>3, <2>4 DEF ShipperThread, Ship!ShipperStep
<1> QED
  BY <1>1, <1>2, ShipperOnSpool DEF SpoolVars

LEMMA StepServes ==
  ASSUME SpoolInv, ShipInv, Answered, ServedInv, [PipelineNext]_pipeVars
  PROVE  ServedInv'
<1> USE DEF shipVars
<1>1. CASE Writer /\ UNCHANGED shipVars
  BY <1>1, WriterServes
<1>2. ASSUME NEW s \in Senders, TrySubmit(s), UNCHANGED shipVars
      PROVE  ServedInv'
  <2>1. offered + 1 \in Lines
    BY <1>2, SpoolAssumption DEF TrySubmit, SpoolInv, TypeInv, TypeOK, Lines
  <2>2. fate[offered + 1] = "unoffered"
    BY <2>1 DEF SpoolInv, TypeInv, TypeOK, AccountInv, LineAccounting
  <2>3. \A e \in {offered + 1} : fate[e] \notin Kept
    BY <2>2 DEF Kept
  <2>4. \E f \in {"held", "refused"} : fate' = BecomeOf({offered + 1}, f)
    BY <1>2 DEF TrySubmit
  <2>5. {"held", "refused"} \subseteq Fates \ {"shipped"}
    BY DEF Fates
  <2> QED
    BY <1>2, <2>3, <2>4, <2>5, ServedMoves
<1>3. CASE ClockMoves /\ UNCHANGED shipVars
  BY <1>3, ServedStays DEF ClockMoves
<1>4. CASE Crash /\ Ship!ShipperCrashes
  BY <1>4, ServedLosses DEF Crash, Ship!ShipperCrashes
<1>5. CASE Restart /\ Ship!ShipperStarts
  BY <1>5, ServedStays DEF Restart, Ship!ShipperStarts
<1>6. CASE ShipperThread
  BY <1>6, ShipperServes
<1>7. CASE (Ship!PluginSeals \/ Ship!RequestStop) /\ SpoolUnchanged /\ UNCHANGED fate
  BY <1>7, ServedStays DEF Ship!PluginSeals, Ship!RequestStop, Ship!loop
<1>8. CASE UNCHANGED pipeVars
  BY <1>8, ServedStays DEF pipeVars, vars
<1> QED
  BY <1>1, <1>2, <1>3, <1>4, <1>5, <1>6, <1>7, <1>8 DEF PipelineNext

\* No batch is removed that the server has not answered with 2xx for all of its
\* lines, whether it has stored or skipped them, and nothing reaches the server
\* that a crash or an error of the writer may still take back (send_one and the
\* removal of shipper/run.rs, the seal of spool/writer.rs), through crashes,
\* evictions of the batch that is being sent and lost answers.
THEOREM PipelineAccount == PipelineSpec /\ []OneWidth => []AccountOfServer
<1>1. PipelineInit => SpoolInv /\ ShipInv /\ Answered
  BY InitTypeInv, InitStatsInv, InitNamesInv, InitAccountInv, InitOrderInv,
     InitShipInv DEF SpoolInv, PipelineInit, Ship!ShipperInit, Answered
<1>2. SpoolInv /\ ShipInv /\ Answered /\ OneWidth /\ [PipelineNext]_pipeVars
        => SpoolInv' /\ ShipInv' /\ Answered'
  BY PipelineSpoolInv, PipelineShipInv, NextAnswered
<1>3. PipelineInit => ServedInv
  BY DEF PipelineInit, Init, Ship!ShipperInit, ServedInv, AccountOfServer
<1>4. SpoolInv /\ ShipInv /\ Answered /\ ServedInv /\ [PipelineNext]_pipeVars
        => ServedInv'
  BY StepServes
<1>5. ServedInv => AccountOfServer
  BY DEF ServedInv
<1> QED
  BY <1>1, <1>2, <1>3, <1>4, <1>5, PTL DEF PipelineSpec
=============================================================================
