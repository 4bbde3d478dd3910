---------------------------- MODULE SpoolProofs ----------------------------
(***************************************************************************)
(* What is proved of Spool for every value of its constants: the types;    *)
(* the account that the counters give of the lines submitted; that a batch *)
(* never takes the name of another one as long as the clock is sane; what  *)
(* became of each line; that a clean exit has lost none, nor has any       *)
(* moment of a run in which nothing failed; and, as long as batches of one *)
(* second have numbers of one width, the order of the batches and the size *)
(* cap that gives up the oldest of them.                                   *)
(*                                                                         *)
(* Each rests on an inductive strengthening of the property: TypeInv,      *)
(* StatsInv, NamesInv, AccountInv, CleanInv, OrderInv, CapInv.             *)
(***************************************************************************)
EXTENDS Spool, FiniteSetTheorems, WellFoundedInduction, TLAPS

(***************************************************************************)
(* Type correctness.                                                       *)
(***************************************************************************)

\* When the active file is empty, and that it never holds so much that a line
\* more would exceed the size that rotates it.
WriterShape ==
  /\ pc \notin {"recv", "flush", "rename"} => lines = <<>>
  /\ pc = "recv" => Len(lines) < MaxFileLines
  /\ pc = "recv" /\ ~open => lines = <<>>

TypeInv == TypeOK /\ WriterShape

LEMMA BecomeOfType ==
  ASSUME fate \in [Lines -> Fates], NEW S, NEW f \in Fates
  PROVE  BecomeOf(S, f) \in [Lines -> Fates]
BY DEF BecomeOf

LEMMA NoFileType == NoFile \in Files
<1>1. <<>> \in Seq(Lines)
  OBVIOUS
<1> QED
  BY <1>1 DEF NoFile, Files

LEMMA InitTypeInv == Init => TypeInv
<1> SUFFICES ASSUME Init PROVE TypeInv
  OBVIOUS
<1>1. zst \in [Names -> Files] /\ staging \in [Names -> Seq(Lines)]
  BY NoFileType DEF Init
<1>2. cur \in Names /\ clock \in Seconds
  BY NameAssumption DEF Init, Names, Seconds
<1>3. fate \in [Lines -> Fates]
  BY DEF Init, Fates
<1>4. /\ batches_sealed \in 0 .. MaxSeals /\ runs \in 1 .. MaxRuns
      /\ offered \in 0 .. MaxOffered /\ base \in 0 .. offered
      /\ faults \in 0 .. MaxFaults
  BY NameAssumption, SpoolAssumption DEF Init
<1>5. /\ chan \in Seq(Lines) /\ Len(chan) <= Capacity
      /\ lines \in Seq(Lines) /\ Len(lines) <= MaxFileLines
  BY SpoolAssumption DEF Init
<1> QED
  BY <1>1, <1>2, <1>3, <1>4, <1>5 DEF Init, TypeInv, TypeOK, WriterShape

LEMMA SubmitTypeInv ==
  ASSUME TypeInv, NEW s \in Senders, TrySubmit(s)
  PROVE  TypeInv'
<1> USE DEF Fates
<1>1. offered + 1 \in Lines /\ offered' \in 0 .. MaxOffered
  BY SpoolAssumption DEF TypeInv, TypeOK, TrySubmit, Lines
<1>2. chan' \in Seq(Lines) /\ Len(chan') <= Capacity
  <2>1. CASE chan' = Append(chan, offered + 1) /\ HasRoom
    BY <2>1, <1>1, SpoolAssumption DEF TypeInv, TypeOK, HasRoom
  <2>2. CASE UNCHANGED chan
    BY <2>2 DEF TypeInv, TypeOK
  <2> QED
    BY <2>1, <2>2 DEF TrySubmit
<1>3. fate' \in [Lines -> Fates]
  BY BecomeOfType DEF TypeInv, TypeOK, TrySubmit
<1>4. base' \in 0 .. offered' /\ events_dropped' \in Nat
  BY SpoolAssumption DEF TypeInv, TypeOK, TrySubmit, world
<1> QED
  BY <1>1, <1>2, <1>3, <1>4
  DEF TypeInv, TypeOK, WriterShape, TrySubmit, seal, disk, cap, world

LEMMA ReceiveTypeInv ==
  ASSUME TypeInv, RecvLine
  PROVE  TypeInv'
<1> USE DEF Fates
<1>0. /\ events_dropped \in Nat /\ events_written \in Nat
      /\ faults \in 0 .. MaxFaults
  BY DEF TypeInv, TypeOK
<1>1. Head(chan) \in Lines /\ chan' \in Seq(Lines) /\ Len(chan') <= Capacity
  BY SpoolAssumption DEF TypeInv, TypeOK, RecvLine
<1>2. CASE lines' = lines
  <2>1. fate' \in [Lines -> Fates]
    BY BecomeOfType DEF TypeInv, TypeOK, RecvLine
  <2>2. events_dropped' \in Nat /\ events_written' \in Nat
    BY <1>0 DEF RecvLine, CountDiscarded
  <2>3. faults' \in 0 .. MaxFaults
    BY <1>0, SpoolAssumption DEF RecvLine, Fault
  <2>4. pc' = pc /\ open' = open
    <3>1. lines # Append(lines, Head(chan))
      BY <1>1 DEF TypeInv, TypeOK
    <3> QED
      BY <3>1, <1>2 DEF RecvLine
  <2> QED
    BY <1>1, <1>2, <2>1, <2>2, <2>3, <2>4
    DEF TypeInv, TypeOK, WriterShape, RecvLine, disk, cap, world
<1>3. CASE /\ lines' = Append(lines, Head(chan)) /\ open
           /\ events_written' = events_written + 1
           /\ \/ FileFull(lines') /\ pc' = "flush" /\ open' = FALSE
              \/ ~FileFull(lines') /\ pc' = pc /\ open' = open
           /\ UNCHANGED <<events_dropped, fate, faults>>
  <2>1. lines' \in Seq(Lines) /\ Len(lines') = Len(lines) + 1
    BY <1>1, <1>3 DEF TypeInv, TypeOK
  <2>2. Len(lines') <= MaxFileLines
    BY <2>1, SpoolAssumption DEF TypeInv, TypeOK, WriterShape, RecvLine
  <2>3. ~FileFull(lines') => Len(lines') < MaxFileLines
    BY <2>1, <2>2, SpoolAssumption DEF FileFull
  <2>4. WriterShape'
    BY <1>3, <2>3 DEF WriterShape, RecvLine
  <2>5. events_written' \in Nat /\ events_dropped' = events_dropped
    BY <1>0, <1>3
  <2>6. pc' \in {"recv", "flush"}
    BY <1>3 DEF RecvLine
  <2>7. open' \in BOOLEAN
    BY <1>3 DEF TypeInv, TypeOK
  <2>8. UNCHANGED <<senders, closing, cur, disk, cap, batches_sealed,
                    batches_evicted, world, offered, fate, faults>>
    BY <1>3 DEF RecvLine
  <2> QED
    BY <1>1, <2>1, <2>2, <2>4, <2>5, <2>6, <2>7, <2>8
    DEF TypeInv, TypeOK, disk, cap, world
<1> QED
  BY <1>2, <1>3 DEF RecvLine

LEMMA StartTypeInv ==
  ASSUME TypeInv, StartWriter
  PROVE  TypeInv'
<1>1. chan' \in Seq(Lines) /\ Len(chan') <= Capacity
  <2>1. <<>> \in Seq(Lines) /\ Len(<<>>) <= Capacity
    BY SpoolAssumption
  <2> QED
    BY <2>1 DEF TypeInv, TypeOK, StartWriter
<1>2. fate' \in [Lines -> Fates]
  BY BecomeOfType DEF TypeInv, TypeOK, StartWriter, Fates
<1>3. faults' \in 0 .. MaxFaults
  BY SpoolAssumption DEF TypeInv, TypeOK, StartWriter, Fault
<1>4. Len(<<>>) < MaxFileLines
  BY SpoolAssumption
<1> QED
  BY <1>1, <1>2, <1>3, <1>4
  DEF TypeInv, TypeOK, WriterShape, StartWriter, disk, cap, stats, world

LEMMA RotateTypeInv ==
  ASSUME TypeInv, RecvTimeout \/ RecvDisconnected \/ SealFlush \/ Reopen
  PROVE  TypeInv'
<1>1. faults' \in 0 .. MaxFaults
  BY SpoolAssumption
  DEF TypeInv, TypeOK, RecvTimeout, RecvDisconnected, SealFlush, Reopen, Fault
<1>2. Len(<<>>) < MaxFileLines
  BY SpoolAssumption
<1>3. CASE RecvTimeout
  BY <1>1, <1>2, <1>3
  DEF TypeInv, TypeOK, WriterShape, RecvTimeout, disk, cap, stats, world
<1>4. CASE RecvDisconnected
  BY <1>1, <1>2, <1>4
  DEF TypeInv, TypeOK, WriterShape, RecvDisconnected, disk, cap, stats, world
<1>5. CASE SealFlush
  BY <1>1, <1>2, <1>5
  DEF TypeInv, TypeOK, WriterShape, SealFlush, seal, disk, cap, stats, world
<1>6. CASE Reopen
  BY <1>1, <1>2, <1>6
  DEF TypeInv, TypeOK, WriterShape, Reopen, disk, cap, stats, world
<1> QED
  BY <1>3, <1>4, <1>5, <1>6

LEMMA FilesType ==
  ASSUME TypeOK, NEW n
  PROVE  /\ [zst EXCEPT ![n] = NoFile] \in [Names -> Files]
         /\ [zst EXCEPT ![cur] = [st |-> "partial", lines |-> <<>>]]
              \in [Names -> Files]
         /\ [zst EXCEPT ![cur] = [st |-> "done", lines |-> staging[cur]]]
              \in [Names -> Files]
         /\ [staging EXCEPT ![n] = <<>>] \in [Names -> Seq(Lines)]
         /\ [staging EXCEPT ![n] = lines] \in [Names -> Seq(Lines)]
<1>1. <<>> \in Seq(Lines)
  OBVIOUS
<1>2. staging[cur] \in Seq(Lines) /\ lines \in Seq(Lines)
  BY DEF TypeOK
<1>3. /\ [st |-> "partial", lines |-> <<>>] \in Files
      /\ [st |-> "done", lines |-> staging[cur]] \in Files
      /\ NoFile \in Files
  BY <1>1, <1>2 DEF Files, NoFile
<1> QED
  BY <1>1, <1>2, <1>3 DEF TypeOK

LEMMA SealTypeInv ==
  ASSUME TypeInv, SealRename \/ SealCreate \/ SealCopy \/ SealUnlink \/ SealFails
  PROVE  TypeInv'
<1>1. <<>> \in Seq(Lines) /\ Len(<<>>) <= MaxFileLines
  BY SpoolAssumption
<1>2. CASE SealRename
  <2>1. cur' \in Names /\ batches_sealed' \in 0 .. MaxSeals
    BY <1>2, NameAssumption
    DEF SealRename, NextSeq, Names, Seconds, TypeInv, TypeOK
  <2>2. staging' \in [Names -> Seq(Lines)]
    BY <1>2, FilesType DEF SealRename, TypeInv
  <2> QED
    BY <1>1, <1>2, <2>1, <2>2
    DEF TypeInv, TypeOK, WriterShape, SealRename, cap, world
<1>3. CASE SealCreate
  <2>1. fate' \in [Lines -> Fates] /\ zst' \in [Names -> Files]
    BY <1>3, BecomeOfType, FilesType DEF SealCreate, TypeInv, TypeOK, Fates
  <2> QED
    BY <1>3, <2>1
    DEF TypeInv, TypeOK, WriterShape, SealCreate, seal, cap, stats, world
<1>4. CASE SealCopy
  <2>1. fate' \in [Lines -> Fates] /\ zst' \in [Names -> Files]
    BY <1>4, BecomeOfType, FilesType DEF SealCopy, TypeInv, TypeOK, Fates
  <2> QED
    BY <1>4, <2>1
    DEF TypeInv, TypeOK, WriterShape, SealCopy, seal, cap, stats, world
<1>5. CASE SealUnlink
  <2>1. staging' \in [Names -> Seq(Lines)]
    BY <1>5, FilesType DEF SealUnlink, TypeInv, TypeOK
  <2>2. faults' \in 0 .. MaxFaults
    BY <1>5, SpoolAssumption DEF SealUnlink, TypeInv, TypeOK, Fault
  <2> QED
    BY <1>5, <2>1, <2>2
    DEF TypeInv, TypeOK, WriterShape, SealUnlink, seal, cap, stats, world
<1>6. CASE SealFails
  <2>1. fate' \in [Lines -> Fates]
    BY <1>6, BecomeOfType DEF SealFails, TypeInv, TypeOK, Fates
  <2>2. faults' \in 0 .. MaxFaults /\ batches_sealed' \in 0 .. MaxSeals
    BY <1>6, SpoolAssumption, NameAssumption
    DEF SealFails, TypeInv, TypeOK, Fault, NextSeq
  <2>3. pc' \in {"exited", "reopen"}
    BY <1>6 DEF SealFails, AfterSeal
  <2> QED
    BY <1>1, <1>6, <2>1, <2>2, <2>3
    DEF TypeInv, TypeOK, WriterShape, SealFails, disk, cap, world
<1> QED
  BY <1>2, <1>3, <1>4, <1>5, <1>6

LEMMA CapTypeInv ==
  ASSUME TypeInv, ListBatches \/ EvictOldest \/ EvictDone
  PROVE  TypeInv'
<1>1. CASE ListBatches
  <2>1. pc' \in {"evict", "exited", "reopen"}
    BY <1>1 DEF ListBatches, AfterSeal
  <2>2. listing' \subseteq Names /\ faults' \in 0 .. MaxFaults
    BY <1>1, SpoolAssumption DEF ListBatches, TypeInv, TypeOK, Fault, Present, cap
  <2> QED
    BY <1>1, <2>1, <2>2
    DEF TypeInv, TypeOK, WriterShape, ListBatches, seal, disk, stats, world
<1>2. CASE EvictOldest
  <2>1. PICK n \in listing :
          /\ listing' = listing \ {n}
          /\ \/ zst' = [zst EXCEPT ![n] = NoFile]
             \/ UNCHANGED zst
          /\ \/ fate' = BecomeOf(Range(zst[n].lines), "evicted")
             \/ UNCHANGED fate
          /\ batches_evicted' \in {batches_evicted, batches_evicted + 1}
          /\ Fault \/ UNCHANGED faults
    BY <1>2 DEF EvictOldest
  <2>2. zst' \in [Names -> Files]
    <3>1. zst \in [Names -> Files]
      BY DEF TypeInv, TypeOK
    <3>2. [zst EXCEPT ![n] = NoFile] \in [Names -> Files]
      BY <3>1, NoFileType
    <3> QED
      BY <2>1, <3>1, <3>2
  <2>3. fate' \in [Lines -> Fates]
    BY <2>1, BecomeOfType DEF TypeInv, TypeOK, Fates
  <2>4. batches_evicted' \in Nat /\ listing' \subseteq Names
    BY <2>1 DEF TypeInv, TypeOK
  <2>5. faults' \in 0 .. MaxFaults
    BY <2>1, SpoolAssumption DEF TypeInv, TypeOK, Fault
  <2>6. UNCHANGED <<chan, senders, pc, open, closing, lines, cur, staging,
                    events_written, events_dropped, batches_sealed, clock, boot,
                    offered, base, runs>>
    BY <1>2 DEF EvictOldest, seal, world
  <2> QED
    BY <2>2, <2>3, <2>4, <2>5, <2>6 DEF TypeInv, TypeOK, WriterShape
<1>3. CASE EvictDone
  <2>1. pc' \in {"exited", "reopen"}
    BY <1>3 DEF EvictDone, AfterSeal
  <2> QED
    BY <1>3, <2>1
    DEF TypeInv, TypeOK, WriterShape, EvictDone, seal, disk, stats, world
<1> QED
  BY <1>1, <1>2, <1>3

LEMMA SurroundingsTypeInv ==
  ASSUME TypeInv,
         \/ \E s \in Senders : DropSender(s)
         \/ Crash \/ Restart \/ ClockMoves
         \/ \E n \in Names : ShipperRemoves(n)
  PROVE  TypeInv'
<1>1. CASE \E s \in Senders : DropSender(s)
  BY <1>1
  DEF TypeInv, TypeOK, WriterShape, DropSender, seal, disk, cap, stats, world
<1>2. CASE Crash
  <2>1. fate' \in [Lines -> Fates]
    BY <1>2, BecomeOfType DEF Crash, TypeInv, TypeOK, Fates
  <2>2. <<>> \in Seq(Lines) /\ Len(<<>>) <= Capacity /\ Len(<<>>) <= MaxFileLines
    BY SpoolAssumption
  <2> QED
    BY <1>2, <2>1, <2>2
    DEF TypeInv, TypeOK, WriterShape, Crash, disk, stats, world
<1>3. CASE Restart
  <2>1. /\ runs' \in 1 .. MaxRuns /\ base' \in 0 .. offered'
        /\ batches_sealed' \in 0 .. MaxSeals
    BY <1>3, SpoolAssumption, NameAssumption DEF Restart, TypeInv, TypeOK
  <2>2. clock' \in Seconds /\ boot' \in Seconds
    BY <1>3 DEF Restart
  <2> QED
    BY <1>3, <2>1, <2>2
    DEF TypeInv, TypeOK, WriterShape, Restart, seal, disk, cap
<1>4. CASE ClockMoves
  BY <1>4
  DEF TypeInv, TypeOK, WriterShape, ClockMoves, seal, disk, cap, stats
<1>5. CASE \E n \in Names : ShipperRemoves(n)
  <2>1. PICK n \in Names : ShipperRemoves(n)
    BY <1>5
  <2>2. zst' \in [Names -> Files] /\ fate' \in [Lines -> Fates]
    BY <2>1, FilesType, BecomeOfType DEF ShipperRemoves, TypeInv, TypeOK, Fates
  <2> QED
    BY <2>1, <2>2
    DEF TypeInv, TypeOK, WriterShape, ShipperRemoves, seal, cap, stats, world
<1> QED
  BY <1>1, <1>2, <1>3, <1>4, <1>5

LEMMA StepTypeInv == TypeInv /\ [Next]_vars => TypeInv'
<1> SUFFICES ASSUME TypeInv, [Next]_vars PROVE TypeInv'
  OBVIOUS
<1>1. CASE UNCHANGED vars
  BY <1>1
  DEF TypeInv, TypeOK, WriterShape, vars, seal, disk, cap, stats, world
<1>2. CASE Writer
  BY <1>2, StartTypeInv, ReceiveTypeInv, RotateTypeInv, SealTypeInv, CapTypeInv
  DEF Writer
<1>3. CASE Surroundings \/ \E n \in Names : ShipperRemoves(n)
  BY <1>3, SubmitTypeInv, SurroundingsTypeInv DEF Surroundings
<1> QED
  BY <1>1, <1>2, <1>3 DEF Next

\* Every variable keeps its type; in particular the channel never holds more
\* than channel_capacity lines, whoever submits, and the active file, which is
\* rotated by the line that fills it, never more than max_bytes_per_file.
THEOREM SpoolTypes == Spec => []TypeOK
<1>1. TypeInv => TypeOK
  BY DEF TypeInv
<1> QED
  BY <1>1, InitTypeInv, StepTypeInv, PTL DEF Spec

(***************************************************************************)
(* The account of the counters.                                            *)
(***************************************************************************)

StatsInv ==
  /\ StatsAccount
  /\ pc = "down" => chan = <<>> /\ senders = {}

LEMMA InitStatsInv == Init => StatsInv
BY DEF Init, StatsInv, StatsAccount

LEMMA StepStatsInv == TypeInv /\ StatsInv /\ [Next]_vars => StatsInv'
<1> SUFFICES ASSUME TypeInv, StatsInv, [Next]_vars PROVE StatsInv'
  OBVIOUS
<1> DEFINE Counted == <<chan, offered, base, events_written, events_dropped>>
<1>0. /\ offered \in Nat /\ base \in Nat /\ chan \in Seq(Lines)
      /\ events_written \in Nat /\ events_dropped \in Nat
  BY SpoolAssumption DEF TypeInv, TypeOK
<1>1. ASSUME UNCHANGED Counted, senders' \subseteq senders,
             pc' = "down" => pc = "down",
             pc \in {"down", "dead"} => pc' \in {"down", "dead"}
      PROVE  StatsInv'
  BY <1>1 DEF StatsInv, StatsAccount
<1>2. CASE UNCHANGED vars
  BY <1>1, <1>2 DEF vars, stats, world
<1>3. CASE \E s \in Senders : TrySubmit(s)
  <2>1. PICK s \in Senders : TrySubmit(s)
    BY <1>3
  <2>2. pc # "down"
    BY <2>1 DEF TrySubmit, StatsInv
  <2>3. UNCHANGED <<pc, base, events_written>>
    BY <2>1 DEF TrySubmit, world
  <2>4. /\ events_dropped' + Len(chan') = events_dropped + Len(chan) + 1
        /\ events_dropped' \in Nat /\ Len(chan') \in Nat
    <3>1. CASE chan' = chan /\ events_dropped' = events_dropped + 1
      BY <1>0, <3>1
    <3>2. CASE chan' = Append(chan, offered + 1) /\ events_dropped' = events_dropped
      <4>1. offered + 1 \in Lines
        BY <1>0, <2>1, SpoolAssumption DEF TrySubmit, Lines, TypeInv, TypeOK
      <4>2. Len(chan') = Len(chan) + 1
        BY <1>0, <3>2, <4>1
      <4> QED
        BY <1>0, <3>2, <4>2
    <3> QED
      BY <2>1, <3>1, <3>2 DEF TrySubmit
  <2>6. offered' = offered + 1
    BY <2>1 DEF TrySubmit
  <2>5. pc' # "down" /\ StatsAccount'
    <3>1. pc # "dead" => offered - base = events_written + events_dropped + Len(chan)
      BY <2>2 DEF StatsInv, StatsAccount
    <3>2. offered' - base = (offered - base) + 1
      BY <1>0, <2>6
    <3>3. events_written + events_dropped' + Len(chan')
            = (events_written + events_dropped + Len(chan)) + 1
      BY <1>0, <2>4
    <3> QED
      BY <2>2, <2>3, <3>1, <3>2, <3>3 DEF StatsAccount
  <2> QED
    BY <2>5 DEF StatsInv
<1>4. CASE StartWriter
  BY <1>4, <1>0 DEF StartWriter, StatsInv, StatsAccount, stats, world
<1>5. CASE RecvLine
  <2>1. Len(chan') = Len(chan) - 1
    BY <1>0, <1>5 DEF RecvLine
  <2>2. pc' # "down" /\ pc = "recv"
    BY <1>5 DEF RecvLine
  <2>3. events_written' + events_dropped' = events_written + events_dropped + 1
    BY <1>0, <1>5 DEF RecvLine, CountDiscarded
  <2>4. UNCHANGED <<offered, base>>
    BY <1>5 DEF RecvLine, world
  <2> QED
    BY <1>0, <2>1, <2>2, <2>3, <2>4 DEF StatsInv, StatsAccount
<1>6. CASE \/ RecvTimeout \/ RecvDisconnected \/ SealFlush \/ SealRename
           \/ SealCreate \/ SealCopy \/ SealUnlink \/ SealFails \/ Reopen
           \/ ListBatches \/ EvictOldest \/ EvictDone
  <2>1. UNCHANGED Counted /\ UNCHANGED senders
    BY <1>6
    DEF RecvTimeout, RecvDisconnected, SealFlush, SealRename, SealCreate,
        SealCopy, SealUnlink, SealFails, Reopen, ListBatches, EvictOldest,
        EvictDone, stats, world
  <2>2. pc \notin {"down", "dead"}
    BY <1>6
    DEF RecvTimeout, RecvDisconnected, SealFlush, SealRename, SealCreate,
        SealCopy, SealUnlink, SealFails, Reopen, ListBatches, EvictOldest,
        EvictDone
  <2>3. pc' # "down"
    BY <1>6
    DEF RecvTimeout, RecvDisconnected, SealFlush, SealRename, SealCreate,
        SealCopy, SealUnlink, SealFails, Reopen, ListBatches, EvictOldest,
        EvictDone, AfterSeal
  <2> QED
    BY <1>1, <2>1, <2>2, <2>3
<1>7. CASE \/ \E s \in Senders : DropSender(s)
           \/ ClockMoves
           \/ \E n \in Names : ShipperRemoves(n)
  BY <1>1, <1>7 DEF DropSender, ClockMoves, ShipperRemoves, stats, world
<1>8. CASE Crash
  BY <1>8 DEF Crash, StatsInv, StatsAccount, stats, world
<1>9. CASE Restart
  BY <1>0, <1>9 DEF Restart, StatsInv, StatsAccount
<1> QED
  BY <1>2, <1>3, <1>4, <1>5, <1>6, <1>7, <1>8, <1>9
  DEF Next, Writer, Surroundings

\* The counters account for every line submitted in a run, however the sends
\* of the producers interleave with the writer and its failures.
THEOREM SpoolStats == Spec => []StatsAccount
<1>1. StatsInv => StatsAccount
  BY DEF StatsInv
<1> QED
  BY <1>1, InitTypeInv, StepTypeInv, InitStatsInv, StepStatsInv, PTL DEF Spec

(***************************************************************************)
(* The names of the batches.                                               *)
(***************************************************************************)

\* With a sane clock, every batch in the directory is named for a second
\* before this run started or for a number this run has used.
NameUsed(n) == n.ts <= clock /\ (n.ts < boot \/ n.seq < batches_sealed)

NamesInv ==
  SaneClock =>
    /\ boot <= clock
    /\ \A n \in Present : NameUsed(n)
    /\ pc \in {"create", "copy"} => NameUsed(cur)
    /\ pc = "create" => zst[cur].st = "none"

LEMMA InitNamesInv == Init => NamesInv
BY DEF Init, NamesInv, Present, NoFile

\* The directory only loses batches, the clock stands, and the counter does not
\* go back.
LEMMA NamesFrame ==
  ASSUME TypeInv, NamesInv, batches_sealed' \in Nat,
         batches_sealed <= batches_sealed', UNCHANGED <<clock, boot>>,
         \A n \in Names : zst'[n].st # "none" => zst[n].st # "none",
         \/ pc' \notin {"create", "copy"}
         \/ UNCHANGED <<pc, cur>>
  PROVE  NamesInv'
<1> SUFFICES ASSUME SaneClock PROVE NamesInv'
  BY DEF NamesInv
<1>1. Present' \subseteq Present
  BY DEF Present
<1>2. ASSUME NEW n \in Names, NameUsed(n) PROVE NameUsed(n)'
  <2>1. batches_sealed \in Nat /\ n.seq \in Nat
    BY NameAssumption DEF TypeInv, TypeOK, Names
  <2>2. n.seq < batches_sealed => n.seq < batches_sealed'
    BY <2>1
  <2> QED
    BY <1>2, <2>2 DEF NameUsed
<1>3. \A n \in Present' : NameUsed(n)'
  BY <1>1, <1>2 DEF NamesInv, Present
<1>4. cur \in Names
  BY DEF TypeInv, TypeOK
<1>5. CASE pc' \notin {"create", "copy"}
  BY <1>3, <1>5 DEF NamesInv
<1>6. CASE UNCHANGED <<pc, cur>>
  <2>1. pc' \in {"create", "copy"} => NameUsed(cur)'
    BY <1>2, <1>4, <1>6 DEF NamesInv, NameUsed
  <2>2. pc' = "create" => zst'[cur'].st = "none"
    BY <1>4, <1>6 DEF NamesInv
  <2> QED
    BY <1>3, <2>1, <2>2 DEF NamesInv
<1> QED
  BY <1>5, <1>6

LEMMA StepNamesInv == TypeInv /\ NamesInv /\ [Next]_vars => NamesInv'
<1> SUFFICES ASSUME TypeInv, NamesInv, [Next]_vars, SaneClock
             PROVE  NamesInv'
  BY DEF NamesInv
<1>0. /\ clock \in Nat /\ boot \in Nat /\ batches_sealed \in Nat
      /\ cur \in Names /\ zst \in [Names -> Files]
      /\ \A n \in Names : n.ts \in Nat /\ n.seq \in Nat
  BY NameAssumption DEF TypeInv, TypeOK, Names, Seconds
<1>1. CASE \/ UNCHANGED vars
           \/ \E s \in Senders : TrySubmit(s) \/ DropSender(s)
           \/ StartWriter \/ RecvLine \/ RecvTimeout \/ RecvDisconnected
           \/ SealFlush \/ SealUnlink \/ Reopen \/ ListBatches \/ EvictDone
           \/ Crash
  <2>1. UNCHANGED <<zst, clock, boot, batches_sealed>>
    BY <1>1
    DEF vars, TrySubmit, DropSender, StartWriter, RecvLine, RecvTimeout,
        RecvDisconnected, SealFlush, SealUnlink, Reopen, ListBatches,
        EvictDone, Crash, disk, stats, world
  <2>2. pc' \notin {"create", "copy"} \/ UNCHANGED <<pc, cur>>
    BY <1>1
    DEF vars, TrySubmit, DropSender, StartWriter, RecvLine, RecvTimeout,
        RecvDisconnected, SealFlush, SealUnlink, Reopen, ListBatches,
        EvictDone, Crash, AfterSeal, seal
  <2> QED
    BY <1>0, <2>1, <2>2, NamesFrame
<1>2. CASE SealRename
  <2>1. /\ cur' = [ts |-> clock, seq |-> batches_sealed]
        /\ batches_sealed' = batches_sealed + 1
        /\ UNCHANGED <<zst, clock, boot>> /\ pc' = "create"
    BY <1>2 DEF SealRename, NextSeq, world
  <2>2. cur' \in Names
    BY <1>2, NameAssumption DEF SealRename, Names, TypeInv, TypeOK
  <2>3. zst[cur'].st = "none"
    <3>1. SUFFICES ASSUME cur' \in Present PROVE FALSE
      BY <2>2 DEF Present
    <3> QED
      BY <1>0, <2>1, <3>1 DEF NamesInv, NameUsed
  <2>4. \A n \in Names : NameUsed(n) => NameUsed(n)'
    BY <1>0, <2>1 DEF NameUsed
  <2>5. \A n \in Present' : NameUsed(n)'
    BY <2>1, <2>4 DEF NamesInv, Present
  <2>6. NameUsed(cur)'
    BY <1>0, <2>1 DEF NameUsed
  <2> QED
    BY <2>1, <2>3, <2>5, <2>6 DEF NamesInv
<1>3. CASE SealCreate \/ SealCopy
  <2>1. /\ \A n \in Names \ {cur} : zst'[n] = zst[n]
        /\ pc \in {"create", "copy"} /\ pc' \in {"copy", "unlink"}
        /\ UNCHANGED <<cur, clock, boot, batches_sealed>>
    BY <1>0, <1>3 DEF SealCreate, SealCopy, seal, stats, world
  <2>2. Present' \subseteq Present \cup {cur}
    BY <2>1 DEF Present
  <2>3. \A n : NameUsed(n)' <=> NameUsed(n)
    BY <2>1 DEF NameUsed
  <2>4. NameUsed(cur) /\ NameUsed(cur)'
    BY <2>1 DEF NamesInv, NameUsed
  <2>5. \A n \in Present' : NameUsed(n)'
    BY <2>2, <2>3, <2>4 DEF NamesInv
  <2> QED
    BY <2>1, <2>4, <2>5 DEF NamesInv
<1>4. CASE SealFails
  <2>1. /\ UNCHANGED <<zst, clock, boot>>
        /\ batches_sealed' \in {batches_sealed, batches_sealed + 1}
        /\ pc' \notin {"create", "copy"}
    BY <1>4 DEF SealFails, AfterSeal, NextSeq, disk, world
  <2> QED
    BY <1>0, <2>1, NamesFrame
<1>5. CASE EvictOldest
  <2>1. UNCHANGED <<clock, boot, batches_sealed, pc, cur>>
    BY <1>5 DEF EvictOldest, seal, world
  <2>2. \A n \in Names : zst'[n].st # "none" => zst[n].st # "none"
    BY <1>0, <1>5 DEF EvictOldest, NoFile
  <2> QED
    BY <1>0, <2>1, <2>2, NamesFrame
<1>6. CASE \E n \in Names : ShipperRemoves(n)
  <2>1. UNCHANGED <<clock, boot, batches_sealed, pc, cur>>
    BY <1>6 DEF ShipperRemoves, seal, stats, world
  <2>2. \A n \in Names : zst'[n].st # "none" => zst[n].st # "none"
    BY <1>0, <1>6 DEF ShipperRemoves, NoFile
  <2> QED
    BY <1>0, <2>1, <2>2, NamesFrame
<1>7. CASE Restart
  <2>1. /\ clock' \in Nat /\ clock' > clock /\ boot' = clock'
        /\ UNCHANGED zst /\ pc' = "start"
    BY <1>7, NameAssumption DEF Restart, disk, Seconds
  <2>2. \A n \in Present' : NameUsed(n)'
    BY <1>0, <2>1 DEF NamesInv, NameUsed, Present
  <2> QED
    BY <2>1, <2>2 DEF NamesInv
<1>8. CASE ClockMoves
  <2>1. /\ clock' \in Nat /\ clock' > clock
        /\ UNCHANGED <<zst, pc, cur, boot, batches_sealed>>
    BY <1>8, NameAssumption DEF ClockMoves, disk, seal, stats, Seconds
  <2>2. \A n \in Names : NameUsed(n) => NameUsed(n)'
    BY <1>0, <2>1 DEF NameUsed
  <2>3. \A n \in Present' : NameUsed(n)'
    BY <2>1, <2>2 DEF NamesInv, Present
  <2>4. pc' \in {"create", "copy"} => NameUsed(cur)'
    BY <1>0, <2>1, <2>2 DEF NamesInv, NameUsed
  <2> QED
    BY <1>0, <2>1, <2>3, <2>4 DEF NamesInv
<1> QED
  BY <1>1, <1>2, <1>3, <1>4, <1>5, <1>6, <1>7, <1>8
  DEF Next, Writer, Surroundings

\* A seal never truncates a batch, nor what an interrupted seal left behind,
\* for any number of batches, failures, crashes and restarts: provided that the
\* clock does not go back and no two runs of the agent meet in one second.
THEOREM SpoolFreshNames == Spec => []FreshName
<1>1. NamesInv => FreshName
  BY DEF NamesInv, FreshName
<1> QED
  BY <1>1, InitTypeInv, StepTypeInv, InitNamesInv, StepNamesInv, PTL DEF Spec

(***************************************************************************)
(* The account of the lines.                                               *)
(***************************************************************************)

Sealed(e) == \E n \in Done : e \in Range(zst[n].lines)

\* A line is at one place only: no line is twice in the channel, or in the
\* channel and in a file; no two batches share one; and a file that is not
\* complete counts for none.
OnePlace ==
  /\ IsInjective(chan)
  /\ Range(chan) \cap (Range(lines) \cup InStaging) = {}
  /\ \A n \in Names : zst[n].st # "done" => zst[n].lines = <<>>
  /\ \A m, n \in Done :
       m # n => Range(zst[m].lines) \cap Range(zst[n].lines) = {}
  /\ pc = "copy" => zst[cur].st # "done"

AccountInv == LineAccounting /\ OnePlace

LEMMA EmptyRange == Range(<<>>) = {}
BY DEF Range

LEMMA AppendRange ==
  ASSUME NEW s \in Seq(Lines), NEW e \in Lines
  PROVE  Range(Append(s, e)) = Range(s) \cup {e}
<1>1. DOMAIN Append(s, e) = DOMAIN s \cup {Len(s) + 1}
  OBVIOUS
<1>2. /\ \A i \in DOMAIN s : Append(s, e)[i] = s[i]
      /\ Append(s, e)[Len(s) + 1] = e
  OBVIOUS
<1> QED
  BY <1>1, <1>2 DEF Range

LEMMA AppendInjective ==
  ASSUME NEW s \in Seq(Lines), NEW e \in Lines, IsInjective(s), e \notin Range(s)
  PROVE  IsInjective(Append(s, e))
<1>1. DOMAIN Append(s, e) = DOMAIN s \cup {Len(s) + 1}
  OBVIOUS
<1>2. /\ \A i \in DOMAIN s : Append(s, e)[i] = s[i]
      /\ Append(s, e)[Len(s) + 1] = e
  OBVIOUS
<1> QED
  BY <1>1, <1>2 DEF Range, IsInjective

LEMMA TailRange ==
  ASSUME NEW s \in Seq(Lines), s # <<>>, IsInjective(s)
  PROVE  /\ Head(s) \in Range(s)
         /\ Range(Tail(s)) = Range(s) \ {Head(s)}
         /\ IsInjective(Tail(s))
<1>1. Len(s) \in Nat \ {0} /\ DOMAIN s = 1 .. Len(s) /\ Head(s) = s[1]
  OBVIOUS
<1>2. /\ DOMAIN Tail(s) = 1 .. Len(s) - 1
      /\ \A i \in 1 .. Len(s) - 1 : Tail(s)[i] = s[i + 1]
  OBVIOUS
<1>3. \A i \in 2 .. Len(s) : i - 1 \in 1 .. Len(s) - 1 /\ (i - 1) + 1 = i
  BY <1>1
<1>4. \A i \in 2 .. Len(s) : s[i] \in Range(Tail(s))
  BY <1>2, <1>3 DEF Range
<1>5. \A i \in 1 .. Len(s) : i = 1 \/ i \in 2 .. Len(s)
  BY <1>1
<1>6. 1 \in 1 .. Len(s) /\ \A i \in 2 .. Len(s) : i \in 1 .. Len(s) /\ i # 1
  BY <1>1
<1>7. \A i \in 1 .. Len(s) - 1 : i + 1 \in 1 .. Len(s) /\ i + 1 # 1
  BY <1>1
<1>8. Head(s) \in Range(s)
  BY <1>1, <1>6 DEF Range
<1>9. Range(Tail(s)) \subseteq Range(s) \ {Head(s)}
  BY <1>1, <1>2, <1>6, <1>7 DEF Range, IsInjective
<1>10. Range(s) \ {Head(s)} \subseteq Range(Tail(s))
  BY <1>1, <1>4, <1>5 DEF Range
<1>11. IsInjective(Tail(s))
  BY <1>1, <1>2, <1>7 DEF IsInjective
<1> QED
  BY <1>8, <1>9, <1>10, <1>11

\* The lines of S become f, and the others stay where they are.
LEMMA MovedLines ==
  ASSUME TypeOK, LineAccounting, NEW S, NEW f \in Fates \ {"unoffered"},
         fate' = BecomeOf(S, f),
         \A e \in Lines \ S :
           /\ e \in Held' <=> e \in Held
           /\ Sealed(e)' <=> Sealed(e)
           /\ e > offered' <=> e > offered,
         \A e \in Lines \cap S :
           /\ e \in Held' <=> f = "held"
           /\ Sealed(e)' <=> f = "sealed"
           /\ ~(e > offered')
  PROVE  LineAccounting'
<1> SUFFICES ASSUME NEW e \in Lines
             PROVE  /\ fate'[e] = "held" <=> e \in Held'
                    /\ fate'[e] = "sealed" <=> Sealed(e)'
                    /\ fate'[e] = "unoffered" <=> e > offered'
  BY DEF LineAccounting, Sealed
<1>1. fate'[e] = IF e \in S THEN f ELSE fate[e]
  BY DEF BecomeOf
<1>2. CASE e \in S
  BY <1>1, <1>2
<1>3. CASE e \notin S
  <2>1. fate'[e] = fate[e]
    BY <1>1, <1>3
  <2> QED
    BY <1>3, <2>1 DEF LineAccounting, Sealed
<1> QED
  BY <1>2, <1>3

LEMMA SamePlaces ==
  ASSUME AccountInv, UNCHANGED <<fate, offered, zst, chan>>, pc' # "copy",
         Range(lines') \cup InStaging' = Range(lines) \cup InStaging
  PROVE  AccountInv'
<1>1. Held' = Held
  BY DEF Held
<1>2. Done' = Done
  BY DEF Done
<1>3. LineAccounting'
  BY <1>1, <1>2 DEF AccountInv, LineAccounting
<1> QED
  BY <1>2, <1>3 DEF AccountInv, OnePlace

\* What is held is discarded, all of it or what is not in the channel.
LEMMA DiscardedLines ==
  ASSUME TypeOK, AccountInv, NEW S, S \subseteq Held,
         fate' = BecomeOf(S, "lost"), UNCHANGED <<offered, zst>>,
         Held' = Held \ S, pc' # "copy", OnePlace'
  PROVE  AccountInv'
<1>1. Done' = Done
  BY DEF Done
<1>2. \A e \in Lines : Sealed(e)' <=> Sealed(e)
  BY <1>1 DEF Sealed
<1>3. \A e \in Lines \cap S : ~Sealed(e) /\ ~(e > offered)
  BY DEF AccountInv, LineAccounting, Sealed
<1>4. LineAccounting'
  BY <1>2, <1>3, MovedLines DEF AccountInv, Fates
<1> QED
  BY <1>4 DEF AccountInv

LEMMA RemovedBatch ==
  ASSUME TypeOK, AccountInv, NEW n \in Names, NEW f \in {"evicted", "shipped"},
         zst' = [zst EXCEPT ![n] = NoFile],
         fate' = BecomeOf(Range(zst[n].lines), f),
         UNCHANGED <<chan, lines, staging, cur, pc, offered>>
  PROVE  AccountInv'
<1> DEFINE S == Range(zst[n].lines)
<1>1. /\ \A m \in Names \ {n} : zst'[m] = zst[m]
      /\ zst'[n] = NoFile
  BY DEF TypeOK
<1>2. Done' = Done \ {n}
  BY <1>1 DEF Done, NoFile
<1>3. Held' = Held
  BY DEF Held, InStaging
<1>4. n \notin Done => S = {}
  BY EmptyRange DEF AccountInv, OnePlace, Done
<1>5. \A e \in S : Sealed(e)
  BY <1>4 DEF Sealed
<1>6. \A e \in Lines \cap S : e \notin Held /\ ~(e > offered) /\ ~Sealed(e)'
  <2>1. \A e \in Lines \cap S : fate[e] = "sealed"
    BY <1>5 DEF AccountInv, LineAccounting, Sealed
  <2>2. \A e \in Lines \cap S : e \notin Held /\ ~(e > offered)
    BY <2>1 DEF AccountInv, LineAccounting
  <2>3. \A e \in S, m \in Done \ {n} : e \notin Range(zst[m].lines)
    BY <1>4 DEF AccountInv, OnePlace
  <2>4. \A m \in Done \ {n} : zst'[m] = zst[m]
    BY <1>1 DEF Done
  <2>5. \A e \in S : ~Sealed(e)'
    BY <1>2, <2>3, <2>4 DEF Sealed
  <2> QED
    BY <2>2, <2>5
<1>7. \A e \in Lines \ S : Sealed(e)' <=> Sealed(e)
  <2>1. \A m \in Done \ {n} : zst'[m] = zst[m]
    BY <1>1 DEF Done
  <2> QED
    BY <1>2, <2>1 DEF Sealed
<1>8. LineAccounting'
  BY <1>3, <1>6, <1>7, MovedLines DEF AccountInv, Fates
<1>9. OnePlace'
  <2>1. UNCHANGED InStaging
    BY DEF InStaging
  <2>2. /\ \A m \in Names : zst'[m].st # "done" => zst'[m].lines = <<>>
        /\ pc' = "copy" => zst'[cur'].st # "done"
    BY <1>1 DEF AccountInv, OnePlace, NoFile, TypeOK
  <2>3. \A l, m \in Done' :
          l # m => Range(zst'[l].lines) \cap Range(zst'[m].lines) = {}
    BY <1>1, <1>2 DEF AccountInv, OnePlace, Done
  <2> QED
    BY <2>1, <2>2, <2>3 DEF AccountInv, OnePlace
<1> QED
  BY <1>8, <1>9 DEF AccountInv

LEMMA InitAccountInv == Init => AccountInv
<1> SUFFICES ASSUME Init PROVE AccountInv
  OBVIOUS
<1>1. Done = {} /\ Held = {}
  BY EmptyRange DEF Init, Done, NoFile, Held, InStaging
<1>2. \A e \in Lines : e > offered
  BY DEF Init, Lines
<1>3. LineAccounting
  BY <1>1, <1>2 DEF Init, LineAccounting
<1>4. OnePlace
  BY <1>1, EmptyRange DEF Init, OnePlace, NoFile, IsInjective
<1> QED
  BY <1>3, <1>4 DEF AccountInv

LEMMA SubmitAccountInv ==
  ASSUME TypeInv, AccountInv, NEW s \in Senders, TrySubmit(s)
  PROVE  AccountInv'
<1> DEFINE e == offered + 1
<1>1. e \in Lines /\ e > offered /\ ~(e > offered')
  BY SpoolAssumption DEF TypeInv, TypeOK, TrySubmit, Lines
<1>2. \A x \in Lines \ {e} : x > offered' <=> x > offered
  BY DEF TypeInv, TypeOK, TrySubmit, Lines
<1>3. UNCHANGED <<zst, pc, lines, staging, cur>>
  BY DEF TrySubmit, disk, seal
<1>4. UNCHANGED <<Done, InStaging>>
  BY <1>3 DEF Done, InStaging
<1>5. \A x \in Lines : Sealed(x)' <=> Sealed(x)
  BY <1>3, <1>4 DEF Sealed
<1>6. e \notin Held /\ ~Sealed(e)
  <2>1. fate[e] = "unoffered"
    BY <1>1 DEF AccountInv, LineAccounting
  <2> QED
    BY <1>1, <2>1 DEF AccountInv, LineAccounting, Sealed
<1> HIDE DEF e
<1>7. chan \in Seq(Lines)
  BY DEF TypeInv, TypeOK
<1>8. CASE chan' = Append(chan, e) /\ fate' = BecomeOf({e}, "held")
  <2>1. Range(chan') = Range(chan) \cup {e} /\ IsInjective(chan')
    BY <1>1, <1>6, <1>7, <1>8, AppendRange, AppendInjective
       DEF AccountInv, OnePlace, Held
  <2>2. Held' = Held \cup {e}
    BY <1>3, <1>4, <2>1 DEF Held
  <2>3. LineAccounting'
    BY <1>1, <1>2, <1>5, <1>6, <1>8, <2>2, MovedLines
       DEF AccountInv, TypeInv, Fates
  <2>4. OnePlace'
    BY <1>3, <1>4, <1>6, <2>1 DEF AccountInv, OnePlace, Held
  <2> QED
    BY <2>3, <2>4 DEF AccountInv
<1>9. CASE chan' = chan /\ fate' = BecomeOf({e}, "refused")
  <2>1. Held' = Held
    BY <1>3, <1>4, <1>9 DEF Held
  <2>2. LineAccounting'
    BY <1>1, <1>2, <1>5, <1>6, <1>9, <2>1, MovedLines
       DEF AccountInv, TypeInv, Fates
  <2>3. OnePlace'
    BY <1>3, <1>4, <1>9 DEF AccountInv, OnePlace
  <2> QED
    BY <2>2, <2>3 DEF AccountInv
<1> QED
  BY <1>8, <1>9 DEF TrySubmit, e

LEMMA ReceiveAccountInv ==
  ASSUME TypeInv, AccountInv, RecvLine
  PROVE  AccountInv'
<1> DEFINE e == Head(chan)
<1>1. pc = "recv" /\ chan \in Seq(Lines) /\ chan # <<>> /\ lines \in Seq(Lines)
  BY DEF TypeInv, TypeOK, RecvLine
<1>2. /\ e \in Range(chan) /\ Range(chan') = Range(chan) \ {e}
      /\ IsInjective(chan')
  BY <1>1, TailRange DEF RecvLine, AccountInv, OnePlace
<1>3. e \in Lines
  BY <1>1
<1>4. UNCHANGED <<zst, offered>> /\ pc' \in {"recv", "flush"}
  BY <1>1 DEF RecvLine, disk
<1>5. InStaging = {} /\ InStaging' = {} /\ pc' # "copy"
  BY <1>1, <1>4 DEF InStaging
<1>6. Done' = Done
  BY <1>4 DEF Done
<1> HIDE DEF e
<1>7. CASE lines' = Append(lines, e) /\ UNCHANGED fate
  <2>1. Range(lines') = Range(lines) \cup {e}
    BY <1>1, <1>3, <1>7, AppendRange
  <2>2. Held' = Held
    BY <1>2, <1>5, <2>1 DEF Held
  <2>3. LineAccounting'
    BY <1>4, <1>6, <1>7, <2>2 DEF AccountInv, LineAccounting
  <2>4. OnePlace'
    BY <1>2, <1>4, <1>5, <1>6, <2>1 DEF AccountInv, OnePlace
  <2> QED
    BY <2>3, <2>4 DEF AccountInv
<1>8. CASE UNCHANGED lines /\ fate' = BecomeOf({e}, "lost")
  <2>1. e \notin Range(lines)
    BY <1>2 DEF AccountInv, OnePlace
  <2>2. Held' = Held \ {e} /\ {e} \subseteq Held
    BY <1>2, <1>5, <1>8, <2>1 DEF Held
  <2>3. OnePlace'
    BY <1>2, <1>4, <1>5, <1>6, <1>8 DEF AccountInv, OnePlace
  <2> QED
    BY <1>4, <1>5, <1>8, <2>2, <2>3, DiscardedLines DEF TypeInv
<1> QED
  BY <1>7, <1>8 DEF RecvLine, e

\* The seal: the lines of the active file go to the staging file, and from it
\* to the batch, which has held nothing since File::create.
LEMMA SealAccountInv ==
  ASSUME TypeInv, AccountInv, SealRename \/ SealCreate \/ SealCopy \/ SealFails
  PROVE  AccountInv'
<1>0. /\ cur \in Names /\ staging \in [Names -> Seq(Lines)]
      /\ zst \in [Names -> Files]
  BY DEF TypeInv, TypeOK
<1>1. CASE SealRename
  <2>1. cur' \in Names
    BY <1>1, NameAssumption DEF SealRename, Names, TypeInv, TypeOK
  <2>2. /\ staging'[cur'] = lines /\ lines' = <<>>
        /\ pc = "rename" /\ pc' = "create"
        /\ UNCHANGED <<fate, offered, zst, chan>>
    BY <1>0, <1>1, <2>1 DEF SealRename
  <2>3. InStaging = {} /\ InStaging' = Range(lines)
    BY <2>2 DEF InStaging
  <2> QED
    BY <2>2, <2>3, EmptyRange, SamePlaces
<1>2. CASE SealCreate
  <2> DEFINE S == IF zst[cur].st = "done" THEN Range(zst[cur].lines) ELSE {}
  <2>1. /\ fate' = BecomeOf(S, "lost") /\ pc = "create" /\ pc' = "copy"
        /\ UNCHANGED <<chan, lines, cur, staging, offered>>
    BY <1>2 DEF SealCreate, seal
  <2>2. /\ zst'[cur] = [st |-> "partial", lines |-> <<>>]
        /\ \A n \in Names \ {cur} : zst'[n] = zst[n]
    BY <1>0, <1>2 DEF SealCreate
  <2>3. Done' = Done \ {cur}
    BY <1>0, <2>2 DEF Done
  <2>4. InStaging' = InStaging /\ Held' = Held
    BY <2>1 DEF InStaging, Held
  <2>5. \A e \in S : Sealed(e)
    BY <1>0 DEF Sealed, Done
  <2>6. \A e \in Lines \cap S : e \notin Held /\ ~(e > offered)
    <3>1. \A e \in Lines \cap S : fate[e] = "sealed"
      BY <2>5 DEF AccountInv, LineAccounting, Sealed
    <3> QED
      BY <3>1 DEF AccountInv, LineAccounting
  <2>7. \A e \in S : ~Sealed(e)'
    <3>1. \A e \in S, m \in Done \ {cur} : e \notin Range(zst[m].lines)
      BY <1>0 DEF AccountInv, OnePlace, Done
    <3>2. \A m \in Done \ {cur} : zst'[m] = zst[m]
      BY <2>2 DEF Done
    <3> QED
      BY <2>3, <3>1, <3>2 DEF Sealed
  <2>8. \A e \in Lines \ S : Sealed(e)' <=> Sealed(e)
    <3>1. \A m \in Done \ {cur} : zst'[m] = zst[m]
      BY <2>2 DEF Done
    <3>2. \A e \in Lines \ S : cur \in Done => e \notin Range(zst[cur].lines)
      BY DEF Done
    <3> QED
      BY <2>3, <3>1, <3>2 DEF Sealed
  <2> HIDE DEF S
  <2>9. LineAccounting'
    BY <2>1, <2>4, <2>6, <2>7, <2>8, MovedLines DEF AccountInv, TypeInv, Fates
  <2>10. OnePlace'
    <3>1. \A n \in Names : zst'[n].st # "done" => zst'[n].lines = <<>>
      BY <2>2 DEF AccountInv, OnePlace
    <3>2. \A m, n \in Done' :
            m # n => Range(zst'[m].lines) \cap Range(zst'[n].lines) = {}
      BY <2>2, <2>3 DEF AccountInv, OnePlace, Done
    <3> QED
      BY <2>1, <2>2, <2>4, <3>1, <3>2 DEF AccountInv, OnePlace
  <2> QED
    BY <2>9, <2>10 DEF AccountInv
<1>3. CASE SealCopy
  <2> DEFINE S == Range(staging[cur])
  <2>1. /\ fate' = BecomeOf(S, "sealed") /\ pc = "copy" /\ pc' = "unlink"
        /\ lines = <<>>
        /\ UNCHANGED <<chan, lines, cur, staging, offered>>
    BY <1>3 DEF SealCopy, seal, TypeInv, WriterShape
  <2>2. /\ zst'[cur] = [st |-> "done", lines |-> staging[cur]]
        /\ \A n \in Names \ {cur} : zst'[n] = zst[n]
    BY <1>0, <1>3 DEF SealCopy
  <2>3. cur \notin Done /\ Done' = Done \cup {cur}
    BY <1>0, <2>1, <2>2 DEF Done, AccountInv, OnePlace
  <2>4. InStaging = S /\ InStaging' = {}
    BY <2>1 DEF InStaging
  <2>5. Held = Range(chan) \cup S /\ Held' = Range(chan)
    BY <2>1, <2>4, EmptyRange DEF Held
  <2>6. Range(chan) \cap S = {}
    BY <2>4 DEF AccountInv, OnePlace
  <2>7. \A e \in Lines \cap S : ~Sealed(e) /\ ~(e > offered)
    <3>1. \A e \in Lines \cap S : fate[e] = "held"
      BY <2>5 DEF AccountInv, LineAccounting
    <3> QED
      BY <3>1 DEF AccountInv, LineAccounting, Sealed
  <2>8. \A m \in Done : zst'[m] = zst[m]
    BY <2>2, <2>3 DEF Done
  <2>9. \A e : Sealed(e)' <=> Sealed(e) \/ e \in S
    BY <2>2, <2>3, <2>8 DEF Sealed
  <2>10. S \subseteq Lines
    BY <1>0 DEF Range
  <2> HIDE DEF S
  <2>11. LineAccounting'
    BY <2>1, <2>5, <2>6, <2>7, <2>9, MovedLines DEF AccountInv, TypeInv, Fates
  <2>12. OnePlace'
    <3>1. \A n \in Names : zst'[n].st # "done" => zst'[n].lines = <<>>
      BY <2>2 DEF AccountInv, OnePlace
    <3>2. \A m \in Done : Range(zst[m].lines) \cap S = {}
      BY <2>7, <2>10 DEF Sealed
    <3>3. \A m, n \in Done' :
            m # n => Range(zst'[m].lines) \cap Range(zst'[n].lines) = {}
      <4>1. Range(zst'[cur].lines) = S
        BY <2>2 DEF S
      <4>2. \A m \in Done' : m = cur \/ m \in Done
        BY <2>3
      <4>3. \A m, n \in Done :
              m # n => Range(zst'[m].lines) \cap Range(zst'[n].lines) = {}
        BY <2>8 DEF AccountInv, OnePlace
      <4>4. \A m \in Done : Range(zst'[m].lines) \cap S = {}
        BY <2>8, <3>2
      <4> QED
        BY <4>1, <4>2, <4>3, <4>4
    <3>4. IsInjective(chan')
      BY <2>1 DEF AccountInv, OnePlace
    <3> QED
      BY <2>1, <2>4, <3>1, <3>3, <3>4, EmptyRange DEF OnePlace
  <2> QED
    BY <2>11, <2>12 DEF AccountInv
<1>4. CASE SealFails
  <2>1. /\ fate' = BecomeOf(Range(lines) \cup InStaging, "lost")
        /\ lines' = <<>> /\ pc' \in {"exited", "reopen"}
        /\ UNCHANGED <<chan, zst, offered>>
    BY <1>4 DEF SealFails, AfterSeal, disk
  <2>2. InStaging' = {} /\ Range(lines') = {} /\ Done' = Done
    BY <2>1, EmptyRange DEF InStaging, Done
  <2>3. Held' = Held \ (Range(lines) \cup InStaging)
    BY <2>1, <2>2 DEF Held, AccountInv, OnePlace
  <2>4. OnePlace'
    BY <2>1, <2>2 DEF AccountInv, OnePlace
  <2>5. Range(lines) \cup InStaging \subseteq Held
    BY DEF Held
  <2> QED
    BY <2>1, <2>3, <2>4, <2>5, DiscardedLines DEF TypeInv
<1> QED
  BY <1>1, <1>2, <1>3, <1>4

LEMMA StepAccountInv == TypeInv /\ AccountInv /\ [Next]_vars => AccountInv'
<1> SUFFICES ASSUME TypeInv, AccountInv, [Next]_vars PROVE AccountInv'
  OBVIOUS
<1>1. CASE \/ RecvTimeout \/ RecvDisconnected \/ SealFlush \/ Reopen
           \/ SealUnlink \/ ListBatches \/ EvictDone \/ Restart
  <2>1. /\ UNCHANGED <<fate, offered, zst, chan, lines>>
        /\ pc \notin {"create", "copy"} /\ pc' \notin {"create", "copy"}
    BY <1>1
    DEF RecvTimeout, RecvDisconnected, SealFlush, Reopen, SealUnlink,
        ListBatches, EvictDone, Restart, AfterSeal, seal, disk
  <2>2. InStaging = {} /\ InStaging' = {}
    BY <2>1 DEF InStaging
  <2> QED
    BY <2>1, <2>2, SamePlaces
<1>2. CASE \/ UNCHANGED vars \/ ClockMoves
           \/ \E s \in Senders : DropSender(s)
  <2>1. UNCHANGED <<fate, offered, zst, chan, lines, pc, staging, cur>>
    BY <1>2 DEF vars, ClockMoves, DropSender, seal, disk
  <2>2. UNCHANGED <<Done, InStaging, Held>>
    BY <2>1 DEF Done, InStaging, Held
  <2> QED
    BY <2>1, <2>2 DEF AccountInv, LineAccounting, OnePlace
<1>3. CASE StartWriter
  <2>1. /\ pc = "start" /\ lines = <<>> /\ pc' \in {"recv", "dead"}
        /\ UNCHANGED <<offered, zst, lines>>
    BY <1>3 DEF StartWriter, disk, TypeInv, WriterShape
  <2>2. /\ InStaging = {} /\ InStaging' = {} /\ Range(lines) = {}
        /\ Done' = Done
    BY <2>1, EmptyRange DEF InStaging, Done
  <2>3. CASE UNCHANGED <<chan, fate>>
    BY <2>1, <2>2, <2>3, SamePlaces
  <2>4. CASE chan' = <<>> /\ fate' = BecomeOf(Range(chan), "lost")
    <3>1. Held' = Held \ Range(chan) /\ Range(chan) \subseteq Held
      BY <2>1, <2>2, <2>4, EmptyRange DEF Held
    <3>2. OnePlace'
      <4>1. Range(chan') = {} /\ IsInjective(chan')
        BY <2>4, EmptyRange DEF IsInjective
      <4> QED
        BY <2>1, <2>2, <4>1 DEF AccountInv, OnePlace
    <3> QED
      BY <2>1, <2>4, <3>1, <3>2, DiscardedLines DEF TypeInv
  <2> QED
    BY <1>3, <2>3, <2>4 DEF StartWriter
<1>4. CASE Crash
  <2>1. /\ pc' = "down" /\ chan' = <<>> /\ lines' = <<>>
        /\ fate' = BecomeOf(Held, "lost") /\ UNCHANGED <<offered, zst>>
    BY <1>4 DEF Crash, disk
  <2>2. Held' = {} /\ InStaging' = {} /\ Done' = Done
    BY <2>1, EmptyRange DEF Held, InStaging, Done
  <2>3. OnePlace'
    BY <2>1, <2>2, EmptyRange DEF AccountInv, OnePlace, IsInjective
  <2>4. Held' = Held \ Held
    BY <2>2
  <2> QED
    BY <2>1, <2>3, <2>4, DiscardedLines DEF TypeInv
<1>5. CASE EvictOldest
  <2>1. PICK n \in listing :
          \/ /\ zst' = [zst EXCEPT ![n] = NoFile]
             /\ fate' = BecomeOf(Range(zst[n].lines), "evicted")
          \/ UNCHANGED <<zst, fate>>
    BY <1>5 DEF EvictOldest
  <2>2. n \in Names /\ UNCHANGED <<chan, lines, staging, cur, pc, offered>>
    BY <1>5 DEF EvictOldest, TypeInv, TypeOK, seal
  <2>3. CASE UNCHANGED <<zst, fate>>
    <3>1. UNCHANGED <<Done, InStaging, Held>>
      BY <2>2, <2>3 DEF Done, InStaging, Held
    <3> QED
      BY <2>2, <2>3, <3>1 DEF AccountInv, LineAccounting, OnePlace
  <2> QED
    BY <2>1, <2>2, <2>3, RemovedBatch DEF TypeInv
<1>6. CASE \E n \in Names : ShipperRemoves(n)
  <2>1. PICK n \in Names : ShipperRemoves(n)
    BY <1>6
  <2>2. /\ zst' = [zst EXCEPT ![n] = NoFile]
        /\ fate' = BecomeOf(Range(zst[n].lines), "shipped")
        /\ UNCHANGED <<chan, lines, staging, cur, pc, offered>>
    BY <2>1 DEF ShipperRemoves, seal
  <2> QED
    BY <2>2, RemovedBatch DEF TypeInv
<1> QED
  BY <1>1, <1>2, <1>3, <1>4, <1>5, <1>6, SubmitAccountInv, ReceiveAccountInv,
     SealAccountInv
  DEF Next, Writer, Surroundings

\* No line is lost or invented silently, for any bounds and whatever fails or is
\* cut by a crash: a line is held, in one place, until it is in one complete
\* batch or its history says what became of it.
THEOREM SpoolAccounting == Spec => []LineAccounting
<1>1. AccountInv => LineAccounting
  BY DEF AccountInv
<1> QED
  BY <1>1, InitTypeInv, StepTypeInv, InitAccountInv, StepAccountInv, PTL DEF Spec

(***************************************************************************)
(* What a clean exit has lost.                                             *)
(***************************************************************************)

\* The batch holds a line of the current run.
OfThisRun(n) == \E e \in Range(zst[n].lines) : e > base

\* Until an operation fails, the writer has an active file, no line of the run
\* is lost, and no number is used twice in a run, so that File::create replaces
\* no batch of the run, whatever the clock says.
NoLoss ==
  /\ pc = "recv" => open
  /\ \A e \in Lines : e > base => fate[e] # "lost"
  /\ \A n \in Done : OfThisRun(n) => /\ n.seq < batches_sealed
                                     /\ pc = "create" => n # cur
  /\ pc \in {"create", "copy"} => cur.seq < batches_sealed

CleanInv ==
  /\ closing => chan = <<>> /\ senders = {}
  /\ pc = "down" => ~closing
  /\ faults = 0 /\ pc # "down" => NoLoss

LEMMA InitCleanInv == Init => CleanInv
BY DEF Init, CleanInv, NoLoss, Done, NoFile

LEMMA StepNoFaults == [Next]_vars /\ TypeInv => (faults' = 0 => faults = 0)
<1> SUFFICES ASSUME [Next]_vars, TypeInv, faults' = 0 PROVE faults = 0
  OBVIOUS
<1>1. faults \in Nat
  BY SpoolAssumption DEF TypeInv, TypeOK
<1>2. UNCHANGED faults \/ Fault
  BY DEF Next, Writer, Surroundings, vars, TrySubmit, DropSender, StartWriter,
         RecvLine, RecvTimeout, RecvDisconnected, SealFlush, SealRename,
         SealCreate, SealCopy, SealUnlink, SealFails, Reopen, ListBatches,
         EvictOldest, EvictDone, Crash, Restart, ClockMoves, ShipperRemoves
<1> QED
  BY <1>1, <1>2 DEF Fault

LEMMA StepClosing ==
  ASSUME TypeInv, StatsInv, CleanInv, [Next]_vars
  PROVE  /\ closing' => chan' = <<>> /\ senders' = {}
         /\ pc' = "down" => ~closing'
<1>1. CASE \E s \in Senders : TrySubmit(s) \/ DropSender(s)
  BY <1>1 DEF CleanInv, TrySubmit, DropSender, seal
<1>2. CASE Restart
  BY <1>2 DEF CleanInv, Restart, seal
<1>3. CASE RecvDisconnected
  BY <1>3 DEF CleanInv, RecvDisconnected
<1>4. CASE Crash
  BY <1>4 DEF Crash
<1>5. CASE RecvLine \/ StartWriter
  BY <1>5 DEF CleanInv, RecvLine, StartWriter
<1>6. CASE UNCHANGED vars \/ ClockMoves \/ \E n \in Names : ShipperRemoves(n)
  BY <1>6 DEF CleanInv, vars, ClockMoves, ShipperRemoves, seal
<1>7. CASE \/ RecvTimeout \/ SealFlush \/ SealRename \/ SealCreate \/ SealCopy
           \/ SealUnlink \/ SealFails \/ Reopen \/ ListBatches \/ EvictOldest
           \/ EvictDone
  <2>1. UNCHANGED <<chan, senders, closing>> /\ pc' # "down"
    BY <1>7
    DEF RecvTimeout, SealFlush, SealRename, SealCreate, SealCopy, SealUnlink,
        SealFails, Reopen, ListBatches, EvictOldest, EvictDone, AfterSeal, seal
  <2> QED
    BY <2>1 DEF CleanInv
<1> QED
  BY <1>1, <1>2, <1>3, <1>4, <1>5, <1>6, <1>7 DEF Next, Writer, Surroundings

\* A step that completes and replaces no batch, and that uses no number up.
LEMMA NoLossFrame ==
  ASSUME TypeInv, NoLoss, UNCHANGED <<base, batches_sealed, cur>>,
         \A n \in Done' : n \in Done /\ zst'[n] = zst[n],
         \A e \in Lines : e > base /\ fate'[e] = "lost" => fate[e] = "lost",
         pc' = "recv" => open', pc' \in {"create", "copy"} => pc' = pc
  PROVE  NoLoss'
<1>1. \A n \in Done' : OfThisRun(n)' => OfThisRun(n)
  BY DEF OfThisRun
<1>2. \A n \in Done' : OfThisRun(n)' => /\ n.seq < batches_sealed'
                                        /\ pc' = "create" => n # cur'
  BY <1>1 DEF NoLoss
<1>3. \A e \in Lines : e > base' => fate'[e] # "lost"
  BY DEF NoLoss
<1>4. pc' \in {"create", "copy"} => cur'.seq < batches_sealed'
  BY DEF NoLoss
<1> QED
  BY <1>2, <1>3, <1>4 DEF NoLoss

LEMMA SealNoLoss ==
  ASSUME TypeInv, AccountInv, NoLoss, SealRename \/ SealCreate \/ SealCopy
  PROVE  NoLoss'
<1>0. /\ cur \in Names /\ zst \in [Names -> Files] /\ base' = base
      /\ batches_sealed \in Nat /\ \A n \in Names : n.seq \in Nat
  BY NameAssumption
  DEF TypeInv, TypeOK, Names, SealRename, SealCreate, SealCopy, world
<1>1. CASE SealRename
  <2>1. /\ cur'.seq = batches_sealed /\ batches_sealed' = batches_sealed + 1
        /\ pc' = "create" /\ UNCHANGED <<zst, fate>>
    BY <1>1 DEF SealRename, NextSeq
  <2>2. Done' = Done /\ \A n : OfThisRun(n)' <=> OfThisRun(n)
    BY <1>0, <2>1 DEF Done, OfThisRun
  <2>3. \A n \in Done : OfThisRun(n) => n.seq < batches_sealed' /\ n # cur'
    BY <1>0, <2>1 DEF NoLoss, Done
  <2>4. cur'.seq < batches_sealed'
    BY <1>0, <2>1
  <2> QED
    BY <1>0, <2>1, <2>2, <2>3, <2>4 DEF NoLoss
<1>2. CASE SealCreate
  <2>1. /\ pc = "create" /\ pc' = "copy" /\ UNCHANGED <<cur, batches_sealed>>
        /\ fate' = BecomeOf(IF zst[cur].st = "done" THEN Range(zst[cur].lines)
                                                     ELSE {}, "lost")
        /\ zst'[cur].st = "partial"
        /\ \A n \in Names \ {cur} : zst'[n] = zst[n]
    BY <1>0, <1>2 DEF SealCreate, seal, stats
  <2>2. \A n \in Done' : n \in Done /\ zst'[n] = zst[n]
    BY <2>1 DEF Done
  <2>3. cur \in Done => ~OfThisRun(cur)
    BY <2>1 DEF NoLoss
  <2>4. \A e \in Lines : e > base => fate'[e] = fate[e]
    BY <1>0, <2>1, <2>3 DEF BecomeOf, OfThisRun, Done
  <2>5. \A n \in Done' : OfThisRun(n)' => n.seq < batches_sealed'
    BY <1>0, <2>1, <2>2 DEF NoLoss, OfThisRun
  <2> QED
    BY <1>0, <2>1, <2>4, <2>5 DEF NoLoss
<1>3. CASE SealCopy
  <2>1. /\ pc = "copy" /\ pc' = "unlink" /\ UNCHANGED <<cur, batches_sealed>>
        /\ fate' = BecomeOf(Range(staging[cur]), "sealed")
        /\ \A n \in Names \ {cur} : zst'[n] = zst[n]
    BY <1>0, <1>3 DEF SealCopy, seal, stats
  <2>2. \A n \in Done' \ {cur} : n \in Done /\ zst'[n] = zst[n]
    BY <2>1 DEF Done
  <2>3. \A n \in Done' : OfThisRun(n)' => n.seq < batches_sealed'
    BY <1>0, <2>1, <2>2 DEF NoLoss, OfThisRun
  <2>4. \A e \in Lines : fate'[e] = "lost" => fate[e] = "lost"
    BY <2>1 DEF BecomeOf
  <2> QED
    BY <1>0, <2>1, <2>3, <2>4 DEF NoLoss
<1> QED
  BY <1>1, <1>2, <1>3

LEMMA RemovalNoLoss ==
  ASSUME TypeInv, NoLoss, EvictOldest \/ \E n \in Names : ShipperRemoves(n)
  PROVE  NoLoss'
<1>1. zst \in [Names -> Files] /\ listing \subseteq Names
  BY DEF TypeInv, TypeOK
<1>2. PICK n \in Names :
        \/ UNCHANGED <<zst, fate>>
        \/ /\ zst' = [zst EXCEPT ![n] = NoFile]
           /\ \/ fate' = BecomeOf(Range(zst[n].lines), "evicted")
              \/ fate' = BecomeOf(Range(zst[n].lines), "shipped")
  BY <1>1 DEF EvictOldest, ShipperRemoves
<1>3. UNCHANGED <<base, batches_sealed, cur, pc, open>>
  BY DEF EvictOldest, ShipperRemoves, seal, stats, world
<1>4. \A m \in Done' : m \in Done /\ zst'[m] = zst[m]
  BY <1>1, <1>2 DEF Done, NoFile
<1>5. \A e \in Lines : fate'[e] = "lost" => fate[e] = "lost"
  BY <1>2 DEF BecomeOf
<1>6. pc' = "recv" => open'
  BY <1>3 DEF NoLoss
<1> QED
  BY <1>3, <1>4, <1>5, <1>6, NoLossFrame

LEMMA StepNoLoss ==
  ASSUME TypeInv, StatsInv, AccountInv, CleanInv, [Next]_vars,
         faults = 0, faults' = 0, pc' # "down"
  PROVE  NoLoss'
<1>0. ~Fault
  BY DEF Fault
<1>1. CASE pc = "down"
  <2>1. CASE Restart
    <3>1. /\ base' = offered /\ pc' = "start" /\ UNCHANGED <<zst, fate>>
      BY <2>1 DEF Restart, disk
    <3>2. \A e \in Lines : e > base' => fate'[e] = "unoffered"
      BY <3>1 DEF AccountInv, LineAccounting
    <3>3. \A n \in Done' : ~OfThisRun(n)'
      <4> SUFFICES ASSUME NEW n \in Done, NEW e \in Range(zst[n].lines), e > offered
                   PROVE  FALSE
        BY <3>1 DEF Done, OfThisRun
      <4>1. e \in Lines
        BY DEF Range, Done, TypeInv, TypeOK, Files
      <4>2. fate[e] = "unoffered" /\ fate[e] = "sealed"
        BY <4>1 DEF AccountInv, LineAccounting
      <4> QED
        BY <4>2
    <3> QED
      BY <3>1, <3>2, <3>3 DEF NoLoss
  <2>2. CASE ~Restart
    <3>1. pc' = "down"
      BY <1>1, <2>2
      DEF Next, Writer, Surroundings, vars, TrySubmit, DropSender, StartWriter,
          RecvLine, RecvTimeout, RecvDisconnected, SealFlush, SealRename,
          SealCreate, SealCopy, SealUnlink, SealFails, Reopen, ListBatches,
          EvictOldest, EvictDone, Crash, ClockMoves, ShipperRemoves
    <3> QED
      BY <3>1
  <2> QED
    BY <2>1, <2>2
<1>2. CASE pc # "down"
  <2>0. NoLoss
    BY <1>2 DEF CleanInv
  <2>1. CASE SealRename \/ SealCreate \/ SealCopy
    BY <2>0, <2>1, SealNoLoss
  <2>2. CASE EvictOldest \/ \E n \in Names : ShipperRemoves(n)
    BY <2>0, <2>2, RemovalNoLoss
  <2>3. CASE \/ UNCHANGED vars \/ ClockMoves
             \/ \E s \in Senders : TrySubmit(s) \/ DropSender(s)
             \/ StartWriter \/ RecvLine \/ RecvTimeout \/ RecvDisconnected
             \/ SealFlush \/ SealUnlink \/ Reopen \/ ListBatches \/ EvictDone
    <3>1. UNCHANGED <<zst, base, batches_sealed, cur>>
      BY <2>3
      DEF vars, ClockMoves, TrySubmit, DropSender, StartWriter, RecvLine,
          RecvTimeout, RecvDisconnected, SealFlush, SealUnlink, Reopen,
          ListBatches, EvictDone, seal, disk, stats, world
    <3>2. \A n \in Done' : n \in Done /\ zst'[n] = zst[n]
      BY <3>1 DEF Done
    <3>3. /\ pc' = "recv" => open'
          /\ pc' \in {"create", "copy"} => pc' = pc
      BY <1>0, <2>0, <2>3
      DEF vars, ClockMoves, TrySubmit, DropSender, StartWriter, RecvLine,
          RecvTimeout, RecvDisconnected, SealFlush, SealUnlink, Reopen,
          ListBatches, EvictDone, AfterSeal, seal, NoLoss
    <3>4. \A e \in Lines : fate'[e] = "lost" => fate[e] = "lost"
      BY <1>0, <2>0, <2>3
      DEF vars, ClockMoves, TrySubmit, DropSender, StartWriter, RecvLine,
          RecvTimeout, RecvDisconnected, SealFlush, SealUnlink, Reopen,
          ListBatches, EvictDone, BecomeOf, NoLoss
    <3> QED
      BY <2>0, <3>1, <3>2, <3>3, <3>4, NoLossFrame
  <2>4. ~SealFails /\ ~Crash /\ ~Restart
    BY <1>0, <1>2 DEF SealFails, Crash, Restart
  <2> QED
    BY <2>1, <2>2, <2>3, <2>4 DEF Next, Writer, Surroundings
<1> QED
  BY <1>1, <1>2

LEMMA StepCleanInv ==
  TypeInv /\ StatsInv /\ AccountInv /\ CleanInv /\ [Next]_vars => CleanInv'
<1> SUFFICES ASSUME TypeInv, StatsInv, AccountInv, CleanInv, [Next]_vars
             PROVE  CleanInv'
  OBVIOUS
<1>1. faults' = 0 /\ pc' # "down" => NoLoss'
  BY StepNoFaults, StepNoLoss
<1> QED
  BY <1>1, StepClosing DEF CleanInv

\* A writer that returns holds nothing any more.
LEMMA ExitHoldsNothing ==
  ASSUME TypeInv, AccountInv, CleanInv, [Next]_vars,
         pc # "exited", pc' = "exited", faults' = 0
  PROVE  Held' = {}
<1>1. ~Fault
  BY StepNoFaults DEF Fault
<1>2. /\ RecvDisconnected \/ EvictDone
      /\ chan' = chan /\ lines' = lines
  BY <1>1
  DEF Next, Writer, Surroundings, vars, TrySubmit, DropSender, StartWriter,
      RecvLine, RecvTimeout, RecvDisconnected, SealFlush, SealRename,
      SealCreate, SealCopy, SealUnlink, SealFails, Reopen, ListBatches,
      EvictOldest, EvictDone, Crash, Restart, ClockMoves, ShipperRemoves, seal
<1>3. chan = <<>> /\ lines = <<>>
  <2>1. CASE RecvDisconnected
    BY <2>1 DEF RecvDisconnected, TypeInv, WriterShape
  <2>2. CASE EvictDone
    BY <2>2 DEF EvictDone, AfterSeal, CleanInv, TypeInv, WriterShape
  <2> QED
    BY <1>2, <2>1, <2>2
<1>4. InStaging' = {}
  BY DEF InStaging
<1> QED
  BY <1>2, <1>3, <1>4, EmptyRange DEF Held

\* Unless an operation fails, a writer that returns has lost no line of its run,
\* for any bounds, clock and interleaving with the producers and the shipper.
THEOREM SpoolCleanExit == Spec => CleanExit
<1>1. ASSUME TypeInv, StatsInv, AccountInv, CleanInv, AccountInv', CleanInv',
             TypeInv', [Next]_vars, pc # "exited", pc' = "exited", faults' = 0,
             NEW e \in base + 1 .. offered
      PROVE  fate'[e] \in {"refused", "sealed", "evicted", "shipped"}
  <2>1. e \in Lines /\ e > base /\ ~(e > offered)
    BY <1>1, SpoolAssumption DEF TypeInv, TypeOK, Lines
  <2>2. Held' = {}
    BY <1>1, ExitHoldsNothing
  <2>3. base' = base /\ offered' = offered
    BY <1>1
    DEF Next, Writer, Surroundings, vars, TrySubmit, DropSender, StartWriter,
        RecvLine, RecvTimeout, RecvDisconnected, SealFlush, SealRename,
        SealCreate, SealCopy, SealUnlink, SealFails, Reopen, ListBatches,
        EvictOldest, EvictDone, Crash, Restart, ClockMoves, ShipperRemoves,
        world
  <2>4. fate'[e] # "held" /\ fate'[e] # "unoffered"
    BY <1>1, <2>1, <2>2, <2>3 DEF AccountInv, LineAccounting
  <2>5. fate'[e] # "lost"
    BY <1>1, <2>1, <2>3 DEF CleanInv, NoLoss
  <2>6. fate'[e] \in Fates
    BY <1>1, <2>1 DEF TypeInv, TypeOK
  <2> QED
    BY <2>4, <2>5, <2>6 DEF Fates
<1>2. /\ TypeInv /\ StatsInv /\ AccountInv /\ CleanInv /\ [Next]_vars
      /\ TypeInv' /\ AccountInv' /\ CleanInv'
      => (pc # "exited" /\ pc' = "exited" /\ faults' = 0
            => \A e \in base + 1 .. offered :
                 fate'[e] \in {"refused", "sealed", "evicted", "shipped"})
  BY <1>1
<1> QED
  BY <1>2, InitTypeInv, StepTypeInv, InitStatsInv, StepStatsInv,
     InitAccountInv, StepAccountInv, InitCleanInv, StepCleanInv, PTL
  DEF Spec, CleanExit

\* Until an operation fails no line that was offered in the run of a process is
\* lost, at any moment of that run: each is in a file or in the channel, was
\* refused to its producer, or was durable and has left the directory since.
LossNeedsCause ==
  faults = 0 /\ pc # "down" =>
    \A e \in base + 1 .. offered :
      fate[e] \in {"held", "refused", "sealed", "evicted", "shipped"}

\* The writer (spool/writer.rs) loses a line only to a failing operation or to
\* a death of the process: no schedule, batch size, eviction or clock does it.
THEOREM SpoolLossNeedsCause == Spec => []LossNeedsCause
<1>1. ASSUME TypeInv, AccountInv, CleanInv, faults = 0, pc # "down",
             NEW e \in base + 1 .. offered
      PROVE  fate[e] \in {"held", "refused", "sealed", "evicted", "shipped"}
  <2>1. e \in Lines /\ e > base /\ ~(e > offered)
    BY <1>1, SpoolAssumption DEF TypeInv, TypeOK, Lines
  <2>2. fate[e] # "unoffered"
    BY <1>1, <2>1 DEF AccountInv, LineAccounting
  <2>3. fate[e] # "lost"
    BY <1>1, <2>1 DEF CleanInv, NoLoss
  <2>4. fate[e] \in Fates
    BY <1>1, <2>1 DEF TypeInv, TypeOK
  <2> QED
    BY <2>2, <2>3, <2>4 DEF Fates
<1>2. TypeInv /\ AccountInv /\ CleanInv => LossNeedsCause
  BY <1>1 DEF LossNeedsCause
<1> QED
  BY <1>2, InitTypeInv, StepTypeInv, InitStatsInv, StepStatsInv,
     InitAccountInv, StepAccountInv, InitCleanInv, StepCleanInv, PTL
  DEF Spec

(***************************************************************************)
(* The order of the batches.                                               *)
(***************************************************************************)

\* The order in which the names are given: by second, then by number.
SeqBefore(a, b) == a.ts < b.ts \/ (a.ts = b.ts /\ a.seq < b.seq)

\* Batches of one second have numbers of one width.  This is what the order of
\* the names rests on: a run that seals its batches 9 and 10 in one second does
\* not sort them by their numbers.
SameWidth(S) == \A a, b \in S : a.ts = b.ts => Digits(a.seq) = Digits(b.seq)

OneWidth == SameWidth(Present)

LEMMA WidthSorts ==
  ASSUME NEW S, SameWidth(S)
  PROVE  \A a, b \in S : NameBefore(a, b) <=> SeqBefore(a, b)
BY DEF SameWidth, NameBefore, SeqBefore, TextBefore

\* What is younger is held further from the disk.
OrderInv ==
  /\ Increasing(chan) /\ Increasing(lines)
  /\ pc \in {"create", "copy"} => Increasing(staging[cur])
  /\ \A e \in Range(lines) \cup InStaging, f \in Range(chan) : e < f
  /\ \A n \in Done : /\ Increasing(zst[n].lines)
                     /\ \A e \in Range(zst[n].lines), f \in Held : e < f
                     /\ pc \in {"create", "copy"} => SeqBefore(n, cur)
  /\ \A m, n \in Done : SeqBefore(m, n) => Older(zst[m].lines, zst[n].lines)

LEMMA AppendIncreasing ==
  ASSUME NEW s \in Seq(Lines), NEW e \in Lines, Increasing(s),
         \A f \in Range(s) : f < e
  PROVE  Increasing(Append(s, e))
<1>1. /\ Len(s) \in Nat /\ DOMAIN s = 1 .. Len(s)
      /\ DOMAIN Append(s, e) = 1 .. Len(s) + 1
  OBVIOUS
<1>2. /\ \A i \in 1 .. Len(s) : Append(s, e)[i] = s[i]
      /\ Append(s, e)[Len(s) + 1] = e
  OBVIOUS
<1> SUFFICES ASSUME NEW i \in 1 .. Len(s) + 1, NEW j \in 1 .. Len(s) + 1, i < j
             PROVE  Append(s, e)[i] < Append(s, e)[j]
  BY <1>1 DEF Increasing
<1>3. i \in 1 .. Len(s)
  BY <1>1
<1>4. CASE j \in 1 .. Len(s)
  BY <1>1, <1>2, <1>3, <1>4 DEF Increasing
<1>5. CASE j = Len(s) + 1
  <2>1. s[i] \in Range(s)
    BY <1>1, <1>3 DEF Range
  <2> QED
    BY <1>2, <1>3, <1>5, <2>1
<1> QED
  BY <1>1, <1>4, <1>5

\* The first of an increasing channel is before the others.
LEMMA TailIncreasing ==
  ASSUME NEW s \in Seq(Lines), s # <<>>, Increasing(s)
  PROVE  /\ Increasing(Tail(s))
         /\ \A f \in Range(Tail(s)) : Head(s) < f
<1>1. /\ Len(s) \in Nat \ {0} /\ DOMAIN s = 1 .. Len(s) /\ Head(s) = s[1]
      /\ DOMAIN Tail(s) = 1 .. Len(s) - 1
      /\ \A i \in 1 .. Len(s) - 1 : Tail(s)[i] = s[i + 1]
  OBVIOUS
<1>2. \A i \in 1 .. Len(s) - 1 : i + 1 \in 1 .. Len(s) /\ 1 < i + 1
  BY <1>1
<1>3. 1 \in 1 .. Len(s)
  BY <1>1
<1>4. \A i, j \in 1 .. Len(s) - 1 : i < j => i + 1 < j + 1
  OBVIOUS
<1>5. Increasing(Tail(s))
  BY <1>1, <1>2, <1>4 DEF Increasing
<1>6. \A f \in Range(Tail(s)) : Head(s) < f
  BY <1>1, <1>2, <1>3 DEF Increasing, Range
<1> QED
  BY <1>5, <1>6

LEMMA EmptyIncreasing == Increasing(<<>>)
BY DEF Increasing

LEMMA InitOrderInv == Init => OrderInv
BY EmptyIncreasing, EmptyRange DEF Init, OrderInv, Done, NoFile, InStaging

\* Lines leave the channel, the active file is emptied, batches are removed.
LEMMA OrderFrame ==
  ASSUME TypeInv, OrderInv, UNCHANGED cur,
         Increasing(chan'), Range(chan') \subseteq Range(chan),
         lines' = lines \/ lines' = <<>>,
         pc' \in {"create", "copy"} => UNCHANGED <<pc, staging>>,
         \A n \in Done' : n \in Done /\ zst'[n] = zst[n]
  PROVE  OrderInv'
<1>1. Range(lines') \subseteq Range(lines) /\ Increasing(lines')
  BY EmptyRange, EmptyIncreasing DEF OrderInv
<1>2. InStaging' \subseteq InStaging
  BY DEF InStaging
<1>3. Held' \subseteq Held
  BY <1>1, <1>2 DEF Held
<1>4. pc' \in {"create", "copy"} => Increasing(staging'[cur'])
  BY DEF OrderInv
<1>5. \A e \in Range(lines') \cup InStaging', f \in Range(chan') : e < f
  BY <1>1, <1>2 DEF OrderInv
<1>6. \A n \in Done' : /\ Increasing(zst'[n].lines)
                       /\ \A e \in Range(zst'[n].lines), f \in Held' : e < f
                       /\ pc' \in {"create", "copy"} => SeqBefore(n, cur')
  BY <1>3 DEF OrderInv
<1>7. \A m, n \in Done' :
        SeqBefore(m, n) => Older(zst'[m].lines, zst'[n].lines)
  BY DEF OrderInv
<1> QED
  BY <1>1, <1>4, <1>5, <1>6, <1>7 DEF OrderInv

\* What is held or sealed has been submitted.
LEMMA SubmittedLines ==
  ASSUME TypeInv, AccountInv
  PROVE  /\ Held \subseteq Lines /\ \A e \in Held : e <= offered
         /\ \A n \in Done : /\ Range(zst[n].lines) \subseteq Lines
                            /\ \A e \in Range(zst[n].lines) : e <= offered
<1>1. /\ Range(chan) \subseteq Lines /\ Range(lines) \subseteq Lines
      /\ InStaging \subseteq Lines
      /\ \A n \in Done : Range(zst[n].lines) \subseteq Lines
  BY DEF TypeInv, TypeOK, Range, InStaging, Files, Done
<1>2. Held \subseteq Lines
  BY <1>1 DEF Held
<1>3. offered \in Nat /\ \A e \in Lines : e \in Nat
  BY SpoolAssumption DEF TypeInv, TypeOK, Lines
<1>4. \A e \in Held : ~(e > offered)
  BY <1>2 DEF AccountInv, LineAccounting
<1>5. \A n \in Done : \A e \in Range(zst[n].lines) : ~(e > offered)
  BY <1>1 DEF AccountInv, LineAccounting
<1> QED
  BY <1>1, <1>2, <1>3, <1>4, <1>5

LEMMA SubmitOrderInv ==
  ASSUME TypeInv, AccountInv, OrderInv, NEW s \in Senders, TrySubmit(s)
  PROVE  OrderInv'
<1> DEFINE e == offered + 1
<1>1. UNCHANGED <<zst, pc, lines, staging, cur>>
  BY DEF TrySubmit, disk, seal
<1>2. UNCHANGED <<Done, InStaging>>
  BY <1>1 DEF Done, InStaging
<1>3. CASE chan' = Append(chan, e)
  <2>1. chan \in Seq(Lines) /\ e \in Lines /\ offered \in Nat
    BY SpoolAssumption DEF TypeInv, TypeOK, TrySubmit, Lines
  <2>2. /\ \A f \in Held : f < e
        /\ \A n \in Done : \A f \in Range(zst[n].lines) : f < e
    <3>1. \A f \in Lines : f <= offered => f < offered + 1
      BY <2>1 DEF Lines
    <3> QED
      BY <3>1, SubmittedLines
  <2> HIDE DEF e
  <2>3. Range(chan') = Range(chan) \cup {e} /\ Increasing(chan')
    BY <1>3, <2>1, <2>2, AppendRange, AppendIncreasing DEF OrderInv, Held
  <2>4. Held' = Held \cup {e}
    BY <1>1, <1>2, <2>3 DEF Held
  <2>5. \A f \in Range(lines) \cup InStaging, g \in Range(chan') : f < g
    BY <2>2, <2>3 DEF OrderInv, Held
  <2>6. \A n \in Done : \A f \in Range(zst[n].lines), g \in Held' : f < g
    BY <2>2, <2>4 DEF OrderInv
  <2> QED
    BY <1>1, <1>2, <2>3, <2>5, <2>6 DEF OrderInv
<1>4. CASE chan' = chan
  BY <1>1, <1>2, <1>4, OrderFrame DEF OrderInv
<1> QED
  BY <1>3, <1>4 DEF TrySubmit

LEMMA ReceiveOrderInv ==
  ASSUME TypeInv, AccountInv, OrderInv, RecvLine
  PROVE  OrderInv'
<1> DEFINE e == Head(chan)
<1>1. /\ chan \in Seq(Lines) /\ chan # <<>> /\ chan' = Tail(chan)
      /\ lines \in Seq(Lines) /\ e \in Lines /\ pc = "recv"
      /\ pc' \in {"recv", "flush"} /\ UNCHANGED <<zst, cur>>
  BY DEF TypeInv, TypeOK, RecvLine, disk
<1>2. /\ e \in Range(chan) /\ Range(chan') = Range(chan) \ {e}
      /\ Increasing(chan') /\ \A f \in Range(chan') : e < f
  BY <1>1, TailRange, TailIncreasing DEF AccountInv, OnePlace, OrderInv
<1>3. InStaging = {} /\ InStaging' = {} /\ Done' = Done
  BY <1>1 DEF InStaging, Done
<1> HIDE DEF e
<1>4. CASE lines' = Append(lines, e)
  <2>1. \A f \in Range(lines) : f < e
    BY <1>2 DEF OrderInv
  <2>2. Range(lines') = Range(lines) \cup {e} /\ Increasing(lines')
    BY <1>1, <1>4, <2>1, AppendRange, AppendIncreasing DEF OrderInv
  <2>3. Held' = Held
    BY <1>2, <1>3, <2>2 DEF Held
  <2>4. \A f \in Range(lines') \cup InStaging', g \in Range(chan') : f < g
    BY <1>2, <1>3, <2>2 DEF OrderInv
  <2> QED
    BY <1>1, <1>2, <1>3, <2>2, <2>3, <2>4 DEF OrderInv
<1>5. CASE lines' = lines
  BY <1>1, <1>2, <1>3, <1>5, OrderFrame
<1> QED
  BY <1>4, <1>5 DEF RecvLine, e

LEMMA SealOrderInv ==
  ASSUME TypeInv, NamesInv, AccountInv, OrderInv, SaneClock,
         SealRename \/ SealCreate \/ SealCopy
  PROVE  OrderInv'
<1>0. /\ cur \in Names /\ staging \in [Names -> Seq(Lines)]
      /\ zst \in [Names -> Files] /\ chan' = chan
      /\ clock \in Nat /\ boot \in Nat /\ batches_sealed \in Nat
      /\ \A n \in Names : n.ts \in Nat /\ n.seq \in Nat
  BY NameAssumption DEF TypeInv, TypeOK, Names, Seconds, SealRename, SealCreate,
                        SealCopy
<1>1. CASE SealRename
  <2>1. cur' \in Names
    BY <1>1, NameAssumption DEF SealRename, Names, TypeInv, TypeOK
  <2>2. /\ staging'[cur'] = lines /\ lines' = <<>>
        /\ pc = "rename" /\ pc' = "create" /\ UNCHANGED zst
        /\ cur'.ts = clock /\ cur'.seq = batches_sealed
    BY <1>0, <1>1, <2>1 DEF SealRename
  <2>3. InStaging = {} /\ InStaging' = Range(lines) /\ Done' = Done
    BY <2>2 DEF InStaging, Done
  <2>4. Held' = Held
    BY <1>0, <2>2, <2>3, EmptyRange DEF Held
  <2>5. \A n \in Done : SeqBefore(n, cur')
    <3>1. \A n \in Done : NameUsed(n) /\ n \in Names
      BY DEF NamesInv, Done, Present
    <3>2. boot <= clock
      BY DEF NamesInv
    <3> QED
      BY <1>0, <2>2, <3>1, <3>2 DEF NameUsed, SeqBefore
  <2> QED
    BY <1>0, <2>2, <2>3, <2>4, <2>5, EmptyRange, EmptyIncreasing DEF OrderInv
<1>2. CASE SealCreate
  <2>1. /\ pc = "create" /\ pc' = "copy" /\ UNCHANGED <<lines, cur, staging>>
        /\ zst'[cur].st = "partial"
        /\ \A n \in Names \ {cur} : zst'[n] = zst[n]
    BY <1>0, <1>2 DEF SealCreate, seal
  <2>2. \A n \in Done' : n \in Done /\ zst'[n] = zst[n]
    BY <2>1 DEF Done
  <2>3. Held' = Held /\ InStaging' = InStaging
    BY <1>0, <2>1 DEF Held, InStaging
  <2> QED
    BY <1>0, <2>1, <2>2, <2>3 DEF OrderInv
<1>3. CASE SealCopy
  <2> DEFINE S == Range(staging[cur])
  <2>1. /\ pc = "copy" /\ pc' = "unlink" /\ UNCHANGED <<lines, cur, staging>>
        /\ lines = <<>>
        /\ zst'[cur] = [st |-> "done", lines |-> staging[cur]]
        /\ \A n \in Names \ {cur} : zst'[n] = zst[n]
    BY <1>0, <1>3 DEF SealCopy, seal, TypeInv, WriterShape
  <2>2. cur \notin Done /\ Done' = Done \cup {cur}
    BY <1>0, <2>1 DEF Done, AccountInv, OnePlace
  <2>3. InStaging = S /\ InStaging' = {}
    BY <2>1 DEF InStaging
  <2>4. Held = Range(chan) \cup S /\ Held' = Range(chan)
    BY <1>0, <2>1, <2>3, EmptyRange DEF Held
  <2>5. /\ \A n \in Done : zst'[n] = zst[n]
        /\ zst'[cur].lines = staging[cur]
    BY <2>1, <2>2 DEF Done
  <2>6. \A n \in Done' : /\ Increasing(zst'[n].lines)
                         /\ \A e \in Range(zst'[n].lines), f \in Held' : e < f
    <3>1. \A n \in Done : /\ Increasing(zst'[n].lines)
                          /\ \A e \in Range(zst'[n].lines), f \in Held' : e < f
      BY <2>4, <2>5 DEF OrderInv
    <3>2. /\ Increasing(zst'[cur].lines)
          /\ \A e \in Range(zst'[cur].lines), f \in Held' : e < f
      BY <2>1, <2>3, <2>4, <2>5 DEF OrderInv
    <3> QED
      BY <2>2, <3>1, <3>2
  <2>7. ASSUME NEW m \in Done', NEW n \in Done', SeqBefore(m, n)
        PROVE  Older(zst'[m].lines, zst'[n].lines)
    <3>1. n # cur => n \in Done /\ SeqBefore(n, cur)
      BY <2>1, <2>2, <2>7 DEF OrderInv
    <3>2. m # cur => m \in Done
      BY <2>2
    <3>3. m \in Names /\ n \in Names
      BY DEF Done
    <3>4. m # cur
      BY <1>0, <2>7, <3>1, <3>3 DEF SeqBefore
    <3>5. CASE n = cur
      BY <2>3, <2>4, <2>5, <3>2, <3>4, <3>5 DEF OrderInv, Older
    <3>6. CASE n # cur
      BY <2>5, <2>7, <3>1, <3>2, <3>4, <3>6 DEF OrderInv
    <3> QED
      BY <3>5, <3>6
  <2> QED
    BY <1>0, <2>1, <2>3, <2>6, <2>7, EmptyRange DEF OrderInv
<1> QED
  BY <1>1, <1>2, <1>3

LEMMA StepOrderInv ==
  ASSUME TypeInv, StatsInv, NamesInv, AccountInv, OrderInv, SaneClock, [Next]_vars
  PROVE  OrderInv'
<1>1. CASE \/ UNCHANGED vars \/ ClockMoves \/ Restart \/ StartWriter \/ Crash
           \/ \E s \in Senders : DropSender(s)
           \/ RecvTimeout \/ RecvDisconnected \/ SealFlush \/ SealUnlink
           \/ SealFails \/ Reopen \/ ListBatches \/ EvictDone
  <2>1. /\ UNCHANGED <<zst, cur>>
        /\ chan' = chan \/ chan' = <<>>
        /\ lines' = lines \/ lines' = <<>>
    BY <1>1
    DEF vars, ClockMoves, Restart, StartWriter, Crash, DropSender, RecvTimeout,
        RecvDisconnected, SealFlush, SealUnlink, SealFails, Reopen, ListBatches,
        EvictDone, seal, disk
  <2>2. pc' \in {"create", "copy"} => UNCHANGED <<pc, staging>>
    BY <1>1
    DEF vars, ClockMoves, Restart, StartWriter, Crash, DropSender, RecvTimeout,
        RecvDisconnected, SealFlush, SealUnlink, SealFails, Reopen, ListBatches,
        EvictDone, AfterSeal, disk
  <2>3. Increasing(chan') /\ Range(chan') \subseteq Range(chan)
    BY <2>1, EmptyRange, EmptyIncreasing DEF OrderInv
  <2>4. \A n \in Done' : n \in Done /\ zst'[n] = zst[n]
    BY <2>1 DEF Done
  <2> QED
    BY <2>1, <2>2, <2>3, <2>4, OrderFrame
<1>2. CASE EvictOldest \/ \E n \in Names : ShipperRemoves(n)
  <2>1. UNCHANGED <<chan, lines, cur, pc, staging>>
    BY <1>2 DEF EvictOldest, ShipperRemoves, seal
  <2>2. PICK n \in Names : zst' = zst \/ zst' = [zst EXCEPT ![n] = NoFile]
    BY <1>2 DEF EvictOldest, ShipperRemoves, TypeInv, TypeOK
  <2>3. \A m \in Done' : m \in Done /\ zst'[m] = zst[m]
    <3>1. /\ zst \in [Names -> Files] /\ NoFile.st = "none"
      BY DEF TypeInv, TypeOK, NoFile
    <3>2. \A m \in Names : zst'[m] = zst[m] \/ zst'[m] = NoFile
      BY <2>2, <3>1
    <3> QED
      BY <3>1, <3>2 DEF Done
  <2> QED
    BY <2>1, <2>3, OrderFrame DEF OrderInv
<1> QED
  BY <1>1, <1>2, SubmitOrderInv, ReceiveOrderInv, SealOrderInv
  DEF Next, Writer, Surroundings

\* The order of the names is the order of submission, across batches, crashes
\* and restarts, as long as the clock is sane and the directory never holds two
\* batches of one second with numbers of different widths.
THEOREM SpoolOrder ==
  SaneClock => (Spec /\ []OneWidth => []SubmissionOrder)
<1> SUFFICES ASSUME SaneClock PROVE Spec /\ []OneWidth => []SubmissionOrder
  OBVIOUS
<1>1. AccountInv /\ OrderInv /\ OneWidth => SubmissionOrder
  <2> SUFFICES ASSUME AccountInv, OrderInv, OneWidth PROVE SubmissionOrder
    OBVIOUS
  <2>1. \A m, n \in Present : NameBefore(m, n) <=> SeqBefore(m, n)
    BY WidthSorts DEF OneWidth
  <2>2. \A m, n \in Done : NameBefore(m, n) => Older(zst[m].lines, zst[n].lines)
    BY <2>1 DEF OrderInv, Done, Present
  <2>3. Older(lines, chan)
    BY DEF OrderInv, Older
  <2> QED
    BY <2>2, <2>3 DEF OrderInv, SubmissionOrder
<1>2. /\ TypeInv /\ StatsInv /\ NamesInv /\ AccountInv /\ OrderInv /\ [Next]_vars
      => OrderInv'
  BY StepOrderInv
<1> QED
  BY <1>1, <1>2, InitTypeInv, StepTypeInv, InitStatsInv, StepStatsInv,
     InitNamesInv, StepNamesInv, InitAccountInv, StepAccountInv, InitOrderInv, PTL
  DEF Spec

(***************************************************************************)
(* Induction, and the sum of MapThenSumSet.                                *)
(***************************************************************************)

\* A non-empty set of numbers has a first one.
LEMMA FirstNumber ==
  ASSUME NEW T, T \subseteq Nat, T # {}
  PROVE  \E x \in T : \A y \in T : x <= y
<1> DEFINE Less == OpToRel(<, Nat)
<1>1. IsWellFoundedOn(Less, Nat)
  BY NatLessThanWellFounded
<1>2. Less = {p \in Nat \X Nat : p[1] < p[2]}
  BY DEF OpToRel
<1> HIDE DEF Less
<1>3. PICK x \in T : \A y \in T : <<y, x>> \notin Less
  BY <1>1, WFMin
<1>4. \A y \in T : ~(y < x)
  BY <1>2, <1>3
<1> QED
  BY <1>3, <1>4

\* Induction, over a set of numbers.
LEMMA Induction ==
  ASSUME NEW T, 0 \in T, \A k \in T \cap Nat : k + 1 \in T
  PROVE  Nat \subseteq T
<1> SUFFICES ASSUME Nat \ T # {} PROVE FALSE
  OBVIOUS
<1>1. PICK k \in Nat \ T : \A j \in Nat \ T : k <= j
  BY FirstNumber
<1>2. k - 1 \in Nat /\ k - 1 \in T
  BY <1>1
<1>3. (k - 1) + 1 \in T
  BY <1>2
<1> QED
  BY <1>1, <1>3

\* Induction over the subsets of a finite set.
LEMMA FiniteInduction ==
  ASSUME NEW S, IsFiniteSet(S), NEW F,
         \A s \in SUBSET S : (\A x \in s : s \ {x} \in F) => s \in F
  PROVE  SUBSET S \subseteq F
<1> DEFINE T == {k \in Nat : \A s \in SUBSET S : Cardinality(s) <= k => s \in F}
<1>0. \A s \in SUBSET S : IsFiniteSet(s) /\ Cardinality(s) \in Nat
  BY FS_Subset, FS_CardinalityType
<1>1. 0 \in T
  <2>1. ASSUME NEW s \in SUBSET S, Cardinality(s) <= 0 PROVE s = {}
    BY <1>0, <2>1, FS_EmptySet
  <2>2. {} \in F
    OBVIOUS
  <2> QED
    BY <2>1, <2>2
<1>2. ASSUME NEW k \in T \cap Nat PROVE k + 1 \in T
  <2>1. ASSUME NEW s \in SUBSET S, Cardinality(s) <= k + 1 PROVE s \in F
    <3>1. ASSUME NEW x \in s PROVE s \ {x} \in F
      <4>1. Cardinality(s \ {x}) = Cardinality(s) - 1
        BY <1>0, FS_RemoveElement
      <4>2. Cardinality(s \ {x}) <= k
        BY <1>0, <2>1, <4>1
      <4> QED
        BY <4>2
    <3> QED
      BY <3>1
  <2> QED
    BY <2>1
<1> HIDE DEF T
<1>3. Nat \subseteq T
  BY <1>1, <1>2, Induction
<1>4. ASSUME NEW s \in SUBSET S PROVE s \in F
  <2>1. Cardinality(s) \in T /\ Cardinality(s) <= Cardinality(s)
    BY <1>0, <1>3
  <2> QED
    BY <2>1 DEF T
<1> QED
  BY <1>4

\* The sum of g over a set, in the order of MapThenSumSet.
AnyOf(s) == CHOOSE x \in s : TRUE
SumStep(f, g, s) == IF s = {} THEN 0 ELSE g[AnyOf(s)] + f[s \ {AnyOf(s)}]
IsFold(f, g, S) == f = [s \in SUBSET S |-> SumStep(f, g, s)]

LEMMA FoldExists ==
  ASSUME NEW S, IsFiniteSet(S), NEW g
  PROVE  \E f : IsFold(f, g, S)
<1> DEFINE Upto(f, k) == \A s \in SUBSET S :
                           Cardinality(s) <= k => f[s] = SumStep(f, g, s)
           T == {k \in Nat : \E f : Upto(f, k)}
<1>0. \A s \in SUBSET S : IsFiniteSet(s) /\ Cardinality(s) \in Nat
  BY FS_Subset, FS_CardinalityType
<1>1. 0 \in T
  <2> DEFINE f == [s \in SUBSET S |-> 0]
  <2>1. ASSUME NEW s \in SUBSET S, Cardinality(s) <= 0 PROVE f[s] = SumStep(f, g, s)
    <3>1. s = {}
      BY <1>0, <2>1, FS_EmptySet
    <3> QED
      BY <3>1 DEF SumStep
  <2>2. Upto(f, 0)
    BY <2>1
  <2> QED
    BY <2>2
<1>2. ASSUME NEW k \in T \cap Nat PROVE k + 1 \in T
  <2>1. PICK f : Upto(f, k)
    BY <1>2
  <2> DEFINE h == [s \in SUBSET S |-> SumStep(f, g, s)]
  <2>2. ASSUME NEW s \in SUBSET S, Cardinality(s) <= k + 1
        PROVE  h[s] = SumStep(h, g, s)
    <3>1. CASE s = {}
      BY <3>1 DEF SumStep
    <3>2. CASE s # {}
      <4> DEFINE r == s \ {AnyOf(s)}
      <4>1. AnyOf(s) \in s /\ r \in SUBSET S
        BY <3>2 DEF AnyOf
      <4>2. Cardinality(r) = Cardinality(s) - 1
        BY <1>0, <4>1, FS_RemoveElement
      <4>3. Cardinality(r) <= k
        BY <1>0, <2>2, <4>1, <4>2
      <4>4. h[r] = f[r]
        BY <2>1, <4>1, <4>3
      <4> QED
        BY <3>2, <4>1, <4>4 DEF SumStep
    <3> QED
      BY <3>1, <3>2
  <2>3. Upto(h, k + 1)
    BY <2>2
  <2> HIDE DEF h, Upto
  <2>4. \E e : Upto(e, k + 1)
    BY <2>3
  <2> QED
    BY <2>4
<1> HIDE DEF T
<1>3. Cardinality(S) \in T
  BY <1>1, <1>2, Induction, FS_CardinalityType
<1>4. PICK f : Upto(f, Cardinality(S))
  BY <1>3 DEF T
<1> DEFINE h == [s \in SUBSET S |-> f[s]]
<1>5. \A s \in SUBSET S : h[s] = SumStep(f, g, s)
  BY <1>4, FS_Subset
<1>6. \A s \in SUBSET S : SumStep(f, g, s) = SumStep(h, g, s)
  <2> SUFFICES ASSUME NEW s \in SUBSET S PROVE SumStep(f, g, s) = SumStep(h, g, s)
    OBVIOUS
  <2>1. s \ {AnyOf(s)} \in SUBSET S
    OBVIOUS
  <2>2. f[s \ {AnyOf(s)}] = h[s \ {AnyOf(s)}]
    BY <2>1
  <2> QED
    BY <2>2 DEF SumStep
<1>7. h = [s \in SUBSET S |-> SumStep(h, g, s)]
  BY <1>5, <1>6
<1> QED
  BY <1>7 DEF IsFold

\* A sum does not depend on the order.
IsSum(f, g, S) ==
  /\ f[{}] = 0
  /\ \A s \in SUBSET S : f[s] \in Nat
  /\ \A s \in SUBSET S : \A x \in s : f[s] = g[x] + f[s \ {x}]

LEMMA FoldIsSum ==
  ASSUME NEW S, IsFiniteSet(S), NEW g, NEW f, IsFold(f, g, S),
         \A x \in S : g[x] \in Nat
  PROVE  IsSum(f, g, S)
<1>0. /\ f[{}] = 0
      /\ \A s \in (SUBSET S) \ {{}} : f[s] = g[AnyOf(s)] + f[s \ {AnyOf(s)}]
  BY DEF IsFold, SumStep
<1> DEFINE P(s) == /\ f[s] \in Nat
                   /\ \A x \in s : f[s \ {x}] \in Nat /\ f[s] = g[x] + f[s \ {x}]
           F == {s \in SUBSET S : P(s)}
<1>1. ASSUME NEW s \in SUBSET S, \A x \in s : s \ {x} \in F PROVE s \in F
  <2>1. CASE s = {}
    BY <1>0, <2>1
  <2>2. CASE s # {}
    <3> DEFINE c == AnyOf(s)
    <3>1. c \in s /\ f[s] = g[c] + f[s \ {c}]
      BY <1>0, <2>2 DEF AnyOf
    <3>2. \A x \in s : P(s \ {x})
      BY <1>1
    <3> HIDE DEF P, c
    <3>3. \A x \in s : f[s \ {x}] \in Nat
      BY <3>2 DEF P
    <3>5. f[s] \in Nat
      <4>1. g[c] \in Nat /\ f[s \ {c}] \in Nat
        BY <3>1, <3>3
      <4> QED
        BY <3>1, <4>1
    <3>4. ASSUME NEW x \in s, x # c PROVE f[s] = g[x] + f[s \ {x}]
      <4>1. f[s \ {c}] = g[x] + f[(s \ {c}) \ {x}]
        BY <3>1, <3>2, <3>4 DEF P
      <4>2. f[s \ {x}] = g[c] + f[(s \ {x}) \ {c}]
        BY <3>1, <3>2, <3>4 DEF P
      <4>3. (s \ {c}) \ {x} = (s \ {x}) \ {c}
        OBVIOUS
      <4>4. f[(s \ {c}) \ {x}] \in Nat /\ g[x] \in Nat /\ g[c] \in Nat
        BY <3>1, <3>2, <3>4 DEF P
      <4>5. f[s] = g[c] + (g[x] + f[(s \ {c}) \ {x}])
        BY <3>1, <4>1
      <4>6. f[s \ {x}] = g[c] + f[(s \ {c}) \ {x}]
        BY <4>2, <4>3
      <4>7. \A i, j, k \in Nat : i + (j + k) = j + (i + k)
        OBVIOUS
      <4>8. f[s] = g[x] + (g[c] + f[(s \ {c}) \ {x}])
        BY <4>4, <4>5, <4>7
      <4> QED
        BY <4>6, <4>8
    <3> QED
      BY <3>1, <3>3, <3>4, <3>5 DEF P
  <2> QED
    BY <2>1, <2>2
<1> HIDE DEF F
<1>2. SUBSET S \subseteq F
  BY <1>1, FiniteInduction
<1> QED
  BY <1>0, <1>2 DEF F, IsSum

\* Two sums of the same numbers are equal.
LEMMA SumUnique ==
  ASSUME NEW S, IsFiniteSet(S), NEW R, NEW g, NEW h, NEW T, S \subseteq R, S \subseteq T,
         NEW f, NEW e, IsSum(f, g, R), IsSum(e, h, T),
         \A x \in S : g[x] = h[x]
  PROVE  f[S] = e[S]
<1> DEFINE F == {s \in SUBSET S : f[s] = e[s]}
<1>1. ASSUME NEW s \in SUBSET S, \A x \in s : s \ {x} \in F PROVE s \in F
  <2>1. CASE s = {}
    BY <2>1 DEF IsSum
  <2>2. ASSUME NEW x \in s PROVE f[s] = e[s]
    <3>1. f[s \ {x}] = e[s \ {x}]
      BY <1>1
    <3>2. s \in SUBSET R /\ s \in SUBSET T /\ g[x] = h[x]
      OBVIOUS
    <3>3. f[s] = g[x] + f[s \ {x}]
      BY <3>2 DEF IsSum
    <3>4. e[s] = h[x] + e[s \ {x}]
      BY <3>2 DEF IsSum
    <3> QED
      BY <3>1, <3>2, <3>3, <3>4
  <2> QED
    BY <2>1, <2>2
<1> HIDE DEF F
<1>2. SUBSET S \subseteq F
  BY <1>1, FiniteInduction
<1> QED
  BY <1>2 DEF F

(***************************************************************************)
(* The size cap.                                                           *)
(***************************************************************************)

\* oldest_batch takes the first of the names in the order they were given.
LEMMA OldestIsFirst ==
  ASSUME NEW S, S \subseteq Names, S # {}, SameWidth(S)
  PROVE  /\ Oldest(S) \in S
         /\ \A n \in S : n = Oldest(S) \/ SeqBefore(Oldest(S), n)
<1>0. \A n \in S : n.ts \in Nat /\ n.seq \in Nat /\ n = [ts |-> n.ts, seq |-> n.seq]
  BY NameAssumption DEF Names, Seconds
<1>1. PICK t \in {n.ts : n \in S} : \A u \in {n.ts : n \in S} : t <= u
  BY <1>0, FirstNumber
<1> DEFINE SameSecond == {n \in S : n.ts = t}
<1>2. PICK q \in {n.seq : n \in SameSecond} :
        \A r \in {n.seq : n \in SameSecond} : q <= r
  BY <1>0, <1>1, FirstNumber
<1>3. PICK n \in SameSecond : n.seq = q
  BY <1>2
<1>4. \A m \in S \ {n} : SeqBefore(n, m)
  <2> SUFFICES ASSUME NEW m \in S, m # n PROVE SeqBefore(n, m)
    OBVIOUS
  <2>1. n.ts = t /\ t <= m.ts /\ n.seq = q
    BY <1>1, <1>3
  <2>2. CASE m.ts = t
    <3>1. q <= m.seq
      BY <1>2, <2>2
    <3>2. m.seq # q
      BY <1>0, <1>3, <2>1, <2>2
    <3> QED
      BY <1>0, <1>3, <2>1, <2>2, <3>1, <3>2 DEF SeqBefore
  <2>3. CASE m.ts # t
    BY <1>0, <1>3, <2>1, <2>3 DEF SeqBefore
  <2> QED
    BY <2>2, <2>3
<1>5. \A m \in S \ {n} : NameBefore(n, m)
  BY <1>3, <1>4, WidthSorts
<1>6. /\ Oldest(S) \in S
      /\ \A m \in S \ {Oldest(S)} : NameBefore(Oldest(S), m)
  BY <1>3, <1>5 DEF Oldest
<1> QED
  BY <1>6, WidthSorts

LEMMA FiniteNames == IsFiniteSet(Names)
<1> DEFINE Pairs == Seconds \X (0 .. MaxSeals - 1)
           f == [n \in Names |-> <<n.ts, n.seq>>]
<1>1. IsFiniteSet(Pairs)
  <2>1. 0 \in Int /\ MaxClock \in Int /\ MaxSeals - 1 \in Int
    BY NameAssumption
  <2>2. IsFiniteSet(Seconds) /\ IsFiniteSet(0 .. MaxSeals - 1)
    BY <2>1, FS_Interval DEF Seconds
  <2> QED
    BY <2>2, FS_Product
<1>2. f \in [Names -> Pairs]
  BY DEF Names
<1>3. \A m, n \in Names : f[m] = f[n] => m = n
  BY DEF Names
<1>4. f \in Injection(Names, Pairs)
  BY <1>2, <1>3 DEF Injection, IsInjective
<1> QED
  BY <1>1, <1>4, FS_Injection

PresentIn(z) == {n \in Names : z[n].st # "none"}
SizesIn(z) == [n \in Names |-> Len(z[n].lines)]
SizeOf(z) == MapThenSumSet(LAMBDA n : Len(z[n].lines), PresentIn(z))
FoldIn(z) ==
  CHOOSE f : f = [s \in SUBSET PresentIn(z) |->
                    IF s = {} THEN 0
                    ELSE Len(z[AnyOf(s)].lines) + f[s \ {AnyOf(s)}]]

LEMMA DiskSizeOf == DiskSize = SizeOf(zst) /\ DiskSize' = SizeOf(zst')
BY DEF DiskSize, SizeOf, PresentIn, Size, Present, MapThenSumSet, MapThenFoldSet

\* The size of a directory is a sum of the sizes of its batches.
LEMMA SizeIsSum ==
  ASSUME NEW z \in [Names -> Files]
  PROVE  /\ IsFiniteSet(PresentIn(z))
         /\ IsSum(FoldIn(z), SizesIn(z), PresentIn(z))
         /\ SizeOf(z) = FoldIn(z)[PresentIn(z)]
<1> DEFINE S == PresentIn(z)
<1>1. IsFiniteSet(S) /\ S \subseteq Names
  BY FiniteNames, FS_Subset DEF PresentIn
<1>2. SizeOf(z) = FoldIn(z)[S]
  BY DEF SizeOf, FoldIn, AnyOf, MapThenSumSet, MapThenFoldSet
<1>3. PICK f : IsFold(f, SizesIn(z), S)
  BY <1>1, FoldExists
<1>4. ASSUME NEW s \in SUBSET S, s # {}
      PROVE  SizesIn(z)[AnyOf(s)] = Len(z[AnyOf(s)].lines)
  <2>1. AnyOf(s) \in Names
    BY <1>1, <1>4 DEF AnyOf
  <2> QED
    BY <2>1 DEF SizesIn
<1>5. \A e : IsFold(e, SizesIn(z), S) <=>
               e = [s \in SUBSET S |->
                      IF s = {} THEN 0
                      ELSE Len(z[AnyOf(s)].lines) + e[s \ {AnyOf(s)}]]
  BY <1>4 DEF IsFold, SumStep
<1>6. IsFold(FoldIn(z), SizesIn(z), S)
  BY <1>3, <1>5 DEF FoldIn
<1>7. \A n \in S : SizesIn(z)[n] \in Nat
  BY <1>1 DEF SizesIn, Files
<1>8. IsSum(FoldIn(z), SizesIn(z), S)
  BY <1>1, <1>6, <1>7, FoldIsSum
<1> QED
  BY <1>1, <1>2, <1>8

\* Removing a batch takes its size, and no other, from the directory.
LEMMA SizeWithout ==
  ASSUME NEW z \in [Names -> Files], NEW n \in PresentIn(z)
  PROVE  /\ SizeOf(z) \in Nat /\ Len(z[n].lines) \in Nat
         /\ SizeOf([z EXCEPT ![n] = NoFile]) \in Nat
         /\ SizeOf(z) = Len(z[n].lines) + SizeOf([z EXCEPT ![n] = NoFile])
<1> DEFINE y == [z EXCEPT ![n] = NoFile]
           S == PresentIn(z)
           R == PresentIn(y)
           f == FoldIn(z)
           e == FoldIn(y)
<1>1. y \in [Names -> Files] /\ n \in Names
  BY NoFileType DEF PresentIn
<1>2. R = S \ {n}
  BY <1>1 DEF PresentIn, NoFile
<1>3. /\ IsFiniteSet(R) /\ IsSum(e, SizesIn(y), R) /\ SizeOf(y) = e[R]
      /\ IsSum(f, SizesIn(z), S) /\ SizeOf(z) = f[S]
  BY <1>1, SizeIsSum
<1>4. \A m \in R : SizesIn(y)[m] = SizesIn(z)[m]
  BY <1>1, <1>2 DEF SizesIn, PresentIn
<1> HIDE DEF y, S, R, f, e
<1>5. e[R] = f[R]
  BY <1>2, <1>3, <1>4, SumUnique
<1>6. f[S] = SizesIn(z)[n] + f[S \ {n}]
  BY <1>3 DEF IsSum, S
<1>7. f[S] \in Nat /\ e[R] \in Nat
  BY <1>3 DEF IsSum
<1>8. SizesIn(z)[n] = Len(z[n].lines) /\ Len(z[n].lines) \in Nat
  BY <1>1 DEF SizesIn, Files
<1> QED
  BY <1>2, <1>3, <1>5, <1>6, <1>7, <1>8 DEF y

\* Whatever is in the directory is in the listing, and counted in the total:
\* nothing but the cap itself and the shipper changes the directory meanwhile.
CapInv ==
  pc = "evict" /\ faults = 0 =>
    /\ Present \subseteq listing
    /\ total \in Nat /\ DiskSize <= total

LEMMA InitCapInv == Init => CapInv
BY DEF Init, CapInv

LEMMA StepCapInv ==
  ASSUME TypeInv, CapInv, [Next]_vars
  PROVE  CapInv'
<1> SUFFICES ASSUME pc' = "evict", faults' = 0
             PROVE  /\ Present' \subseteq listing'
                    /\ total' \in Nat /\ DiskSize' <= total'
  BY DEF CapInv
<1>0. zst \in [Names -> Files] /\ Present = PresentIn(zst)
  BY DEF TypeInv, TypeOK, Present, PresentIn
<1>1. DiskSize = SizeOf(zst) /\ DiskSize' = SizeOf(zst')
  BY DiskSizeOf
<1>2. CASE ListBatches
  <2>1. /\ UNCHANGED zst /\ listing' = Present /\ total' = DiskSize
    BY <1>2 DEF ListBatches, AfterSeal, disk
  <2>2. Present' = Present
    BY <2>1 DEF Present
  <2>3. DiskSize \in Nat /\ DiskSize' = DiskSize
    BY <1>0, <1>1, <2>1, SizeIsSum DEF IsSum
  <2> QED
    BY <2>1, <2>2, <2>3
<1>3. CASE EvictOldest
  <2>1. pc = "evict" /\ faults = 0
    BY <1>3 DEF EvictOldest, Fault, TypeInv, TypeOK
  <2>2. Present \subseteq listing /\ total \in Nat /\ DiskSize <= total
    BY <2>1 DEF CapInv
  <2>3. PICK n \in listing :
          /\ listing' = listing \ {n}
          /\ \/ /\ zst[n].st # "none" /\ zst' = [zst EXCEPT ![n] = NoFile]
                /\ total' = total - Len(zst[n].lines)
             \/ zst[n].st = "none" /\ UNCHANGED <<zst, total>>
    BY <1>3, <2>1 DEF EvictOldest, Fault, Size
  <2>4. n \in Names
    BY DEF TypeInv, TypeOK
  <2>5. CASE zst[n].st = "none" /\ UNCHANGED <<zst, total>>
    BY <1>1, <2>2, <2>3, <2>5 DEF Present
  <2>6. CASE /\ zst[n].st # "none" /\ zst' = [zst EXCEPT ![n] = NoFile]
             /\ total' = total - Len(zst[n].lines)
    <3>1. Present' = Present \ {n}
      BY <1>0, <2>4, <2>6 DEF Present, NoFile
    <3>2. n \in PresentIn(zst)
      BY <2>4, <2>6 DEF PresentIn
    <3>3. /\ Len(zst[n].lines) \in Nat /\ DiskSize' \in Nat
          /\ DiskSize = Len(zst[n].lines) + DiskSize'
      BY <1>0, <1>1, <2>6, <3>2, SizeWithout
    <3> QED
      BY <2>2, <2>3, <2>6, <3>1, <3>3
  <2> QED
    BY <2>3, <2>5, <2>6
<1>4. CASE \E n \in Names : ShipperRemoves(n)
  <2>1. PICK n \in Names : ShipperRemoves(n)
    BY <1>4
  <2>2. /\ pc = "evict" /\ faults = 0 /\ UNCHANGED <<listing, total>>
        /\ zst[n].st = "done" /\ zst' = [zst EXCEPT ![n] = NoFile]
    BY <2>1 DEF ShipperRemoves, cap
  <2>3. Present \subseteq listing /\ total \in Nat /\ DiskSize <= total
    BY <2>2 DEF CapInv
  <2>4. Present' = Present \ {n}
    BY <1>0, <2>2 DEF Present, NoFile
  <2>5. n \in PresentIn(zst)
    BY <2>2 DEF PresentIn
  <2>6. /\ Len(zst[n].lines) \in Nat /\ DiskSize' \in Nat
        /\ DiskSize = Len(zst[n].lines) + DiskSize'
    BY <1>0, <1>1, <2>2, <2>5, SizeWithout
  <2> QED
    BY <2>2, <2>3, <2>4, <2>6
<1>5. CASE \/ UNCHANGED vars \/ ClockMoves
           \/ \E s \in Senders : TrySubmit(s) \/ DropSender(s)
  <2>1. UNCHANGED <<pc, zst, listing, total, faults>>
    BY <1>5 DEF vars, ClockMoves, TrySubmit, DropSender, disk, cap
  <2> QED
    BY <1>1, <2>1 DEF CapInv, Present
<1>6. CASE \/ StartWriter \/ RecvLine \/ RecvTimeout \/ RecvDisconnected
           \/ SealFlush \/ SealRename \/ SealCreate \/ SealCopy \/ SealUnlink
           \/ SealFails \/ Reopen \/ EvictDone \/ Crash \/ Restart
  BY <1>6 DEF StartWriter, RecvLine, RecvTimeout, RecvDisconnected, SealFlush,
     SealRename, SealCreate, SealCopy, SealUnlink, SealFails, Reopen, EvictDone,
     Crash, Restart, AfterSeal
<1> QED
  BY <1>2, <1>3, <1>4, <1>5, <1>6 DEF Next, Writer, Surroundings

\* The listing was a directory once, so the widths of its numbers agree, too.
LEMMA StepListingWidth ==
  ASSUME OneWidth, SameWidth(listing), [Next]_vars
  PROVE  SameWidth(listing')
<1>1. listing' \subseteq listing \/ listing' = Present
  BY DEF Next, Writer, Surroundings, vars, cap, StartWriter, RecvLine,
     RecvTimeout, RecvDisconnected, SealFlush, SealRename, SealCreate, SealCopy,
     SealUnlink, SealFails, Reopen, ListBatches, EvictOldest, EvictDone,
     TrySubmit, DropSender, Crash, Restart, ClockMoves, ShipperRemoves
<1> QED
  BY <1>1 DEF OneWidth, SameWidth

LEMMA CapHolds ==
  ASSUME TypeInv, CapInv, [Next]_vars
  PROVE  WithinCap
<1> SUFFICES ASSUME pc = "evict", pc' \notin {"evict", "down"}, faults = 0
             PROVE  DiskSize' <= MaxTotal
  BY DEF WithinCap
<1>1. EvictDone
  BY DEF Next, Writer, Surroundings, vars, StartWriter, RecvLine,
     RecvTimeout, RecvDisconnected, SealFlush, SealRename, SealCreate, SealCopy,
     SealUnlink, SealFails, Reopen, ListBatches, EvictOldest, EvictDone,
     TrySubmit, DropSender, Crash, Restart, ClockMoves, ShipperRemoves
<1>2. UNCHANGED zst /\ (listing = {} \/ ~(total > MaxTotal))
  BY <1>1 DEF EvictDone, OverCap, disk
<1>3. DiskSize' = DiskSize /\ DiskSize = SizeOf(zst)
  BY <1>2, DiskSizeOf
<1>4. /\ Present \subseteq listing /\ total \in Nat /\ DiskSize <= total
      /\ MaxTotal \in Nat
  BY SpoolAssumption DEF CapInv
<1>5. zst \in [Names -> Files] /\ Present = PresentIn(zst)
  BY DEF TypeInv, TypeOK, Present, PresentIn
<1>6. SizeOf(zst) \in Nat
  BY <1>5, SizeIsSum DEF IsSum
<1>7. Present = {} => SizeOf(zst) = 0
  BY <1>5, SizeIsSum DEF IsSum
<1>8. \A k \in Nat : DiskSize = k => DiskSize' = k
  BY <1>3
<1>9. CASE listing = {}
  <2>1. DiskSize = 0
    BY <1>3, <1>4, <1>7, <1>9
  <2>2. DiskSize' = 0
    BY <1>8, <2>1
  <2>3. 0 <= MaxTotal
    BY <1>4
  <2> QED
    BY <2>2, <2>3
<1>10. CASE ~(total > MaxTotal)
  <2>1. PICK k \in Nat : DiskSize = k
    BY <1>3, <1>6
  <2>2. k <= MaxTotal
    BY <1>4, <1>10, <2>1
  <2>3. DiskSize' = k
    BY <1>8, <2>1
  <2> QED
    BY <2>2, <2>3, Zenon
<1> QED
  BY <1>2, <1>9, <1>10

LEMMA OldestGoesFirst ==
  ASSUME TypeInv, AccountInv, OrderInv, CapInv, SameWidth(listing), [Next]_vars
  PROVE  GivesUpOldest
<1> SUFFICES ASSUME NEW n \in Names, batches_evicted' > batches_evicted,
                    zst'[n] # zst[n], faults = 0, NEW m \in Done \ {n}
             PROVE  Older(zst[n].lines, zst[m].lines)
  BY DEF GivesUpOldest
<1>1. batches_evicted \in Nat /\ zst \in [Names -> Files] /\ listing \subseteq Names
  BY DEF TypeInv, TypeOK
<1>2. EvictOldest
  <2>1. ~(batches_evicted > batches_evicted) /\ ~(0 > batches_evicted)
    BY <1>1
  <2>2. ~UNCHANGED batches_evicted /\ ~(batches_evicted' = 0)
    BY <2>1
  <2> QED
    BY <2>2 DEF Next, Writer, Surroundings, vars, stats, StartWriter, RecvLine,
       RecvTimeout, RecvDisconnected, SealFlush, SealRename, SealCreate, SealCopy,
       SealUnlink, SealFails, Reopen, ListBatches, EvictOldest, EvictDone,
       TrySubmit, DropSender, Crash, Restart, ClockMoves, ShipperRemoves
<1>3. /\ pc = "evict" /\ n \in listing /\ n = Oldest(listing)
      /\ zst[n].st # "none"
  <2>1. PICK k \in listing :
          /\ k = Oldest(listing)
          /\ \/ zst[k].st # "none" /\ zst' = [zst EXCEPT ![k] = NoFile]
             \/ UNCHANGED zst
    BY <1>2 DEF EvictOldest
  <2>2. k = n /\ zst[k].st # "none"
    BY <1>1, <2>1
  <2> QED
    BY <1>2, <2>1, <2>2 DEF EvictOldest
<1>4. m \in listing
  BY <1>3 DEF CapInv, Done, Present
<1>5. SeqBefore(n, m)
  BY <1>1, <1>3, <1>4, OldestIsFirst
<1>6. CASE n \in Done
  BY <1>5, <1>6 DEF OrderInv
<1>7. CASE n \notin Done
  BY <1>7, EmptyRange DEF AccountInv, OnePlace, Done, Older
<1> QED
  BY <1>6, <1>7

\* The size cap of enforce_total_size_cap holds whenever it has run and no file
\* operation has failed, whatever the shipper removes meanwhile; and no batch it
\* leaves behind holds a line older than one it gives up, as long as the clock
\* is sane and batches of one second have numbers of one width.
THEOREM SpoolEvictsOldest ==
  SaneClock => (Spec /\ []OneWidth => EvictsOldest)
<1> SUFFICES ASSUME SaneClock PROVE Spec /\ []OneWidth => EvictsOldest
  OBVIOUS
<1> DEFINE Inv == /\ TypeInv /\ StatsInv /\ NamesInv /\ AccountInv /\ OrderInv
                  /\ CapInv /\ SameWidth(listing)
<1>1. Init => Inv
  <2>1. Init => SameWidth(listing)
    BY DEF Init, SameWidth
  <2> QED
    BY <2>1, InitTypeInv, InitStatsInv, InitNamesInv, InitAccountInv,
       InitOrderInv, InitCapInv
<1>2. Inv /\ OneWidth /\ [Next]_vars => Inv'
  <2> SUFFICES ASSUME Inv, OneWidth, [Next]_vars PROVE Inv'
    OBVIOUS
  <2>1. SameWidth(listing)'
    BY StepListingWidth DEF SameWidth
  <2> QED
    BY <2>1, StepTypeInv, StepStatsInv, StepNamesInv, StepAccountInv,
       StepOrderInv, StepCapInv
<1>3. Inv /\ [Next]_vars => [WithinCap /\ GivesUpOldest]_vars
  BY CapHolds, OldestGoesFirst
<1> HIDE DEF Inv
<1> QED
  BY <1>1, <1>2, <1>3, PTL DEF Spec, EvictsOldest
=============================================================================
