------------------------------- MODULE Spool -------------------------------
(***************************************************************************)
(* One on-disk spool of the agent (spool/writer.rs, spool/file.rs): the    *)
(* bounded channel the producers submit to, the writer thread with its     *)
(* active file, and the spool directory, down to each file operation of    *)
(* sealing a batch and of enforcing the size cap.  The agent may crash     *)
(* between any two steps and start again on the directory it left.         *)
(*                                                                         *)
(* Abstractions.  An NDJSON line is the number of its submission, so the   *)
(* order of submission is the order of the numbers.  Every line counts one *)
(* unit of size, on disk as in the active file.  Time is not modelled: the *)
(* receive timeout may fire whenever the channel is empty.  The removal of *)
(* a batch by the shipper is the action ShipperRemoves; module Pipeline    *)
(* replaces it by the shipper itself.                                      *)
(***************************************************************************)
EXTENDS BatchNames, Sequences, FiniteSets, Functions, FiniteSetsExt

CONSTANTS
  Senders,       (* the ends of the channel: the handle, and the submitters *)
  Capacity,      (* channel_capacity                                        *)
  MaxFileLines,  (* max_bytes_per_file                                      *)
  MaxTotal,      (* max_total_bytes                                         *)
  SaneClock,     (* the wall clock never steps back, and a restarted agent  *)
                 (* sees a later second than the run before it              *)
  MaxOffered,    (* bound: lines submitted over all runs                    *)
  MaxRuns,       (* bound: runs of the agent                                *)
  MaxFaults      (* bound: file operations that fail                        *)

\* A channel_capacity of 0, which config.rs lets through, makes a channel without
\* a buffer: it is not modelled.
ASSUME SpoolAssumption ==
  /\ Senders # {}
  /\ Capacity \in Nat \ {0}
  /\ MaxFileLines \in Nat \ {0}
  /\ MaxTotal \in Nat
  /\ SaneClock \in BOOLEAN
  /\ MaxOffered \in Nat
  /\ MaxRuns \in Nat \ {0}
  /\ MaxFaults \in Nat

Lines == 1 .. MaxOffered

VARIABLES
  chan,            (* lines in the channel, oldest first                    *)
  senders,         (* the ends of the channel that are not dropped          *)
  pc,              (* where the writer thread is                            *)
  open,            (* the writer holds an ActiveFile                        *)
  lines,           (* the content of active.ndjson, buffered or not         *)
  closing,         (* the seal under way is the one of a disconnection      *)
  cur,             (* the name of the batch being sealed                    *)
  staging,         (* batch-*.ndjson: the lines of the file, <<>> if absent *)
  zst,             (* batch-*.zst                                           *)
  listing,         (* batches the cap has listed and not yet looked at      *)
  total,           (* the cap's running total                               *)
  events_written, events_dropped, batches_sealed, batches_evicted,
  clock,           (* wall clock, in seconds                                *)
  boot,            (* history: the second the current run started in        *)
  base,            (* history: lines submitted before the current run       *)
  offered,         (* history: lines submitted so far                       *)
  fate,            (* history: what became of each line                     *)
  runs, faults     (* runs started, file operations that failed             *)

disk   == <<staging, zst>>
seal   == <<open, lines, closing, cur>>
cap    == <<listing, total>>
stats  == <<events_written, events_dropped, batches_sealed, batches_evicted>>
world  == <<clock, boot, base, runs>>
vars   == <<chan, senders, pc, seal, disk, cap, stats, world, offered, fate,
            faults>>

NoFile == [st |-> "none", lines |-> <<>>]
Files  == [st : {"none", "partial", "done"}, lines : Seq(Lines)]

Fates == {"unoffered",  (* not submitted yet                                *)
          "held",       (* in the channel, the active or the staging file   *)
          "sealed",     (* in a complete batch                              *)
          "refused",    (* the channel was full or disconnected             *)
          "lost",       (* discarded by the writer, left in the channel of  *)
                        (* a writer that failed to start, in memory or in   *)
                        (* the active file at a crash, in a file that could *)
                        (* not be sealed, or in a batch that was replaced   *)
          "evicted",    (* in a batch the cap removed                       *)
          "shipped"}    (* in a batch the shipper removed                   *)

Present == {n \in Names : zst[n].st # "none"}
Done    == {n \in Names : zst[n].st = "done"}

\* A partial file counts no size: it may be arbitrarily short.
Size(n) == Len(zst[n].lines)

DiskSize == MapThenSumSet(Size, Present)

\* The lines that are submitted and not yet in a complete batch.
InStaging == IF pc \in {"create", "copy"} THEN Range(staging[cur]) ELSE {}

Held == Range(chan) \cup Range(lines) \cup InStaging

BecomeOf(S, f) == [e \in Lines |-> IF e \in S THEN f ELSE fate[e]]

Fault == faults < MaxFaults /\ faults' = faults + 1

Init ==
  /\ chan = <<>> /\ senders = Senders /\ pc = "start"
  /\ open = FALSE /\ lines = <<>> /\ closing = FALSE
  /\ cur = [ts |-> 0, seq |-> 0]
  /\ staging = [n \in Names |-> <<>>]
  /\ zst = [n \in Names |-> NoFile]
  /\ listing = {} /\ total = 0
  /\ events_written = 0 /\ events_dropped = 0
  /\ batches_sealed = 0 /\ batches_evicted = 0
  /\ clock = 0 /\ boot = 0 /\ base = 0 /\ offered = 0
  /\ fate = [e \in Lines |-> "unoffered"]
  /\ runs = 1 /\ faults = 0

----------------------------------------------------------------------------
(* Producers: SpoolHandle and its SpoolSubmitter clones.                    *)

\* The receiver is gone once the writer thread has returned.
ReceiverDropped == pc \in {"dead", "exited"}

\* Mutation: a full channel is not noticed, and a slot too many is used.
HasRoom_OffByOne == Len(chan) <= Capacity

HasRoom == Len(chan) < Capacity

\* try_submit of any live end: it never blocks; a full or a disconnected
\* channel costs the line, and the drop is counted.
TrySubmit(s) ==
  /\ s \in senders
  /\ offered < MaxOffered
  /\ offered' = offered + 1
  /\ IF ~ReceiverDropped /\ HasRoom
       THEN /\ chan' = Append(chan, offered + 1)
            /\ fate' = BecomeOf({offered + 1}, "held")
            /\ UNCHANGED events_dropped
       ELSE /\ events_dropped' = events_dropped + 1
            /\ fate' = BecomeOf({offered + 1}, "refused")
            /\ UNCHANGED chan
  /\ UNCHANGED <<senders, pc, seal, disk, cap, events_written,
                 batches_sealed, batches_evicted, world, faults>>

\* An end goes away: shutdown() drops the handle's, a thread that returns
\* drops its submitter's.
DropSender(s) ==
  /\ s \in senders
  /\ senders' = senders \ {s}
  /\ UNCHANGED <<chan, pc, seal, disk, cap, stats, world, offered, fate,
                 faults>>

----------------------------------------------------------------------------
(* The writer thread: writer_main.                                          *)

\* create_dir_all, remove a leftover active file, create a new one.  On a
\* failure the thread returns, and the receiver goes with what it holds.
StartWriter ==
  /\ pc = "start"
  /\ \/ /\ pc' = "recv" /\ open' = TRUE
        /\ UNCHANGED <<chan, fate, faults>>
     \/ /\ Fault
        /\ pc' = "dead" /\ chan' = <<>>
        /\ fate' = BecomeOf(Range(chan), "lost")
        /\ UNCHANGED open
  /\ UNCHANGED <<senders, lines, closing, cur, disk, cap, stats, world,
                 offered>>

FileFull(ls) == Len(ls) >= MaxFileLines

\* Mutation: a line met while there is no active file is not counted.
CountDiscarded_OnError == IF open THEN events_dropped + 1 ELSE events_dropped

CountDiscarded == events_dropped + 1

\* The writer receives a line.  Without an active file (an earlier reopen
\* failed), or when write_line fails, the line is dropped and counted.
RecvLine ==
  /\ pc = "recv" /\ chan # <<>>
  /\ chan' = Tail(chan)
  /\ \/ /\ open
        /\ lines' = Append(lines, Head(chan))
        /\ events_written' = events_written + 1
        /\ IF FileFull(lines')
             THEN pc' = "flush" /\ open' = FALSE
             ELSE UNCHANGED <<pc, open>>
        /\ UNCHANGED <<events_dropped, fate, faults>>
     \/ /\ IF open THEN Fault ELSE UNCHANGED faults
        /\ events_dropped' = CountDiscarded
        /\ fate' = BecomeOf({Head(chan)}, "lost")
        /\ UNCHANGED <<pc, open, lines, events_written>>
  /\ UNCHANGED <<senders, closing, cur, disk, cap, batches_sealed,
                 batches_evicted, world, offered>>

\* Mutation: a quiet channel seals nothing, only a full file does.
RecvTimeout_NoRotation == FALSE /\ UNCHANGED vars

\* recv_timeout returns Timeout: a non-empty active file is rotated.
RecvTimeout ==
  /\ pc = "recv" /\ chan = <<>> /\ senders # {}
  /\ open /\ lines # <<>>
  /\ pc' = "flush" /\ open' = FALSE
  /\ UNCHANGED <<chan, senders, lines, closing, cur, disk, cap, stats, world,
                 offered, fate, faults>>

\* Mutation: the writer returns without sealing what it has written.
RecvDisconnected_Unsealed ==
  /\ pc = "recv" /\ chan = <<>> /\ senders = {}
  /\ pc' = "exited" /\ open' = FALSE /\ lines' = <<>>
  /\ fate' = BecomeOf(Range(lines), "lost")
  /\ UNCHANGED <<chan, senders, closing, cur, disk, cap, stats, world, offered,
                 faults>>

\* Mutation: the end of the channel is taken for one more timeout.
RecvDisconnected_Ignored == FALSE /\ UNCHANGED vars

\* Every end of the channel is dropped and the channel is drained: seal what
\* the active file holds, or remove the file when it is empty, and return.
RecvDisconnected ==
  /\ pc = "recv" /\ chan = <<>> /\ senders = {}
  /\ IF open /\ lines # <<>>
       THEN pc' = "flush" /\ closing' = TRUE
       ELSE pc' = "exited" /\ UNCHANGED closing
  /\ open' = FALSE
  /\ UNCHANGED <<chan, senders, lines, cur, disk, cap, stats, world, offered,
                 fate, faults>>

----------------------------------------------------------------------------
(* seal_active_file and rotate.                                             *)

AfterSeal == IF closing THEN "exited" ELSE "reopen"

\* file.finish() flushes the buffer.
SealFlush ==
  /\ pc = "flush"
  /\ pc' = "rename"
  /\ UNCHANGED <<chan, senders, seal, disk, cap, stats, world, offered, fate,
                 faults>>

\* Mutation: the sequence number is not advanced.
NextSeq_Stuck == batches_sealed

NextSeq == batches_sealed + 1

\* The batch takes its name from the clock and the counter, and the active
\* file is renamed to the staging file of that name.  A staging file an
\* earlier run left under the same name is replaced.
SealRename ==
  /\ pc = "rename" /\ batches_sealed < MaxSeals
  /\ cur' = [ts |-> clock, seq |-> batches_sealed]
  /\ batches_sealed' = NextSeq
  /\ staging' = [staging EXCEPT ![cur'] = lines]
  /\ lines' = <<>>
  /\ pc' = "create"
  /\ UNCHANGED <<chan, senders, open, closing, zst, cap, events_written,
                 events_dropped, batches_evicted, world, offered, fate,
                 faults>>

\* File::create of the final name: an empty file appears in the directory,
\* in place of any batch of that name.
SealCreate ==
  /\ pc = "create"
  /\ fate' = BecomeOf(IF zst[cur].st = "done" THEN Range(zst[cur].lines) ELSE {},
                      "lost")
  /\ zst' = [zst EXCEPT ![cur] = [st |-> "partial", lines |-> <<>>]]
  /\ pc' = "copy"
  /\ UNCHANGED <<chan, senders, seal, staging, cap, stats, world, offered,
                 faults>>

\* Mutation: the encoder is finished before the last line is copied.
SealCopy_Short ==
  /\ pc = "copy"
  /\ zst' = [zst EXCEPT ![cur] = [st |-> "done", lines |-> Tail(staging[cur])]]
  /\ fate' = BecomeOf(Range(staging[cur]), "sealed")
  /\ pc' = "unlink"
  /\ UNCHANGED <<chan, senders, seal, staging, cap, stats, world, offered,
                 faults>>

\* The staging file is compressed into it and the encoder is finished.
SealCopy ==
  /\ pc = "copy"
  /\ zst' = [zst EXCEPT ![cur] = [st |-> "done", lines |-> staging[cur]]]
  /\ fate' = BecomeOf(Range(staging[cur]), "sealed")
  /\ pc' = "unlink"
  /\ UNCHANGED <<chan, senders, seal, staging, cap, stats, world, offered,
                 faults>>

\* The staging file is removed; a failure is ignored.
SealUnlink ==
  /\ pc = "unlink"
  /\ pc' = "cap"
  /\ \/ staging' = [staging EXCEPT ![cur] = <<>>] /\ UNCHANGED faults
     \/ Fault /\ UNCHANGED staging
  /\ UNCHANGED <<chan, senders, seal, zst, cap, stats, world, offered, fate>>

\* A step of the seal fails.  rotate then removes the active file, which
\* still is there only if the rename was not reached; after it, the lines
\* stay behind in the staging file.  A failed rename has used up its number.
SealFails ==
  /\ pc \in {"flush", "rename", "create", "copy"}
  /\ Fault
  /\ pc' = AfterSeal
  /\ lines' = <<>>
  /\ fate' = BecomeOf(Range(lines) \cup InStaging, "lost")
  /\ batches_sealed' = IF pc = "rename" /\ batches_sealed < MaxSeals
                         THEN NextSeq ELSE batches_sealed
  /\ UNCHANGED <<chan, senders, open, closing, cur, disk, cap, events_written,
                 events_dropped, batches_evicted, world, offered>>

\* rotate creates the next active file; if it cannot, the writer goes on
\* without one.
Reopen ==
  /\ pc = "reopen"
  /\ pc' = "recv"
  /\ \/ open' = TRUE /\ UNCHANGED faults
     \/ Fault /\ open' = FALSE
  /\ UNCHANGED <<chan, senders, lines, closing, cur, disk, cap, stats, world,
                 offered, fate>>

----------------------------------------------------------------------------
(* enforce_total_size_cap.                                                  *)

\* The directory is listed once, with the sizes the files have now.
ListBatches ==
  /\ pc = "cap"
  /\ \/ /\ pc' = "evict" /\ listing' = Present /\ total' = DiskSize
        /\ UNCHANGED faults
     \/ /\ Fault /\ pc' = AfterSeal /\ UNCHANGED cap
  /\ UNCHANGED <<chan, senders, seal, disk, stats, world, offered, fate>>

\* Mutation: eviction stops one batch too early.
OverCap_OffByOne == total > MaxTotal + 1

OverCap == total > MaxTotal

\* The oldest batch not looked at yet is removed.  The removal fails when
\* the shipper has removed the file since the listing; the running total is
\* then left as it is.
EvictOldest ==
  /\ pc = "evict" /\ OverCap
  /\ \E n \in listing :
       /\ n = Oldest(listing)
       /\ listing' = listing \ {n}
       /\ \/ /\ zst[n].st # "none"
             /\ zst' = [zst EXCEPT ![n] = NoFile]
             /\ total' = total - Size(n)
             /\ batches_evicted' = batches_evicted + 1
             /\ fate' = BecomeOf(Range(zst[n].lines), "evicted")
             /\ UNCHANGED faults
          \/ /\ IF zst[n].st = "none" THEN UNCHANGED faults ELSE Fault
             /\ UNCHANGED <<zst, total, batches_evicted, fate>>
  /\ UNCHANGED <<chan, senders, pc, seal, staging, events_written,
                 events_dropped, batches_sealed, world, offered>>

\* The loop ends: the total is under the cap, or the listing is used up.
EvictDone ==
  /\ pc = "evict" /\ (listing = {} \/ ~OverCap)
  /\ pc' = AfterSeal
  /\ listing' = {} /\ total' = 0
  /\ UNCHANGED <<chan, senders, seal, disk, stats, world, offered, fate,
                 faults>>

----------------------------------------------------------------------------
(* The process and its surroundings.                                        *)

\* The process is killed, or ends: only the directory survives it.  A
\* leftover active file is removed by the next start, unread.
Crash ==
  /\ pc # "down"
  /\ pc' = "down"
  /\ chan' = <<>> /\ senders' = {}
  /\ open' = FALSE /\ lines' = <<>> /\ closing' = FALSE
  /\ listing' = {} /\ total' = 0
  /\ fate' = BecomeOf(Held, "lost")
  /\ UNCHANGED <<cur, disk, stats, world, offered, faults>>

\* The agent starts again: new channel, new counters, the sequence from 0.
Restart ==
  /\ pc = "down" /\ runs < MaxRuns
  /\ pc' = "start" /\ senders' = Senders
  /\ events_written' = 0 /\ events_dropped' = 0
  /\ batches_sealed' = 0 /\ batches_evicted' = 0
  /\ \E t \in Seconds : /\ SaneClock => t > clock
                        /\ clock' = t /\ boot' = t
  /\ base' = offered /\ runs' = runs + 1
  /\ UNCHANGED <<chan, seal, disk, cap, offered, fate, faults>>

\* The wall clock moves on, or is set back.
ClockMoves ==
  /\ \E t \in Seconds \ {clock} : /\ SaneClock => t > clock
                                  /\ clock' = t
  /\ UNCHANGED <<chan, senders, pc, seal, disk, cap, stats, boot, base, runs,
                 offered, fate, faults>>

\* The shipper, which only removes batches it could decompress.
ShipperRemoves(n) ==
  /\ zst[n].st = "done" /\ pc # "down"
  /\ zst' = [zst EXCEPT ![n] = NoFile]
  /\ fate' = BecomeOf(Range(zst[n].lines), "shipped")
  /\ UNCHANGED <<chan, senders, pc, seal, staging, cap, stats, world, offered,
                 faults>>

Writer ==
  \/ StartWriter \/ RecvLine \/ RecvTimeout \/ RecvDisconnected
  \/ SealFlush \/ SealRename \/ SealCreate \/ SealCopy \/ SealUnlink
  \/ SealFails \/ Reopen
  \/ ListBatches \/ EvictOldest \/ EvictDone

Surroundings ==
  \/ \E s \in Senders : TrySubmit(s) \/ DropSender(s)
  \/ Crash \/ Restart \/ ClockMoves

Next == Writer \/ Surroundings \/ \E n \in Names : ShipperRemoves(n)

\* The writer thread is scheduled: as long as it can move, it does.
Spec == Init /\ [][Next]_vars /\ WF_vars(Writer)

----------------------------------------------------------------------------
(* Properties.                                                              *)

TypeOK ==
  /\ chan \in Seq(Lines) /\ Len(chan) <= Capacity
  /\ senders \subseteq Senders
  /\ pc \in {"start", "recv", "flush", "rename", "create", "copy", "unlink",
             "cap", "evict", "reopen", "exited", "dead", "down"}
  /\ open \in BOOLEAN /\ closing \in BOOLEAN
  /\ lines \in Seq(Lines) /\ Len(lines) <= MaxFileLines
  /\ cur \in Names
  /\ staging \in [Names -> Seq(Lines)]
  /\ zst \in [Names -> Files]
  /\ listing \subseteq Names
  /\ events_written \in Nat /\ events_dropped \in Nat
  /\ batches_sealed \in 0 .. MaxSeals /\ batches_evicted \in Nat
  /\ clock \in Seconds /\ boot \in Seconds
  /\ offered \in 0 .. MaxOffered /\ base \in 0 .. offered
  /\ fate \in [Lines -> Fates]
  /\ runs \in 1 .. MaxRuns /\ faults \in 0 .. MaxFaults

\* No line is lost or invented silently: a line whose history says it is held
\* is in the channel or in the file being written or sealed, one whose history
\* says it is sealed is in a complete batch, and nothing else is there.
LineAccounting ==
  \A e \in Lines :
    /\ fate[e] = "held" <=> e \in Held
    /\ fate[e] = "sealed" <=> \E n \in Done : e \in Range(zst[n].lines)
    /\ fate[e] = "unoffered" <=> e > offered

\* The counters account for every line submitted in this run: it is in the
\* channel, counted written, or counted dropped.  (A line can be counted
\* written and be lost when its file cannot be sealed; and a writer that
\* failed to start leaves the lines of its channel uncounted.)
StatsAccount ==
  pc \notin {"dead", "down"} =>
    offered - base = events_written + events_dropped + Len(chan)

Increasing(ls) == \A i, j \in DOMAIN ls : i < j => ls[i] < ls[j]

Older(as, bs) == \A e \in Range(as), f \in Range(bs) : e < f

\* The order of the names is the order of submission, from one batch to the
\* next as inside each, and what is still held is younger than what is sealed:
\* what writer.rs:321 and the shipper's sort rest on.
SubmissionOrder ==
  /\ Increasing(chan) /\ Increasing(lines) /\ Older(lines, chan)
  /\ \A n \in Done : /\ Increasing(zst[n].lines)
                     /\ \A e \in Range(zst[n].lines), f \in Held : e < f
  /\ \A m, n \in Done : NameBefore(m, n) => Older(zst[m].lines, zst[n].lines)

\* A batch never takes the place of another one, which File::create would
\* truncate: not of one sealed in the same second, nor of one an earlier run
\* left behind, nor of the partial file of a seal that failed.
FreshName == SaneClock /\ pc = "create" => zst[cur].st = "none"

\* When the cap is done and no file operation has failed, the batches are
\* within max_total_bytes, whatever the shipper removed in the meantime.
WithinCap ==
  pc = "evict" /\ pc' \notin {"evict", "down"} /\ faults = 0
    => DiskSize' <= MaxTotal

\* No batch the cap leaves behind holds a line submitted before one it evicts.
GivesUpOldest ==
  \A n \in Names :
    batches_evicted' > batches_evicted /\ zst'[n] # zst[n] /\ faults = 0
      => \A m \in Done \ {n} : Older(zst[n].lines, zst[m].lines)

\* The cap holds, and it gives up the oldest lines.
EvictsOldest == [][WithinCap /\ GivesUpOldest]_vars

\* A writer that returns because its channel is closed has lost nothing it
\* took in this run: each line was refused to its producer, or is sealed, or
\* was in a sealed batch that has left the directory.
CleanExit ==
  [][pc # "exited" /\ pc' = "exited" /\ faults' = 0
       => \A e \in base + 1 .. offered :
            fate'[e] \in {"refused", "sealed", "evicted", "shipped"}]_vars

\* A quiet endpoint still produces batches: no line stays in memory, in the
\* active file or in a staging file for ever.
HeldIsTransient == \A e \in Lines : fate[e] = "held" ~> fate[e] # "held"

\* Once every end of its channel is dropped, the writer thread returns, so
\* that the join in SpoolHandle::shutdown does too.
WriterExits == senders = {} ~> pc \in {"exited", "dead", "down"}
=============================================================================
