------------------------------ MODULE Shipper ------------------------------
(***************************************************************************)
(* The shipper thread (shipper/run.rs): find the oldest batch over the two *)
(* spool directories, read it, POST it, and delete it, leave it or back    *)
(* off according to the answer.                                            *)
(*                                                                         *)
(* The kernel spool directory zst is the one module Spool describes; this  *)
(* module shares it, and Pipeline composes the two.  The plugin spool      *)
(* directory is kept abstract: complete batches appear in it.              *)
(*                                                                         *)
(* Time is not modelled, so a sleep of any length is the return to the     *)
(* head of the loop, and only the value of the backoff is kept.            *)
(***************************************************************************)
EXTENDS BatchNames, FiniteSets, Functions

CONSTANTS
  InitBackoff,   (* the first backoff: 1000 ms in the code                  *)
  MaxBackoff,    (* max_backoff                                             *)
  MaxPlugin,     (* bound: batches of the plugin spool                      *)
  MaxFaults      (* bound: file operations that fail                        *)

VARIABLES
  zst,           (* the kernel spool directory, as in Spool                 *)
  clock, faults, (* as in Spool                                             *)
  plug,          (* the names of the batches in the plugin directory        *)
  plugged,       (* how many batches the plugin spool has sealed            *)
  sp,            (* where the shipper thread is                             *)
  pick,          (* the batch it is working on                              *)
  body,          (* the kernel lines it has read from that batch            *)
  backoff,
  stop,          (* the SHUTDOWN flag                                       *)
  failing,       (* history: an attempt has failed since the last that has  *)
                 (* not, rejections aside, and since the start              *)
  delivered,     (* history: kernel lines that have reached the server      *)
  stored,        (* history: those of them that it has stored               *)
  skipped        (* history: those it has not, of a batch it has accepted   *)

dirs  == <<zst, plug>>
loop  == <<sp, pick, body, backoff, failing>>
site  == <<delivered, stored, skipped>>
world == <<clock, plugged, stop>>

NoPick  == [dir |-> "none", name |-> [ts |-> 0, seq |-> 0]]
Batches == [dir : {"kernel", "plugin"}, name : Names]

ShipperInit ==
  /\ plug = {} /\ plugged = 0
  /\ sp = "scan" /\ pick = NoPick /\ body = {} /\ backoff = 0
  /\ stop = FALSE /\ failing = FALSE
  /\ delivered = {} /\ stored = {} /\ skipped = {}

----------------------------------------------------------------------------
(* next_backoff.                                                            *)

AtMost(a, b) == IF a <= b THEN a ELSE b

\* Mutation: there is no first backoff, and twice nothing is nothing.
Doubled_FromZero(curr, max) == AtMost(2 * curr, max)

\* The backoff before the jitter: the first one, or twice the last one.
Doubled(curr, max) == IF curr = 0 THEN InitBackoff ELSE AtMost(2 * curr, max)

Jittered(b, j, max) ==
  {AtMost(b + j \div 2, max),
   AtMost(IF b - j \div 2 >= 1 THEN b - j \div 2 ELSE 1, max)}

NextBackoffs(curr, max) ==
  LET b == Doubled(curr, max)
  IN  IF b < 4 THEN {b}
      ELSE UNION {Jittered(b, j, max) : j \in 0 .. (b \div 2) - 1}

----------------------------------------------------------------------------
(* shipper_main and send_one.                                               *)

Fault == faults < MaxFaults /\ faults' = faults + 1

\* The sleep between two iterations is over, and path out of scope.
ToLoopHead == sp' = "scan" /\ pick' = NoPick /\ body' = {}

Retry == ToLoopHead /\ backoff' \in NextBackoffs(backoff, MaxBackoff)

\* The batch stays on disk; after the poll interval the loop starts again.
Reject == ToLoopHead /\ UNCHANGED backoff

\* Mutation: the flag is not looked at while there is work.
Continue_Busy == ~stop \/ plug # {} \/ \E n \in Names : zst[n].st # "none"

Continue == ~stop

\* The head of the loop, and the first directory of oldest_batch.
ScanKernel ==
  /\ sp = "scan" /\ Continue
  /\ LET there == {n \in Names : zst[n].st # "none"} IN
       pick' = IF there = {} THEN NoPick
               ELSE [dir |-> "kernel", name |-> Oldest(there)]
  /\ sp' = "scan_plugin"
  /\ UNCHANGED <<dirs, body, backoff, failing, world, faults, site>>

\* Mutation: an empty result is not told from a batch.
AfterScan_Always(best) == "read"

AfterScan(best) == IF best = NoPick THEN "scan" ELSE "read"

\* The second directory: on equal names the first one wins.
ScanPlugin ==
  /\ sp = "scan_plugin"
  /\ IF plug # {} /\ (pick = NoPick \/ NameBefore(Oldest(plug), pick.name))
       THEN pick' = [dir |-> "plugin", name |-> Oldest(plug)]
       ELSE UNCHANGED pick
  /\ sp' = AfterScan(pick')
  /\ UNCHANGED <<dirs, body, backoff, failing, world, faults, site>>

\* fs::read and decode_all.  The batch may be gone (evicted), or unreadable; a
\* file that is not complete does not decode.
ReadBatch ==
  /\ sp = "read"
  /\ LET file == zst[pick.name] IN
       \/ /\ pick.dir = "plugin" \/ file.st = "done"
          /\ sp' = "post"
          /\ body' = IF pick.dir = "plugin" THEN {} ELSE Range(file.lines)
          /\ UNCHANGED <<pick, backoff, failing, faults>>
       \/ /\ pick.dir = "kernel" /\ file.st = "partial"
          /\ Reject /\ UNCHANGED <<failing, faults>>
       \/ /\ IF pick.dir = "kernel" /\ file.st = "none"
               THEN UNCHANGED faults ELSE Fault
          /\ Retry /\ failing' = TRUE
  /\ UNCHANGED <<dirs, world, site>>

\* The server has taken the lines of a POST, and stores those it likes: it may
\* skip a line that does not pass its validation.
Receive(likes) ==
  /\ delivered' = delivered \cup body
  /\ stored' = stored \cup likes

\* send_bytes answers 2xx: all lines are stored, or skipped without an error.
PostAccepted ==
  /\ sp = "post"
  /\ \E likes \in SUBSET body : Receive(likes)
  /\ skipped' = (skipped \cup body) \ stored'
  /\ sp' = "remove" /\ failing' = FALSE
  /\ UNCHANGED <<dirs, pick, body, backoff, world, faults>>

\* send_bytes answers 4xx.
PostRejected ==
  /\ sp = "post"
  /\ Reject
  /\ UNCHANGED <<dirs, failing, world, faults, site>>

\* Mutation: a 5xx is taken for a success.
PostFailed_AsOk ==
  /\ sp = "post"
  /\ sp' = "remove" /\ failing' = FALSE
  /\ UNCHANGED <<dirs, pick, body, backoff, world, faults, site>>

\* send_bytes answers 5xx, or the transport fails: the server may have stored
\* lines all the same, its answer lost or late.
PostFailed ==
  /\ sp = "post"
  /\ \/ UNCHANGED site
     \/ /\ \E likes \in SUBSET body \ {{}} : Receive(likes)
        /\ skipped' = skipped \ stored'
  /\ Retry /\ failing' = TRUE
  /\ UNCHANGED <<dirs, world, faults>>

\* Mutation: a batch the server has accepted stays in the directory.
Drop_Nothing == UNCHANGED dirs

\* remove_file of the batch; it does nothing when the batch is gone already.
Drop ==
  IF pick.dir = "plugin"
    THEN plug' = plug \ {pick.name} /\ UNCHANGED zst
    ELSE /\ zst' = [zst EXCEPT ![pick.name] = [st |-> "none", lines |-> <<>>]]
         /\ UNCHANGED plug

\* Outcome::Ok: the batch is removed, a failure being ignored, and the backoff
\* is reset.
RemoveBatch ==
  /\ sp = "remove"
  /\ \/ Drop /\ UNCHANGED faults
     \/ Fault /\ UNCHANGED dirs
  /\ ToLoopHead /\ backoff' = 0
  /\ UNCHANGED <<failing, world, site>>

\* The loop ends when the flag is seen at its head, and its variables with it.
ShipperStops ==
  /\ sp = "scan" /\ ~Continue
  /\ sp' = "stopped" /\ backoff' = 0 /\ failing' = FALSE
  /\ UNCHANGED <<dirs, pick, body, world, faults, site>>

ShipperStep ==
  \/ ScanKernel \/ ScanPlugin \/ ReadBatch
  \/ PostAccepted \/ PostRejected \/ PostFailed
  \/ RemoveBatch \/ ShipperStops

----------------------------------------------------------------------------
(* What surrounds the shipper.                                              *)

\* The writer of the plugin spool seals a batch, now.
PluginSeals ==
  /\ sp # "down" /\ plugged < MaxPlugin /\ plugged < MaxSeals
  /\ plug' = plug \cup {[ts |-> clock, seq |-> plugged]}
  /\ plugged' = plugged + 1
  /\ UNCHANGED <<zst, loop, clock, stop, faults, site>>

\* shutdown::request.
RequestStop ==
  /\ sp # "down" /\ ~stop
  /\ stop' = TRUE
  /\ UNCHANGED <<dirs, loop, clock, plugged, faults, site>>

\* The part of the agent's crash, and of its restart, that is the shipper's.
ShipperCrashes ==
  /\ sp' = "down" /\ pick' = NoPick /\ body' = {} /\ backoff' = 0 /\ stop' = FALSE
  /\ failing' = FALSE
  /\ UNCHANGED <<plug, plugged, site>>

ShipperStarts ==
  /\ sp' = "scan"
  /\ UNCHANGED <<plug, pick, body, backoff, failing, plugged, stop, site>>

=============================================================================
