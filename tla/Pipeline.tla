------------------------------ MODULE Pipeline -----------------------------
(***************************************************************************)
(* The kernel spool and the shipper in one agent: the writer thread and    *)
(* the shipper thread run concurrently on the spool directory, and crash   *)
(* and restart together.  Pipeline implements EventDelivery.               *)
(***************************************************************************)
EXTENDS Spool

CONSTANTS InitBackoff, MaxBackoff, MaxPlugin

VARIABLES plug, plugged, sp, pick, body, backoff, stop, failing,
          delivered, stored, skipped

\* Two batches of one name are told apart nowhere, so names must be unique.
\* The first backoff is 1000 ms and the configured maximum one second at least.
ASSUME PipelineAssumption ==
  /\ SaneClock
  /\ InitBackoff \in Nat /\ MaxBackoff \in Nat
  /\ 4 <= InitBackoff /\ InitBackoff <= MaxBackoff
  /\ MaxPlugin \in Nat

Ship == INSTANCE Shipper

shipVars == <<plug, plugged, sp, pick, body, backoff, stop, failing,
              delivered, stored, skipped>>
pipeVars == <<vars, shipVars>>

\* A line leaves the directory by the hand of the shipper.
Shipped ==
  fate' = [e \in Lines |->
             IF fate[e] = "sealed"
                  /\ \A n \in Names : e \notin Range(zst'[n].lines)
               THEN "shipped" ELSE fate[e]]

\* What a step of the shipper leaves alone in the spool.
SpoolUnchanged ==
  UNCHANGED <<chan, senders, pc, seal, staging, cap, stats, boot, base, runs,
              offered>>

PipelineInit == Init /\ Ship!ShipperInit

ShipperThread == SpoolUnchanged /\ Ship!ShipperStep /\ Shipped

\* The ends of the channel stay: an orderly stop is the matter of Lifecycle.
PipelineNext ==
  \/ (Writer \/ \E s \in Senders : TrySubmit(s)) /\ UNCHANGED shipVars
  \/ ClockMoves /\ UNCHANGED shipVars
  \/ Crash /\ Ship!ShipperCrashes
  \/ Restart /\ Ship!ShipperStarts
  \/ ShipperThread
  \/ (Ship!PluginSeals \/ Ship!RequestStop)
       /\ SpoolUnchanged /\ UNCHANGED fate

Accepted == SpoolUnchanged /\ Ship!PostAccepted /\ Shipped

\* Both threads are scheduled; and a shipper that keeps asking is accepted in
\* the end, which is what "the network comes back" means.
PipelineSpec ==
  /\ PipelineInit /\ [][PipelineNext]_pipeVars
  /\ WF_pipeVars(UNCHANGED shipVars /\ Writer)
  /\ WF_pipeVars(ShipperThread) /\ SF_pipeVars(Accepted)

----------------------------------------------------------------------------
(* Properties.                                                              *)

\* From a failed attempt to the next batch that is accepted the backoff is at
\* least three quarters of the first one, and never past its maximum: however
\* many attempts fail, whatever the jitter, and if batches are rejected in
\* between.  It is zero until an attempt fails, and again once a batch is sent.
BackoffInRange ==
  sp # "remove" =>
    IF failing THEN 3 * InitBackoff <= 4 * backoff /\ backoff <= MaxBackoff
               ELSE backoff = 0

With(f) == {e \in Lines : fate[e] = f}

Promise == INSTANCE EventDelivery
  WITH volatile <- With("held"), durable <- With("sealed"), reading <- body,
       evicted <- With("evicted")

\* The two threads together keep the promise of EventDelivery, whatever a
\* crash, a failed file operation, a lost answer or an eviction of the batch
\* being sent does: only what was sealed is sent, only what the server stored,
\* or skipped in a batch that it accepted, or the cap evicts is removed, and
\* first deliveries are in order.
KeepsPromise == Promise!Spec

\* Nothing holds the shipper up: it runs, and no file that an interrupted seal
\* left behind is in the directory.
Unobstructed ==
  /\ sp \notin {"down", "stopped"} /\ ~stop
  /\ \A n \in Names : zst[n].st # "partial"

\* An endpoint that is back online drains its spool: when no more lines come
\* (MaxOffered bounds them) every sealed line has left the directory.
Drains == <>[]Unobstructed => []<>(With("sealed") = {})

\* Once SHUTDOWN is set, the shipper thread ends, so that the join in
\* ShipperHandle::shutdown returns, whatever the server does.
ShipperEnds == stop ~> sp \in {"stopped", "down"}
=============================================================================
