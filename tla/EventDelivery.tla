--------------------------- MODULE EventDelivery ---------------------------
(***************************************************************************)
(* What the spool and the shipper together promise about the events handed *)
(* to them, as ARCHITECTURE.md (sections 4 and 5) puts it, but for what    *)
(* the server does with a batch that it accepts: an event is volatile      *)
(* until its batch is sealed, and may be lost until then; once durable it  *)
(* stays until the server has accepted its batch, or until the size cap    *)
(* evicts it; it may be delivered more than once, and is delivered for the *)
(* first time in the order of submission. Of a batch that it accepts the   *)
(* server may skip events, which are removed all the same (send_one of     *)
(* shipper/run.rs).                                                        *)
(***************************************************************************)
EXTENDS Naturals

CONSTANT Lines     (* the events, numbered in the order of submission       *)

VARIABLES
  volatile,        (* accepted, not in a sealed batch yet                   *)
  durable,         (* in a sealed batch on disk                             *)
  reading,         (* in the batch being sent                               *)
  delivered,       (* in a batch that has reached the server                *)
  stored,          (* stored by the server                                  *)
  skipped,         (* of a batch the server has accepted, and not stored    *)
  evicted          (* given up to the size cap                              *)

site == <<delivered, stored, skipped>>
vars == <<volatile, durable, reading, site, evicted>>

Init ==
  /\ volatile = {} /\ durable = {} /\ reading = {}
  /\ delivered = {} /\ stored = {} /\ skipped = {} /\ evicted = {}

Before(S, T) == \A e \in S, f \in T : e < f

\* An event is accepted.
Accept(e) ==
  /\ Before(volatile \cup durable \cup delivered, {e})
  /\ volatile' = volatile \cup {e}
  /\ UNCHANGED <<durable, reading, site, evicted>>

\* The agent dies: nothing but the disk survives.
Crash ==
  /\ volatile' = {} /\ reading' = {}
  /\ UNCHANGED <<durable, site, evicted>>

\* Events that are not durable are lost to an error of the writer.
Lose(S) ==
  /\ S # {}
  /\ volatile' = volatile \ S
  /\ UNCHANGED <<durable, reading, site, evicted>>

\* A batch is sealed, with the oldest events there are.
Seal(S) ==
  /\ S # {} /\ Before(S, volatile \ S) /\ Before(durable, S)
  /\ volatile' = volatile \ S /\ durable' = durable \cup S
  /\ UNCHANGED <<reading, site, evicted>>

\* A sealed batch is read for sending, or the reading is given up.
Read(S) ==
  /\ S \subseteq durable
  /\ reading' = S
  /\ UNCHANGED <<volatile, durable, site, evicted>>

\* The batch is sent once more, or the sender is done with it.
KeepOrClose == reading' \in {reading, {}}

\* The batch reaches the server: again, or for the first time and in order.  The
\* server stores what it likes of it, and accepts it with the rest skipped, or
\* does not let the sender know.
Deliver ==
  /\ reading \subseteq delivered \/ Before(delivered, reading)
  /\ delivered' = delivered \cup reading
  /\ \E likes \in SUBSET reading : stored' = stored \cup likes
  /\ \E accepted \in {{}, reading} : skipped' = (skipped \cup accepted) \ stored'
  /\ KeepOrClose
  /\ UNCHANGED <<volatile, durable, evicted>>

\* Events that are stored, or skipped for good, are removed from disk.
Release(S) ==
  /\ S \subseteq stored \cup skipped
  /\ durable' = durable \ S
  /\ KeepOrClose
  /\ UNCHANGED <<volatile, site, evicted>>

\* Events are evicted, delivered or not.
Evict(S) ==
  /\ S \subseteq durable
  /\ durable' = durable \ S /\ evicted' = evicted \cup S
  /\ UNCHANGED <<volatile, reading, site>>

Next ==
  \/ \E e \in Lines : Accept(e)
  \/ Crash
  \/ Deliver
  \/ \E S \in SUBSET volatile : Lose(S) \/ Seal(S)
  \/ \E S \in SUBSET durable : Read(S) \/ Release(S) \/ Evict(S)

Spec == Init /\ [][Next]_vars
=============================================================================
