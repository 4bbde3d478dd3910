--------------------------- MODULE AgentProcess ---------------------------
(***************************************************************************)
(* The process of the agent as its heartbeat thread sees it: where that    *)
(* thread is, and the crashes, restarts, failing calls and outside events  *)
(* that the modules of the control plane have in common.                   *)
(***************************************************************************)
EXTENDS Naturals, Sequences, FiniteSets

CONSTANTS
  MaxOrders,    (* bound: what operators, administrators and the server do  *)
  MaxFaults,    (* bound: calls and requests that fail                      *)
  MaxCrashes    (* bound: crashes of the process                            *)

ASSUME ProcessAssumption ==
  MaxOrders \in Nat /\ MaxFaults \in Nat /\ MaxCrashes \in Nat

VARIABLES
  pc,           (* where the heartbeat thread is; "down": no process        *)
  orders, faults, crashes

process == <<pc, orders, faults, crashes>>

ProcessTypes ==
  /\ orders \in 0..MaxOrders
  /\ faults \in 0..MaxFaults
  /\ crashes \in 0..MaxCrashes

ProcessInit == pc = "idle" /\ orders = 0 /\ faults = 0 /\ crashes = 0

\* The thread goes on at place l; what may fail is said beside it.
Goto(l) == pc' = l /\ UNCHANGED <<orders, crashes>>

NoFault == UNCHANGED faults
Fault   == faults < MaxFaults /\ faults' = faults + 1

\* Something the thread has no part in happens.
Order == /\ orders < MaxOrders
         /\ orders' = orders + 1
         /\ UNCHANGED <<pc, faults, crashes>>

\* The process ends without a teardown.
Die == /\ pc # "down" /\ crashes < MaxCrashes
       /\ pc' = "down" /\ crashes' = crashes + 1
       /\ UNCHANGED <<orders, faults>>
=============================================================================
