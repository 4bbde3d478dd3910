----------------------------- MODULE Isolation -----------------------------
(***************************************************************************)
(* isolate_endpoint and unisolate_endpoint (control/executor.rs): the      *)
(* sequence of netsh calls that cuts the host off but for the server, and  *)
(* the one that gives it its firewall back.                                *)
(*                                                                         *)
(* Abstractions.  Of the firewall are kept whose rules it holds (0 the     *)
(* defaults of Windows, n > 0 the n-th configuration of the                *)
(* administrator), whether it blocks what no rule allows, and the          *)
(* WazabiEDR-Isolate rules.  Calls of netsh that differ in direction only, *)
(* and "state on" with the policy set after it, are one step.  The process *)
(* may die between any two steps.                                          *)
(***************************************************************************)
EXTENDS AgentProcess

VARIABLES
  fw,           (* the firewall of the host                                 *)
  backup,       (* firewall_pre_isolation.wfw: {} or {what it holds}        *)
  run,          (* of the execution under way: hosts resolved, netsh all ok *)
  reply,        (* the status it answers                                    *)
  own,          (* the last configuration of the administrator              *)
  before,       (* history: the firewall when it was first isolated         *)
  clean         (* history: no netsh call or removal has failed, and the    *)
                (* process has not died, in the middle of an (un)isolation  *)

firewall == <<fw, backup, own, before, clean>>
isolation == <<firewall, run, reply>>

AllowRules == {"loopback", "server", "dhcp"}
Firewalls  == [rules : 0..MaxOrders + 1, block : BOOLEAN, allow : SUBSET AllowRules]

Configured(n) == [rules |-> n, block |-> FALSE, allow |-> {}]
Defaults      == Configured(0)

Statuses == {"none", "success", "completed", "failed"}
Fresh    == [ip |-> FALSE, ok |-> TRUE]

IsolationTypes ==
  /\ fw \in Firewalls /\ backup \in SUBSET Firewalls
  /\ before \in Firewalls /\ own \in 1..MaxOrders + 1 /\ clean \in BOOLEAN
  /\ run \in [ip : BOOLEAN, ok : BOOLEAN] /\ reply \in Statuses

IsolationInit ==
  /\ own = 1 /\ fw = Configured(1) /\ before = Configured(1)
  /\ backup = {} /\ run = Fresh /\ reply = "none" /\ clean = TRUE

\* The executor returns: the heartbeat loop acknowledges with this status.
Answer(status) == reply' = status /\ Goto("ack")

\* One call of netsh: it has its effect, or it fails and is remembered.
Netsh(effect) ==
  \/ fw' = effect /\ NoFault /\ UNCHANGED <<run, clean>>
  \/ Fault /\ run' = [run EXCEPT !.ok = FALSE] /\ clean' = FALSE /\ UNCHANGED fw

Allow(rule) == [fw EXCEPT !.allow = @ \cup {rule}]

\* The server answers through the firewall; DNS does not once it blocks.
Reachable == fw.block => "server" \in fw.allow

----------------------------------------------------------------------------
(* execute_isolate                                                          *)

\* An address needs no DNS; a name of a blocked host may still be in a cache.
ResolveHosts ==
  /\ pc = "isolate_endpoint"
  /\ \/ run' = [ip |-> TRUE, ok |-> TRUE] /\ NoFault
     \/ run' = [ip |-> FALSE, ok |-> TRUE] /\ IF fw.block THEN NoFault ELSE Fault
  /\ Goto("isolate.backup")
  /\ UNCHANGED <<firewall, reply>>

\* Mutation: a second isolation writes the backup again.
SaveAlways ==
  /\ pc = "isolate.backup"
  /\ before' = IF fw.block THEN before ELSE fw
  /\ backup' = {fw} /\ NoFault /\ UNCHANGED <<run, clean>>
  /\ Goto("isolate.reset")
  /\ UNCHANGED <<fw, own, reply>>

SaveFirewall ==
  /\ pc = "isolate.backup"
  /\ before' = IF fw.block THEN before ELSE fw
  /\ \/ backup # {} /\ NoFault /\ UNCHANGED <<backup, run, clean>>
     \/ backup = {} /\ backup' = {fw} /\ NoFault /\ UNCHANGED <<run, clean>>
     \/ /\ backup = {} /\ Fault /\ UNCHANGED backup
        /\ run' = [run EXCEPT !.ok = FALSE] /\ clean' = FALSE
  /\ Goto("isolate.reset")
  /\ UNCHANGED <<fw, own, reply>>

ResetRules ==
  /\ pc = "isolate.reset"
  /\ Netsh(Defaults)
  /\ Goto("isolate.block")
  /\ UNCHANGED <<backup, own, before, reply>>

BlockAll ==
  /\ pc = "isolate.block"
  /\ Netsh([fw EXCEPT !.block = TRUE])
  /\ Goto("isolate.loopback")
  /\ UNCHANGED <<backup, own, before, reply>>

AllowLoopback ==
  /\ pc = "isolate.loopback"
  /\ Netsh(Allow("loopback"))
  /\ Goto("isolate.server")
  /\ UNCHANGED <<backup, own, before, reply>>

\* Only if a host was resolved: none resolved is no failure.
AllowServer ==
  /\ pc = "isolate.server"
  /\ IF run.ip THEN Netsh(Allow("server"))
               ELSE NoFault /\ UNCHANGED <<fw, run, clean>>
  /\ Goto("isolate.dhcp")
  /\ UNCHANGED <<backup, own, before, reply>>

AllowDhcp ==
  /\ pc = "isolate.dhcp"
  /\ Netsh(Allow("dhcp"))
  /\ Goto("isolate.done")
  /\ UNCHANGED <<backup, own, before, reply>>

ReportIsolated ==
  /\ pc = "isolate.done"
  /\ Answer(IF run.ok THEN "success" ELSE "failed")
  /\ NoFault /\ UNCHANGED <<firewall, run>>

Isolate == \/ ResolveHosts \/ SaveFirewall \/ ResetRules \/ BlockAll
           \/ AllowLoopback \/ AllowServer \/ AllowDhcp \/ ReportIsolated

----------------------------------------------------------------------------
(* execute_unisolate                                                        *)

ImportBackup ==
  /\ pc = "unisolate_endpoint" /\ backup # {}
  /\ \/ fw' \in backup /\ NoFault /\ run' = Fresh /\ UNCHANGED clean
     \/ /\ Fault /\ run' = [Fresh EXCEPT !.ok = FALSE] /\ clean' = FALSE
        /\ UNCHANGED fw
  /\ Goto("unisolate.remove")
  /\ UNCHANGED <<backup, own, before, reply>>

\* Whatever the import did; a removal that fails is reported, not counted.
RemoveBackup ==
  /\ pc = "unisolate.remove"
  /\ \/ backup' = {} /\ NoFault /\ UNCHANGED clean
     \/ Fault /\ clean' = FALSE /\ UNCHANGED backup
  /\ Goto("unisolate.done")
  /\ UNCHANGED <<fw, run, own, before, reply>>

\* No backup: the defaults of Windows are better than a host cut off.
FallbackReset ==
  /\ pc = "unisolate_endpoint" /\ backup = {}
  /\ \/ fw' = Defaults /\ NoFault /\ run' = Fresh /\ UNCHANGED clean
     \/ /\ Fault /\ run' = [Fresh EXCEPT !.ok = FALSE] /\ clean' = FALSE
        /\ UNCHANGED fw
  /\ Goto("unisolate.policy")
  /\ UNCHANGED <<backup, own, before, reply>>

FallbackPolicy ==
  /\ pc = "unisolate.policy"
  /\ Netsh([fw EXCEPT !.block = FALSE])
  /\ Goto("unisolate.done")
  /\ UNCHANGED <<backup, own, before, reply>>

ReportUnisolated ==
  /\ pc = "unisolate.done"
  /\ Answer(IF run.ok THEN "success" ELSE "completed")
  /\ NoFault /\ UNCHANGED <<firewall, run>>

Unisolate == \/ ImportBackup \/ RemoveBackup \/ FallbackReset
             \/ FallbackPolicy \/ ReportUnisolated

----------------------------------------------------------------------------
\* The administrator configures a firewall that is not isolated.
Configure ==
  /\ pc \in {"idle", "down"} /\ ~fw.block /\ own < MaxOrders + 1
  /\ Order
  /\ own' = own + 1 /\ fw' = Configured(own + 1)
  /\ UNCHANGED <<backup, before, clean, run, reply>>

InIsolation ==
  pc \in {"isolate.reset", "isolate.block", "isolate.loopback",
          "isolate.server", "isolate.dhcp", "isolate.done",
          "unisolate.remove", "unisolate.policy"}

\* What a crash does to the state of this module.
IsolationDies ==
  /\ clean' = (clean /\ ~InIsolation)
  /\ run' = Fresh /\ reply' = "none"
  /\ UNCHANGED <<fw, backup, own, before>>
=============================================================================
