---------------------------- MODULE ProfileSync ----------------------------
(***************************************************************************)
(* The synchronisation of the profile (control/sync.rs) and the detection  *)
(* engine it reloads (detection/mod.rs): the files of the state directory, *)
(* the rules on disk, the engine in memory, and the thread that reloads it *)
(* when the local rules change.                                            *)
(*                                                                         *)
(* Abstractions.  A profile is a number, which grows with each publication *)
(* and stands for its template: a sequence of rules, each with the names   *)
(* of the Detection groups it declares, and the configuration it asks for. *)
(* The local rules file is a number, which grows with each edit and is its *)
(* fingerprint too; LocalGroups gives what it declares, Unparsable those   *)
(* that do not parse.  remote_rules_path is set, and local rules include   *)
(* it.  Parsing reads both files at once.                                  *)
(***************************************************************************)
EXTENDS AgentProcess, SequencesExt

CONSTANTS
  Template,     (* of each profile: its rules, in order                     *)
  Malformed,    (* the profiles whose template cannot be decoded            *)
  Overrides,    (* of each profile: its agent_config                        *)
  LocalGroups,  (* of each edit of the local rules: the groups it declares  *)
  Unparsable    (* the edits that do not parse                              *)

Profiles == 0..Len(Template)   \* 0: none, with no rules and no overrides
Edits    == DOMAIN LocalGroups \* 0: the file as it was installed

ASSUME ProfileAssumption ==
  /\ Template \in Seq(Seq([enabled : BOOLEAN, parses : BOOLEAN,
                            groups : SUBSET STRING]))
  /\ Edits \subseteq Nat /\ 0 \in Edits

VARIABLES
  published,    (* at the server: the current profile                       *)
  editions,     (* history: the profiles that have been published           *)
  heard,        (* current_profile_version of the last answer               *)
  got,          (* of the pull under way: metadata, template, config_changed *)
  version,      (* ProfileState: the version reported                       *)
  errors,       (* ProfileState: {}, "rules", "bundle"                      *)
  profileJson,  (* profile.json: what it holds, or Cut                      *)
  templateFile, (* profile_template.json                                    *)
  overrides,    (* agent_config_overrides.json                              *)
  config,       (* the overrides this process has read                      *)
  serverFile,   (* server.waza: the profile whose rules it holds            *)
  localFile,    (* detection.rules_path                                     *)
  engine,       (* the files the engine was built from; Off without it      *)
  read,         (* the files force_reload has parsed, not stored yet        *)
  reload,       (* the reload thread: its place, fingerprints, files parsed *)
  applied,      (* history: the template this process applied last, or Cut  *)
  raced,        (* history: the reload thread was the last to store, and    *)
                (* what it stored was no longer on disk                     *)
  restarts      (* history: restarts for a new configuration                *)

offer == <<published, editions>>
files == <<profileJson, templateFile, overrides, serverFile, localFile>>
memory == <<version, errors, config, applied>>
detection == <<engine, read, reload, raced>>
profileVars == <<offer, heard, got, files, memory, detection, restarts>>

Cut    == Len(Template) + 1   \* profile.json truncated, not written
Absent == Len(Template) + 1   \* no overrides file yet: as one without overrides
Off    == [local |-> 0, server |-> Cut]
OnDisk == [local |-> localFile, server |-> serverFile]

Asked(p)  == IF p = 0 THEN Absent ELSE Overrides[p]
Effective == IF overrides = Absent THEN 0 ELSE overrides
NoPull    == [meta |-> 0, template |-> 0, changed |-> FALSE, bundle |-> FALSE]
Thread(at, fp) == [at |-> at, fp |-> fp, seen |-> fp, files |-> Off]

RuleFiles == [local : Edits, server : Profiles] \cup {Off}

ProfileTypes ==
  /\ published \in editions /\ editions \subseteq Profiles
  /\ heard \in Profiles /\ version \in Profiles
  /\ got \in [meta : Profiles, template : Profiles,
             changed : BOOLEAN, bundle : BOOLEAN]
  /\ errors \in SUBSET {"rules", "bundle"}
  /\ applied \in Profiles \cup {Cut} /\ profileJson \in Profiles \cup {Cut}
  /\ templateFile \in Profiles /\ serverFile \in Profiles /\ localFile \in Edits
  /\ overrides \in {Asked(p) : p \in Profiles}
  /\ config \in {Asked(p) : p \in Profiles} \cup {0}
  /\ engine \in RuleFiles /\ read \in RuleFiles /\ raced \in BOOLEAN
  /\ reload \in [at : {"start", "wait", "changed", "parsed"},
                fp : Edits, seen : Edits, files : RuleFiles]
  /\ restarts \in Nat

----------------------------------------------------------------------------
(* parse_template_rules                                                     *)

\* Mutation: collisions between rules are not looked for.
ConsiderAlone(outcome, rule) ==
  IF ~rule.enabled THEN outcome
  ELSE IF ~rule.parses
       THEN [outcome EXCEPT !.refused = @ + 1]
       ELSE [outcome EXCEPT !.claimed = @ \cup rule.groups,
                            !.accepted = Append(@, rule)]

\* What a rule adds to the outcome of those before it.
Consider(outcome, rule) ==
  IF ~rule.enabled THEN outcome
  ELSE IF ~rule.parses \/ rule.groups \cap outcome.claimed # {}
       THEN [outcome EXCEPT !.refused = @ + 1]
       ELSE [outcome EXCEPT !.claimed = @ \cup rule.groups,
                            !.accepted = Append(@, rule)]

Outcome(p) ==
  FoldLeft(Consider, [accepted |-> <<>>, claimed |-> {}, refused |-> 0],
           IF p = 0 THEN <<>> ELSE Template[p])

\* The parser of the whole: no group is declared twice.
Loads(f) ==
  LET rules == Outcome(f.server).accepted
  IN  /\ f.local \notin Unparsable
      /\ \A i \in 1..Len(rules) :
           /\ rules[i].groups \cap LocalGroups[f.local] = {}
           /\ \A j \in 1..(i - 1) : rules[i].groups \cap rules[j].groups = {}

ProfileInit ==
  /\ published = 0 /\ editions = {0} /\ heard = 0 /\ got = NoPull
  /\ version = 0 /\ errors = {} /\ applied = Cut
  /\ profileJson = 0 /\ templateFile = 0 /\ overrides = Absent /\ config = 0
  /\ serverFile = 0 /\ localFile = 0
  /\ engine = OnDisk /\ read = Off /\ reload = Thread("start", 0)
  /\ raced = FALSE /\ restarts = 0

----------------------------------------------------------------------------
(* The server, and the operator who edits the local rules                   *)

Publish ==
  /\ Order
  /\ \E p \in Profiles : p > published /\ published' = p
  /\ editions' = editions \cup {published'}
  /\ UNCHANGED <<heard, got, files, memory, detection, restarts>>

EditRules ==
  /\ Order
  /\ \E e \in Edits : e > localFile /\ localFile' = e
  /\ UNCHANGED <<offer, heard, got, profileJson, templateFile, overrides,
                 serverFile, memory, detection, restarts>>

----------------------------------------------------------------------------
(* pull, by the heartbeat thread                                            *)

\* The part of a heartbeat that concerns the profile.
HearVersion ==
  /\ heard' = published
  /\ UNCHANGED <<offer, got, files, memory, detection, restarts>>

DecidePull(forced) ==
  /\ pc = "profile"
  /\ Goto(IF heard > version \/ forced THEN "pull" ELSE "idle") /\ NoFault
  /\ UNCHANGED profileVars

GetMetadata ==
  /\ pc = "pull"
  /\ IF published = 0 THEN got' = NoPull /\ Goto("idle")
     ELSE got' = [NoPull EXCEPT !.meta = published] /\ Goto("pull.template")
  /\ UNCHANGED <<offer, heard, files, memory, detection, restarts>>

\* A second request: the profile may have been published again.
GetTemplate ==
  /\ pc = "pull.template"
  /\ got' = [got EXCEPT !.template = published]
  /\ Goto("pull.open")
  /\ UNCHANGED <<offer, heard, files, memory, detection, restarts>>

Requesting == pc \in {"pull", "pull.template"}

PullFails ==
  /\ Requesting
  /\ got' = NoPull /\ Goto("idle")
  /\ UNCHANGED <<offer, heard, files, memory, detection, restarts>>

\* fs::write truncates the file and then writes it.
OpenProfileJson ==
  /\ pc = "pull.open"
  /\ \/ profileJson' = Cut /\ NoFault /\ Goto("pull.write") /\ UNCHANGED got
     \/ Fault /\ got' = NoPull /\ Goto("idle") /\ UNCHANGED profileJson
  /\ UNCHANGED <<offer, heard, templateFile, overrides, serverFile,
                 localFile, memory, detection, restarts>>

WriteProfileJson ==
  /\ pc = "pull.write"
  /\ \/ /\ profileJson' = got.meta /\ NoFault /\ Goto("pull.audit")
        /\ UNCHANGED got
     \/ Fault /\ got' = NoPull /\ Goto("idle") /\ UNCHANGED profileJson
  /\ UNCHANGED <<offer, heard, templateFile, overrides, serverFile,
                 localFile, memory, detection, restarts>>

\* For audit only: a failure does not end the pull.
WriteTemplate ==
  /\ pc = "pull.audit"
  /\ \/ templateFile' = got.template /\ NoFault
     \/ Fault /\ UNCHANGED templateFile
  /\ Goto("pull.overrides")
  /\ UNCHANGED <<offer, heard, got, profileJson, overrides, serverFile,
                 localFile, memory, detection, restarts>>

\* Mutation: the overrides are written, and the restart asked for, each time.
WriteOverridesAlways ==
  /\ pc = "pull.overrides"
  /\ \/ /\ overrides' = Asked(got.template) /\ NoFault
        /\ got' = [got EXCEPT !.changed = TRUE]
     \/ Fault /\ UNCHANGED <<overrides, got>>
  /\ Goto("pull.parse")
  /\ UNCHANGED <<offer, heard, profileJson, templateFile, serverFile,
                 localFile, memory, detection, restarts>>

WriteOverrides ==
  /\ pc = "pull.overrides"
  /\ \/ /\ overrides' = Asked(got.template) /\ NoFault
        /\ got' = [got EXCEPT !.changed = overrides # Asked(got.template)]
     \/ /\ overrides # Asked(got.template)
        /\ Fault /\ UNCHANGED <<overrides, got>>
  /\ Goto("pull.parse")
  /\ UNCHANGED <<offer, heard, profileJson, templateFile, serverFile,
                 localFile, memory, detection, restarts>>

\* An undecodable template ends the pull, after the overrides were written.
ParseTemplate ==
  /\ pc = "pull.parse" /\ NoFault
  /\ IF got.template \in Malformed THEN got' = NoPull /\ Goto("idle")
     ELSE UNCHANGED got /\ Goto("pull.rules")
  /\ UNCHANGED <<offer, heard, files, memory, detection, restarts>>

\* Without an engine the rules are written and nothing is reloaded.
WriteRules ==
  /\ pc = "pull.rules"
  /\ \/ /\ serverFile' = got.template /\ NoFault /\ UNCHANGED got
        /\ Goto(IF engine = Off THEN "pull.flip" ELSE "pull.reload")
     \/ /\ Fault /\ got' = [got EXCEPT !.bundle = TRUE]
        /\ Goto("pull.flip") /\ UNCHANGED serverFile
  /\ UNCHANGED <<offer, heard, profileJson, templateFile, overrides,
                 localFile, memory, detection, restarts>>

ForceReload ==
  /\ pc = "pull.reload" /\ NoFault
  /\ read' = OnDisk /\ Goto("pull.store")
  /\ UNCHANGED <<offer, heard, got, files, memory, engine, reload, raced,
                 restarts>>

\* Mutation: a failed reload is only logged.
StoreSilently ==
  /\ pc = "pull.store" /\ NoFault
  /\ IF Loads(read) THEN engine' = read /\ raced' = FALSE
     ELSE UNCHANGED <<engine, raced>>
  /\ read' = Off /\ Goto("pull.flip")
  /\ UNCHANGED <<offer, heard, got, files, memory, reload, restarts>>

StoreForced ==
  /\ pc = "pull.store" /\ NoFault
  /\ IF Loads(read) THEN engine' = read /\ raced' = FALSE /\ UNCHANGED got
     ELSE got' = [got EXCEPT !.bundle = TRUE] /\ UNCHANGED <<engine, raced>>
  /\ read' = Off /\ Goto("pull.flip")
  /\ UNCHANGED <<offer, heard, files, memory, reload, restarts>>

\* Mutation: the restart is forgotten.
FlipStaying ==
  /\ pc = "pull.flip" /\ NoFault
  /\ version' = got.meta /\ applied' = got.template
  /\ errors' = (IF Outcome(got.template).refused > 0 THEN {"rules"} ELSE {})
               \cup (IF got.bundle THEN {"bundle"} ELSE {})
  /\ got' = NoPull /\ Goto("idle")
  /\ UNCHANGED <<offer, heard, files, config, detection, restarts>>

\* ProfileState takes the new version and, for a new configuration, SHUTDOWN
\* is set and the exit scheduled.
FlipState ==
  /\ pc = "pull.flip" /\ NoFault
  /\ version' = got.meta /\ applied' = got.template
  /\ errors' = (IF Outcome(got.template).refused > 0 THEN {"rules"} ELSE {})
               \cup (IF got.bundle THEN {"bundle"} ELSE {})
  /\ got' = NoPull
  /\ IF got.changed THEN Goto("stopping") /\ restarts' = restarts + 1
     ELSE Goto("idle") /\ UNCHANGED restarts
  /\ UNCHANGED <<offer, heard, files, config, detection>>

Pull == \/ OpenProfileJson \/ WriteProfileJson \/ WriteTemplate
        \/ WriteOverrides \/ ParseTemplate \/ WriteRules \/ ForceReload
        \/ StoreForced \/ FlipState

InPull == pc \in {"pull.open", "pull.write", "pull.audit", "pull.overrides",
                  "pull.parse", "pull.rules", "pull.reload", "pull.store",
                  "pull.flip"}

----------------------------------------------------------------------------
(* spawn_reload                                                             *)

Running == pc \notin {"down", "stopping"} /\ engine # Off

ReloadStarts ==
  /\ Running /\ reload.at = "start"
  /\ reload' = Thread("wait", localFile)
  /\ UNCHANGED <<process, offer, heard, got, files, memory, engine, read,
                 raced, restarts>>

ReloadPolls ==
  /\ Running /\ reload.at = "wait" /\ localFile # reload.fp
  /\ reload' = [reload EXCEPT !.at = "changed", !.seen = localFile]
  /\ UNCHANGED <<process, offer, heard, got, files, memory, engine, read,
                 raced, restarts>>

ReloadParses ==
  /\ Running /\ reload.at = "changed"
  /\ reload' = [reload EXCEPT !.at = "parsed", !.files = OnDisk]
  /\ UNCHANGED <<process, offer, heard, got, files, memory, engine, read,
                 raced, restarts>>

\* Mutation: the fingerprint kept is taken after the reload.
ReloadStoresLate ==
  /\ Running /\ reload.at = "parsed"
  /\ IF Loads(reload.files)
     THEN /\ engine' = reload.files
          /\ raced' = (reload.files.server # serverFile)
          /\ reload' = Thread("wait", localFile)
     ELSE reload' = Thread("wait", reload.fp) /\ UNCHANGED <<engine, raced>>
  /\ UNCHANGED <<process, offer, heard, got, files, memory, read, restarts>>

\* A failure keeps the old fingerprint: the next poll tries again.
ReloadStores ==
  /\ Running /\ reload.at = "parsed"
  /\ IF Loads(reload.files)
     THEN /\ engine' = reload.files
          /\ raced' = (reload.files.server # serverFile)
          /\ reload' = Thread("wait", reload.seen)
     ELSE reload' = Thread("wait", reload.fp) /\ UNCHANGED <<engine, raced>>
  /\ UNCHANGED <<process, offer, heard, got, files, memory, read, restarts>>

Reload == ReloadStarts \/ ReloadPolls \/ ReloadParses \/ ReloadStores

----------------------------------------------------------------------------
\* What the end of the process leaves: the files.
ProfileDies ==
  /\ heard' = 0 /\ got' = NoPull
  /\ version' = 0 /\ errors' = {} /\ applied' = Cut
  /\ engine' = Off /\ read' = Off /\ reload' = Thread("start", 0)
  /\ raced' = FALSE
  /\ UNCHANGED <<offer, files, config, restarts>>

\* Mutation: a profile.json cut short counts as the newest profile.
BootTrusting ==
  /\ config' = Effective
  /\ version' = profileJson
  /\ engine' = IF Loads(OnDisk) THEN OnDisk ELSE Off
  /\ UNCHANGED <<offer, heard, got, files, errors, applied, read, reload,
                 raced, restarts>>

\* AppConfig::load, DetectionEngine::load and load_persisted of a new process.
Boot ==
  /\ config' = Effective
  /\ version' = IF profileJson = Cut THEN 0 ELSE profileJson
  /\ engine' = IF Loads(OnDisk) THEN OnDisk ELSE Off
  /\ UNCHANGED <<offer, heard, got, files, errors, applied, read, reload,
                 raced, restarts>>
=============================================================================
