-------------------------------- MODULE Apply --------------------------------
(***************************************************************************)
(* The closed loop on one device: `holdfastctl plan` registers a plan at   *)
(* the control plane, an operator approves it, `holdfastctl apply` checks  *)
(* it against the local state and edits opencode.json, and `holdfastctl    *)
(* rollback` undoes that.  The plan store is the one of module Plans.      *)
(*                                                                         *)
(* Every agent is one invocation of a command.  Nothing keeps invocations, *)
(* the user's editor and the tools that own opencode.json from running at  *)
(* the same time, so an agent's steps end where it goes to the file system *)
(* or to the control plane again.                                          *)
(*                                                                         *)
(*   plan:      idle -> shown -> ended                                     *)
(*   apply:     idle -> collected -> verified -> applying                  *)
(*              applying -> read -> saved -> applying   (once per change)  *)
(*              applying -> applied;   any of these -> failed -> restored  *)
(*   rollback:  idle -> rolling -> rolledback                              *)
(***************************************************************************)
EXTENDS Plans, Sequences, FiniteSets

CONSTANTS
  Agents,       \* command invocations
  Device,       \* the device the agents run on
  Ids,          \* providers and MCP servers a manifest can ask for
  Desired,      \* Desired[m]: the ids the manifest with digest m asks for
  Catalogs,     \* versions of the catalog; a version is the data of its ids
  Watched,      \* other content the fingerprint covers: plugins, env refs
  Rest,         \* content the fingerprint does not cover
  Blank,        \* the empty Watched or Rest
  Unset,        \* an id the config has no entry for
  Absent,       \* opencode.json does not exist
  Broken,       \* opencode.json is not JSON
  NoBackup,     \* the "" of a backup entry: there was no file to back up
  Posts,        \* approvals that clients other than `approve` may post
  InitialFiles, \* what opencode.json may be at first
  MaxEdits,     \* bound: edits made by anybody but the agents
  OneAtATime    \* restricts runs to one command after another

Configs == [entries : [Ids -> Catalogs \cup {Unset}], watched : Watched, rest : Rest]
Files   == Configs \cup {Absent, Broken}

\* collect_device_state.  device_state_fingerprint hashes all of it, so a
\* fingerprint stands for the state itself.  The catalog is not part of it.
States == [manifest : Commits, entries : [Ids -> Catalogs \cup {Unset}], watched : Watched]

ASSUME FingerprintsAreHashes == States \subseteq Hashes /\ Device \in Devices
ASSUME BlankIsContent == Blank \in Watched \cap Rest
ASSUME DesiredIsFunction == Desired \in [Commits -> SUBSET Ids]
ASSUME PostsAreBodies == Posts \subseteq Bodies
ASSUME IdsAreFinite == IsFiniteSet(Ids)
ASSUME InitialFilesAreFiles == InitialFiles \subseteq Files
ASSUME SentinelsAreFresh ==
  /\ {Absent, Broken} \cap Configs = {} /\ Absent # Broken
  /\ None \notin Files \cup Catalogs \cup Ids \cup PlanIds
  /\ NoBackup \notin Nat
  /\ Unset \notin Catalogs

VARIABLES
  file,             \* opencode.json
  manifest,         \* the device manifest
  catalog,          \* the credential catalog
  edits,            \* edits made so far
  initial,          \* history: opencode.json at first
  backups,          \* the backup directory: files named by the second
  backup_manifests, \* <plan id>.manifest.json: backup names, or None
  pc,               \* what each agent is about to do, or how it ended
  plan,             \* the plan id it was given
  state,            \* what collect_device_state returned
  at,               \* time.time() when it verified the plan
  todo,             \* add actions of reconcile_device still to be applied
  data,             \* the catalog those actions took their target_data from
  buf,              \* the config adapter.apply is about to write
  adding,           \* the id that write adds
  ref,              \* the backup create_backup made for that write
  saved,            \* apply: its entries; failed, rolling: those to restore
  before,           \* history: opencode.json when the plan's last apply set to work
  reviewed,         \* history: the actions and catalog `plan` printed
  original,         \* history: that file, of the apply that wrote the manifest
  reused            \* history: seconds that name more than one backup

worldVars  == <<manifest, catalog, edits, initial>>
storeVars  == <<backups, backup_manifests>>
jobVars    == <<plan, state, at, todo, data, buf, adding, ref>>
ghostVars  == <<before, reviewed, original, reused>>
vars == <<planVars, file, worldVars, storeVars, pc, jobVars, saved, ghostVars>>

-----------------------------------------------------------------------------
(* Reading the configuration. *)

\* shutil.copy2 is under way: it empties the target before it fills it.
Copying(a) ==
  /\ pc[a] \in {"failed", "rolling"}
  /\ saved[a] # <<>>
  /\ Head(saved[a]) # NoBackup

BackingUp(a) == pc[a] = "read" /\ file # Absent

\* opencode.json as a command finds it: cut, if another one restores it.
Seen(a) == {file} \cup {f \in {Broken} : \E b \in Agents \ {a} : Copying(b)}

\* A backup as a command finds it: cut, if another one makes one of that name.
Backed(a, s) ==
  {backups[s]} \cup {f \in {Broken} : s = now /\ \E b \in Agents \ {a} : BackingUp(b)}

EmptyConfig == [entries |-> [i \in Ids |-> Unset], watched |-> Blank, rest |-> Blank]

\* load_current_opencode_state: a file that is missing or cannot be parsed
\* reads as an empty one.
Current(f) == IF f \in Configs THEN f ELSE EmptyConfig

Collect(f, m) ==
  [manifest |-> m, entries |-> Current(f).entries, watched |-> Current(f).watched]

\* generate_opencode_plan's add actions.
Missing(f, m) == {i \in Desired[m] : Current(f).entries[i] = Unset}

\* Mutant: the file is rebuilt from what the summary keeps.
MergeManaged(config, i, version) ==
  [config EXCEPT !.entries[i] = version, !.rest = Blank]

\* OpencodeAdapter.apply's merge: one entry is set, all else is kept.
Merge(config, i, version) == [config EXCEPT !.entries[i] = version]

-----------------------------------------------------------------------------
Ended   == {"ended", "applied", "restored", "rolledback"}
Applying == {"verified", "applying", "read", "saved"}
PcValues == {"idle", "shown", "collected", "failed", "rolling"} \cup Applying \cup Ended

Refs == Nat \cup {NoBackup}

TypeOK ==
  /\ PlansTypeOK
  /\ file \in Files
  /\ manifest \in Commits /\ catalog \in Catalogs /\ edits \in Nat /\ initial \in Files
  /\ backups \in [0..MaxTime -> Files \cup {None}]
  /\ backup_manifests \in [PlanIds -> Seq(Refs) \cup {None}]
  /\ pc \in [Agents -> PcValues]
  /\ plan \in [Agents -> PlanIds \cup {None}]
  /\ state \in [Agents -> States \cup {None}]
  /\ at \in [Agents -> Nat]
  /\ todo \in [Agents -> SUBSET Ids]
  /\ data \in [Agents -> Catalogs \cup {None}]
  /\ buf \in [Agents -> Configs \cup {None}]
  /\ adding \in [Agents -> Ids \cup {None}]
  /\ ref \in [Agents -> Refs]
  /\ saved \in [Agents -> Seq(Refs)]
  /\ before \in [PlanIds -> Files \cup {None}]
  /\ reviewed \in [PlanIds -> [todo : SUBSET Ids, data : Catalogs] \cup {None}]
  /\ original \in [PlanIds -> Files \cup {None}]
  /\ reused \subseteq 0..MaxTime

Init ==
  /\ PlansInit
  /\ file \in InitialFiles /\ initial = file
  /\ manifest \in Commits /\ catalog \in Catalogs /\ edits = 0
  /\ backups = [s \in 0..MaxTime |-> None]
  /\ backup_manifests = [p \in PlanIds |-> None]
  /\ pc = [a \in Agents |-> "idle"]
  /\ plan = [a \in Agents |-> None]
  /\ state = [a \in Agents |-> None]
  /\ at = [a \in Agents |-> 0]
  /\ todo = [a \in Agents |-> {}]
  /\ data = [a \in Agents |-> None]
  /\ buf = [a \in Agents |-> None]
  /\ adding = [a \in Agents |-> None]
  /\ ref = [a \in Agents |-> NoBackup]
  /\ saved = [a \in Agents |-> <<>>]
  /\ before = [p \in PlanIds |-> None]
  /\ reviewed = [p \in PlanIds |-> None]
  /\ original = [p \in PlanIds |-> None]
  /\ reused = {}

Goes(a, to) == pc' = [pc EXCEPT ![a] = to]

CanStart(a) ==
  /\ pc[a] = "idle"
  /\ OneAtATime => \A b \in Agents \ {a} : pc[b] \in Ended \cup {"idle"}
-----------------------------------------------------------------------------
(* holdfastctl plan *)

\* Bound: no more plan commands are started than PlanIds has ids left for.
FreeIds ==
  Cardinality({p \in PlanIds : plans[p] = None}) > Cardinality({b \in Agents : pc[b] = "shown"})

\* reconcile_device, whose actions are printed for the operator.
PlanShow(a) ==
  /\ CanStart(a)
  /\ FreeIds
  /\ \E f \in Seen(a) : todo' = [todo EXCEPT ![a] = Missing(f, manifest)]
  /\ data' = [data EXCEPT ![a] = catalog]
  /\ Goes(a, "shown")
  /\ UNCHANGED <<planVars, file, worldVars, storeVars, plan, state, at, buf, adding, ref,
                 saved, ghostVars>>

\* Only then is the state collected again, fingerprinted and submitted, always
\* with the same life span (24 hours).
PlanSubmit(a, p) ==
  /\ pc[a] = "shown"
  /\ \E f \in Seen(a) : CreatePlan(p, Device, Collect(f, manifest), manifest, MaxTtl)
  /\ reviewed' = [reviewed EXCEPT ![p] = [todo |-> todo[a], data |-> data[a]]]
  /\ Goes(a, "ended")
  /\ UNCHANGED <<file, worldVars, storeVars, jobVars, saved, before, original, reused>>

-----------------------------------------------------------------------------
(* holdfastctl approve, on the operator's machine: the plan is fetched and  *)
(* its own fingerprint and manifest are sent back.                          *)
Approve(q, p) ==
  /\ plans[p] # None
  /\ ReceiveApproval(q, [plan |-> p, device |-> Device,
                         hash |-> plans[p].hash, commit |-> plans[p].commit])
  /\ UNCHANGED <<file, worldVars, storeVars, pc, jobVars, saved, ghostVars>>

\* The control plane: it takes an approval from anybody with the admin token.
ServerStep ==
  /\ \/ \E q \in Approvals, b \in Posts : ReceiveApproval(q, b)
     \/ \E q \in Approvals : ApprovalStep(q)
     \/ PlansTick
  /\ UNCHANGED <<file, worldVars, storeVars, pc, jobVars, saved, ghostVars>>

-----------------------------------------------------------------------------
(* holdfastctl apply: deciding *)

StartApply(a, p) ==
  /\ CanStart(a)
  /\ plan' = [plan EXCEPT ![a] = p]
  /\ \E f \in Seen(a) : state' = [state EXCEPT ![a] = Collect(f, manifest)]
  /\ Goes(a, "collected")
  /\ UNCHANGED <<planVars, file, worldVars, storeVars, at, todo, data, buf, adding, ref,
                 saved, ghostVars>>

\* Mutant: the fingerprint is not compared, only the manifest.
ApplicableToManifest(row, st) ==
  /\ row # None
  /\ row.device = Device
  /\ row.approved
  /\ row.expires > now
  /\ row.commit = st.manifest

\* get_plan, which looks for this device's plan, and _verify_plan_applicable.
Applicable(row, st) ==
  /\ row # None
  /\ row.device = Device
  /\ row.approved
  /\ row.expires > now
  /\ row.hash = st
  /\ row.commit = st.manifest

Verify(a) ==
  /\ pc[a] = "collected"
  /\ Applicable(plans[plan[a]], state[a])
  /\ at' = [at EXCEPT ![a] = now]
  /\ Goes(a, "verified")
  /\ UNCHANGED <<planVars, file, worldVars, storeVars, plan, state, todo, data, buf, adding,
                 ref, saved, ghostVars>>

Refuse(a) ==
  /\ pc[a] = "collected"
  /\ ~Applicable(plans[plan[a]], state[a])
  /\ Goes(a, "ended")
  /\ UNCHANGED <<planVars, file, worldVars, storeVars, jobVars, saved, ghostVars>>

\* reconcile_device reads the manifest, the catalog and opencode.json anew.
Reconcile(a) ==
  /\ pc[a] = "verified"
  /\ \E f \in Seen(a) : todo' = [todo EXCEPT ![a] = Missing(f, manifest)]
  /\ data' = [data EXCEPT ![a] = catalog]
  /\ before' = [before EXCEPT ![plan[a]] = file]
  /\ Goes(a, "applying")
  /\ UNCHANGED <<planVars, file, worldVars, storeVars, plan, state, at, buf, adding, ref,
                 saved, reviewed, original, reused>>

\* --dry-run prints and stops.
DryRun(a) ==
  /\ pc[a] = "verified"
  /\ Goes(a, "ended")
  /\ UNCHANGED <<planVars, file, worldVars, storeVars, jobVars, saved, ghostVars>>
-----------------------------------------------------------------------------
(* holdfastctl apply: OpencodeAdapter.apply, once per add action *)

\* Mutant: the file is read once, ahead of the loop.
ReadFirst(a) ==
  /\ pc[a] = "applying"
  /\ file # Broken
  /\ \E i \in todo[a] :
       /\ buf' = [buf EXCEPT ![a] = Merge(Current(before[plan[a]]), i, data[a])]
       /\ adding' = [adding EXCEPT ![a] = i]
  /\ Goes(a, "read")
  /\ UNCHANGED <<planVars, file, worldVars, storeVars, plan, state, at, todo, data, ref,
                 saved, ghostVars>>

\* Read and merge.  The actions come in the manifest's order: any order here.
Read(a) ==
  /\ pc[a] = "applying"
  /\ file # Broken
  /\ \E i \in todo[a] :
       /\ buf' = [buf EXCEPT ![a] = Merge(Current(file), i, data[a])]
       /\ adding' = [adding EXCEPT ![a] = i]
  /\ Goes(a, "read")
  /\ UNCHANGED <<planVars, file, worldVars, storeVars, plan, state, at, todo, data, ref,
                 saved, ghostVars>>

\* The manifest, the catalog or opencode.json cannot be read or parsed, or the
\* line about the last change cannot be printed.
ReadFails(a) ==
  /\ pc[a] = "applying"
  /\ Goes(a, "failed")
  /\ UNCHANGED <<planVars, file, worldVars, storeVars, jobVars, saved, ghostVars>>

\* A copy is begun under the name of the current second, perhaps not its first.
Names(copied) ==
  reused' = IF copied /\ backups[now] # None THEN reused \cup {now} ELSE reused

\* Mutant: create_backup names a copy when there was nothing to copy.
BackupNamed(a) ==
  /\ pc[a] = "read"
  /\ ref' = [ref EXCEPT ![a] = now]
  /\ \E f \in Seen(a) :
       /\ backups' = IF f = Absent THEN backups ELSE [backups EXCEPT ![now] = f]
       /\ Names(f # Absent)
  /\ Goes(a, "saved")
  /\ UNCHANGED <<planVars, file, worldVars, backup_manifests, plan, state, at, todo, data,
                 buf, adding, saved, before, reviewed, original>>

\* create_backup names the copy after the file and the current second.
Backup(a) ==
  /\ pc[a] = "read"
  /\ \E f \in Seen(a) :
       /\ ref' = [ref EXCEPT ![a] = IF f = Absent THEN NoBackup ELSE now]
       /\ backups' = IF f = Absent THEN backups ELSE [backups EXCEPT ![now] = f]
       /\ Names(f # Absent)
  /\ Goes(a, "saved")
  /\ UNCHANGED <<planVars, file, worldVars, backup_manifests, plan, state, at, todo, data,
                 buf, adding, saved, before, reviewed, original>>

\* atomic_write replaces the whole file by what was read and merged.
Write(a) ==
  /\ pc[a] = "saved"
  /\ file' = buf[a]
  /\ saved' = [saved EXCEPT ![a] = Append(@, ref[a])]
  /\ todo' = [todo EXCEPT ![a] = @ \ {adding[a]}]
  /\ Goes(a, "applying")
  /\ UNCHANGED <<planVars, worldVars, storeVars, plan, state, at, data, buf, adding, ref,
                 ghostVars>>

\* The backup directory when create_backup's copy may have been cut short.
CutShort(a) ==
  IF BackingUp(a) THEN {backups, [backups EXCEPT ![now] = Broken]}
  ELSE {backups}

\* Mutant: the change is tried again.
AddFailsRetried(a) ==
  /\ pc[a] \in {"read", "saved"}
  /\ backups' \in CutShort(a)
  /\ Names(backups' # backups)
  /\ Goes(a, "applying")
  /\ UNCHANGED <<planVars, file, worldVars, backup_manifests, jobVars, saved, before, reviewed,
                 original>>

\* The backup or the write raises: this action leaves no entry.
AddFails(a) ==
  /\ pc[a] \in {"read", "saved"}
  /\ backups' \in CutShort(a)
  /\ Names(backups' # backups)
  /\ Goes(a, "failed")
  /\ UNCHANGED <<planVars, file, worldVars, backup_manifests, jobVars, saved, before, reviewed,
                 original>>

\* write_manifest.
Finish(a) ==
  /\ pc[a] = "applying"
  /\ todo[a] = {}
  /\ backup_manifests' = [backup_manifests EXCEPT ![plan[a]] = saved[a]]
  /\ original' = [original EXCEPT ![plan[a]] = before[plan[a]]]
  /\ Goes(a, "applied")
  /\ UNCHANGED <<planVars, file, worldVars, backups, jobVars, saved, before, reviewed, reused>>

\* open(..., "w") has emptied the manifest when the dump fails.
FinishFails(a) ==
  /\ pc[a] = "applying"
  /\ todo[a] = {}
  /\ backup_manifests' = [backup_manifests EXCEPT ![plan[a]] = <<>>]
  /\ Goes(a, "ended")
  /\ UNCHANGED <<planVars, file, worldVars, backups, jobVars, saved, ghostVars>>

-----------------------------------------------------------------------------
(* Restoring: after a failure, and by holdfastctl rollback.  Both take the   *)
(* entries in the order in which they were made.                            *)

\* Mutant: an entry is passed over as restored.
RestoreNothing(a) ==
  /\ pc[a] = "failed"
  /\ saved[a] # <<>>
  /\ saved' = [saved EXCEPT ![a] = Tail(@)]
  /\ UNCHANGED <<planVars, file, worldVars, storeVars, pc, jobVars, ghostVars>>

\* The handler in `apply`: entries without a backup are passed over.
RestoreEntry(a) ==
  /\ pc[a] = "failed"
  /\ saved[a] # <<>>
  /\ file' \in IF Head(saved[a]) = NoBackup THEN {file} ELSE Backed(a, Head(saved[a]))
  /\ saved' = [saved EXCEPT ![a] = Tail(@)]
  /\ UNCHANGED <<planVars, worldVars, storeVars, pc, jobVars, ghostVars>>

Restored(a) ==
  /\ pc[a] = "failed"
  /\ saved[a] = <<>>
  /\ Goes(a, "restored")
  /\ UNCHANGED <<planVars, file, worldVars, storeVars, jobVars, saved, ghostVars>>

StartRollback(a, p) ==
  /\ CanStart(a)
  /\ backup_manifests[p] \notin {None, <<>>}
  /\ plan' = [plan EXCEPT ![a] = p]
  /\ saved' = [saved EXCEPT ![a] = backup_manifests[p]]
  /\ Goes(a, "rolling")
  /\ UNCHANGED <<planVars, file, worldVars, storeVars, state, at, todo, data, buf, adding,
                 ref, ghostVars>>

\* "Error: no backup manifest".
NoRollback(a, p) ==
  /\ CanStart(a)
  /\ backup_manifests[p] \in {None, <<>>}
  /\ Goes(a, "ended")
  /\ UNCHANGED <<planVars, file, worldVars, storeVars, jobVars, saved, ghostVars>>

\* Mutant: an entry without a backup is passed over here as well.
RollEntryIfBackup(a) ==
  /\ pc[a] = "rolling"
  /\ saved[a] # <<>>
  /\ file' \in IF Head(saved[a]) = NoBackup THEN {file} ELSE Backed(a, Head(saved[a]))
  /\ saved' = [saved EXCEPT ![a] = Tail(@)]
  /\ UNCHANGED <<planVars, worldVars, storeVars, pc, jobVars, ghostVars>>

\* An entry without a backup: the file did not exist, it is removed.
RollEntry(a) ==
  /\ pc[a] = "rolling"
  /\ saved[a] # <<>>
  /\ file' \in IF Head(saved[a]) = NoBackup THEN {Absent} ELSE Backed(a, Head(saved[a]))
  /\ saved' = [saved EXCEPT ![a] = Tail(@)]
  /\ UNCHANGED <<planVars, worldVars, storeVars, pc, jobVars, ghostVars>>

RolledBack(a) ==
  /\ pc[a] = "rolling"
  /\ saved[a] = <<>>
  /\ Goes(a, "rolledback")
  /\ UNCHANGED <<planVars, file, worldVars, storeVars, jobVars, saved, ghostVars>>

-----------------------------------------------------------------------------
(* What happens to the agents, and around them. *)

\* The command is killed, or leaves by an exception nothing handles: the
\* control plane cannot be reached, a restore raises BackupError.
Interrupted(a) ==
  /\ pc[a] \notin Ended \cup {"idle"}
  /\ Goes(a, "ended")
  /\ file' \in IF Copying(a) THEN {file, Broken} ELSE {file}
  /\ backups' \in CutShort(a)
  /\ Names(backups' # backups)
  /\ UNCHANGED <<planVars, worldVars, backup_manifests, jobVars, saved, before, reviewed,
                 original>>

\* Somebody edits opencode.json, the manifest or the catalog.
Edit ==
  /\ edits < MaxEdits
  /\ edits' = edits + 1
  /\ \/ file' \in Files /\ UNCHANGED <<manifest, catalog>>
     \/ manifest' \in Commits /\ UNCHANGED <<file, catalog>>
     \/ catalog' \in Catalogs /\ UNCHANGED <<file, manifest>>
  /\ UNCHANGED <<planVars, initial, storeVars, pc, jobVars, saved, ghostVars>>

\* One step of a command that has started.
AgentStep(a) ==
  \/ \E p \in PlanIds : PlanSubmit(a, p)
  \/ Verify(a) \/ Refuse(a) \/ Reconcile(a) \/ DryRun(a)
  \/ Read(a) \/ ReadFails(a) \/ Backup(a) \/ Write(a) \/ AddFails(a)
  \/ Finish(a) \/ FinishFails(a)
  \/ RestoreEntry(a) \/ Restored(a) \/ RollEntry(a) \/ RolledBack(a)

StartStep(a) ==
  \/ PlanShow(a)
  \/ \E p \in PlanIds : StartApply(a, p) \/ StartRollback(a, p) \/ NoRollback(a, p)

Next ==
  \/ \E a \in Agents : StartStep(a) \/ AgentStep(a) \/ Interrupted(a)
  \/ \E q \in Approvals, p \in PlanIds : Approve(q, p)
  \/ ServerStep
  \/ Edit

Spec == Init /\ [][Next]_vars
-----------------------------------------------------------------------------
(* What the loop promises. *)

\* While an apply may write, an operator's approval is on record for the very
\* state the agent collected, its manifest and its device, and the plan had
\* not expired when it was checked (_verify_plan_applicable, approve_plan).
ApplyIsApproved ==
  \A a \in Agents : pc[a] \in Applying =>
    /\ plans[plan[a]] # None
    /\ at[a] < plans[plan[a]].expires
    /\ \E q \in plan_approvals :
         body[q] = [plan |-> plan[a], device |-> Device,
                    hash |-> state[a], commit |-> state[a].manifest]

\* No entry of a backup manifest, of an apply under way or of a restore names
\* a backup that is not there (create_backup, write_manifest, rollback).
BackupsExist ==
  LET There(refs) == \A k \in 1..Len(refs) : refs[k] = NoBackup \/ backups[refs[k]] # None
  IN  /\ \A a \in Agents : There(saved[a])
      /\ \A p \in PlanIds : backup_manifests[p] # None => There(backup_manifests[p])

\* While nobody else edits, opencode.json, if it is there and is JSON, has the
\* content no manifest describes that it had at first, however commands overlap,
\* fail and undo each other: "every key the manifest does not describe is
\* preserved" (2026-08-08-phase2-loop-closure-design.md:84).  A restore that is
\* killed while it copies leaves no JSON, and none of that content.
UserContentSurvives ==
  edits = 0 /\ file \in Configs =>
    /\ file.watched = Current(initial).watched
    /\ file.rest = Current(initial).rest

\* "Any failure during application restores from backup and exits non-zero"
\* (2026-08-08-phase2-loop-closure-design.md:113): the failure handler ends
\* with the file as it was when the apply began.
FailedApplyRestores ==
  [][\A a \in Agents : pc[a] = "failed" /\ pc'[a] = "restored" =>
       file = before[plan[a]]]_vars

\* "Rollback restores bytes and permissions"
\* (2026-08-08-phase2-loop-closure-design.md:143): a rollback ends with the
\* file as it was when the apply began that wrote the plan's manifest.
RollbackRestores ==
  [][\A a \in Agents : pc[a] = "rolling" /\ pc'[a] = "rolledback" =>
       file = original[plan[a]]]_vars

\* "TOCTOU Apply Race: Handled by re-inspection and hash binding before apply"
\* (threat-model.md:27): the actions an apply carries out are computed from
\* the state the operator approved.
AppliedFromApprovedState ==
  [][\A a \in Agents : pc[a] = "verified" /\ pc'[a] = "applying" =>
       Collect(file, manifest) = plans[plan[a]].hash]_vars

\* "applies only an exact approved plan" (architecture.md:3): what a write
\* adds is what `plan` showed when it registered the plan.
AppliesWhatWasShown ==
  [][\A a \in Agents : pc[a] = "applying" /\ pc'[a] = "read" =>
       LET shown == reviewed[plan[a]]
       IN  adding'[a] \in shown.todo /\ data[a] = shown.data]_vars

\* How many steps a command can still take, with n changes to be made and s
\* entries to be restored: three for a change and one to undo it.
Left(stage, n, s) ==
  CASE stage = "shown"               -> 1
    [] stage \in {"failed", "rolling"} -> s + 1
    [] stage = "saved"               -> 4 * n + s
    [] stage = "read"                -> 4 * n + s + 1
    [] stage = "applying"            -> 4 * n + s + 2
    [] stage = "verified"            -> 4 * Cardinality(Ids) + s + 3
    [] stage = "collected"           -> 4 * Cardinality(Ids) + s + 4
    [] OTHER                         -> 0

StepsLeft(a) == Left(pc[a], Cardinality(todo[a]), Len(saved[a]))

\* Each step of a command leaves it fewer, and nothing that others do gives it
\* more: an apply goes through the changes it found once, and a failure handler
\* or a rollback through its entries (apply, rollback).
CommandsRunOut ==
  [][\A a \in Agents : pc[a] \notin Ended \cup {"idle"} =>
       /\ StepsLeft(a)' <= StepsLeft(a)
       /\ AgentStep(a) => StepsLeft(a)' < StepsLeft(a)]_vars

-----------------------------------------------------------------------------
\* An agent past its checks holds the plan it checked, still approved: plans
\* do not change under it.
VerifiedPlanStands ==
  \A a \in Agents : pc[a] \in Applying =>
    /\ plans[plan[a]] # None
    /\ plans[plan[a]].device = Device
    /\ plans[plan[a]].approved
    /\ plans[plan[a]].hash = state[a]
    /\ plans[plan[a]].commit = state[a].manifest
    /\ at[a] < plans[plan[a]].expires

\* What a command needs for its next step it has.
JobsAreFilledIn ==
  \A a \in Agents :
    /\ pc[a] \in Applying \cup {"collected"} => plan[a] \in PlanIds /\ state[a] \in States
    /\ pc[a] \in {"shown", "applying", "read", "saved"} => data[a] \in Catalogs
    /\ pc[a] \in {"read", "saved"} => buf[a] \in Configs /\ adding[a] \in Ids

\* Backup names are seconds that have passed, and those handed out hold a file.
Kept(refs, dir) ==
  \A k \in 1..Len(refs) :
    refs[k] # NoBackup => refs[k] \in 0..MaxTime /\ dir[refs[k]] \in Files

RefsAreBackups ==
  /\ \A a \in Agents : Kept(saved[a], backups)
  /\ \A a \in Agents : pc[a] = "saved" => Kept(<<ref[a]>>, backups)
  /\ \A p \in PlanIds : backup_manifests[p] # None => Kept(backup_manifests[p], backups)
  /\ now \in 0..MaxTime

\* The inductive invariant of the loop.
IInv ==
  /\ TypeOK
  /\ PlansInv
  /\ VerifiedPlanStands
  /\ JobsAreFilledIn
  /\ RefsAreBackups

\* f holds this user's content; where there is no file there is none.
Holds(f, w, r) ==
  /\ f \in Configs => f.watched = w /\ f.rest = r
  /\ f = Absent => w = Blank /\ r = Blank

\* The file was once missing, so that the user had no content.
Recalls(refs, w, r) ==
  (\E k \in 1..Len(refs) : refs[k] = NoBackup) => w = Blank /\ r = Blank

\* As long as nobody edits the file, it and every copy of it hold one content:
\* backups, and what commands have read and are about to write.
IsContent(w, r) ==
  /\ Holds(file, w, r)
  /\ \A s \in 0..MaxTime : backups[s] # None => Holds(backups[s], w, r)
  /\ \A p \in PlanIds : backup_manifests[p] # None => Recalls(backup_manifests[p], w, r)
  /\ \A a \in Agents :
       /\ pc[a] \in {"read", "saved"} => Holds(buf[a], w, r)
       /\ pc[a] = "saved" => Recalls(<<ref[a]>>, w, r)
       /\ Recalls(saved[a], w, r)

OneContent == edits = 0 => IsContent(Current(initial).watched, Current(initial).rest)
=============================================================================
