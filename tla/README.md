# Holdfast Control: TLA+ models and proofs

Holdfast keeps AI-tool configuration on a fleet of devices in line with
manifests. A *control plane* (FastAPI over SQLite, `server/`) enrolls devices,
stores their reports, keeps change plans and records who approved them. An
*agent* (`src/holdfastctl/`, the `holdfastctl` command) runs on each device: it
enrolls, reports, computes a plan, and applies an approved plan to
`opencode.json`, with a backup and a rollback.

These modules model the parts where a mistake costs a lock-out, a leaked or
unrecorded key, an unapproved change or a lost file, and where unit tests do
not reach because several requests, commands or failures have to meet. Every
definition is translated from the source; `PROJECT.json` ("map") names the lines.

## The system

| Part | State | Operations | Why it is hard |
|---|---|---|---|
| Enrollment (`server/enrollment`, `server/gateway`) | `enrollment_codes`, `tokens`, `gateway_keys`; keys at the LiteLLM gateway | create a code, exchange a code for a token and a key | threads race for a code; a remote call inside a transaction; the process can die between the two |
| Plan store (`server/api`: create, get, approve) | `plans`, `plan_approvals` | register, approve, read | checks in autocommit, then a wait for the write lock |
| Apply loop (`cli.py` plan, approve, apply, rollback; `capabilities.py`, `backup.py`) | `opencode.json`, the manifest, the catalog, the backup directory, `<plan>.manifest.json` | plan, approve, apply, rollback, restore after failure | check then use of files that anyone may edit; commands overlap; commands die half-way |
| Device health (`server/api` report, `server/adapters`, `server/prober.py`) | `device_reports`, `adapter_health` | store a report and recompute, refresh the integrations | commits out of order with their times; a write transaction open across slow probes |
| Agent reporting (`reporting.py`, `cli.py` report) | the token file, the one-time key in memory | enroll if there is no token, store it, report, show the key | the key exists nowhere else; the timer and a person run the command at once |
| File replacement (`apply.py`: `atomic_write`) | the target, a temporary file, what is on the disk | stat, mkstemp, write, fsync, chmod, replace | kills and power failures between any two calls; several writers |
| Validation (`validate.py`, `manifest_schema.py`) | none | accept or refuse a manifest, a catalog | files nobody collects; what passes can still make reconcile raise |
| Adapters and probes (`capabilities.py`, `reconcile.py`) | none of their own; `opencode.json` | `reconcile_device`, the adapters' `reconcile`, probes, `OpencodeAdapter.apply` | names in two spellings, probes that fail, one adapter that raises for all |
| Inspection, other commands, dashboard, scripts | none of their own | read and print | input and output |

How they interact: an operator mints a code (`holdfastctl enroll-code`), the
agent's first report exchanges it; the token authorizes the device's reports
and its plans. `holdfastctl plan` registers a fingerprint of the device's state
and the manifest's digest; `holdfastctl approve` repeats both to the control
plane; `holdfastctl apply` fetches the plan and compares it with the local state.
All server state is one SQLite database. A connection reads in autocommit; its
first INSERT or UPDATE takes the only write lock, which it keeps until the
`with` block commits or rolls back; others wait for it for five seconds and then
fail. FastAPI runs these handlers in a thread pool, so they interleave. On the
device a systemd timer runs the agent every 15 minutes and people run it by
hand; nothing locks `opencode.json`.

## Modules

| Module | Models | Extends |
|---|---|---|
| `OneTimeCodes` | what enrollment promises: a code is granted at most once, to its device | |
| `Enrollment` | `create_enrollment_code`, `exchange_enrollment_code`, the mint call, restarts | |
| `Plans` | `create_plan`, `approve_plan` | |
| `Apply` | the four commands of the loop, the files they touch, edits, interruptions | `Plans` |
| `Sequential` | `Apply` where commands come one after another and nobody edits: what is true there, and why | `Apply` |
| `Health` | the report endpoint, `update_capability_health`, `refresh_integrations` | |
| `AgentReport` | the report command and its checks, `enroll-code`; the control plane is `OneTimeCodes` | `OneTimeCodes` (instance) |
| `WholeFile` | what `atomic_write` promises: whole files that keep their mode | |
| `FileReplace` | `atomic_write` system call by system call | `WholeFile` (instance) |
| `Documents` | manifests and catalogs, and what `validate` says of them | |
| `Reconciliation` | `reconcile_device`: the three adapters and their probes, as operators | `Documents` |
| `Converge` | commands that reconcile a device and write what is missing | `Reconciliation`, `FileReplace` |
| `EnrollmentProofs`, `PlansProofs`, `ApplyProofs`, `SequentialProofs`, `AgentReportProofs`, `HealthProofs`, `FileReplaceProofs`, `ConvergeProofs` | the theorems | their module, TLAPS |
| `MCEnrollment`, `MCApply`, `MCHealth`, `MCAgentReport`, `MCConverge` | instances for TLC | their module (`MCApply`: `Sequential`) |

**Steps.** An action is what the code does between two points at which somebody
else can see or change what it depends on: a statement that waits for the write
lock, a call to another machine, a read or a replacement of a file. Rows a
transaction has written are seen by nobody until it commits, so a table changes
in one step, at the commit, together with every other table of that transaction;
a rollback changes nothing but the lock. `pc` (in `Plans`, `step`; in `Health`,
`pc` and `rpc`) says where a handler or command is.

**Enrollment.** `Select` is the SELECT with its checks, `Claim` the guarded UPDATE
that takes the lock (`LockTimeout` is giving up), `SendMint`, `GatewayActs`,
`MintReply` and `MintFails` the `/key/generate` call, `Commit` the INSERTs and the
commit, `Deliver` the answer. The gateway may act on a call after the control
plane gave up or died. `Restart` loses every handler, and SQLite rolls back.

**Plans.** `CheckApproval` is the SELECT and the three refusals; `CommitApproval`
the UPDATE and the INSERT. `get_plan` changes nothing and is part of a guard of
`Apply`.

**Apply.** One agent is one command. `opencode.json` is a record of one value per
managed entry (unset, or the catalog version it was written from), the content
the fingerprint covers beside them (`watched`: plugins, environment references)
and the content it does not (`rest`); it can also be absent or broken. The
fingerprint is a hash of the collected state, so it *is* that state (no
collisions); it contains the manifest digest and nothing of the catalog.
`generate_opencode_plan` is `Missing`: what a manifest asks for and the file has
no entry for; how entries are matched and what else is reported is in
`Reconciliation`. `apply` is `StartApply` (collect),
`Verify`, `Reconcile` (which reads everything again), then for each missing entry
`Read`, `Backup` and `Write`, and `Finish`. Backups are named by the second.
`RestoreEntry` is the failure handler, `RollEntry` the rollback command.
`copy2` empties its target before it fills it, so a command killed there leaves
a broken file or a broken backup, and others may find the file or the backup cut
while it copies (`Seen`, `Backed`); `atomic_write` replaces the file in one step.
Five history variables say what properties compare with and no action reads:
`initial`, the file at the very first; `before[p]`, the file when an apply of plan `p` last set to work; `original[p]`,
that file for the apply whose manifest is in the backup directory (a later apply
of the plan may have failed and left the manifest of the earlier one);
`reviewed[p]`, what `plan` printed; and `reused`, the seconds under whose name more
than one copy was begun.

**Sequential.** The same commands, under the condition `Alone`: `OneAtATime`, and no
edits. Failures and interruptions stay possible anywhere. `SequentialInv` relates
the running command to the file, to its plan and to what earlier commands left.

**Health.** `Insert` is a report's whole transaction with the aggregation.
A report's `created_at` is read before it waits for the lock. A refresh holds the
lock from its first `Update` to `CommitRefresh`; its probes are separate steps.
A malformed status, one that is a list or an object and so cannot be ranked, stops the
aggregation at that capability, as the exception does, and keeps the report. The
handler swallows every other exception of the aggregation in the same way
(`server/api/__init__.py:102`): a status or detail that can be ranked and not be stored,
an UPDATE that fails. Those are not modelled.

**AgentReport.** One agent is one run of `holdfastctl report`: `Start`, four `Check`s
(each looks at the machine when it runs; the user may change the machine
between them), `LoadToken`, and, without a stored token but with a code,
`Exchange` (the control plane's commit, a `Grant` of `OneTimeCodes`, which
`Enrollment` implements), `Enrolled` (the answer arrives), `Truncate` and `Fill`
(`write_text`), then `Post` and `Exit`. A token is named by the command that
obtained it; `before[a]` is a history variable, the commands that were over when
`a` began. `Dies` is being killed at any point, and also an `OSError` while the
token is stored, which neither `report_status` nor the command catches.
What the machine is like is one finding per check; counts, versions and details
are left out.

**FileReplace.** One action per system call of `atomic_write`, any number of
writers of one path. A temporary file has a content and the part of it that is on
the disk; `past` is what the directory on the disk may say after a power failure,
since the directory itself is never synced. `Raise` is the exception handler,
which unlinks the temporary file; a killed writer leaves it under a name nobody
uses again. `WholeFile` is what a reader is promised, and `ReplacesWholeFiles` the
refinement.

**Documents.** A document is what `yaml.safe_load` makes of it, as a record of what
the code tells apart: its shape, its blocks, what its capabilities declare. Whether
the scans find a secret or a command, whether a string is a path inside the
repository or the name of a variable, and whether the host name the network
capability makes of it can be encoded, is one bit or a set.

**Reconciliation.** No state. A plan is its action, the kind and the name of its
target; a probe returns a set with one answer, or the empty set for `None`. Ids are
names in all their spellings and `Norm` is `normalize_id`.

**Converge.** A device is in one of `Cases`: a manifest, a catalog, a first file and
a network. Commands `Reconcile` (the plans of all adapters) and then `Add` one
missing entry at a time, each through the system calls of `FileReplace`;
`ReconcileFails` is an adapter that raises. `AddFails` is `apply` finding no JSON
where `load_current_opencode_state` had taken the file for an empty one. Commands
are killed, raise, fail to write and are started again (`StartAgain`). Approval and restoring are in
`Apply`, where `atomic_write` is one step; a write that fails after another one
succeeded leads to a restore, so it is there and not here.

Operators whose comment begins with "Mutant" are wrong versions of the definition
below them. No specification uses them; substituting one must make a run fail,
which shows that the property it is listed with can fail.

## Runs

| Run | Question | Bounds |
|---|---|---|
| `enrollment` | Is a code one-time, is it spent exactly if a token was granted, to the right device, in time, with the right audit row? Was a key without an audit row handed to nobody? Is every exchange answered? Does it implement `OneTimeCodes`? | 2 codes, 2 devices, 2 requests, clock 0..1 |
| `enrollment_key_audit` (violated) | Is every key that exists at the gateway on record? | 1 code, 2 requests |
| `apply_gate` | Is there an approval for the collected state behind every write, and a backup behind every restore? Do approvals and approved plans agree, were they in time, does a plan never change? Do overlapping commands keep the user's content? | 3 overlapping commands, 2 plans, 2 approvals, a stray approval posted by another client, 1 manifest, 1 entry, 1 edit, clock 0..1 |
| `apply_sequential` | Does apply converge, does rolling back one change restore the file, does the failure handler after one? Is the user's content there whenever the file is JSON? Has every command a bounded number of steps to go? Does `SequentialInv` hold? | 5 commands in a row, 2 entries, a manifest for both and one for a single entry, 5 initial files |
| `apply_rollback_of_two` (violated) | Does rolling back two changes restore the file? | 3 commands in a row, 2 entries |
| `apply_failure_after_one` (violated) | Does a failed apply restore the file? | 2 commands in a row, 2 entries |
| `apply_edit_after_check` (violated) | Is what is applied computed from the approved state? | 2 commands in a row, 1 edit |
| `apply_catalog_after_approval` (violated) | Is what is applied what was shown? | 2 commands in a row, 1 edit, 2 catalogs |
| `health` | Do health rows follow the reports, whatever the order of commits? Is the write lock let go? | 2 reports of 3 contents, 2 devices, 2 capabilities, 2 integration rows, repeated refreshes, clock 0..1 |
| `converge` | Do repeated applies leave nothing to add, but in a file that is no JSON? Is `opencode.json` always a whole file with its mode? Is an entry ever added under a second spelling? Does what `validate` passed reconcile, but for the exceptions listed below? Is an unreachable network ever taken for drift? | 2 overlapping commands, 78 situations (below), up to 2 faults |
| `converge_unresolvable` (violated) | Is a host name that cannot be resolved always reported as such? | the same |
| `agent_report` | Does a stored token stay? Does a command that begins after another stored its token spend a code only if a third emptied the file? Are token and key kept when later steps fail? Was what is reported true? | 2 overlapping commands, 2 codes for 2 devices, 5 machines with every finding, 1 change |

Why the bounds are enough to be of interest: the races need two parties on one
object, and every run has them; expiry needs one tick, since every comparison is
with a time read earlier; the order of restores needs two changes; rollback after
apply needs a plan, an apply and a rollback, and an apply of the same plan after an
interrupted rollback, the shortest way to a manifest that is not the last apply's, two
commands more; the second-resolution names need two
backups in one second, and clock 0..1 gives both cases. In `converge` the
documents, the file and the network deviate from good ones in one respect at a
time, with every value of that respect, and vary together where one decides what
another means (a suffix that is not collected with a schema that would refuse; an
unreachable gateway with each of its answers); two entries are missing, so that
one writer overwrites the other's, and the second fault can hit what was repeated
after the first. `ConvergeProofs` removes these bounds for its safety properties.
For the other modules the proofs remove them as well, but for the properties
listed as only model-checked.

Safety runs of `Plans` and `Apply` use symmetry over identifiers that are only
compared. The two passing runs of `Apply` also use a view, `WithoutEndedMemory`: what
a command that has ended had in memory tells no two states apart, since no action
reads it and no property depends on it. The runs with liveness properties use no
symmetry; `Health` numbers requests in the order they arrive instead. `AgentReport` has safety properties only and
is symmetric in commands and codes. Deadlock is not checked where the bounds end
every run (all commands ended, the clock stopped); `enrollment` has restarts,
which are always possible, and leaves it on.

**Fairness.** Only what the code's own scheduling guarantees: a handler thread
that has something to do goes on (the lock wait ends after five seconds, the mint
call after ten, a probe after three). `Apply` and `AgentReport` assume no fairness:
the commands' requests have no timeout (`reporting.py:33`), so a
control plane that accepts and never answers keeps them waiting for ever, and no
liveness is stated of them; `CommandsRunOut` bounds their steps instead. Operators, editors, the gateway, the clock, crashes and new
requests owe nothing. `Converges` says what follows *if* applies are started again
and again (`[]<><<Reconcile>>`), which a timer or a person has to see to; a
command that has started is fair in its own steps (`Step`: reading, merging and
writing files, which wait for nobody). Faults are bounded by
`MaxFaults`: with a fault in every apply nothing converges, in the code as in the
model.

## What the violated runs show

1. `enrollment_key_audit` (`server/enrollment/__init__.py:83`): the key is minted
   before the row that records it is committed. A lost answer, a failed commit or
   a crash leaves a live key at the gateway that `gateway_keys` does not list,
   against FR3 of the key-minting design. A row committed before the
   call, and completed after it, would close the gap.
2. `apply_rollback_of_two` (`cli.py:662`): every change backs up the same file and
   the entries are restored in the order they were made, so the file ends as it
   was before the *last* change.
3. `apply_failure_after_one` (`cli.py:644`): the failure handler passes over an
   entry without a backup, and the first backup can have been overwritten by the
   second change's backup of the same second; the file keeps the first change.
4. `apply_edit_after_check` (`cli.py:619`): the fingerprint is compared once, then
   `reconcile_device` reads the files again.
5. `apply_catalog_after_approval` (`capabilities.py:385`): the catalog is not part
   of the fingerprint, so what an approved plan writes can change after approval.
6. `converge_unresolvable` (`capabilities.py:98`): `default_resolve_host` takes an
   `OSError` for a name that does not resolve, but `gethostbyname` raises
   `UnicodeError` for a name with an empty label or one of more than 63 characters.
   `validate` passes an empty device id, a `dns_zone` that begins with a dot and a
   long `hostname`; reconcile then raises, and the plans of all capabilities are lost.

## Caveats of the properties that hold

The properties of `Sequential` are about commands one after another (`Alone`): with
overlapping commands or edits none is promised. `RollbackOfOneRestores` has two
conditions more, and each is needed. It compares with `original`, not with the file
of the plan's last apply: TLC found five commands after which that is another file
(plan, apply, a rollback killed inside `copy2`, and an apply that takes the
broken file for an empty one until its first change cannot parse it: the old manifest stays,
and a rollback then restores what *it* names). And the second that names the backup
must not be in `reused`: a plan that is applied, rolled back and applied again within
one second overwrites its own backup. `FailureAfterOneRestores` is what is left of
"any failure during application restores from backup" (finding 3): there was a file,
one change at most had been written, and no second names two backups.

`UserContentSurvives` is about a file that is there and is JSON, while nobody edits
the device. What it does not promise: a failure handler or a rollback that is killed
inside `copy2` (`backup.py:108`) leaves a file that is cut, and the content no manifest
describes is gone from it (it is still in the backup). A later apply does not bring it
back either: it takes such a file for an empty one and fails to parse it. In the runs
applies overlap (`apply_gate`) and restores come one after another (`apply_sequential`);
a restore that overlaps an apply takes four commands, which is left to
`UserContentIsKept`, proved for any number of them.

`CodesAreNotWasted` is about commands that begin when another is over. Nothing
serializes the check of the token file and the exchange (`reporting.py:123`): two
commands that overlap and both find no token spend a code each if they were given
two, and the later token replaces the earlier. A third command that is cut short
while it stores its token, or stores it at the time, leaves or shows an empty file,
and the next command with a code spends it.

`Converges` has the exception `Content = Broken`. Reconcile takes a file that is no JSON
for an empty one (`reconcile.py:278`) and apply cannot parse it (`capabilities.py:202`):
started again and again, apply fails each time, until a person mends the file.

`OrphanKeysAreUndelivered` is the other side of finding 1. A key missing from
`gateway_keys` can exist, but no device has it: its exchange answered 500 or 502, or
died, and granted no token.

Health rows do not only move forward. `last_checked_at` of a capability falls when
the device that checked it last sends a report without that check, and a refresh
that waited for the lock can overwrite a newer probe. Nothing in the repository
says otherwise, so no run claims it.

`EnrollmentIsKept` is about commands that come to their end. The docstring of
`_echo_pending_gateway_key` (`cli.py:246`) says the key is shown on every exit path
once it may have been minted; if `mkdir`, `write_text` or `chmod` raises while the
token is stored (`reporting.py:138`), the exception passes `report_status` and
`report`, and the key is lost although it was received. In the model that is a `Dies`
in `store` or `fill`.

`ValidatedReconciles` has the exceptions the code has, and a condition, `Examined`.
The exceptions: an empty catalog block, a host name that cannot be encoded (6 above),
an `opencode.json` that is no JSON or of another shape, a gateway that answers 200 with
a body of another shape.
Only documents with a `device` key are held against a schema: a profile manifest
passes without one, although `docs/operating-guide.md:235` says that manifests with a
`profile:` are validated strictly, and one with both blocks is always refused.
`*.yml` files are not collected by `validate` on a directory. A catalog block that is
there and empty passes (`validate.py:118`, `or []`) and makes reconcile raise
(`capabilities.py:165`). One adapter that raises takes the plans of the others.

`ProbeFailureIsNotDrift` leaves out the network itself: `capabilities.py:6` says that
drift is never fabricated on a probe failure, but a resolver that cannot be reached
is reported as a name to repair (`capabilities.py:98`). A provider entry with an
empty `base_url` matches a catalog entry with an empty one, so the provider is not
added (`Matched`). Environment references are reported and never written.

## Proofs

`tlapm` checks the theorems for every value of the constants that satisfies the
named assumptions (sentinels such as `None` are not data, bounds are naturals,
`Desired` is a function, fingerprints are hashes, a manifest asks for finitely many
entries).

* `EnrollmentProofs`: `Invariance`, from it `CodesAreOneTime`, `FailureKeepsTheCode`,
  `TokensAreBound`, `KeyAuditAgrees`, `OrphansStayAtTheGateway` and `Refinement`.
  The properties are not inductive alone: that a commit grants a code once rests on
  *the request that holds the lock is the one inside a transaction*
  (`LockIsTransaction`) and *inside a transaction the code is unspent*
  (`InsideTransaction`); that the token is the right device's and in time rests on
  *what the SELECT saw stays true* (`PastSelect`), because codes change only by
  being spent; that an unrecorded key was handed to nobody rests on *a key that exists
  belongs to a request that has called the gateway* (`CallsFollow`). For the refinement, creating a code is `Issue`, a commit is `Grant`,
  every other step stutters.
* `PlansProofs`: `PlansInvariance`, `ApprovedPlansAreOnRecord`, `ApprovalsAreInTime`,
  `PlansNeverMove`. The strengthening is `CheckedStillMatches`: between the checks
  and the commit nothing can change what was compared.
* `ApplyProofs`: `Invariance`, `ApplyNeedsApproval`, `BackupsAreThere` and
  `LoopUsesPlanStore`, that every step of the loop is a step of `Plans` or leaves
  its variables alone, so that the invariant of `Plans` carries over. The
  strengthening says that a verified plan stands as long as the apply runs
  (`VerifiedPlanStands`), that the locals of a command are filled in when they are
  used (`JobsAreFilledIn`), and that every name handed out for a backup names a
  file (`RefsAreBackups`, which `BackupsExist` needs because a restore shortens
  its list and a manifest is copied to a rollback). `UserContentIsKept` is
  `UserContentSurvives`, for any overlap and any interruption. Its invariant is
  `OneContent`: until the first edit the file, every backup and every buffer of a
  command hold the content of `initial` if they hold JSON at all, and a list with an
  entry for "there was no file" exists only if there was none.
  `CommandsEndInTime` needs no fairness: a variant, `StepsLeft`, which each step of a
  command lowers (three steps for a change to be made, one for an entry to be
  restored) and nothing anybody else does raises. A command that goes on making
  steps therefore ends; that it goes on is not claimed.
* `SequentialProofs`, all under `Alone`, for any number of commands, plans and entries:
  `SequentialInvariance`, and from it `AppliesConverge`, `SingleChangesRollBack` and
  `FailureAfterOneIsUndone`; and, with the plan's fingerprint,
  `AppliesFromApprovedState` and `AppliesOnlyWhatWasShown`, the two properties that
  findings 4 and 5 violate: edits and overlapping commands are all that breaks them.
  The strengthening: one command runs at most (`AtMostOneRuns`); what was shown of a
  plan is what its fingerprint calls for (`PlansAreAsShown`); a manifest of one entry
  names a backup of the file its apply found (`ManifestsAreOriginal`), which has to be
  said of the directory, since applies and other rollbacks come in between; and of the
  running command, what is left to do is what the file lacks (`InStepWriting`), entries
  saved are as many as changes made and the first holds the file the apply found
  (`InStepSaving`), and what is left to restore brings that file back
  (`InStepRestoring`).
* `AgentReportProofs`: `AgentInvariance`, from it `TokensStay`, `EnrollmentsAreKept`,
  `CodesAreKept` and `ReportsAreTrue`. The strengthening: a token about to
  be stored has been granted (`TokensAreGranted`), what a command knows of its key
  follows from where it is (`KeysFollow`), a command about to spend a code after
  another stored its token found the file emptied by a third (`SpendingFollows`), and every result it has so far was true
  at one of the moments it has lived through (`ChecksFollow`), which a later moment
  cannot change. `TypesStay` is its type invariant. `CommandsUseOneTimeCodes` shows that
  the agent uses the store of one-time codes by its own actions only, the store
  that `Refinement` shows `Enrollment` to implement, so that its promise
  (`CodesEnrollOnce`) holds between the two.
* `HealthProofs`: `HealthInvariance`, `HealthFollowsReports` and `DeviceRowsAgree`, for
  any number of devices, capabilities, reports and refreshes; the ranks of the
  statuses are the four numbers of `_STATUS_PRIORITY` (`PriorityIsNumber`). That the
  newest report by `created_at` decides rests on the finite order of reports
  (`ReportsAreNumbered`); `ReportsInStep` and `RefreshesInStep` say what a report and
  a refresh know at each of their steps, and that the holder of the lock is one of
  them. A least or greatest element is found with the library's theorem on
  well-founded relations.
* `FileReplaceProofs`: `FileInvariance` and the refinement
  `AtomicWriteReplacesWholeFiles`. The invariant: past `fsync` the temporary file is
  whole on the disk (`TempsAreInStep`), and every mode a writer noted is the mode of
  everything the path named since (`ModesAgree`), because writers keep it.
* `ConvergeProofs`: `ConvergeInvariance`, `CommandsReplaceWholeFiles`,
  `NoSecondSpellingHolds`, `ValidatedDocumentsReconcile` and
  `ProbeFailureIsNotDriftHolds`, for any documents, files, networks and number of
  commands (`CasesAreSituations`, and `ConfigsAreContents`, that what is written is a
  configuration). The strengthening `EntriesAreDue` says of the file, of what may come back
  after a power failure and of what is about to be written that it has the first
  file's entries and, beyond them, only what was due at first; that is why a second
  command cannot add what the first has added under another spelling.

Only model-checked: liveness, since fairness and ENABLED are beyond the prover
(`EveryRequestAnswered`, `WriteLockIsReleased`, `Converges`). Every
other property of a passing run is a theorem.

## What is left out

* The server and the devices share one clock; skew is not modelled. The check of
  `expiry_timestamp` in the agent uses the device's clock.
* Ownership of files, JSON formatting. A path outside the allowed prefixes is
  refused before anything happens and is never written: a guard.
* Admin authentication and the secret scan: guards without state. How a string is
  recognised as a secret, a path or a name is a bit of the document.
* `create_plan` can fail for want of the lock and changes nothing then. The expiry of
  a plan, hours ahead, is counted from its commit, although the time is read before
  the wait of five seconds at most; that of an enrollment code from any moment before.
* `collect_device_state` and `reconcile_device` read the manifest, the catalog and
  `opencode.json` one after another, in the model in one step. An edit between two
  of those reads is one that falls before or after them, or makes a mixed state
  nobody approved; `apply_edit_after_check` shows the same harm with one edit.
* In `Converge`, reading, merging and the backup are one step with the start of the
  write; in `Apply` they are steps of their own.
* Two restores that copy into one file at once are in the model one after the other.
* `requests` is taken to raise its own `RequestException` only.
* Other devices' plans and approvals are in `PlansProofs`, for any number of devices;
  the runs of the loop have one device.
* `init_database` and its migrations run before the first request.
* Agent inspection, the read-only endpoints, the dashboard, deployment, the commands
  that only print or start other programs (`doctor`, `status`, `drift`, `run`), copies
  named `*.backup`: no state of their own. Unit tests reach them well.
* `AtomicApplier` and `ConfigurationApplier` are exported and have no caller
  (`AtomicApplier` moves its file with a function that copies between file systems);
  `StateComparator` and `Reconciler` are used by tests only: no behaviour of the
  program.

## Plan

Done: every component with state of its own, the refinements of `OneTimeCodes` and
`WholeFile`, and a proof of every safety property that holds.

Left, in the order of what they would add:

1. `Apply` over `Reconciliation` in the place of its own `Missing`, and a proof that
   `Apply`'s write is a `Replace` of `WholeFile`.
2. For `Converge`, the safety half of `Converges`: with a single writer and no faults,
   what is missing only shrinks.
3. The migrations of `init_database`, if they come to run beside requests.
