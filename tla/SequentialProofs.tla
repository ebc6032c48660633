--------------------------- MODULE SequentialProofs ---------------------------
(***************************************************************************)
(* Sequential: what the loop promises where commands come one after        *)
(* another and nobody edits, for any number of commands, plans and files.  *)
(***************************************************************************)
EXTENDS Sequential, ApplyProofs, SequenceTheorems

\* A step of one command, and all other steps.
CommandStep(a) == StartStep(a) \/ AgentStep(a) \/ Interrupted(a)

ElsewhereStep == UNCHANGED <<file, worldVars, storeVars, pc, jobVars, saved, ghostVars>>

\* Nobody edits: what is no step of a command is one of the control plane.
LEMMA StepsAlone ==
  ASSUME Alone, IInv, [Next]_vars
  PROVE  ElsewhereStep \/ \E a \in Agents : CommandStep(a)
<1>1. ~Edit
  BY DEF Edit, Alone, IInv, TypeOK
<1>2. ASSUME (\E q \in Approvals, p \in PlanIds : Approve(q, p)) \/ ServerStep \/ UNCHANGED vars
      PROVE  ElsewhereStep
  BY <1>2 DEF Approve, ServerStep, vars, ElsewhereStep
<1> QED BY <1>1, <1>2 DEF Next, CommandStep

\* Manifest and catalog stay, and a plan is only made by its command.
LEMMA WorldStands ==
  ASSUME Alone, IInv, [Next]_vars
  PROVE  UNCHANGED <<manifest, catalog>>
<1>1. ASSUME NEW a \in Agents, CommandStep(a)
      PROVE  UNCHANGED worldVars
  BY <1>1
  DEF CommandStep, StartStep, AgentStep, Interrupted, PlanShow, PlanSubmit, StartApply,
      StartRollback, NoRollback, Verify, Refuse, Reconcile, DryRun, Read, ReadFails, Backup,
      Write, AddFails, Finish, FinishFails, RestoreEntry, Restored, RollEntry, RolledBack
<1>2. CASE ElsewhereStep
  BY <1>2 DEF ElsewhereStep, worldVars
<1> QED BY <1>1, <1>2, StepsAlone DEF worldVars

-----------------------------------------------------------------------------
(* One command at a time. *)

\* While a command takes a step, the others rest and keep what they have.
LEMMA OthersRest ==
  ASSUME Alone, TypeOK, AtMostOneRuns, NEW a \in Agents, CommandStep(a),
         NEW b \in Agents, b # a
  PROVE  ~Running(b) /\ pc'[b] = pc[b] /\ saved'[b] = saved[b]
<1> USE DEF Ended, Running
<1>1. ~Running(b)
  <2>1. CASE StartStep(a)
    BY <2>1 DEF StartStep, PlanShow, StartApply, StartRollback, NoRollback, CanStart, Alone
  <2>2. CASE AgentStep(a) \/ Interrupted(a)
    <3>1. Running(a)
      BY <2>2
      DEF AgentStep, Interrupted, PlanSubmit, Verify, Refuse, Reconcile, DryRun, Read,
          ReadFails, Backup, Write, AddFails, Finish, FinishFails, RestoreEntry, Restored,
          RollEntry, RolledBack
    <3> QED BY <3>1 DEF AtMostOneRuns
  <2> QED BY <2>1, <2>2 DEF CommandStep
<1>2. pc'[b] = pc[b]
  BY DEF CommandStep, StartStep, AgentStep, Interrupted, PlanShow, PlanSubmit, StartApply,
      StartRollback, NoRollback, Verify, Refuse, Reconcile, DryRun, Read, ReadFails, Backup,
      Write, AddFails, Finish, FinishFails, RestoreEntry, Restored, RollEntry, RolledBack,
      Goes, TypeOK
<1>3. saved'[b] = saved[b]
  BY DEF CommandStep, StartStep, AgentStep, Interrupted, PlanShow, PlanSubmit, StartApply,
      StartRollback, NoRollback, Verify, Refuse, Reconcile, DryRun, Read, ReadFails, Backup,
      Write, AddFails, Finish, FinishFails, RestoreEntry, Restored, RollEntry, RolledBack,
      TypeOK
<1> QED BY <1>1, <1>2, <1>3

\* So nobody disturbs what it reads.
LEMMA SeesWhatIsThere ==
  ASSUME Alone, IInv, SequentialInv, NEW a \in Agents, CommandStep(a)
  PROVE  Seen(a) = {file} /\ \A s : Backed(a, s) = {backups[s]}
<1>1. \A b \in Agents \ {a} : ~Running(b)
  BY OthersRest DEF IInv, SequentialInv
<1> QED BY <1>1 DEF Seen, Backed, Copying, BackingUp, Running, Ended

\* So there is at most one that runs.
LEMMA OneRunsStep == Alone /\ IInv /\ SequentialInv /\ [Next]_vars => AtMostOneRuns'
<1> SUFFICES ASSUME Alone, IInv, SequentialInv, [Next]_vars
             PROVE  AtMostOneRuns'
  OBVIOUS
<1>1. TypeOK /\ AtMostOneRuns
  BY DEF IInv, SequentialInv
<1>2. ASSUME NEW a \in Agents, CommandStep(a)
      PROVE  AtMostOneRuns'
  <2>1. \A b \in Agents \ {a} : ~Running(b)'
    BY <1>1, <1>2, OthersRest DEF Running
  <2> QED BY <2>1 DEF AtMostOneRuns
<1>3. CASE ElsewhereStep
  BY <1>1, <1>3 DEF ElsewhereStep, AtMostOneRuns, Running
<1> QED BY <1>2, <1>3, StepsAlone

\* A command at rest is in step as long as its list is empty if it has not begun.
LEMMA RestingIsInStep ==
  ASSUME NEW b \in Agents, ~Running(b), pc[b] = "idle" => saved[b] = <<>>
  PROVE  InStep(b)
BY DEF Running, Ended, InStep, InStepBefore, InStepWriting, InStepSaving, InStepRestoring

-----------------------------------------------------------------------------
(* What agents leave behind. *)

\* A backup that is overwritten is marked, and stays marked.
LEMMA BackupsStand ==
  ASSUME IInv, [Next]_vars
  PROVE  /\ reused \subseteq reused'
         /\ \A s \in 0..MaxTime : backups[s] # None => s \in reused' \/ backups'[s] = backups[s]
<1>1. TypeOK
  BY DEF IInv
<1>2. ASSUME NEW a \in Agents, Backup(a)
      PROVE  /\ reused \subseteq reused'
             /\ \A s \in 0..MaxTime : backups[s] # None => s \in reused' \/ backups'[s] = backups[s]
  BY <1>1, <1>2 DEF Backup, Names, TypeOK
<1>3. ASSUME NEW a \in Agents, AddFails(a) \/ Interrupted(a)
      PROVE  /\ reused \subseteq reused'
             /\ \A s \in 0..MaxTime : backups[s] # None => s \in reused' \/ backups'[s] = backups[s]
  <2>1. backups' \in CutShort(a) /\ Names(backups' # backups)
    BY <1>3 DEF AddFails, Interrupted
  <2> QED BY <1>1, <2>1 DEF CutShort, Names, TypeOK
<1>4. ASSUME NEW a \in Agents, CommandStep(a), ~(Backup(a) \/ AddFails(a) \/ Interrupted(a))
      PROVE  UNCHANGED <<backups, reused>>
  BY <1>4
  DEF CommandStep, StartStep, AgentStep, PlanShow, PlanSubmit, StartApply,
      StartRollback, NoRollback, Verify, Refuse, Reconcile, DryRun, Read, ReadFails,
      Write, Finish, FinishFails, RestoreEntry, Restored, RollEntry, RolledBack,
      storeVars, ghostVars
<1>5. ASSUME (\E q \in Approvals, p \in PlanIds : Approve(q, p)) \/ ServerStep
             \/ Edit \/ UNCHANGED vars
      PROVE  UNCHANGED <<backups, reused>>
  BY <1>5 DEF Approve, ServerStep, Edit, vars, storeVars, ghostVars
<1> QED BY <1>2, <1>3, <1>4, <1>5 DEF Next, CommandStep

\* What an entry brings it brings until its backup is overwritten.
LEMMA BringsStays ==
  ASSUME IInv, [Next]_vars, NEW r, NEW f, Brings(r, f),
         r # NoBackup => r \in 0..MaxTime /\ backups[r] \in Files
  PROVE  /\ Brings(r, f)'
         /\ r \notin reused' => Saved(r)' = Saved(r)
BY BackupsStand, SentinelsAreFresh DEF Brings, Saved

\* What is missing is what the collected state asks for.
LEMMA MissingIsAsked ==
  ASSUME NEW f \in Files, NEW m \in Commits
  PROVE  Missing(f, m) = Asked(Collect(f, m))
BY DEF Missing, Asked, Collect

\* A plan that is registered is the one that was shown; no other step makes one.
LEMMA AsShownStep == Alone /\ IInv /\ SequentialInv /\ [Next]_vars => PlansAreAsShown'
<1> SUFFICES ASSUME Alone, IInv, SequentialInv, [Next]_vars,
                    NEW p \in PlanIds, plans'[p] # None
             PROVE  /\ plans'[p].hash \in States
                    /\ reviewed'[p] = [todo |-> Asked(plans'[p].hash), data |-> catalog']
  BY DEF PlansAreAsShown
<1>1. TypeOK /\ KeepsPlan(p) /\ catalog' = catalog
  BY StoreStep, WorldStands DEF IInv
<1>2. CASE plans[p] # None /\ reviewed'[p] = reviewed[p]
  BY <1>1, <1>2 DEF KeepsPlan, SequentialInv, PlansAreAsShown
<1>3. ASSUME NEW a \in Agents, NEW q \in PlanIds, PlanSubmit(a, q)
      PROVE  /\ plans'[p].hash \in States
             /\ reviewed'[p] = [todo |-> Asked(plans'[p].hash), data |-> catalog']
  <2>1. CASE p = q
    <3>1. Collect(file, manifest) \in States /\ Missing(file, manifest) = Asked(Collect(file, manifest))
      BY <1>1, CollectIsState, MissingIsAsked DEF TypeOK
    <3>2. todo[a] = Missing(file, manifest) /\ data[a] = catalog
      BY <1>3 DEF PlanSubmit, SequentialInv, InStep, InStepBefore
    <3>3. plans'[p].hash = Collect(file, manifest)
      <4>1. Seen(a) = {file}
        BY <1>3, SeesWhatIsThere DEF CommandStep, AgentStep
      <4> QED BY <1>1, <1>3, <2>1, <4>1 DEF PlanSubmit, CreatePlan, TypeOK, PlansTypeOK
    <3>4. reviewed'[p] = [todo |-> todo[a], data |-> data[a]]
      BY <1>1, <1>3, <2>1 DEF PlanSubmit, TypeOK
    <3> QED BY <1>1, <3>1, <3>2, <3>3, <3>4
  <2>2. CASE p # q
    <3>1. plans'[p] = plans[p] /\ reviewed'[p] = reviewed[p]
      BY <1>1, <1>3, <2>2 DEF PlanSubmit, CreatePlan, TypeOK, PlansTypeOK
    <3> QED BY <1>2, <3>1
  <2> QED BY <2>1, <2>2
<1>4. ASSUME NEW a \in Agents, CommandStep(a), \A q \in PlanIds : ~PlanSubmit(a, q)
      PROVE  UNCHANGED <<plans, reviewed>>
  BY <1>4
  DEF CommandStep, StartStep, AgentStep, Interrupted, PlanShow, StartApply,
      StartRollback, NoRollback, Verify, Refuse, Reconcile, DryRun, Read, ReadFails, Backup,
      Write, AddFails, Finish, FinishFails, RestoreEntry, Restored, RollEntry, RolledBack,
      planVars, ghostVars
<1>5. CASE ElsewhereStep
  <2>1. reviewed' = reviewed
    BY <1>5 DEF ElsewhereStep, ghostVars
  <2>2. plans[p] # None
    <3>1. \A a \in Agents, q \in PlanIds : ~PlanSubmit(a, q)
      BY <1>1, <1>5 DEF ElsewhereStep, PlanSubmit, Goes, TypeOK
    <3>2. ASSUME NEW b \in Approvals, CommitApproval(b)
          PROVE  plans[p] # None
      BY <1>1, <3>2 DEF CommitApproval, IInv, PlansInv, PlansTypeOK, CheckedStillMatches, Found
    <3>3. ASSUME plans' = plans
          PROVE  plans[p] # None
      BY <3>3
    <3>4. ASSUME ServerStep, \A b \in Approvals : ~CommitApproval(b)
          PROVE  plans' = plans
      BY <3>4
      DEF ServerStep, ReceiveApproval, ApprovalStep, CheckApproval, ApprovalFails, PlansTick
    <3>5. ASSUME NEW q \in Approvals, NEW r \in PlanIds, Approve(q, r)
          PROVE  plans' = plans
      BY <3>5 DEF Approve, ReceiveApproval
    <3>6. ASSUME NEW a \in Agents, CommandStep(a)
          PROVE  plans' = plans
      BY <1>4, <3>1, <3>6
    <3>7. Edit \/ UNCHANGED vars => plans' = plans
      BY DEF Edit, vars, planVars
    <3> QED BY <3>2, <3>3, <3>4, <3>5, <3>6, <3>7 DEF Next, CommandStep
  <2> QED BY <1>2, <2>1, <2>2
<1>6. CASE UNCHANGED <<plans, reviewed>>
  BY <1>2, <1>6
<1> QED BY <1>3, <1>4, <1>5, <1>6, StepsAlone

\* An apply leaves in its manifest what it has saved, and no later backup
\* takes the place of an earlier one unmarked.
LEMMA OriginalStep == Alone /\ IInv /\ SequentialInv /\ [Next]_vars => ManifestsAreOriginal'
<1> SUFFICES ASSUME Alone, IInv, SequentialInv, [Next]_vars, NEW p \in PlanIds,
                    backup_manifests'[p] # None, Len(backup_manifests'[p]) = 1
             PROVE  Brings(backup_manifests[p][1], original[p])'
  BY DEF ManifestsAreOriginal
<1>1. TypeOK /\ RefsAreBackups /\ JobsAreFilledIn
  BY DEF IInv
<1>2. CASE backup_manifests'[p] = backup_manifests[p] /\ original'[p] = original[p]
  <2>1. Brings(backup_manifests[p][1], original[p])
    BY <1>2 DEF SequentialInv, ManifestsAreOriginal
  <2>2. LET r == backup_manifests[p][1]
        IN  r # NoBackup => r \in 0..MaxTime /\ backups[r] \in Files
    BY <1>1, <1>2 DEF RefsAreBackups, Kept
  <2> QED BY <1>2, <2>1, <2>2, BringsStays DEF Brings, Saved
<1>3. ASSUME NEW a \in Agents, Finish(a)
      PROVE  Brings(backup_manifests[p][1], original[p])'
  <2>1. CASE p = plan[a]
    <3>1. /\ backup_manifests'[p] = saved[a] /\ original'[p] = before[p]
          /\ pc[a] = "applying"
      BY <1>1, <1>3, <2>1 DEF Finish, TypeOK
    <3>2. Brings(saved[a][1], before[p])
      BY <2>1, <3>1 DEF SequentialInv, InStep, InStepSaving
    <3>3. saved[a][1] # NoBackup => saved[a][1] \in 0..MaxTime /\ backups[saved[a][1]] \in Files
      BY <1>1, <3>1 DEF RefsAreBackups, Kept
    <3> QED BY <3>1, <3>2, <3>3, BringsStays DEF Brings, Saved
  <2>2. CASE p # plan[a]
    BY <1>1, <1>2, <1>3, <2>2 DEF Finish, TypeOK
  <2> QED BY <2>1, <2>2
<1>4. ASSUME NEW a \in Agents, FinishFails(a)
      PROVE  Brings(backup_manifests[p][1], original[p])'
  <2>1. p # plan[a]
    BY <1>1, <1>4 DEF FinishFails, TypeOK
  <2> QED BY <1>1, <1>2, <1>4, <2>1 DEF FinishFails, TypeOK, ghostVars
<1>5. ASSUME NEW a \in Agents, CommandStep(a), ~(Finish(a) \/ FinishFails(a))
      PROVE  UNCHANGED <<backup_manifests, original>>
  BY <1>5
  DEF CommandStep, StartStep, AgentStep, Interrupted, PlanShow, PlanSubmit, StartApply,
      StartRollback, NoRollback, Verify, Refuse, Reconcile, DryRun, Read, ReadFails, Backup,
      Write, AddFails, RestoreEntry, Restored, RollEntry, RolledBack, storeVars, ghostVars
<1>6. ASSUME ElsewhereStep
      PROVE  UNCHANGED <<backup_manifests, original>>
  BY <1>6 DEF ElsewhereStep, storeVars, ghostVars
<1> QED BY <1>2, <1>3, <1>4, <1>5, <1>6, StepsAlone
-----------------------------------------------------------------------------
(* The command that takes the step. *)

\* Writing an entry takes it, and nothing else, from what is missing.
LEMMA MergedIsThere ==
  ASSUME NEW f \in Files, NEW m \in Commits, NEW i \in Ids, NEW v \in Catalogs
  PROVE  Missing(Merge(Current(f), i, v), m) = Missing(f, m) \ {i}
<1>1. Current(f) \in Configs /\ Merge(Current(f), i, v) \in Configs
  BY CurrentIsConfig, MergeIsConfig
<1>2. Current(Merge(Current(f), i, v)) = Merge(Current(f), i, v)
  BY <1>1 DEF Current
<1>3. \A j \in Ids : Merge(Current(f), i, v).entries[j] =
                       IF j = i THEN v ELSE Current(f).entries[j]
  BY <1>1 DEF Merge, Configs
<1>4. Desired[m] \subseteq Ids /\ v # Unset
  BY DesiredIsFunction, SentinelsAreFresh
<1> QED BY <1>2, <1>3, <1>4 DEF Missing

\* Deciding: what was collected or shown is still what there is.
LEMMA BeforeStep ==
  ASSUME Alone, IInv, SequentialInv, [Next]_vars, NEW a \in Agents, CommandStep(a)
  PROVE  InStepBefore(a)'
<1>1. TypeOK /\ InStepBefore(a)
  BY DEF IInv, SequentialInv, InStep
<1> USE <1>1 DEF InStepBefore, Goes, TypeOK
<1>2. CASE PlanShow(a)
  BY <1>2, SeesWhatIsThere DEF PlanShow, CanStart, worldVars
<1>3. ASSUME NEW p \in PlanIds, StartApply(a, p)
      PROVE  InStepBefore(a)'
  BY <1>3, SeesWhatIsThere DEF StartApply, CanStart, worldVars
<1>4. CASE Verify(a)
  BY <1>4 DEF Verify, worldVars
<1>5. CASE /\ ~PlanShow(a) /\ ~Verify(a)
           /\ \A p \in PlanIds : ~StartApply(a, p)
  <2>1. pc'[a] \notin {"idle", "shown", "collected", "verified"}
    BY <1>5
    DEF CommandStep, StartStep, AgentStep, Interrupted, PlanSubmit, StartRollback, NoRollback,
        Refuse, Reconcile, DryRun, Read, ReadFails, Backup, Write, AddFails, Finish,
        FinishFails, RestoreEntry, Restored, RollEntry, RolledBack
  <2> QED BY <2>1
<1> QED BY <1>2, <1>3, <1>4, <1>5

\* Writing: what is left was shown, and is what the file lacks.
LEMMA WritingStep ==
  ASSUME Alone, IInv, SequentialInv, [Next]_vars, NEW a \in Agents, CommandStep(a)
  PROVE  InStepWriting(a)'
<1>1. TypeOK /\ InStepBefore(a) /\ InStepWriting(a) /\ JobsAreFilledIn
  BY DEF IInv, SequentialInv, InStep
<1> USE <1>1 DEF Goes
<1>2. CASE Reconcile(a)
  <2>1. plan[a] \in PlanIds /\ state[a] = Collect(file, manifest)
    BY <1>2 DEF Reconcile, JobsAreFilledIn, InStepBefore, Applying
  <2>2. plans[plan[a]] # None /\ plans[plan[a]].hash = state[a]
    BY <1>2 DEF Reconcile, IInv, VerifiedPlanStands, Applying
  <2>3. reviewed[plan[a]] = [todo |-> Asked(state[a]), data |-> catalog]
    BY <2>1, <2>2 DEF SequentialInv, PlansAreAsShown
  <2>4. Missing(file, manifest) = Asked(state[a])
    BY <2>1, MissingIsAsked DEF TypeOK
  <2>5. /\ pc'[a] = "applying" /\ todo'[a] = Missing(file, manifest) /\ data'[a] = catalog
        /\ UNCHANGED <<file, manifest, reviewed, plan>>
    BY <1>2, SeesWhatIsThere DEF Reconcile, TypeOK, worldVars
  <2> QED BY <2>3, <2>4, <2>5 DEF InStepWriting
<1>3. CASE Read(a)
  <2>1. PICK i \in todo[a] : /\ buf' = [buf EXCEPT ![a] = Merge(Current(file), i, data[a])]
                             /\ adding' = [adding EXCEPT ![a] = i]
    BY <1>3 DEF Read
  <2> QED BY <1>3, <2>1 DEF Read, InStepWriting, TypeOK, worldVars, ghostVars
<1>4. CASE Backup(a)
  BY <1>4 DEF Backup, InStepWriting, TypeOK, worldVars
<1>5. CASE Write(a)
  <2>1. /\ pc[a] = "saved" /\ adding[a] \in todo[a] /\ todo[a] = Missing(file, manifest)
        /\ buf[a] = Merge(Current(file), adding[a], data[a])
        /\ adding[a] \in Ids /\ data[a] \in Catalogs
    BY <1>5 DEF Write, InStepWriting, JobsAreFilledIn
  <2>2. Missing(buf[a], manifest) = todo[a] \ {adding[a]}
    BY <2>1, MergedIsThere DEF TypeOK
  <2>3. /\ pc'[a] = "applying" /\ file' = buf[a] /\ todo'[a] = todo[a] \ {adding[a]}
        /\ UNCHANGED <<manifest, reviewed, plan, data>>
    BY <1>5 DEF Write, TypeOK, worldVars, ghostVars
  <2>4. todo[a] \subseteq reviewed[plan[a]].todo /\ data[a] = reviewed[plan[a]].data
    BY <2>1 DEF InStepWriting
  <2> QED BY <2>2, <2>3, <2>4 DEF InStepWriting
<1>6. CASE ~(Reconcile(a) \/ Read(a) \/ Backup(a) \/ Write(a))
  <2>1. pc'[a] \notin {"applying", "read", "saved"}
    BY <1>6
    DEF CommandStep, StartStep, AgentStep, Interrupted, PlanShow, PlanSubmit, StartApply,
        StartRollback, NoRollback, Verify, Refuse, DryRun, ReadFails, AddFails, Finish,
        FinishFails, RestoreEntry, Restored, RollEntry, RolledBack, TypeOK
  <2> QED BY <2>1 DEF InStepWriting
<1> QED BY <1>2, <1>3, <1>4, <1>5, <1>6

\* Saving: the first entry brings back what the apply found.
LEMMA SavingStep ==
  ASSUME Alone, IInv, SequentialInv, [Next]_vars, NEW a \in Agents, CommandStep(a)
  PROVE  InStepSaving(a)'
<1>1. TypeOK /\ InStepBefore(a) /\ InStepWriting(a) /\ InStepSaving(a) /\ JobsAreFilledIn
      /\ RefsAreBackups
  BY DEF IInv, SequentialInv, InStep
<1>2. saved[a] \in Seq(Refs) /\ ref[a] \in Refs
  BY <1>1 DEF TypeOK
<1> USE DEF Goes
<1>3. CASE Reconcile(a)
  <2>1. saved[a] = <<>> /\ plan[a] \in PlanIds
    BY <1>1, <1>3 DEF Reconcile, InStepBefore, JobsAreFilledIn, Applying
  <2>2. /\ pc'[a] = "applying" /\ before'[plan'[a]] = file /\ saved'[a] = <<>>
        /\ todo'[a] = Missing(file, manifest) /\ UNCHANGED <<file, manifest>>
    BY <1>1, <1>3, <2>1, SeesWhatIsThere DEF Reconcile, TypeOK, worldVars
  <2> QED BY <2>2 DEF InStepSaving
<1>4. CASE Read(a)
  BY <1>1, <1>4 DEF Read, InStepSaving, Brings, Saved, TypeOK, worldVars, storeVars, ghostVars
<1>5. CASE Backup(a)
  <2>1. /\ pc[a] = "read" /\ pc'[a] = "saved"
        /\ UNCHANGED <<file, manifest, plan, todo, saved, before>>
        /\ ref'[a] = IF file = Absent THEN NoBackup ELSE now
        /\ backups' = IF file = Absent THEN backups ELSE [backups EXCEPT ![now] = file]
    <3>1. PICK f \in Seen(a) :
            /\ ref' = [ref EXCEPT ![a] = IF f = Absent THEN NoBackup ELSE now]
            /\ backups' = IF f = Absent THEN backups ELSE [backups EXCEPT ![now] = f]
      BY <1>5 DEF Backup
    <3>2. f = file
      BY <3>1, SeesWhatIsThere
    <3>3. pc[a] = "read" /\ pc' = [pc EXCEPT ![a] = "saved"]
          /\ UNCHANGED <<file, manifest, plan, todo, saved, before>>
      BY <1>5 DEF Backup, worldVars
    <3> QED BY <1>1, <3>1, <3>2, <3>3 DEF TypeOK
  <2>2. Brings(ref[a], file)'
    <3>1. file # Absent => ref'[a] # NoBackup /\ backups'[now] = file
      BY <1>1, <2>1, SentinelsAreFresh DEF TypeOK, PlansTypeOK, RefsAreBackups
    <3> QED BY <2>1, <3>1 DEF Brings, Saved
  <2>3. Len(saved[a]) = 1 => Brings(saved[a][1], before[plan[a]])'
    <3> SUFFICES ASSUME Len(saved[a]) = 1
                 PROVE  Brings(saved[a][1], before[plan[a]])'
      OBVIOUS
    <3>1. Brings(saved[a][1], before[plan[a]])
      BY <1>1, <2>1 DEF InStepSaving
    <3>2. saved[a][1] # NoBackup => saved[a][1] \in 0..MaxTime /\ backups[saved[a][1]] \in Files
      BY <1>1 DEF RefsAreBackups, Kept
    <3> QED BY <2>1, <3>1, <3>2, BringsStays DEF Brings, Saved
  <2> QED BY <1>1, <2>1, <2>2, <2>3 DEF InStepSaving
<1>6. CASE Write(a)
  <2> DEFINE found == before[plan[a]]
  <2>1. /\ pc[a] = "saved" /\ pc'[a] = "applying"
        /\ saved'[a] = Append(saved[a], ref[a]) /\ todo'[a] = todo[a] \ {adding[a]}
        /\ UNCHANGED <<manifest, plan, before, backups, reused>>
    BY <1>1, <1>6 DEF Write, TypeOK, worldVars, storeVars, ghostVars
  <2>2. /\ adding[a] \in todo[a] /\ todo[a] \subseteq Missing(found, manifest)
        /\ saved[a] = <<>> => file = found
        /\ saved[a] # <<>> => Missing(found, manifest) \ todo[a] # {}
        /\ Brings(ref[a], file)
    BY <1>1, <2>1 DEF InStepWriting, InStepSaving
  <2>3. saved[a] = <<>> => Append(saved[a], ref[a])[1] = ref[a]
    OBVIOUS
  <2>4. /\ Append(saved[a], ref[a]) # <<>>
        /\ saved[a] # <<>> => Len(Append(saved[a], ref[a])) > 1
        /\ saved[a] = <<>> => Len(Append(saved[a], ref[a])) = 1
    BY <1>2
  <2>5. adding[a] \in Missing(found, manifest) \ todo'[a]
    BY <2>1, <2>2
  <2>6. saved[a] # <<>> =>
          \E i, j \in Missing(found, manifest) \ todo'[a] : i # j
    BY <2>1, <2>2, <2>5
  <2>7. saved[a] = <<>> => Brings(saved'[a][1], found)
    BY <2>1, <2>2, <2>3
  <2>8. (before[plan[a]])' = found /\ manifest' = manifest
    BY <2>1
  <2> QED BY <2>1, <2>2, <2>4, <2>5, <2>6, <2>7, <2>8 DEF InStepSaving, Brings, Saved
<1>7. CASE ~(Reconcile(a) \/ Read(a) \/ Backup(a) \/ Write(a))
  <2>1. pc'[a] \notin {"applying", "read", "saved"}
    BY <1>1, <1>7
    DEF CommandStep, StartStep, AgentStep, Interrupted, PlanShow, PlanSubmit, StartApply,
        StartRollback, NoRollback, Verify, Refuse, DryRun, ReadFails, AddFails, Finish,
        FinishFails, RestoreEntry, Restored, RollEntry, RolledBack, TypeOK
  <2> QED BY <2>1 DEF InStepSaving
<1> QED BY <1>3, <1>4, <1>5, <1>6, <1>7

\* A list that is not empty has entries; one entry is its head and all of it.
LEMMA OneEntry ==
  ASSUME NEW s \in Seq(Refs)
  PROVE  /\ s # <<>> => Len(s) > 0
         /\ Len(s) = 1 => Head(s) = s[1] /\ Tail(s) = <<>> /\ Len(Tail(s)) < 2
<1>1. \A t \in Seq(Refs) : t # <<>> => Len(t) \in Nat \ {0}
  BY EmptySeq
<1>2. Len(s) = 1 => Head(s) = s[1]
  OBVIOUS
<1>3. ASSUME Len(s) = 1
      PROVE  Len(Tail(s)) = 0 /\ Tail(s) \in Seq(Refs)
  <2>1. s # <<>>
    BY <1>3, EmptySeq
  <2> QED BY <1>3, <2>1, HeadTailProperties
<1>4. s # <<>> => Len(s) > 0
  <2> SUFFICES ASSUME s # <<>> PROVE Len(s) > 0
    OBVIOUS
  <2>1. Len(s) \in Nat \ {0}
    BY <1>1, Zenon
  <2> QED BY <2>1
<1>5. Len(s) = 1 => Tail(s) = <<>>
  <2> SUFFICES ASSUME Len(s) = 1 PROVE Tail(s) = <<>>
    OBVIOUS
  <2>1. Tail(s) \in Seq(Refs) /\ Len(Tail(s)) \notin Nat \ {0}
    BY <1>3
  <2> QED BY <1>1, <2>1, Zenon
<1>6. Len(s) = 1 => Len(Tail(s)) < 2
  BY <1>3
<1> QED BY <1>2, <1>4, <1>5, <1>6, Zenon

\* Restoring: what was saved brings the file back.
LEMMA RestoringStep ==
  ASSUME Alone, IInv, SequentialInv, [Next]_vars, NEW a \in Agents, CommandStep(a)
  PROVE  InStepRestoring(a)'
<1>1. TypeOK /\ InStepBefore(a) /\ InStepSaving(a) /\ InStepRestoring(a) /\ RefsAreBackups
      /\ ManifestsAreOriginal
  BY DEF IInv, SequentialInv, InStep
<1>2. saved[a] \in Seq(Refs)
  BY <1>1 DEF TypeOK
<1> USE DEF Goes
<1>3. CASE ReadFails(a) \/ AddFails(a)
  <2> DEFINE found == before[plan[a]]
  <2>1. /\ pc[a] \in {"applying", "read", "saved"} /\ pc'[a] = "failed"
        /\ UNCHANGED <<file, manifest, plan, todo, before, saved>>
    BY <1>1, <1>3 DEF ReadFails, AddFails, TypeOK, worldVars, jobVars, ghostVars
  <2>2. SUFFICES ASSUME OneDone(a), reused' = {}
                 PROVE  /\ Len(saved[a]) < 2
                        /\ IF saved[a] = <<>> THEN file = found ELSE Saved(saved[a][1])' = found
    BY <2>1 DEF InStepRestoring, OneDone, Saved
  <2>3. ~(\E i, j \in Missing(found, manifest) \ todo[a] : i # j)
    BY <2>2 DEF OneDone
  <2>4. Len(saved[a]) < 2
    BY <1>1, <1>2, <2>1, <2>3 DEF InStepSaving
  <2>5. CASE saved[a] = <<>>
    BY <1>1, <2>1, <2>4, <2>5 DEF InStepSaving
  <2>6. CASE saved[a] # <<>>
    <3>1. Len(saved[a]) = 1
      <4>1. Len(saved[a]) \in Nat /\ Len(saved[a]) > 0
        BY <1>2, <2>6, OneEntry
      <4>2. Len(saved[a]) < 2
        BY <2>4
      <4>3. \A n \in Nat : n > 0 /\ n < 2 => n = 1
        OBVIOUS
      <4> QED BY <4>1, <4>2, <4>3, Zenon
    <3>2. Brings(saved[a][1], found)
      BY <1>1, <2>1, <3>1 DEF InStepSaving
    <3>3. saved[a][1] # NoBackup => saved[a][1] \in 0..MaxTime /\ backups[saved[a][1]] \in Files
      BY <1>1, <3>1 DEF RefsAreBackups, Kept
    <3>4. reused \subseteq reused'
      BY BackupsStand
    <3>5. Saved(saved[a][1]) = found
      BY <2>2, <3>2, <3>4 DEF Brings
    <3>6. LET r == saved[a][1] IN r \notin reused' => Saved(r)' = Saved(r)
      BY <2>1, <3>2, <3>3, BringsStays DEF Brings, Saved
    <3> QED BY <2>1, <2>2, <2>4, <2>6, <3>5, <3>6 DEF Saved
  <2> QED BY <2>5, <2>6
<1>4. CASE RestoreEntry(a)
  <2>1. /\ pc[a] = "failed" /\ pc'[a] = "failed" /\ saved[a] # <<>> /\ saved'[a] = Tail(saved[a])
        /\ file' = IF Head(saved[a]) = NoBackup THEN file ELSE backups[Head(saved[a])]
        /\ UNCHANGED <<manifest, plan, todo, before, backups, reused>>
    BY <1>1, <1>4, SeesWhatIsThere
    DEF RestoreEntry, TypeOK, worldVars, storeVars, jobVars, ghostVars
  <2>2. SUFFICES ASSUME OneDone(a), before[plan[a]] # Absent, reused = {}
                 PROVE  /\ saved'[a] = <<>> /\ Len(saved'[a]) < 2
                        /\ file' = before[plan[a]]
    BY <2>1 DEF InStepRestoring, OneDone
  <2>3. Len(saved[a]) < 2 /\ Saved(saved[a][1]) = before[plan[a]]
    BY <1>1, <2>1, <2>2 DEF InStepRestoring
  <2>4. Tail(saved[a]) = <<>> /\ Head(saved[a]) = saved[a][1] /\ Len(Tail(saved[a])) < 2
    <3>1. Len(saved[a]) \in Nat
      BY <1>2
    <3> QED BY <1>2, <2>1, <2>3, <3>1, OneEntry
  <2> QED BY <2>1, <2>2, <2>3, <2>4 DEF Saved
<1>5. ASSUME NEW p \in PlanIds, StartRollback(a, p)
      PROVE  InStepRestoring(a)'
  <2>1. /\ pc'[a] = "rolling" /\ plan'[a] = p /\ saved'[a] = backup_manifests[p]
        /\ backup_manifests[p] # None /\ UNCHANGED backup_manifests
    BY <1>1, <1>5 DEF StartRollback, TypeOK, storeVars
  <2> QED BY <2>1 DEF InStepRestoring
<1>6. CASE RollEntry(a)
  <2> DEFINE refs == backup_manifests[plan[a]]
  <2>1. /\ pc[a] = "rolling" /\ pc'[a] = "rolling" /\ saved[a] # <<>>
        /\ saved'[a] = Tail(saved[a])
        /\ file' = Saved(Head(saved[a]))
        /\ UNCHANGED <<plan, backup_manifests, original, reused>>
    BY <1>1, <1>6, SeesWhatIsThere
    DEF RollEntry, Saved, TypeOK, storeVars, jobVars, ghostVars
  <2>2. plan[a] \in PlanIds /\ refs # None
    BY <1>1, <2>1 DEF InStepRestoring
  <2>3. ASSUME Len(refs) = 1
        PROVE  /\ saved'[a] = <<>>
               /\ refs[1] \notin reused => file' = original[plan[a]]
    <3>1. saved[a] = refs
      BY <1>1, <2>1, <2>3 DEF InStepRestoring
    <3>2. Tail(refs) = <<>> /\ Head(refs) = refs[1]
      BY <1>2, <2>3, <3>1, OneEntry
    <3>3. Brings(refs[1], original[plan[a]])
      BY <1>1, <2>2, <2>3 DEF ManifestsAreOriginal
    <3> QED BY <2>1, <3>1, <3>2, <3>3 DEF Brings
  <2> QED BY <2>1, <2>2, <2>3 DEF InStepRestoring
<1>7. CASE /\ ~(ReadFails(a) \/ AddFails(a) \/ RestoreEntry(a) \/ RollEntry(a))
           /\ \A p \in PlanIds : ~StartRollback(a, p)
  <2>1. pc'[a] \notin {"failed", "rolling"}
    BY <1>1, <1>7
    DEF CommandStep, StartStep, AgentStep, Interrupted, PlanShow, PlanSubmit, StartApply,
        NoRollback, Verify, Refuse, Reconcile, DryRun, Read, Backup, Write, Finish, FinishFails,
        Restored, RolledBack, TypeOK
  <2> QED BY <2>1 DEF InStepRestoring
<1> QED BY <1>3, <1>4, <1>5, <1>6, <1>7

-----------------------------------------------------------------------------
(* The invariant as a whole. *)

\* Before the first command everything is in step.
LEMMA SequentialInit == Init => SequentialInv
BY DEF Init, PlansInit, SequentialInv, AtMostOneRuns, Running, Ended, PlansAreAsShown,
       ManifestsAreOriginal, InStep, InStepBefore, InStepWriting, InStepSaving, InStepRestoring

\* The command that runs stays in step, and so do those at rest.
LEMMA InStepStep ==
  ASSUME Alone, IInv, SequentialInv, [Next]_vars, NEW b \in Agents
  PROVE  InStep(b)'
<1>1. TypeOK /\ AtMostOneRuns /\ InStep(b)
  BY DEF IInv, SequentialInv
<1>2. CASE CommandStep(b)
  BY <1>2, BeforeStep, WritingStep, SavingStep, RestoringStep DEF InStep
<1>3. ASSUME NEW a \in Agents, CommandStep(a), b # a
      PROVE  InStep(b)'
  <2>1. ~Running(b) /\ pc'[b] = pc[b] /\ saved'[b] = saved[b]
    BY <1>1, <1>3, OthersRest
  <2>2. pc'[b] \in Ended \cup {"idle"} /\ (pc'[b] = "idle" => saved'[b] = <<>>)
    BY <1>1, <2>1 DEF Running, InStep, InStepBefore
  <2> QED
    BY <2>2 DEF Ended, InStep, InStepBefore, InStepWriting, InStepSaving, InStepRestoring
<1>4. CASE ElsewhereStep
  <2>1. UNCHANGED <<file, manifest, catalog, backups, backup_manifests, pc, plan, state, todo,
                    data, buf, adding, ref, saved, before, reviewed, original, reused>>
    BY <1>4 DEF ElsewhereStep, worldVars, storeVars, jobVars, ghostVars
  <2>2. InStepBefore(b)' /\ InStepWriting(b)'
    BY <1>1, <2>1 DEF InStep, InStepBefore, InStepWriting
  <2>3. InStepSaving(b)'
    BY <1>1, <2>1 DEF InStep, InStepSaving, Brings, Saved
  <2>4. InStepRestoring(b)'
    BY <1>1, <2>1 DEF InStep, InStepRestoring, OneDone, Saved
  <2> QED BY <2>2, <2>3, <2>4 DEF InStep
<1> QED BY <1>2, <1>3, <1>4, StepsAlone

\* One command after another, undisturbed: everything stays in step.
THEOREM SequentialInvariance ==
  ASSUME Alone
  PROVE  Spec => []SequentialInv
<1>1. IInv /\ SequentialInv /\ [Next]_vars => SequentialInv'
  <2> SUFFICES ASSUME IInv, SequentialInv, [Next]_vars
               PROVE  SequentialInv'
    OBVIOUS
  <2>1. AtMostOneRuns' /\ PlansAreAsShown' /\ ManifestsAreOriginal'
    BY OneRunsStep, AsShownStep, OriginalStep
  <2>2. \A b \in Agents : InStep(b)'
    BY InStepStep
  <2> QED BY <2>1, <2>2 DEF SequentialInv
<1> QED BY <1>1, SequentialInit, Invariance, PTL DEF Spec

-----------------------------------------------------------------------------
(* What follows from it. *)

\* A command goes on by a step of its own.
LEMMA OwnStep ==
  ASSUME Alone, IInv, SequentialInv, [Next]_vars, NEW a \in Agents, pc'[a] # pc[a]
  PROVE  CommandStep(a)
<1>1. TypeOK /\ AtMostOneRuns
  BY DEF IInv, SequentialInv
<1>2. ~ElsewhereStep
  BY DEF ElsewhereStep
<1>3. PICK b \in Agents : CommandStep(b)
  BY <1>2, StepsAlone
<1> QED BY <1>1, <1>3, OthersRest

\* An apply that has reported success has left nothing to add.
THEOREM AppliesConverge ==
  ASSUME Alone
  PROVE  Spec => AppliedMeansConverged
<1>1. IInv /\ SequentialInv /\ [Next]_vars =>
        [\A a \in Agents : pc[a] = "applying" /\ pc'[a] = "applied" =>
           Missing(file', manifest') = {}]_vars
  <2> SUFFICES ASSUME IInv, SequentialInv, [Next]_vars, NEW a \in Agents,
                      pc[a] = "applying", pc'[a] = "applied"
               PROVE  Missing(file', manifest') = {}
    OBVIOUS
  <2>1. Finish(a)
    BY OwnStep
    DEF CommandStep, StartStep, AgentStep, Interrupted, PlanShow, PlanSubmit, StartApply,
        StartRollback, NoRollback, Verify, Refuse, Reconcile, DryRun, Read, ReadFails, Backup,
        Write, AddFails, FinishFails, RestoreEntry, Restored, RollEntry, RolledBack, CanStart,
        Goes, IInv, TypeOK
  <2>2. Missing(file, manifest) = {}
    BY <2>1 DEF Finish, SequentialInv, InStep, InStepWriting
  <2> QED BY <2>1, <2>2 DEF Finish, worldVars
<1> QED BY <1>1, SequentialInvariance, Invariance, PTL DEF Spec, AppliedMeansConverged

\* The actions an apply carries out are those of the state that was approved.
THEOREM AppliesFromApprovedState ==
  ASSUME Alone
  PROVE  Spec => AppliedFromApprovedState
<1>1. IInv /\ SequentialInv /\ [Next]_vars =>
        [\A a \in Agents : pc[a] = "verified" /\ pc'[a] = "applying" =>
           Collect(file, manifest) = plans[plan[a]].hash]_vars
  BY DEF IInv, SequentialInv, InStep, InStepBefore, VerifiedPlanStands, Applying
<1> QED BY <1>1, SequentialInvariance, Invariance, PTL DEF Spec, AppliedFromApprovedState

\* What an apply adds was shown when its plan was registered.
THEOREM AppliesOnlyWhatWasShown ==
  ASSUME Alone
  PROVE  Spec => AppliesWhatWasShown
<1>1. IInv /\ SequentialInv /\ [Next]_vars =>
        [\A a \in Agents : pc[a] = "applying" /\ pc'[a] = "read" =>
           LET shown == reviewed[plan[a]]
           IN  adding'[a] \in shown.todo /\ data[a] = shown.data]_vars
  <2> SUFFICES ASSUME IInv, SequentialInv, [Next]_vars, NEW a \in Agents,
                      pc[a] = "applying", pc'[a] = "read"
               PROVE  adding'[a] \in reviewed[plan[a]].todo /\ data[a] = reviewed[plan[a]].data
    OBVIOUS
  <2>1. InStepWriting(a) /\ InStepWriting(a)'
    BY InStepStep DEF SequentialInv, InStep
  <2>2. Read(a)
    BY OwnStep
    DEF CommandStep, StartStep, AgentStep, Interrupted, PlanShow, PlanSubmit, StartApply,
        StartRollback, NoRollback, Verify, Refuse, Reconcile, DryRun, ReadFails, Backup,
        Write, AddFails, Finish, FinishFails, RestoreEntry, Restored, RollEntry, RolledBack,
        CanStart, Goes, IInv, TypeOK
  <2> QED BY <2>1, <2>2 DEF Read, InStepWriting, ghostVars
<1> QED BY <1>1, SequentialInvariance, Invariance, PTL DEF Spec, AppliesWhatWasShown

\* A rollback of a plan that made one change restores the file its apply found.
THEOREM SingleChangesRollBack ==
  ASSUME Alone
  PROVE  Spec => RollbackOfOneRestores
<1>1. IInv /\ SequentialInv /\ [Next]_vars =>
        [\A a \in Agents :
           LET refs == backup_manifests[plan[a]] IN
             pc[a] = "rolling" /\ pc'[a] = "rolledback" /\ Len(refs) = 1 /\ refs[1] \notin reused =>
               file = original[plan[a]]]_vars
  <2> SUFFICES ASSUME IInv, SequentialInv, [Next]_vars, NEW a \in Agents,
                      pc[a] = "rolling", pc'[a] = "rolledback",
                      Len(backup_manifests[plan[a]]) = 1,
                      backup_manifests[plan[a]][1] \notin reused
               PROVE  file = original[plan[a]]
    OBVIOUS
  <2>1. saved[a] = <<>>
    BY OwnStep
    DEF CommandStep, StartStep, AgentStep, Interrupted, PlanShow, PlanSubmit, StartApply,
        StartRollback, NoRollback, Verify, Refuse, Reconcile, DryRun, Read, ReadFails, Backup,
        Write, AddFails, Finish, FinishFails, RestoreEntry, Restored, RollEntry, RolledBack,
        CanStart, Goes, IInv, TypeOK
  <2>2. backup_manifests[plan[a]] # saved[a]
    BY <2>1, EmptySeq
  <2> QED BY <2>2 DEF SequentialInv, InStep, InStepRestoring
<1> QED BY <1>1, SequentialInvariance, Invariance, PTL DEF Spec, RollbackOfOneRestores

\* An apply that fails after one change at most leaves the file it found.
THEOREM FailureAfterOneIsUndone ==
  ASSUME Alone
  PROVE  Spec => FailureAfterOneRestores
<1>1. IInv /\ SequentialInv /\ [Next]_vars =>
        [\A a \in Agents :
           /\ pc[a] = "failed" /\ pc'[a] = "restored"
           /\ OneDone(a) /\ before[plan[a]] # Absent /\ reused = {}
           => file = before[plan[a]]]_vars
  <2> SUFFICES ASSUME IInv, SequentialInv, [Next]_vars, NEW a \in Agents,
                      pc[a] = "failed", pc'[a] = "restored",
                      OneDone(a), before[plan[a]] # Absent, reused = {}
               PROVE  file = before[plan[a]]
    OBVIOUS
  <2>1. saved[a] = <<>>
    BY OwnStep
    DEF CommandStep, StartStep, AgentStep, Interrupted, PlanShow, PlanSubmit, StartApply,
        StartRollback, NoRollback, Verify, Refuse, Reconcile, DryRun, Read, ReadFails, Backup,
        Write, AddFails, Finish, FinishFails, RestoreEntry, Restored, RollEntry, RolledBack,
        CanStart, Goes, IInv, TypeOK
  <2> QED BY <2>1 DEF SequentialInv, InStep, InStepRestoring
<1> QED BY <1>1, SequentialInvariance, Invariance, PTL DEF Spec, FailureAfterOneRestores
=============================================================================
