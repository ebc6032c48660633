----------------------------- MODULE ApplyProofs -----------------------------
(***************************************************************************)
(* Apply: whatever runs at the same time and whoever edits the files, an   *)
(* apply only writes with an approval on record, and a backup that a       *)
(* restore may ask for exists.  Every step of the loop is a step of the    *)
(* plan store or leaves it alone, so what is proved of Plans carries over. *)
(***************************************************************************)
EXTENDS Apply, PlansProofs, FiniteSetTheorems

-----------------------------------------------------------------------------
(* Reading the configuration. *)

\* Whatever opencode.json holds, it reads as a configuration.
LEMMA CurrentIsConfig == \A f \in Files : Current(f) \in Configs
BY BlankIsContent DEF Current, EmptyConfig, Configs, Files

\* What is collected is a device state, and so a fingerprint.
LEMMA CollectIsState == \A f \in Files, m \in Commits : Collect(f, m) \in States \cap Hashes
BY CurrentIsConfig, FingerprintsAreHashes DEF Collect, States, Configs

\* What a manifest asks for and the file lacks are ids.
LEMMA MissingAreIds == \A f \in Files, m \in Commits : Missing(f, m) \in SUBSET Ids
BY DesiredIsFunction DEF Missing

\* What a command finds of a file or of a backup is a file.
LEMMA SeenIsFile == ASSUME TypeOK, NEW a \in Agents, NEW f \in Seen(a) PROVE f \in Files
BY DEF Seen, TypeOK, Files

LEMMA BackedIsFile ==
  ASSUME NEW a \in Agents, NEW s, backups[s] \in Files, NEW f \in Backed(a, s)
  PROVE  f \in Files /\ (f = backups[s] \/ f = Broken)
BY DEF Backed, Files

\* Setting one entry of a configuration leaves a configuration.
LEMMA MergeIsConfig ==
  ASSUME NEW c \in Configs, NEW i \in Ids, NEW v \in Catalogs
  PROVE  Merge(c, i, v) \in Configs
BY DEF Merge, Configs

-----------------------------------------------------------------------------
(* The plan store under the loop. *)

\* Every step of the loop is a step of the plan store or leaves it alone.
LEMMA LoopStepsArePlanSteps ==
  ASSUME TypeOK, [Next]_vars
  PROVE  [PlansNext]_planVars
<1>1. ASSUME NEW a \in Agents, NEW p \in PlanIds, PlanSubmit(a, p)
      PROVE  PlansNext
  <2>1. manifest \in Commits /\ \A f \in Seen(a) : Collect(f, manifest) \in Hashes
    BY CollectIsState, SeenIsFile DEF TypeOK
  <2>2. MaxTtl \in 0..MaxTtl /\ Device \in Devices
    BY PlanBounds, FingerprintsAreHashes
  <2> QED BY <1>1, <2>1, <2>2 DEF PlanSubmit, PlansNext
<1>2. ASSUME NEW q \in Approvals, NEW p \in PlanIds, Approve(q, p)
      PROVE  PlansNext
  <2>1. plans[p] \in PlanRows
    BY <1>2 DEF Approve, TypeOK, PlansTypeOK
  <2>2. [plan |-> p, device |-> Device, hash |-> plans[p].hash,
         commit |-> plans[p].commit] \in Bodies
    BY <2>1, FingerprintsAreHashes DEF PlanRows, Bodies
  <2> QED BY <1>2, <2>2 DEF Approve, PlansNext
<1>3. CASE ServerStep
  BY <1>3, PostsAreBodies DEF ServerStep, PlansNext
<1>4. ASSUME NEW a \in Agents, AgentStep(a) \/ StartStep(a) \/ Interrupted(a),
             \A p \in PlanIds : ~PlanSubmit(a, p)
      PROVE  UNCHANGED planVars
  BY <1>4
  DEF AgentStep, StartStep, Interrupted, PlanShow, Verify, Refuse, Reconcile, DryRun, Read,
      ReadFails, Backup, Write, AddFails, Finish, FinishFails, RestoreEntry, Restored,
      RollEntry, RolledBack, StartApply, StartRollback, NoRollback
<1>5. CASE Edit
  BY <1>5 DEF Edit
<1>6. CASE UNCHANGED vars
  BY <1>6 DEF vars
<1> QED
  BY <1>1, <1>2, <1>3, <1>4, <1>5, <1>6 DEF Next

\* What the loop inherits from the plan store.
LEMMA StoreStep ==
  ASSUME IInv, [Next]_vars
  PROVE  /\ PlansInv'
         /\ \A p \in PlanIds : KeepsPlan(p)
         /\ now' \in 0..MaxTime
<1>1. [PlansNext]_planVars
  BY LoopStepsArePlanSteps DEF IInv
<1>2. PlansInv' /\ \A p \in PlanIds : KeepsPlan(p)
  BY <1>1, PlansInvStep, StepKeepsPlans DEF IInv
<1>3. now' = now \/ PlansTick
  BY <1>1
  DEF PlansNext, planVars, CreatePlan, ReceiveApproval, ApprovalStep, CheckApproval,
      CommitApproval, ApprovalFails
<1>4. now' \in 0..MaxTime
  BY <1>3, PlanBounds DEF PlansTick, IInv, RefsAreBackups
<1> QED BY <1>2, <1>4

-----------------------------------------------------------------------------
(* The invariant, part by part. *)

\* A device on which nothing was done yet is in order.
LEMMA InvInit == Init => IInv
<1> SUFFICES ASSUME Init PROVE IInv
  OBVIOUS
<1>1. PlansInv
  BY PlansInvInit DEF Init
<1>2. TypeOK
  BY <1>1, InitialFilesAreFiles
  DEF Init, TypeOK, PlansInv, PcValues, Applying, Ended, Refs
<1>3. VerifiedPlanStands /\ JobsAreFilledIn
  BY DEF Init, VerifiedPlanStands, JobsAreFilledIn, Applying
<1>4. RefsAreBackups
  BY PlanBounds DEF Init, PlansInit, RefsAreBackups, Kept
<1> QED BY <1>1, <1>2, <1>3, <1>4 DEF IInv

\* An agent that has passed its checks keeps the plan it checked.
LEMMA StandsStep == IInv /\ [Next]_vars => VerifiedPlanStands'
<1> SUFFICES ASSUME IInv, [Next]_vars, NEW b \in Agents, pc'[b] \in Applying
             PROVE  /\ plans'[plan'[b]] # None
                    /\ plans'[plan'[b]].device = Device
                    /\ plans'[plan'[b]].approved
                    /\ plans'[plan'[b]].hash = state'[b]
                    /\ plans'[plan'[b]].commit = state'[b].manifest
                    /\ at'[b] < plans'[plan'[b]].expires
  BY DEF VerifiedPlanStands
<1> DEFINE Job == UNCHANGED <<plan[b], state[b]>>
<1>1. \A p \in PlanIds : KeepsPlan(p)
  BY StoreStep
<1>2. CASE pc[b] \in Applying /\ Job /\ at'[b] = at[b]
  BY <1>1, <1>2 DEF IInv, JobsAreFilledIn, VerifiedPlanStands, KeepsPlan
<1>3. CASE Verify(b)
  <2>1. plan[b] \in PlanIds /\ Job /\ plans' = plans /\ at'[b] = now
    BY <1>3 DEF Verify, IInv, TypeOK, JobsAreFilledIn, planVars
  <2>2. Applicable(plans[plan[b]], state[b])
    BY <1>3 DEF Verify
  <2>3. plans[plan[b]] \in PlanRows /\ now \in Nat
    BY <2>1, <2>2 DEF Applicable, IInv, TypeOK, PlansTypeOK
  <2> QED BY <2>1, <2>2, <2>3 DEF Applicable, PlanRows
<1>4. CASE ~Verify(b)
  <2>1. pc[b] \in Applying /\ Job /\ at'[b] = at[b]
    <3> USE DEF IInv, TypeOK, Applying, Goes, CanStart
    <3>1. ASSUME NEW a \in Agents, StartStep(a)
          PROVE  pc[b] \in Applying /\ Job /\ at'[b] = at[b]
      BY <3>1 DEF StartStep, PlanShow, StartApply, StartRollback, NoRollback, jobVars
    <3>2. ASSUME NEW a \in Agents, AgentStep(a)
          PROVE  pc[b] \in Applying /\ Job /\ at'[b] = at[b]
      BY <3>2, <1>4
      DEF AgentStep, PlanSubmit, Verify, Refuse, Reconcile, DryRun, Read, ReadFails, Backup,
          Write, AddFails, Finish, FinishFails, RestoreEntry, Restored, RollEntry, RolledBack,
          jobVars
    <3>3. ASSUME NEW a \in Agents, Interrupted(a)
          PROVE  pc[b] \in Applying /\ Job /\ at'[b] = at[b]
      BY <3>3 DEF Interrupted, jobVars
    <3>4. CASE UNCHANGED <<pc, jobVars>>
      BY <3>4 DEF jobVars
    <3>5. ASSUME (\E q \in Approvals, p \in PlanIds : Approve(q, p)) \/ ServerStep
                 \/ Edit \/ UNCHANGED vars
          PROVE  UNCHANGED <<pc, jobVars>>
      BY <3>5 DEF Approve, ServerStep, Edit, vars
    <3> QED BY <3>1, <3>2, <3>3, <3>4, <3>5 DEF Next
  <2> QED BY <2>1, <1>2
<1> QED BY <1>3, <1>4

\* No step takes from a command what it is about to use.
LEMMA JobsStep == IInv /\ [Next]_vars => JobsAreFilledIn'
<1> DEFINE Job(b) ==
      /\ pc[b] \in Applying \cup {"collected"} => plan[b] \in PlanIds /\ state[b] \in States
      /\ pc[b] \in {"shown", "applying", "read", "saved"} => data[b] \in Catalogs
      /\ pc[b] \in {"read", "saved"} => buf[b] \in Configs /\ adding[b] \in Ids
<1> SUFFICES ASSUME IInv, [Next]_vars, NEW b \in Agents
             PROVE  Job(b)'
  BY DEF JobsAreFilledIn
<1>1. Job(b)
  BY DEF IInv, JobsAreFilledIn
<1>2. CASE UNCHANGED <<pc[b], plan[b], state[b], data[b], buf[b], adding[b]>>
  BY <1>1, <1>2
<1>3. ASSUME NEW a \in Agents, StartStep(a)
      PROVE  Job(b)'
  <2>1. catalog \in Catalogs /\ \A f \in Seen(a) : Collect(f, manifest) \in States
    BY CollectIsState, SeenIsFile DEF IInv, TypeOK
  <2> QED
    BY <1>1, <1>3, <2>1
    DEF StartStep, PlanShow, StartApply, StartRollback, NoRollback, IInv, TypeOK, Applying,
        Goes, CanStart, jobVars
<1>4. ASSUME NEW a \in Agents, Read(a)
      PROVE  Job(b)'
  <2>1. PICK i \in todo[a] : /\ buf' = [buf EXCEPT ![a] = Merge(Current(file), i, data[a])]
                             /\ adding' = [adding EXCEPT ![a] = i]
    BY <1>4 DEF Read
  <2>2. data[a] \in Catalogs /\ i \in Ids
    BY <1>4, <2>1 DEF Read, IInv, TypeOK, JobsAreFilledIn
  <2>3. Merge(Current(file), i, data[a]) \in Configs
    BY <2>2, CurrentIsConfig, MergeIsConfig DEF IInv, TypeOK
  <2> QED
    BY <1>1, <1>4, <2>1, <2>2, <2>3 DEF Read, IInv, TypeOK, Applying, Goes
<1>5. ASSUME NEW a \in Agents, AgentStep(a), ~Read(a)
      PROVE  Job(b)'
  BY <1>1, <1>5
  DEF AgentStep, PlanSubmit, Verify, Refuse, Reconcile, DryRun, ReadFails, Backup, Write,
      AddFails, Finish, FinishFails, RestoreEntry, Restored, RollEntry, RolledBack, IInv,
      TypeOK, Applying, Goes, jobVars, worldVars
<1>6. ASSUME NEW a \in Agents, Interrupted(a)
      PROVE  Job(b)'
  BY <1>1, <1>6 DEF Interrupted, IInv, TypeOK, Applying, Goes, jobVars, Ended
<1>7. ASSUME (\E q \in Approvals, p \in PlanIds : Approve(q, p)) \/ ServerStep
             \/ Edit \/ UNCHANGED vars
      PROVE  UNCHANGED <<pc, jobVars>>
  BY <1>7 DEF Approve, ServerStep, Edit, vars
<1>8. CASE UNCHANGED <<pc, jobVars>>
  BY <1>2, <1>8 DEF jobVars
<1> QED BY <1>3, <1>4, <1>5, <1>6, <1>7, <1>8 DEF Next

-----------------------------------------------------------------------------
(* Backups. *)

\* A restore list stays good as long as backups only turn into other backups.
LEMMA KeptGrows ==
  ASSUME NEW refs \in Seq(Refs), NEW dir, NEW dirNext, Kept(refs, dir),
         \A s \in 0..MaxTime : dir[s] \in Files => dirNext[s] \in Files
  PROVE  Kept(refs, dirNext)
BY DEF Kept

\* Restoring an entry leaves a list of backups that exist.
LEMMA KeptTail ==
  ASSUME NEW refs \in Seq(Refs), NEW dir, Kept(refs, dir), refs # <<>>
  PROVE  Tail(refs) \in Seq(Refs) /\ Kept(Tail(refs), dir)
BY DEF Kept

\* An entry whose backup exists can be added to such a list.
LEMMA KeptAppend ==
  ASSUME NEW refs \in Seq(Refs), NEW r \in Refs, NEW dir, Kept(refs, dir), Kept(<<r>>, dir)
  PROVE  Append(refs, r) \in Seq(Refs) /\ Kept(Append(refs, r), dir)
<1>1. r # NoBackup => r \in 0..MaxTime /\ dir[r] \in Files
  <2>1. Len(<<r>>) = 1 /\ <<r>>[1] = r
    OBVIOUS
  <2> QED BY <2>1 DEF Kept
<1> QED BY <1>1 DEF Kept

\* A copy cut short still leaves a file where there was one.
LEMMA CutShortKeeps ==
  ASSUME TypeOK, NEW a \in Agents, NEW dir \in CutShort(a)
  PROVE  /\ dir \in [0..MaxTime -> Files \cup {None}]
         /\ \A s \in 0..MaxTime : backups[s] \in Files => dir[s] \in Files
BY DEF CutShort, TypeOK, Files

\* No step leaves a restore without the backup it will ask for.
LEMMA RefsStep == IInv /\ [Next]_vars => RefsAreBackups'
<1> SUFFICES ASSUME IInv, [Next]_vars PROVE RefsAreBackups'
  OBVIOUS
<1>1. now' \in 0..MaxTime
  BY StoreStep
<1>2. TypeOK /\ RefsAreBackups
  BY DEF IInv
<1>3. Kept(<<>>, backups) /\ \A a \in Agents : saved[a] \in Seq(Refs)
  BY <1>2 DEF Kept, TypeOK
<1>4. ASSUME NEW a \in Agents, Backup(a)
      PROVE  RefsAreBackups'
  <2>0. PICK f \in Seen(a) :
          /\ ref' = [ref EXCEPT ![a] = IF f = Absent THEN NoBackup ELSE now]
          /\ backups' = IF f = Absent THEN backups ELSE [backups EXCEPT ![now] = f]
    BY <1>4 DEF Backup
  <2>1. now \in 0..MaxTime /\ f \in Files /\ backups \in [0..MaxTime -> Files \cup {None}]
    BY <1>2, SeenIsFile DEF RefsAreBackups, TypeOK
  <2>2. \A s \in 0..MaxTime : backups[s] \in Files => backups'[s] \in Files
    BY <2>0, <2>1
  <2>3. \A refs \in Seq(Refs) : Kept(refs, backups) => Kept(refs, backups')
    BY <2>2, KeptGrows
  <2>4. Kept(<<ref'[a]>>, backups')
    <3>1. ref'[a] = NoBackup \/ (ref'[a] = now /\ backups'[now] = f)
      BY <1>2, <2>0, <2>1 DEF TypeOK
    <3>2. Len(<<ref'[a]>>) = 1 /\ <<ref'[a]>>[1] = ref'[a]
      OBVIOUS
    <3> QED BY <3>1, <3>2, <2>1 DEF Kept
  <2>5. /\ UNCHANGED <<saved, backup_manifests>>
        /\ \A b \in Agents : b # a => pc'[b] = pc[b] /\ ref'[b] = ref[b]
    BY <1>2, <1>4 DEF Backup, Goes, TypeOK
  <2>6. \A b \in Agents : <<ref[b]>> \in Seq(Refs)
    BY <1>2 DEF TypeOK
  <2>7. \A p \in PlanIds : backup_manifests[p] # None => backup_manifests[p] \in Seq(Refs)
    BY <1>2 DEF TypeOK
  <2> QED BY <1>1, <1>2, <1>3, <2>3, <2>4, <2>5, <2>6, <2>7 DEF RefsAreBackups
<1>5. ASSUME NEW a \in Agents, Write(a)
      PROVE  RefsAreBackups'
  <2>1. Kept(Append(saved[a], ref[a]), backups)
    BY <1>2, <1>3, <1>5, KeptAppend DEF Write, RefsAreBackups, TypeOK
  <2> QED BY <1>1, <1>2, <1>5, <2>1 DEF Write, Goes, RefsAreBackups, TypeOK, storeVars
<1>6. ASSUME NEW a \in Agents, Finish(a) \/ FinishFails(a)
      PROVE  RefsAreBackups'
  <2>1. /\ Kept(saved[a], backups) /\ UNCHANGED <<saved, ref, backups>>
        /\ \A p \in PlanIds : backup_manifests'[p] \in {backup_manifests[p], saved[a], <<>>}
        /\ \A b \in Agents : pc'[b] = "saved" => pc[b] = "saved"
    BY <1>2, <1>6 DEF Finish, FinishFails, Goes, RefsAreBackups, TypeOK, jobVars
  <2> QED BY <1>1, <1>2, <1>3, <2>1 DEF RefsAreBackups
<1>7. ASSUME NEW a \in Agents, RestoreEntry(a) \/ RollEntry(a)
      PROVE  RefsAreBackups'
  <2>1. Kept(Tail(saved[a]), backups)
    BY <1>2, <1>3, <1>7, KeptTail DEF RestoreEntry, RollEntry, RefsAreBackups
  <2> QED
    BY <1>1, <1>2, <1>7, <2>1
    DEF RestoreEntry, RollEntry, RefsAreBackups, TypeOK, jobVars, storeVars
<1>8. ASSUME NEW a \in Agents, NEW p \in PlanIds, StartRollback(a, p)
      PROVE  RefsAreBackups'
  <2>1. /\ Kept(backup_manifests[p], backups)
        /\ \A b \in Agents : saved'[b] = saved[b] \/ saved'[b] = backup_manifests[p]
        /\ \A b \in Agents : pc'[b] = "saved" => pc[b] = "saved"
    BY <1>2, <1>8 DEF StartRollback, Goes, RefsAreBackups, TypeOK
  <2> QED BY <1>1, <1>2, <1>8, <2>1 DEF StartRollback, RefsAreBackups, storeVars
<1>9. CASE UNCHANGED <<storeVars, saved, ref>> /\ \A a \in Agents : pc'[a] = "saved" => pc[a] = "saved"
  BY <1>1, <1>2, <1>9 DEF RefsAreBackups, storeVars
<1>10. ASSUME NEW a \in Agents, AgentStep(a) \/ StartStep(a) \/ Interrupted(a),
              ~(Backup(a) \/ Write(a) \/ Finish(a) \/ FinishFails(a) \/ RestoreEntry(a)
                \/ RollEntry(a) \/ AddFails(a) \/ Interrupted(a)
                \/ \E p \in PlanIds : StartRollback(a, p))
       PROVE  UNCHANGED <<storeVars, saved, ref>> /\ \A b \in Agents : pc'[b] = "saved" => pc[b] = "saved"
  BY <1>2, <1>10
  DEF AgentStep, StartStep, PlanShow, PlanSubmit, Verify, Refuse, Reconcile,
      DryRun, Read, ReadFails, Restored, RolledBack, StartApply, NoRollback, Goes,
      TypeOK, jobVars
<1>11. ASSUME (\E q \in Approvals, p \in PlanIds : Approve(q, p)) \/ ServerStep
              \/ Edit \/ UNCHANGED vars
       PROVE  UNCHANGED <<storeVars, saved, ref, pc>>
  BY <1>11 DEF Approve, ServerStep, Edit, vars, jobVars
<1>12. ASSUME NEW a \in Agents, AddFails(a) \/ Interrupted(a)
       PROVE  RefsAreBackups'
  <2>1. /\ UNCHANGED <<backup_manifests, saved, ref>>
        /\ backups' \in CutShort(a)
        /\ \A b \in Agents : pc'[b] = "saved" => pc[b] = "saved"
    BY <1>2, <1>12 DEF AddFails, Interrupted, Goes, TypeOK, jobVars
  <2>2. \A refs \in Seq(Refs) : Kept(refs, backups) => Kept(refs, backups')
    BY <1>2, <2>1, CutShortKeeps, KeptGrows
  <2>3. \A b \in Agents : <<ref[b]>> \in Seq(Refs)
    BY <1>2 DEF TypeOK
  <2>4. \A p \in PlanIds : backup_manifests[p] # None => backup_manifests[p] \in Seq(Refs)
    BY <1>2 DEF TypeOK
  <2> QED BY <1>1, <1>2, <1>3, <2>1, <2>2, <2>3, <2>4 DEF RefsAreBackups
<1> QED
  BY <1>4, <1>5, <1>6, <1>7, <1>8, <1>9, <1>10, <1>11, <1>12 DEF Next

-----------------------------------------------------------------------------
(* Types, and the invariant as a whole. *)

\* Names of backups are seconds that have passed.
LEMMA NamesAreSeconds ==
  ASSUME IInv, NEW copied \in BOOLEAN, Names(copied)
  PROVE  reused' \subseteq 0..MaxTime
BY DEF Names, IInv, TypeOK, RefsAreBackups

\* Every step keeps every variable in its type.
LEMMA TypeStep == IInv /\ [Next]_vars => TypeOK'
<1> SUFFICES ASSUME IInv, [Next]_vars PROVE TypeOK'
  OBVIOUS
<1>1. PlansTypeOK'
  BY StoreStep DEF PlansInv
<1>2. TypeOK
  BY DEF IInv
<1> USE DEF PcValues, Applying, Ended
<1>3. ASSUME NEW a \in Agents, StartStep(a)
      PROVE  TypeOK'
  <2>1. /\ catalog \in Catalogs
        /\ \A f \in Seen(a) : Missing(f, manifest) \in SUBSET Ids /\ Collect(f, manifest) \in States
    BY <1>2, SeenIsFile, MissingAreIds, CollectIsState DEF TypeOK
  <2>2. CASE PlanShow(a)
    BY <1>1, <1>2, <2>1, <2>2 DEF PlanShow, Goes, TypeOK, worldVars, storeVars, ghostVars
  <2>3. ASSUME NEW p \in PlanIds, StartApply(a, p)
        PROVE  TypeOK'
    BY <1>1, <1>2, <2>1, <2>3 DEF StartApply, Goes, TypeOK, worldVars, storeVars, ghostVars
  <2>4. ASSUME NEW p \in PlanIds, StartRollback(a, p)
        PROVE  TypeOK'
    BY <1>1, <1>2, <2>4 DEF StartRollback, Goes, TypeOK, worldVars, storeVars, ghostVars
  <2>5. ASSUME NEW p \in PlanIds, NoRollback(a, p)
        PROVE  TypeOK'
    BY <1>1, <1>2, <2>5 DEF NoRollback, Goes, TypeOK, worldVars, storeVars, jobVars, ghostVars
  <2> QED BY <1>3, <2>2, <2>3, <2>4, <2>5 DEF StartStep
<1>4. ASSUME NEW a \in Agents, NEW p \in PlanIds, PlanSubmit(a, p)
      PROVE  TypeOK'
  <2>1. [todo |-> todo[a], data |-> data[a]] \in [todo : SUBSET Ids, data : Catalogs]
    BY <1>2, <1>4 DEF PlanSubmit, TypeOK, IInv, JobsAreFilledIn
  <2> QED
    BY <1>1, <1>2, <1>4, <2>1 DEF PlanSubmit, Goes, TypeOK, worldVars, storeVars, jobVars
<1>5. ASSUME NEW a \in Agents, Verify(a)
      PROVE  TypeOK'
  <2>1. now \in Nat
    BY <1>2 DEF TypeOK, PlansTypeOK
  <2>2. pc' \in [Agents -> PcValues] /\ at' \in [Agents -> Nat]
    BY <1>2, <1>5, <2>1 DEF Verify, Goes, TypeOK
  <2> QED
    BY <1>1, <1>2, <1>5, <2>2 DEF Verify, TypeOK, worldVars, storeVars, ghostVars
<1>6. ASSUME NEW a \in Agents,
              Refuse(a) \/ DryRun(a) \/ ReadFails(a) \/ Restored(a) \/ RolledBack(a)
       PROVE  TypeOK'
  <2>1. pc' \in [Agents -> PcValues]
    BY <1>2, <1>6 DEF Refuse, DryRun, ReadFails, Restored, RolledBack, Goes, TypeOK
  <2>2. UNCHANGED <<file, worldVars, storeVars, jobVars, saved, ghostVars>>
    BY <1>6 DEF Refuse, DryRun, ReadFails, Restored, RolledBack
  <2> QED
    BY <1>1, <1>2, <2>1, <2>2 DEF TypeOK, worldVars, storeVars, jobVars, ghostVars
<1>7. ASSUME NEW a \in Agents, Reconcile(a)
      PROVE  TypeOK'
  <2>1. \A f \in Seen(a) : Missing(f, manifest) \in SUBSET Ids
    BY <1>2, SeenIsFile, MissingAreIds DEF TypeOK
  <2> QED
    BY <1>1, <1>2, <1>7, <2>1 DEF Reconcile, Goes, TypeOK, worldVars, storeVars, ghostVars
<1>8. ASSUME NEW a \in Agents, Read(a)
      PROVE  TypeOK'
  <2>1. PICK i \in todo[a] : /\ buf' = [buf EXCEPT ![a] = Merge(Current(file), i, data[a])]
                             /\ adding' = [adding EXCEPT ![a] = i]
    BY <1>8 DEF Read
  <2>2. i \in Ids /\ data[a] \in Catalogs
    BY <1>2, <1>8, <2>1 DEF Read, IInv, TypeOK, JobsAreFilledIn
  <2>3. Merge(Current(file), i, data[a]) \in Configs
    BY <1>2, <2>2, CurrentIsConfig, MergeIsConfig DEF TypeOK
  <2> QED
    BY <1>1, <1>2, <1>8, <2>1, <2>2, <2>3
    DEF Read, Goes, TypeOK, worldVars, storeVars, ghostVars
<1>9. ASSUME NEW a \in Agents, Backup(a)
      PROVE  TypeOK'
  <2>1. now \in Nat
    BY <1>2 DEF TypeOK, PlansTypeOK
  <2>2. /\ ref' \in [Agents -> Refs]
        /\ backups' \in [0..MaxTime -> Files \cup {None}]
    <3>1. PICK f \in Seen(a) :
            /\ ref' = [ref EXCEPT ![a] = IF f = Absent THEN NoBackup ELSE now]
            /\ backups' = IF f = Absent THEN backups ELSE [backups EXCEPT ![now] = f]
      BY <1>9 DEF Backup
    <3>2. f \in Files
      BY <1>2, SeenIsFile
    <3> QED BY <1>2, <2>1, <3>1, <3>2 DEF TypeOK, Refs
  <2>3. reused' \subseteq 0..MaxTime
    BY <1>9, NamesAreSeconds DEF Backup
  <2> QED
    BY <1>1, <1>2, <1>9, <2>2, <2>3 DEF Backup, Goes, TypeOK, worldVars
<1>10. ASSUME NEW a \in Agents, Write(a)
      PROVE  TypeOK'
  <2>1. file' \in Files /\ Append(saved[a], ref[a]) \in Seq(Refs)
    BY <1>2, <1>10 DEF Write, Files, IInv, TypeOK, JobsAreFilledIn
  <2> QED
    BY <1>1, <1>2, <1>10, <2>1 DEF Write, Goes, TypeOK, worldVars, storeVars, ghostVars
<1>11. ASSUME NEW a \in Agents, Finish(a) \/ FinishFails(a)
       PROVE  TypeOK'
  <2>1. pc' \in [Agents -> PcValues]
    BY <1>2, <1>11 DEF Finish, FinishFails, Goes, TypeOK
  <2>2. backup_manifests' \in [PlanIds -> Seq(Refs) \cup {None}]
    <3>1. saved[a] \in Seq(Refs) /\ <<>> \in Seq(Refs) /\ plan[a] \in PlanIds
      BY <1>2, <1>11 DEF Finish, FinishFails, TypeOK, IInv, JobsAreFilledIn
    <3> QED BY <1>2, <1>11, <3>1 DEF Finish, FinishFails, TypeOK
  <2>3. UNCHANGED <<file, worldVars, backups, jobVars, saved, before, reviewed, reused>>
    BY <1>11 DEF Finish, FinishFails, ghostVars
  <2>4. original' \in [PlanIds -> Files \cup {None}]
    <3>1. plan[a] \in PlanIds
      BY <1>11 DEF Finish, FinishFails, IInv, JobsAreFilledIn, Applying
    <3> QED BY <1>2, <1>11, <3>1 DEF Finish, FinishFails, TypeOK, ghostVars
  <2> QED
    BY <1>1, <1>2, <2>1, <2>2, <2>3, <2>4 DEF TypeOK, worldVars, jobVars
<1>12. ASSUME NEW a \in Agents, RestoreEntry(a) \/ RollEntry(a)
       PROVE  TypeOK'
  <2>1. saved[a] \in Seq(Refs) /\ saved[a] # <<>> /\ Kept(saved[a], backups)
    BY <1>2, <1>12 DEF RestoreEntry, RollEntry, TypeOK, IInv, RefsAreBackups
  <2>2. Head(saved[a]) # NoBackup => Backed(a, Head(saved[a])) \subseteq Files
    BY <2>1, BackedIsFile DEF Kept
  <2>3. file' \in Files /\ Tail(saved[a]) \in Seq(Refs)
    BY <1>2, <1>12, <2>1, <2>2 DEF RestoreEntry, RollEntry, TypeOK, Files
  <2> QED
    BY <1>1, <1>2, <1>12, <2>1, <2>3
    DEF RestoreEntry, RollEntry, TypeOK, worldVars, storeVars, jobVars, ghostVars
<1>13. ASSUME NEW a \in Agents, AddFails(a) \/ Interrupted(a)
       PROVE  TypeOK'
  <2>1. file' \in Files
    BY <1>2, <1>13 DEF AddFails, Interrupted, TypeOK, Files
  <2>2. backups' \in [0..MaxTime -> Files \cup {None}]
    BY <1>2, <1>13, CutShortKeeps DEF AddFails, Interrupted
  <2>3. pc' \in [Agents -> PcValues]
    BY <1>2, <1>13 DEF AddFails, Interrupted, Goes, TypeOK
  <2>4. reused' \subseteq 0..MaxTime
    BY <1>13, NamesAreSeconds DEF AddFails, Interrupted
  <2>5. UNCHANGED <<worldVars, backup_manifests, jobVars, saved, before, reviewed, original>>
    BY <1>13 DEF AddFails, Interrupted
  <2> QED
    BY <1>1, <1>2, <2>1, <2>2, <2>3, <2>4, <2>5 DEF TypeOK, worldVars, jobVars
<1>14. ASSUME (\E q \in Approvals, p \in PlanIds : Approve(q, p)) \/ ServerStep
              \/ UNCHANGED vars
       PROVE  UNCHANGED <<file, worldVars, storeVars, pc, jobVars, saved, ghostVars>>
  BY <1>14 DEF Approve, ServerStep, vars
<1>15. CASE UNCHANGED <<file, worldVars, storeVars, pc, jobVars, saved, ghostVars>>
  BY <1>1, <1>2, <1>15 DEF TypeOK, worldVars, storeVars, jobVars, ghostVars
<1>16. CASE Edit
  BY <1>1, <1>2, <1>16 DEF Edit, TypeOK, storeVars, jobVars, ghostVars
<1> QED
  BY <1>3, <1>4, <1>5, <1>6, <1>7, <1>8, <1>9, <1>10, <1>11, <1>12, <1>13, <1>14, <1>15,
     <1>16 DEF Next, AgentStep

\* No step of the loop disturbs its invariant.
LEMMA InvStep == IInv /\ [Next]_vars => IInv'
BY StoreStep, TypeStep, StandsStep, JobsStep, RefsStep DEF IInv

\* The inductive invariant holds, however many commands run at once and
\* whatever is edited meanwhile.
THEOREM Invariance == Spec => []IInv
BY InvInit, InvStep, PTL DEF Spec

\* While an apply may write, an operator's approval is on record for the very
\* state it collected, and the plan was alive when it was checked.
THEOREM ApplyNeedsApproval == Spec => []ApplyIsApproved
<1>1. IInv => ApplyIsApproved
  <2> SUFFICES ASSUME IInv, NEW a \in Agents, pc[a] \in Applying
               PROVE  /\ plans[plan[a]] # None
                      /\ at[a] < plans[plan[a]].expires
                      /\ \E q \in plan_approvals :
                           body[q] = [plan |-> plan[a], device |-> Device,
                                      hash |-> state[a], commit |-> state[a].manifest]
    BY DEF ApplyIsApproved
  <2>1. plan[a] \in PlanIds /\ state[a] \in States
    BY DEF IInv, JobsAreFilledIn
  <2>2. /\ plans[plan[a]] # None
        /\ at[a] < plans[plan[a]].expires
        /\ plans[plan[a]].approved
    BY DEF IInv, VerifiedPlanStands
  <2>3. PICK q \in plan_approvals : body[q].plan = plan[a]
    BY <2>1, <2>2 DEF IInv, PlansInv, ApprovalsMatchPlans
  <2>4. /\ body[q] \in Bodies
        /\ body[q].device = Device
        /\ body[q].hash = state[a]
        /\ body[q].commit = state[a].manifest
    BY <2>3 DEF IInv, PlansInv, ApprovalsMatchPlans, RecordedIsApproved, VerifiedPlanStands
  <2>5. body[q] = [plan |-> plan[a], device |-> Device,
                   hash |-> state[a], commit |-> state[a].manifest]
    BY <2>3, <2>4 DEF Bodies
  <2> QED BY <2>2, <2>5
<1> QED BY <1>1, Invariance, PTL

\* A restore never asks for a backup that was not made.
THEOREM BackupsAreThere == Spec => []BackupsExist
<1>1. IInv => BackupsExist
  BY SentinelsAreFresh
  DEF IInv, TypeOK, Refs, RefsAreBackups, Kept, BackupsExist
<1> QED BY <1>1, Invariance, PTL

\* The loop drives the plan store as Plans specifies it: everything proved of
\* PlansSpec holds under the loop.
THEOREM LoopUsesPlanStore == Spec => PlansSpec
<1>1. Init => PlansInit
  BY DEF Init
<1>2. IInv /\ [Next]_vars => [PlansNext]_planVars
  BY LoopStepsArePlanSteps DEF IInv
<1> QED BY <1>1, <1>2, Invariance, PTL DEF Spec, PlansSpec
-----------------------------------------------------------------------------
(* The user's content. *)

\* What holds of two lists of entries holds of both together.
LEMMA OfOneEntry ==
  ASSUME NEW refs \in Seq(Refs), NEW r \in Refs, NEW w, NEW u,
         Recalls(refs, w, u), Recalls(<<r>>, w, u)
  PROVE  Recalls(Append(refs, r), w, u)
<1>1. r = NoBackup => w = Blank /\ u = Blank
  <2>1. Len(<<r>>) = 1 /\ <<r>>[1] = r
    OBVIOUS
  <2> QED BY <2>1 DEF Recalls
<1> QED BY <1>1 DEF Recalls

\* Restoring the first entry leaves fewer of them.
LEMMA OfFewerEntries ==
  ASSUME NEW refs \in Seq(Refs), NEW w, NEW u, Recalls(refs, w, u), refs # <<>>
  PROVE  /\ Recalls(Tail(refs), w, u)
         /\ Head(refs) = NoBackup => w = Blank /\ u = Blank
<1>1. /\ \A k \in 1..Len(Tail(refs)) : k + 1 \in 1..Len(refs) /\ Tail(refs)[k] = refs[k + 1]
      /\ 1 \in 1..Len(refs) /\ Head(refs) = refs[1]
  OBVIOUS
<1> QED BY <1>1 DEF Recalls

\* Merging an entry into what a file reads as keeps the user's content.
LEMMA MergeKeepsContent ==
  ASSUME NEW f \in Files, f # Broken, NEW i \in Ids, NEW v \in Catalogs, NEW w, NEW u,
         Holds(f, w, u)
  PROVE  Holds(Merge(Current(f), i, v), w, u)
<1>1. Current(f) \in Configs /\ Merge(Current(f), i, v) \in Configs
  BY CurrentIsConfig, MergeIsConfig
<1>2. Current(f).watched = w /\ Current(f).rest = u
  BY SentinelsAreFresh DEF Current, EmptyConfig, Files, Holds
<1>3. Merge(Current(f), i, v).watched = w /\ Merge(Current(f), i, v).rest = u
  BY <1>1, <1>2 DEF Merge, Configs
<1>4. Merge(Current(f), i, v) # Absent
  BY <1>1, SentinelsAreFresh
<1> QED BY <1>3, <1>4 DEF Holds

\* At first the file is the only copy.
LEMMA ContentInit == Init => OneContent
<1> SUFFICES ASSUME Init PROVE IsContent(Current(initial).watched, Current(initial).rest)
  BY DEF OneContent
<1> DEFINE w == Current(initial).watched
           u == Current(initial).rest
<1>1. Holds(file, w, u)
  BY SentinelsAreFresh DEF Init, Current, EmptyConfig, Holds
<1>2. \A a \in Agents : Recalls(saved[a], w, u)
  BY DEF Init, Recalls
<1> QED BY <1>1, <1>2 DEF Init, IsContent

\* What a command finds is what is there, or no JSON.
LEMMA SeenHolds ==
  ASSUME NEW a \in Agents, NEW f \in Seen(a), NEW w, NEW u, Holds(file, w, u)
  PROVE  Holds(f, w, u)
BY SentinelsAreFresh DEF Seen, Holds

\* As long as nobody edits, no step brings in other content.
LEMMA ContentStep ==
  ASSUME IInv, [Next]_vars, edits' = 0, NEW w, NEW u, IsContent(w, u)
  PROVE  IsContent(w, u)'
<1>1. TypeOK /\ JobsAreFilledIn /\ RefsAreBackups
  BY DEF IInv
<1>2. \A s \in 0..MaxTime : backups[s] \in Files => Holds(backups[s], w, u)
  BY SentinelsAreFresh DEF IsContent
<1>3. Holds(Broken, w, u)
  BY SentinelsAreFresh DEF Holds
<1>4. \A b \in Agents : saved[b] \in Seq(Refs)
  BY <1>1 DEF TypeOK
<1> DEFINE InHand(b) == /\ pc[b] \in {"read", "saved"} => Holds(buf[b], w, u)
                        /\ pc[b] = "saved" => Recalls(<<ref[b]>>, w, u)
                        /\ Recalls(saved[b], w, u)
           OnDisk == /\ Holds(file, w, u)
                     /\ \A s \in 0..MaxTime : backups[s] # None => Holds(backups[s], w, u)
                     /\ \A p \in PlanIds : backup_manifests[p] # None =>
                          Recalls(backup_manifests[p], w, u)
<1>5. OnDisk /\ \A b \in Agents : InHand(b)
  BY DEF IsContent
<1>6. ASSUME OnDisk', \A b \in Agents : InHand(b)'
      PROVE  IsContent(w, u)'
  BY <1>6 DEF IsContent
<1> HIDE DEF InHand, OnDisk
<1>7. ASSUME UNCHANGED <<file, storeVars>>
      PROVE  OnDisk'
  BY <1>5, <1>7 DEF OnDisk, storeVars
<1>8. ASSUME NEW b \in Agents, UNCHANGED <<buf[b], ref[b], saved[b]>>,
             pc'[b] \in {"read", "saved"} => pc'[b] = pc[b]
      PROVE  InHand(b)'
  BY <1>5, <1>8 DEF InHand
<1>9. ASSUME NEW a \in Agents, Read(a)
      PROVE  IsContent(w, u)'
  <2>1. PICK i \in todo[a] : buf' = [buf EXCEPT ![a] = Merge(Current(file), i, data[a])]
    BY <1>9 DEF Read
  <2>2. i \in Ids /\ data[a] \in Catalogs /\ file \in Files /\ file # Broken
    BY <1>1, <1>9, <2>1 DEF Read, TypeOK, JobsAreFilledIn
  <2>3. Holds(buf'[a], w, u)
    BY <1>1, <1>5, <2>1, <2>2, MergeKeepsContent DEF OnDisk, TypeOK
  <2>4. InHand(a)'
    BY <1>1, <1>5, <1>9, <2>3 DEF Read, Goes, InHand, TypeOK
  <2>5. \A b \in Agents \ {a} : InHand(b)'
    BY <1>1, <1>8, <1>9, <2>1 DEF Read, Goes, TypeOK
  <2> QED BY <1>6, <1>7, <1>9, <2>4, <2>5 DEF Read
<1>10. ASSUME NEW a \in Agents, Backup(a)
       PROVE  IsContent(w, u)'
  <2>0. PICK f \in Seen(a) :
          /\ ref' = [ref EXCEPT ![a] = IF f = Absent THEN NoBackup ELSE now]
          /\ backups' = IF f = Absent THEN backups ELSE [backups EXCEPT ![now] = f]
          /\ Holds(f, w, u)
    BY <1>5, <1>10, SeenHolds DEF Backup, OnDisk
  <2>1. Recalls(<<ref'[a]>>, w, u)
    <3>1. Len(<<ref'[a]>>) = 1 /\ <<ref'[a]>>[1] = ref'[a]
      OBVIOUS
    <3>2. now \in Nat /\ (ref'[a] = NoBackup => f = Absent)
      BY <1>1, <2>0, SentinelsAreFresh DEF TypeOK, PlansTypeOK
    <3>3. ref'[a] = NoBackup => w = Blank /\ u = Blank
      BY <2>0, <3>2 DEF Holds
    <3> QED BY <3>1, <3>3 DEF Recalls
  <2>2. InHand(a)'
    BY <1>1, <1>5, <1>10, <2>1 DEF Backup, Goes, InHand, TypeOK
  <2>3. \A b \in Agents \ {a} : InHand(b)'
    BY <1>1, <1>8, <1>10 DEF Backup, Goes, TypeOK
  <2>4. OnDisk'
    BY <1>1, <1>5, <1>10, <2>0 DEF Backup, OnDisk, TypeOK
  <2> QED BY <1>6, <2>2, <2>3, <2>4
<1>11. ASSUME NEW a \in Agents, Write(a)
       PROVE  IsContent(w, u)'
  <2>1. Holds(buf[a], w, u) /\ Recalls(<<ref[a]>>, w, u) /\ Recalls(saved[a], w, u)
    BY <1>5, <1>11 DEF Write, InHand
  <2>2. Recalls(Append(saved[a], ref[a]), w, u)
    BY <1>1, <2>1, OfOneEntry DEF TypeOK
  <2>3. InHand(a)'
    BY <1>1, <1>11, <2>2 DEF Write, Goes, InHand, TypeOK
  <2>4. \A b \in Agents \ {a} : InHand(b)'
    BY <1>1, <1>8, <1>11 DEF Write, Goes, TypeOK
  <2>5. OnDisk'
    BY <1>5, <1>11, <2>1 DEF Write, OnDisk, storeVars
  <2> QED BY <1>6, <2>3, <2>4, <2>5
<1>12. ASSUME NEW a \in Agents, RestoreEntry(a) \/ RollEntry(a)
       PROVE  IsContent(w, u)'
  <2>1. saved[a] \in Seq(Refs) /\ saved[a] # <<>> /\ Recalls(saved[a], w, u)
    BY <1>4, <1>5, <1>12 DEF RestoreEntry, RollEntry, InHand
  <2>2. /\ Recalls(Tail(saved[a]), w, u)
        /\ Head(saved[a]) = NoBackup => w = Blank /\ u = Blank
    BY <2>1, OfFewerEntries
  <2>3. Head(saved[a]) # NoBackup => \A f \in Backed(a, Head(saved[a])) : Holds(f, w, u)
    <3>1. 1 \in 1..Len(saved[a]) /\ Head(saved[a]) = saved[a][1]
      BY <2>1
    <3>2. Head(saved[a]) # NoBackup =>
            backups[Head(saved[a])] \in Files /\ Holds(backups[Head(saved[a])], w, u)
      BY <1>1, <1>2, <3>1 DEF RefsAreBackups, Kept
    <3> QED BY <1>3, <3>2, BackedIsFile
  <2>4. Head(saved[a]) = NoBackup => Holds(Absent, w, u)
    BY <2>2, SentinelsAreFresh DEF Holds
  <2>5. OnDisk'
    BY <1>5, <1>12, <2>3, <2>4 DEF RestoreEntry, RollEntry, OnDisk, storeVars
  <2>6. InHand(a)'
    BY <1>1, <1>5, <1>12, <2>2 DEF RestoreEntry, RollEntry, InHand, TypeOK, jobVars
  <2>7. \A b \in Agents \ {a} : InHand(b)'
    BY <1>1, <1>8, <1>12 DEF RestoreEntry, RollEntry, TypeOK, jobVars
  <2> QED BY <1>6, <2>5, <2>6, <2>7
<1>13. ASSUME NEW a \in Agents, NEW p \in PlanIds, StartRollback(a, p)
       PROVE  IsContent(w, u)'
  <2>1. Recalls(backup_manifests[p], w, u)
    BY <1>5, <1>13 DEF StartRollback, OnDisk
  <2>2. InHand(a)'
    BY <1>1, <1>13, <2>1 DEF StartRollback, Goes, InHand, TypeOK
  <2>3. \A b \in Agents \ {a} : InHand(b)'
    BY <1>1, <1>8, <1>13 DEF StartRollback, Goes, TypeOK
  <2> QED BY <1>6, <1>7, <1>13, <2>2, <2>3 DEF StartRollback
<1>14. ASSUME NEW a \in Agents, Finish(a) \/ FinishFails(a)
       PROVE  IsContent(w, u)'
  <2>1. /\ UNCHANGED <<file, backups, buf, ref, saved>>
        /\ \A p \in PlanIds : backup_manifests'[p] \in {backup_manifests[p], saved[a], <<>>}
        /\ \A b \in Agents : pc'[b] \in {"read", "saved"} => pc'[b] = pc[b]
    BY <1>1, <1>14 DEF Finish, FinishFails, Goes, TypeOK, jobVars
  <2>2. OnDisk'
    <3>1. Recalls(saved[a], w, u)
      BY <1>5 DEF InHand
    <3>2. Recalls(<<>>, w, u)
      BY DEF Recalls
    <3> QED BY <1>5, <2>1, <3>1, <3>2 DEF OnDisk
  <2>3. \A b \in Agents : InHand(b)'
    BY <1>8, <2>1
  <2> QED BY <1>6, <2>2, <2>3
<1>15. ASSUME NEW a \in Agents, AddFails(a) \/ Interrupted(a)
       PROVE  IsContent(w, u)'
  <2>1. /\ file' \in {file, Broken} /\ backups' \in CutShort(a)
        /\ UNCHANGED <<backup_manifests, buf, ref, saved>>
        /\ \A b \in Agents : pc'[b] \in {"read", "saved"} => pc'[b] = pc[b]
    BY <1>1, <1>15 DEF AddFails, Interrupted, Goes, TypeOK, jobVars
  <2>2. \A s \in 0..MaxTime : backups'[s] = backups[s] \/ backups'[s] = Broken
    BY <1>1, <2>1 DEF CutShort, TypeOK
  <2>3. OnDisk'
    BY <1>3, <1>5, <2>1, <2>2 DEF OnDisk
  <2>4. \A b \in Agents : InHand(b)'
    BY <1>8, <2>1
  <2> QED BY <1>6, <2>3, <2>4
<1>16. ASSUME NEW a \in Agents, AgentStep(a) \/ StartStep(a) \/ Interrupted(a),
              ~(Read(a) \/ Backup(a) \/ Write(a) \/ Finish(a) \/ FinishFails(a)
                \/ RestoreEntry(a) \/ RollEntry(a) \/ AddFails(a) \/ Interrupted(a)
                \/ \E p \in PlanIds : StartRollback(a, p))
       PROVE  /\ UNCHANGED <<file, storeVars, buf, ref, saved>>
              /\ \A b \in Agents : pc'[b] \in {"read", "saved"} => pc'[b] = pc[b]
  BY <1>1, <1>16
  DEF AgentStep, StartStep, PlanShow, PlanSubmit, Verify, Refuse, Reconcile, DryRun, ReadFails,
      Restored, RolledBack, StartApply, NoRollback, Goes, TypeOK, jobVars
<1>17. ~Edit
  BY <1>1 DEF Edit, TypeOK
<1>18. ASSUME (\E q \in Approvals, p \in PlanIds : Approve(q, p)) \/ ServerStep \/ UNCHANGED vars
       PROVE  UNCHANGED <<file, storeVars, buf, ref, saved, pc>>
  BY <1>18 DEF Approve, ServerStep, vars, jobVars
<1>19. CASE /\ UNCHANGED <<file, storeVars, buf, ref, saved>>
            /\ \A b \in Agents : pc'[b] \in {"read", "saved"} => pc'[b] = pc[b]
  BY <1>6, <1>7, <1>8, <1>19
<1> QED
  BY <1>9, <1>10, <1>11, <1>12, <1>13, <1>14, <1>15, <1>16, <1>17, <1>18, <1>19 DEF Next

\* Nobody undoes an edit, and what was there at first is history.
LEMMA EditsStay ==
  ASSUME IInv, [Next]_vars
  PROVE  initial' = initial /\ edits \in Nat /\ edits' \in Nat /\ edits' >= edits
<1>1. edits \in Nat
  BY DEF IInv, TypeOK
<1>2. ASSUME NEW a \in Agents, StartStep(a) \/ AgentStep(a) \/ Interrupted(a)
      PROVE  UNCHANGED worldVars
  BY <1>2
  DEF StartStep, AgentStep, Interrupted, PlanShow, PlanSubmit, StartApply, StartRollback,
      NoRollback, Verify, Refuse, Reconcile, DryRun, Read, ReadFails, Backup, Write, AddFails,
      Finish, FinishFails, RestoreEntry, Restored, RollEntry, RolledBack
<1>3. ASSUME (\E q \in Approvals, p \in PlanIds : Approve(q, p)) \/ ServerStep \/ UNCHANGED vars
      PROVE  UNCHANGED worldVars
  BY <1>3 DEF Approve, ServerStep, vars
<1>4. ASSUME Edit PROVE initial' = initial /\ edits' = edits + 1
  BY <1>4 DEF Edit
<1> QED BY <1>1, <1>2, <1>3, <1>4 DEF Next, worldVars

\* As long as nobody edits, every copy of opencode.json holds the user's content.
THEOREM ContentStays == Spec => []OneContent
<1>1. IInv /\ OneContent /\ [Next]_vars => OneContent'
  <2> SUFFICES ASSUME IInv, OneContent, [Next]_vars, edits' = 0
               PROVE  IsContent(Current(initial).watched, Current(initial).rest)'
    BY DEF OneContent
  <2>1. edits = 0 /\ initial' = initial
    BY EditsStay
  <2> DEFINE w == Current(initial).watched
             u == Current(initial).rest
  <2>2. IsContent(w, u)
    BY <2>1 DEF OneContent
  <2>3. w' = w /\ u' = u
    BY <2>1 DEF Current, EmptyConfig
  <2> HIDE DEF w, u
  <2>4. IsContent(w, u)'
    BY <2>2, ContentStep, <2>3
  <2> QED BY <2>4 DEF w, u
<1> QED BY <1>1, ContentInit, Invariance, PTL DEF Spec

\* However commands overlap, fail and undo each other, an opencode.json that is
\* there and is JSON has what the manifests do not describe as it was at first,
\* until somebody else edits it.
THEOREM UserContentIsKept == Spec => []UserContentSurvives
<1>1. OneContent => UserContentSurvives
  BY DEF OneContent, IsContent, Holds, UserContentSurvives
<1> QED BY <1>1, ContentStays, PTL

-----------------------------------------------------------------------------
(* Commands come to an end. *)

\* The change a command is making is one it has still to make.
AddingIsLeft == \A a \in Agents : pc[a] \in {"read", "saved"} => adding[a] \in todo[a]

LEMMA AddingStep == IInv /\ AddingIsLeft /\ [Next]_vars => AddingIsLeft'
<1> SUFFICES ASSUME IInv, AddingIsLeft, [Next]_vars, NEW b \in Agents,
                    pc'[b] \in {"read", "saved"}
             PROVE  adding'[b] \in todo'[b]
  BY DEF AddingIsLeft
<1>1. TypeOK
  BY DEF IInv
<1>2. CASE pc[b] \in {"read", "saved"} /\ adding'[b] = adding[b] /\ todo'[b] = todo[b]
  BY <1>2 DEF AddingIsLeft
<1>3. ASSUME NEW a \in Agents, Read(a)
      PROVE  adding'[b] \in todo'[b]
  <2>1. PICK i \in todo[a] : adding' = [adding EXCEPT ![a] = i]
    BY <1>3 DEF Read
  <2>2. CASE a = b
    BY <1>1, <1>3, <2>1, <2>2 DEF Read, TypeOK
  <2>3. CASE a # b
    BY <1>1, <1>2, <1>3, <2>1, <2>3 DEF Read, Goes, TypeOK
  <2> QED BY <2>2, <2>3
<1>4. ASSUME NEW a \in Agents, StartStep(a) \/ AgentStep(a) \/ Interrupted(a), ~Read(a)
      PROVE  pc[b] \in {"read", "saved"} /\ adding'[b] = adding[b] /\ todo'[b] = todo[b]
  BY <1>1, <1>4
  DEF StartStep, AgentStep, Interrupted, PlanShow, PlanSubmit, StartApply, StartRollback,
      NoRollback, Verify, Refuse, Reconcile, DryRun, ReadFails, Backup, Write, AddFails, Finish,
      FinishFails, RestoreEntry, Restored, RollEntry, RolledBack, CanStart, Goes, TypeOK, jobVars
<1>5. ASSUME (\E q \in Approvals, p \in PlanIds : Approve(q, p)) \/ ServerStep
             \/ Edit \/ UNCHANGED vars
      PROVE  UNCHANGED <<pc, adding, todo>>
  BY <1>5 DEF Approve, ServerStep, Edit, vars, jobVars
<1> QED BY <1>2, <1>3, <1>4, <1>5 DEF Next

\* The numbers of changes and entries left.
LEMMA CountsAreNumbers ==
  ASSUME TypeOK, NEW a \in Agents
  PROVE  /\ Cardinality(todo[a]) \in Nat /\ Cardinality(Ids) \in Nat
         /\ Cardinality(todo[a]) <= Cardinality(Ids)
         /\ Len(saved[a]) \in Nat
<1>1. todo[a] \in SUBSET Ids /\ saved[a] \in Seq(Refs)
  BY DEF TypeOK
<1>2. Len(saved[a]) \in Nat
  BY <1>1
<1> QED BY <1>1, <1>2, IdsAreFinite, FS_CardinalityType, FS_Subset

\* The steps left are a number, and none after the end.
LEMMA LeftIsNumber ==
  ASSUME NEW stage, NEW n \in Nat, NEW s \in Nat, Cardinality(Ids) \in Nat
  PROVE  Left(stage, n, s) \in Nat /\ Left("ended", n, s) = 0
<1>1. CASE stage \in {"shown", "failed", "rolling", "saved", "read", "applying", "verified",
                      "collected"}
  BY <1>1 DEF Left
<1>2. CASE stage \notin {"shown", "failed", "rolling", "saved", "read", "applying", "verified",
                         "collected"}
  <2>1. Left(stage, n, s) = 0
    BY <1>2 DEF Left
  <2> QED BY <2>1 DEF Left
<1> QED BY <1>1, <1>2

\* A step of a command leaves it fewer steps to take.
LEMMA StepsAreUsedUp ==
  ASSUME IInv, AddingIsLeft, NEW a \in Agents, AgentStep(a)
  PROVE  StepsLeft(a)' < StepsLeft(a)
<1>1. TypeOK /\ TypeOK'
  <2>1. [Next]_vars
    BY DEF Next
  <2> QED BY <2>1, TypeStep DEF IInv
<1> DEFINE n == Cardinality(todo[a])
           s == Len(saved[a])
           N == Cardinality(Ids)
<1>2. n \in Nat /\ s \in Nat /\ N \in Nat /\ n <= N /\ n' \in Nat /\ s' \in Nat /\ n' <= N
  <2>1. n \in Nat /\ s \in Nat /\ N \in Nat /\ n <= N
    BY <1>1, CountsAreNumbers
  <2>2. todo'[a] \in SUBSET Ids /\ saved'[a] \in Seq(Refs)
    BY <1>1 DEF TypeOK
  <2>3. n' \in Nat /\ n' <= N
    BY <2>2, IdsAreFinite, FS_CardinalityType, FS_Subset
  <2>4. s' \in Nat
    BY <2>2
  <2> QED BY <2>1, <2>3, <2>4
<1>3. ASSUME pc[a] \in {"read", "saved"}
      PROVE  n > 0
  <2>1. todo[a] # {} /\ IsFiniteSet(todo[a])
    BY <1>1, <1>3, IdsAreFinite, FS_Subset DEF AddingIsLeft, TypeOK
  <2> QED BY <1>2, <2>1, FS_EmptySet
<1>4. CASE \E p \in PlanIds : PlanSubmit(a, p)
  BY <1>1, <1>4 DEF PlanSubmit, StepsLeft, Left, Goes, TypeOK
<1>5. CASE Verify(a) \/ Refuse(a)
  <2>1. /\ pc[a] = "collected" /\ pc'[a] \in {"verified", "ended"}
        /\ UNCHANGED <<todo, saved>>
    BY <1>1, <1>5 DEF Verify, Refuse, Goes, TypeOK, jobVars
  <2> QED BY <1>2, <2>1 DEF StepsLeft, Left
<1>6. CASE Reconcile(a) \/ DryRun(a)
  <2>1. pc[a] = "verified" /\ pc'[a] \in {"applying", "ended"} /\ saved' = saved
    BY <1>1, <1>6 DEF Reconcile, DryRun, Goes, TypeOK
  <2> QED BY <1>2, <2>1 DEF StepsLeft, Left
<1>7. CASE Read(a) \/ ReadFails(a)
  <2>1. /\ pc[a] = "applying" /\ pc'[a] \in {"read", "failed"} /\ UNCHANGED <<todo, saved>>
    BY <1>1, <1>7 DEF Read, ReadFails, Goes, TypeOK, jobVars
  <2> QED BY <1>2, <2>1 DEF StepsLeft, Left
<1>8. CASE Backup(a) \/ AddFails(a)
  <2>1. /\ pc[a] \in {"read", "saved"} /\ UNCHANGED <<todo, saved>>
        /\ (pc[a] = "read" /\ pc'[a] = "saved") \/ pc'[a] = "failed"
    BY <1>1, <1>8 DEF Backup, AddFails, Goes, TypeOK, jobVars
  <2> QED BY <1>2, <1>3, <2>1 DEF StepsLeft, Left
<1>9. CASE Write(a)
  <2>1. /\ pc[a] = "saved" /\ pc'[a] = "applying"
        /\ todo'[a] = todo[a] \ {adding[a]} /\ saved'[a] = Append(saved[a], ref[a])
    BY <1>1, <1>9 DEF Write, Goes, TypeOK
  <2>2. n' = n - 1
    BY <1>1, <2>1, IdsAreFinite, FS_Subset, FS_RemoveElement DEF AddingIsLeft, TypeOK
  <2>3. s' = s + 1
    BY <1>1, <2>1 DEF TypeOK
  <2> QED BY <1>2, <2>1, <2>2, <2>3 DEF StepsLeft, Left
<1>10. CASE Finish(a) \/ FinishFails(a)
  <2>1. pc[a] = "applying" /\ pc'[a] \in {"applied", "ended"}
    BY <1>1, <1>10 DEF Finish, FinishFails, Goes, TypeOK
  <2> QED BY <1>2, <2>1 DEF StepsLeft, Left
<1>11. CASE RestoreEntry(a) \/ RollEntry(a)
  <2>1. /\ pc[a] \in {"failed", "rolling"} /\ pc' = pc
        /\ saved[a] # <<>> /\ saved'[a] = Tail(saved[a])
    BY <1>1, <1>11 DEF RestoreEntry, RollEntry, TypeOK
  <2>2. s' = s - 1
    BY <1>1, <2>1 DEF TypeOK
  <2> QED BY <1>2, <2>1, <2>2 DEF StepsLeft, Left
<1>12. CASE Restored(a) \/ RolledBack(a)
  <2>1. pc[a] \in {"failed", "rolling"} /\ pc'[a] \in {"restored", "rolledback"}
    BY <1>1, <1>12 DEF Restored, RolledBack, Goes, TypeOK
  <2> QED BY <1>2, <2>1 DEF StepsLeft, Left
<1> QED
  BY <1>4, <1>5, <1>6, <1>7, <1>8, <1>9, <1>10, <1>11, <1>12 DEF AgentStep

\* Every command makes a bounded number of steps, whatever runs beside it.
THEOREM CommandsEndInTime == Spec => CommandsRunOut
<1>1. Init => AddingIsLeft
  BY DEF Init, AddingIsLeft
<1>2. IInv /\ AddingIsLeft /\ [Next]_vars =>
        [\A a \in Agents : pc[a] \notin Ended \cup {"idle"} =>
           /\ StepsLeft(a)' <= StepsLeft(a)
           /\ AgentStep(a) => StepsLeft(a)' < StepsLeft(a)]_vars
  <2> SUFFICES ASSUME IInv, AddingIsLeft, [Next]_vars, NEW a \in Agents,
                      pc[a] \notin Ended \cup {"idle"}
               PROVE  /\ StepsLeft(a)' <= StepsLeft(a)
                      /\ AgentStep(a) => StepsLeft(a)' < StepsLeft(a)
    OBVIOUS
  <2>1. TypeOK
    BY DEF IInv
  <2>2. StepsLeft(a) \in Nat
    BY <2>1, CountsAreNumbers, LeftIsNumber DEF StepsLeft
  <2>3. CASE AgentStep(a)
    <3>1. StepsLeft(a)' < StepsLeft(a)
      BY <2>3, StepsAreUsedUp
    <3>2. StepsLeft(a)' \in Nat
      <4>1. TypeOK'
        BY TypeStep
      <4>2. todo'[a] \in SUBSET Ids /\ saved'[a] \in Seq(Refs)
        BY <4>1 DEF TypeOK
      <4>3. Cardinality(todo'[a]) \in Nat /\ Cardinality(Ids) \in Nat
        BY <4>2, IdsAreFinite, FS_CardinalityType, FS_Subset
      <4>4. Len(saved'[a]) \in Nat
        BY <4>2
      <4> QED BY <4>3, <4>4, LeftIsNumber DEF StepsLeft
    <3> QED BY <2>2, <3>1, <3>2
  <2>4. CASE ~AgentStep(a) /\ Interrupted(a)
    <3>1. pc'[a] = "ended" /\ UNCHANGED <<todo, saved>>
      BY <2>1, <2>4 DEF Interrupted, Goes, TypeOK, jobVars
    <3>2. StepsLeft(a)' = 0
      BY <2>1, <3>1, CountsAreNumbers, LeftIsNumber DEF StepsLeft
    <3> QED BY <2>2, <2>4, <3>2
  <2>5. CASE ~AgentStep(a) /\ ~Interrupted(a)
    <3>1. UNCHANGED <<pc[a], todo[a], saved[a]>>
      <4>1. ASSUME NEW b \in Agents, b # a, StartStep(b) \/ AgentStep(b) \/ Interrupted(b)
            PROVE  UNCHANGED <<pc[a], todo[a], saved[a]>>
        BY <2>1, <4>1
        DEF StartStep, AgentStep, Interrupted, PlanShow, PlanSubmit, StartApply, StartRollback,
            NoRollback, Verify, Refuse, Reconcile, DryRun, Read, ReadFails, Backup, Write,
            AddFails, Finish, FinishFails, RestoreEntry, Restored, RollEntry, RolledBack, Goes,
            TypeOK, jobVars
      <4>2. ~StartStep(a)
        BY DEF StartStep, PlanShow, StartApply, StartRollback, NoRollback, CanStart
      <4>3. ASSUME (\E q \in Approvals, p \in PlanIds : Approve(q, p)) \/ ServerStep
                   \/ Edit \/ UNCHANGED vars
            PROVE  UNCHANGED <<pc, todo, saved>>
        BY <4>3 DEF Approve, ServerStep, Edit, vars, jobVars
      <4> QED BY <2>5, <4>1, <4>2, <4>3 DEF Next
    <3>2. StepsLeft(a)' = StepsLeft(a)
      BY <3>1 DEF StepsLeft
    <3> QED BY <2>2, <2>5, <3>2
  <2> QED BY <2>3, <2>4, <2>5
<1> QED BY <1>1, <1>2, AddingStep, Invariance, PTL DEF Spec, CommandsRunOut
=============================================================================
