------------------------------ MODULE Sequential ------------------------------
(***************************************************************************)
(* The loop of module Apply where commands come one after another and      *)
(* nobody edits a file.  What is applied then is what was shown and        *)
(* approved, applies converge, and a single change can be undone.          *)
(***************************************************************************)
EXTENDS Apply

Alone == OneAtATime /\ MaxEdits = 0

\* An apply leaves nothing for the next reconcile to add (reconcile_device
\* after OpencodeAdapter.apply).
AppliedMeansConverged ==
  [][\A a \in Agents : pc[a] = "applying" /\ pc'[a] = "applied" =>
       Missing(file', manifest') = {}]_vars

\* "Rollback restores bytes and permissions"
\* (2026-08-08-phase2-loop-closure-design.md:143), for a plan that made a single
\* change, if its backup is the only one named by that second (rollback,
\* read_manifest, create_backup).
RollbackOfOneRestores ==
  [][\A a \in Agents :
       LET refs == backup_manifests[plan[a]] IN
         pc[a] = "rolling" /\ pc'[a] = "rolledback" /\ Len(refs) = 1 /\ refs[1] \notin reused =>
           file = original[plan[a]]]_vars

\* An apply has written at most one of its changes.
OneDone(a) == \E i \in Ids : Missing(before[plan[a]], manifest) \subseteq todo[a] \cup {i}

\* "Any failure during application restores from backup"
\* (2026-08-08-phase2-loop-closure-design.md:113), if there was a file, one
\* change was written at most, and no second names two backups.
FailureAfterOneRestores ==
  [][\A a \in Agents :
       /\ pc[a] = "failed" /\ pc'[a] = "restored"
       /\ OneDone(a) /\ before[plan[a]] # Absent /\ reused = {}
       => file = before[plan[a]]]_vars

-----------------------------------------------------------------------------
(* The inductive invariant: one part for each agent, and two for what agents *)
(* leave behind.                                                             *)

Running(a) == pc[a] \notin Ended \cup {"idle"}

AtMostOneRuns == \A a, b \in Agents : Running(a) /\ Running(b) => a = b

\* What a manifest asks for and a collected state lacks.
Asked(st) == {i \in Desired[st.manifest] : st.entries[i] = Unset}

\* What was shown of a plan is what its fingerprint calls for.
PlansAreAsShown ==
  \A p \in PlanIds : plans[p] # None =>
    /\ plans[p].hash \in States
    /\ reviewed[p] = [todo |-> Asked(plans[p].hash), data |-> catalog]

\* What restoring an entry makes of the file, in the rollback command.
Saved(r) == IF r = NoBackup THEN Absent ELSE backups[r]

\* The entry holds f, unless its backup has been overwritten.
Brings(r, f) == r \notin reused => Saved(r) = f

ManifestsAreOriginal ==
  \A p \in PlanIds : backup_manifests[p] # None /\ Len(backup_manifests[p]) = 1 =>
    Brings(backup_manifests[p][1], original[p])

\* Until an apply writes, its plan is what the device calls for.
InStepBefore(a) ==
  /\ pc[a] = "shown" => todo[a] = Missing(file, manifest) /\ data[a] = catalog
  /\ pc[a] \in {"collected", "verified"} => state[a] = Collect(file, manifest)
  /\ pc[a] \in {"idle", "shown", "collected", "verified"} => saved[a] = <<>>

\* What is left to do was shown, and is what the file lacks.
InStepWriting(a) ==
  pc[a] \in {"applying", "read", "saved"} =>
    /\ todo[a] = Missing(file, manifest)
    /\ todo[a] \subseteq reviewed[plan[a]].todo
    /\ data[a] = reviewed[plan[a]].data
    /\ pc[a] \in {"read", "saved"} =>
         adding[a] \in todo[a] /\ buf[a] = Merge(Current(file), adding[a], data[a])

\* The first backup is of the file the apply found, the next one of the file
\* as it is; entries are as many as changes.
InStepSaving(a) ==
  LET found == before[plan[a]]
      done  == Missing(found, manifest) \ todo[a]
  IN  pc[a] \in {"applying", "read", "saved"} =>
        /\ todo[a] \subseteq Missing(found, manifest)
        /\ saved[a] = <<>> => file = found
        /\ Len(saved[a]) = 1 => Brings(saved[a][1], found)
        /\ saved[a] # <<>> => done # {}
        /\ Len(saved[a]) > 1 => \E i, j \in done : i # j
        /\ pc[a] = "saved" => Brings(ref[a], file)

\* Restoring what was saved brings the file back, if that is one entry.
InStepRestoring(a) ==
  LET found == before[plan[a]]
      refs  == backup_manifests[plan[a]]
  IN  /\ pc[a] = "failed" /\ OneDone(a) /\ found # Absent /\ reused = {} =>
           /\ Len(saved[a]) < 2
           /\ IF saved[a] = <<>> THEN file = found ELSE Saved(saved[a][1]) = found
      /\ pc[a] = "rolling" =>
           /\ plan[a] \in PlanIds /\ refs # None
           /\ Len(refs) = 1 =>
                saved[a] = refs \/ (saved[a] = <<>> /\ (refs[1] \notin reused => file = original[plan[a]]))

InStep(a) == InStepBefore(a) /\ InStepWriting(a) /\ InStepSaving(a) /\ InStepRestoring(a)

SequentialInv ==
  /\ AtMostOneRuns
  /\ PlansAreAsShown
  /\ ManifestsAreOriginal
  /\ \A a \in Agents : InStep(a)
=============================================================================
