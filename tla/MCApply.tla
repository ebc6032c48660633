------------------------------- MODULE MCApply -------------------------------
(* Instances of Apply and Sequential for TLC.                               *)
EXTENDS Sequential, TLC

CONSTANTS v1, w1

AsksForAll == [m \in Commits |-> Ids]

\* One manifest asks for every id, the others for one.
AsksForAllOrOne ==
  LET all == CHOOSE m \in Commits : TRUE
      one == CHOOSE i \in Ids : TRUE
  IN  [m \in Commits |-> IF m = all THEN Ids ELSE {one}]

Config(entry, watched, rest) ==
  [entries |-> [i \in Ids |-> entry], watched |-> watched, rest |-> rest]

\* A device with the user's own settings and none of the managed entries; also
\* one where opencode was never started, and one whose file is damaged.
InUse   == {Config(Unset, Blank, w1)}
AnyFile == InUse \cup {Absent, Broken}

\* One entry is there already.
PartlyManaged ==
  {[entries |-> [i \in Ids |-> IF i = j THEN v1 ELSE Unset], watched |-> Blank, rest |-> w1] :
     j \in Ids}
Mixed == AnyFile \cup PartlyManaged

\* Approvals are posted by `holdfastctl approve` only; or also one, for any
\* plan, of a state that was not collected.
NoPosts == {}
Strays ==
  LET m == CHOOSE m \in Commits : TRUE
  IN  {b \in Bodies : b.commit = m /\ b.hash = Collect(Config(v1, Blank, Blank), m)}

\* What a command that has ended had in memory is nothing to the others, and no
\* property asks for it but whether the backups it named exist, which they did
\* when it ended, and none is ever taken away.
Memory(a) ==
  IF pc[a] \in Ended THEN {}
  ELSE {<<plan[a], state[a], at[a], todo[a], data[a], buf[a], adding[a], ref[a], saved[a]>>}

WithoutEndedMemory ==
  <<planVars, file, worldVars, storeVars, pc, [a \in Agents |-> Memory(a)], ghostVars>>

SymmetryOfRuns == Permutations(Agents) \cup Permutations(PlanIds) \cup Permutations(Approvals)

\* Only when the manifests treat all ids alike.
Symmetry == SymmetryOfRuns \cup Permutations(Ids)
=============================================================================
