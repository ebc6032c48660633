----------------------------- MODULE PlansProofs -----------------------------
(***************************************************************************)
(* Plans: the approval records and the approved plans agree, for any       *)
(* number of plans, devices and concurrent approvals.                      *)
(***************************************************************************)
EXTENDS Plans, TLAPS

\* An empty store is in order.
LEMMA PlansInvInit == PlansInit => PlansInv
BY NoneIsNoPlan
DEF PlansInit, PlansInv, PlansTypeOK, Steps, CheckedStillMatches, RecordedIsApproved,
    ApprovalsMatchPlans, ApprovedWhileAlive

\* Approving changes one flag of one row, the row the request was checked
\* against.
LEMMA CommitApprovalKeepsInv ==
  ASSUME PlansInv, NEW q \in Approvals, CommitApproval(q)
  PROVE  PlansInv'
<1> DEFINE p == body[q].plan
<1> USE DEF PlansInv, PlansTypeOK
<1>1. /\ body[q] \in Bodies /\ p \in PlanIds
      /\ plans[p] \in PlanRows /\ plans[p] # None
      /\ plans[p].device = body[q].device
      /\ plans[p].hash = body[q].hash /\ plans[p].commit = body[q].commit
      /\ looked[q] < plans[p].expires
  BY DEF CommitApproval, CheckedStillMatches, Found, SameChange, Bodies
<1>2. /\ plans' = [plans EXCEPT ![p] = [plans[p] EXCEPT !.approved = TRUE]]
      /\ plan_approvals' = plan_approvals \cup {q}
      /\ step' = [step EXCEPT ![q] = "approved"]
      /\ UNCHANGED <<body, looked, now>>
  BY <1>1 DEF CommitApproval
<1>3. /\ plans'[p] \in PlanRows /\ plans'[p] # None /\ plans'[p].approved
      /\ plans'[p].device = plans[p].device
      /\ plans'[p].hash = plans[p].hash /\ plans'[p].commit = plans[p].commit
      /\ plans'[p].expires = plans[p].expires
      /\ \A o \in PlanIds \ {p} : plans'[o] = plans[o]
  BY <1>1, <1>2, NoneIsNoPlan DEF PlanRows
<1>4. PlansTypeOK'
  BY <1>1, <1>2, <1>3 DEF Steps
<1>5. CheckedStillMatches'
  BY <1>1, <1>2, <1>3 DEF CheckedStillMatches, Found, SameChange, Bodies
<1>6. RecordedIsApproved'
  BY <1>1, <1>2 DEF RecordedIsApproved
<1>7. ApprovalsMatchPlans'
  BY <1>1, <1>2, <1>3 DEF ApprovalsMatchPlans, RecordedIsApproved, Bodies
<1>8. ApprovedWhileAlive'
  BY <1>1, <1>2, <1>3 DEF ApprovedWhileAlive, RecordedIsApproved, Bodies
<1> QED
  BY <1>4, <1>5, <1>6, <1>7, <1>8

\* A plan is registered under an id no approval on record names.
LEMMA CreatePlanKeepsInv ==
  ASSUME PlansInv, NEW p \in PlanIds, NEW d \in Devices, NEW h \in Hashes,
         NEW m \in Commits, NEW ttl \in 0..MaxTtl, CreatePlan(p, d, h, m, ttl)
  PROVE  PlansInv'
<1> DEFINE row == [device |-> d, hash |-> h, commit |-> m, expires |-> now + ttl,
                   approved |-> FALSE]
<1> USE DEF PlansInv, PlansTypeOK
<1>1. row \in PlanRows /\ row # None /\ ~row.approved
  <2>1. now + ttl \in Nat
    BY PlanBounds
  <2>2. row \in PlanRows
    BY <2>1 DEF PlanRows
  <2> QED BY <2>2, NoneIsNoPlan
<1>2. /\ plans[p] = None /\ plans' = [plans EXCEPT ![p] = row]
      /\ UNCHANGED <<plan_approvals, step, body, looked, now>>
  BY DEF CreatePlan
<1> HIDE DEF row
<1>3. PlansTypeOK'
  BY <1>1, <1>2
<1>4. CheckedStillMatches' /\ RecordedIsApproved'
  BY <1>1, <1>2 DEF CheckedStillMatches, RecordedIsApproved, Found, SameChange, Bodies
<1>5. \A q \in plan_approvals : body[q].plan \in PlanIds /\ body[q].plan # p
  BY <1>2 DEF ApprovalsMatchPlans, RecordedIsApproved, Bodies
<1>6. ApprovalsMatchPlans' /\ ApprovedWhileAlive'
  BY <1>1, <1>2, <1>5 DEF ApprovalsMatchPlans, ApprovedWhileAlive
<1> QED
  BY <1>3, <1>4, <1>6

\* No step of the store disturbs its invariant.
LEMMA PlansInvStep == PlansInv /\ [PlansNext]_planVars => PlansInv'
<1> SUFFICES ASSUME PlansInv, [PlansNext]_planVars PROVE PlansInv'
  OBVIOUS
<1> USE DEF PlansInv, PlansTypeOK, CheckedStillMatches, RecordedIsApproved,
            ApprovalsMatchPlans, ApprovedWhileAlive, Steps
<1>1. ASSUME NEW p \in PlanIds, NEW d \in Devices, NEW h \in Hashes,
             NEW m \in Commits, NEW ttl \in 0..MaxTtl, CreatePlan(p, d, h, m, ttl)
      PROVE  PlansInv'
  BY <1>1, CreatePlanKeepsInv
<1>2. ASSUME NEW q \in Approvals, NEW b \in Bodies, ReceiveApproval(q, b)
      PROVE  PlansInv'
  BY <1>2 DEF ReceiveApproval, Found, SameChange
<1>3. ASSUME NEW q \in Approvals, ApprovalStep(q)
      PROVE  PlansInv'
  <2>1. CASE CheckApproval(q)
    <3>1. body[q].plan \in PlanIds
      BY <2>1 DEF CheckApproval, Bodies
    <3>2. Found(body[q]) => plans[body[q].plan] \in PlanRows
      BY <3>1 DEF Found
    <3>3. step'[q] = "checked" =>
            /\ Found(body[q])
            /\ SameChange(plans[body[q].plan], body[q])
            /\ now < plans[body[q].plan].expires
      BY <2>1, <3>2 DEF CheckApproval, Expired, PlanRows
    <3>4. step' \in [Approvals -> Steps] /\ \A o \in Approvals : o # q => step'[o] = step[o]
      BY <2>1 DEF CheckApproval
    <3>5. q \notin plan_approvals /\ body[q] \in Bodies
      BY <2>1 DEF CheckApproval
    <3>6. CheckedStillMatches'
      BY <2>1, <3>3, <3>4, <3>5 DEF CheckApproval, Found, SameChange
    <3>7. PlansTypeOK' /\ RecordedIsApproved' /\ ApprovedWhileAlive'
      BY <2>1, <3>4, <3>5 DEF CheckApproval
    <3>8. ApprovalsMatchPlans'
      BY <2>1 DEF CheckApproval
    <3> QED BY <3>6, <3>7, <3>8
  <2>2. CASE CommitApproval(q)
    BY <2>2, CommitApprovalKeepsInv
  <2>3. CASE ApprovalFails(q)
    BY <2>3 DEF ApprovalFails, Found, SameChange
  <2> QED BY <1>3, <2>1, <2>2, <2>3 DEF ApprovalStep
<1>4. CASE PlansTick
  BY <1>4 DEF PlansTick, Found, SameChange
<1>5. CASE UNCHANGED planVars
  BY <1>5 DEF planVars, Found, SameChange
<1> QED
  BY <1>1, <1>2, <1>3, <1>4, <1>5 DEF PlansNext

\* The inductive invariant of the plan store, its types included.
THEOREM PlansInvariance == PlansSpec => []PlansInv
BY PlansInvInit, PlansInvStep, PTL DEF PlansSpec

\* A plan is approved exactly when a matching approval is on record.
THEOREM ApprovedPlansAreOnRecord == PlansSpec => []ApprovalsMatchPlans
<1> PlansInv => ApprovalsMatchPlans
  BY DEF PlansInv
<1> QED BY PlansInvariance, PTL

\* No approval on record was decided after the plan's deadline.
THEOREM ApprovalsAreInTime == PlansSpec => []ApprovedWhileAlive
<1> PlansInv => ApprovedWhileAlive
  BY DEF PlansInv
<1> QED BY PlansInvariance, PTL

\* No step moves a plan.
LEMMA StepKeepsPlans ==
  ASSUME PlansInv, [PlansNext]_planVars, NEW p \in PlanIds
  PROVE  KeepsPlan(p)
<1> SUFFICES ASSUME plans[p] # None
             PROVE  KeepsPlan(p)
  BY DEF KeepsPlan
<1>1. ASSUME NEW o \in PlanIds, NEW d \in Devices, NEW h \in Hashes,
             NEW m \in Commits, NEW ttl \in 0..MaxTtl, CreatePlan(o, d, h, m, ttl)
      PROVE  plans'[p] = plans[p]
  BY <1>1 DEF CreatePlan, PlansInv, PlansTypeOK
<1>2. ASSUME NEW q \in Approvals, CommitApproval(q)
      PROVE  plans'[p] = plans[p] \/ plans'[p] = [plans[p] EXCEPT !.approved = TRUE]
  BY <1>2 DEF CommitApproval, PlansInv, PlansTypeOK
<1>3. CASE plans'[p] = plans[p]
  BY <1>3 DEF KeepsPlan
<1>4. CASE plans'[p] = [plans[p] EXCEPT !.approved = TRUE]
  <2>1. plans[p] \in PlanRows
    BY DEF PlansInv, PlansTypeOK
  <2>2. plans'[p] \in PlanRows
    BY <2>1, <1>4 DEF PlanRows
  <2> QED BY <1>4, <2>1, <2>2, NoneIsNoPlan DEF PlanRows, KeepsPlan
<1> QED
  BY <1>1, <1>2, <1>3, <1>4
  DEF PlansNext, planVars, ApprovalStep, ReceiveApproval, CheckApproval, ApprovalFails,
      PlansTick

\* Nothing rewrites a registered plan or withdraws its approval.
THEOREM PlansNeverMove == PlansSpec => PlansAreStable
<1>1. PlansInv /\ [PlansNext]_planVars => [\A p \in PlanIds : KeepsPlan(p)]_planVars
  BY StepKeepsPlans
<1> QED
  BY <1>1, PlansInvariance, PTL DEF PlansSpec, PlansAreStable
=============================================================================
