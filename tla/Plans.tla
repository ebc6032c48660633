-------------------------------- MODULE Plans --------------------------------
(***************************************************************************)
(* Change plans at the control plane.  An agent registers a plan: the      *)
(* fingerprint of the device state it was computed from (current_hash),    *)
(* the manifest it leads to (desired_commit) and a life span.  An operator *)
(* approves it by repeating both.  approve_plan looks at the row, and only *)
(* then takes the write lock for UPDATE plans and INSERT plan_approvals,   *)
(* so two approvals, or an approval and the clock, can interleave there.   *)
(***************************************************************************)
EXTENDS Integers

CONSTANTS PlanIds,   \* the uuid4 values create_plan can draw
          Devices,
          Hashes,    \* fingerprints of device states
          Commits,   \* manifest digests
          Approvals, \* POST .../approve requests; each names its row too
          None,
          MaxTtl,    \* bound: longest life span of a plan
          MaxTime    \* bound: the clock stops here

PlanRows == [device : Devices, hash : Hashes, commit : Commits, expires : Nat,
             approved : BOOLEAN]

ASSUME NoneIsNoPlan == None \notin PlanRows
ASSUME PlanBounds == MaxTtl \in Nat /\ MaxTime \in Nat

VARIABLES
  plans,          \* table plans: id -> row, or None
  plan_approvals, \* table plan_approvals: the requests whose row was committed
  step,           \* what each approval request is about to do, or its answer
  body,           \* path and body of each approval request
  looked,         \* time.time() when it compared expiry_timestamp
  now

planVars == <<plans, plan_approvals, step, body, looked, now>>

Bodies == [plan : PlanIds, device : Devices, hash : Hashes, commit : Commits]

Steps == {"idle", "received", "checked", "approved", "404", "409", "500"}

PlansTypeOK ==
  /\ plans \in [PlanIds -> PlanRows \cup {None}]
  /\ plan_approvals \subseteq Approvals
  /\ step \in [Approvals -> Steps]
  /\ body \in [Approvals -> Bodies \cup {None}]
  /\ looked \in [Approvals -> Nat]
  /\ now \in Nat

PlansInit ==
  /\ plans = [p \in PlanIds |-> None]
  /\ plan_approvals = {}
  /\ step = [q \in Approvals |-> "idle"]
  /\ body = [q \in Approvals |-> None]
  /\ looked = [q \in Approvals |-> 0]
  /\ now = 0

-----------------------------------------------------------------------------
(* create_plan and approve_plan. *)

\* Mutant: a plan submitted again under the same id replaces the first.
CreateOrReplacePlan(p, d, h, m, ttl) ==
  /\ plans' = [plans EXCEPT ![p] = [device |-> d, hash |-> h, commit |-> m,
                                    expires |-> now + ttl, approved |-> FALSE]]
  /\ UNCHANGED <<plan_approvals, step, body, looked, now>>

\* create_plan: a fresh id, status 'pending'.  expiry_hours may be 0.  A 500
\* for want of the write lock changes nothing.
CreatePlan(p, d, h, m, ttl) ==
  /\ plans[p] = None
  /\ plans' = [plans EXCEPT ![p] = [device |-> d, hash |-> h, commit |-> m,
                                    expires |-> now + ttl, approved |-> FALSE]]
  /\ UNCHANGED <<plan_approvals, step, body, looked, now>>

ReceiveApproval(q, b) ==
  /\ step[q] = "idle"
  /\ step' = [step EXCEPT ![q] = "received"]
  /\ body' = [body EXCEPT ![q] = b]
  /\ UNCHANGED <<plans, plan_approvals, looked, now>>

\* SELECT ... WHERE id = ? AND device_id = ?
Found(b) == plans[b.plan] # None /\ plans[b.plan].device = b.device

\* Mutant: a plan can be approved in the second it expires.
ExpiredLate(row) == row.expires < now

Expired(row) == row.expires <= now

\* Mutant: only the manifest is compared.
SameCommit(row, b) == row.commit = b.commit

SameChange(row, b) == row.hash = b.hash /\ row.commit = b.commit

CheckApproval(q) ==
  /\ step[q] = "received"
  /\ LET b == body[q] IN
       step' = [step EXCEPT ![q] =
         IF ~Found(b) THEN "404"
         ELSE IF Expired(plans[b.plan]) \/ ~SameChange(plans[b.plan], b) THEN "409"
         ELSE "checked"]
  /\ looked' = [looked EXCEPT ![q] = now]
  /\ UNCHANGED <<plans, plan_approvals, body, now>>

\* Mutant: the two statements are committed separately and the process, or
\* the second one, fails in between.
CommitStatusOnly(q) ==
  /\ step[q] = "checked"
  /\ plans' = [plans EXCEPT ![body[q].plan].approved = TRUE]
  /\ step' = [step EXCEPT ![q] = "approved"]
  /\ UNCHANGED <<plan_approvals, body, looked, now>>

\* UPDATE plans, INSERT INTO plan_approvals, commit.
CommitApproval(q) ==
  /\ step[q] = "checked"
  /\ plans' = [plans EXCEPT ![body[q].plan].approved = TRUE]
  /\ plan_approvals' = plan_approvals \cup {q}
  /\ step' = [step EXCEPT ![q] = "approved"]
  /\ UNCHANGED <<body, looked, now>>

\* The write lock is not to be had in time, a statement raises, or the
\* process dies: the transaction is rolled back and the client sees a 500
\* or nothing.
ApprovalFails(q) ==
  /\ step[q] \in {"received", "checked"}
  /\ step' = [step EXCEPT ![q] = "500"]
  /\ UNCHANGED <<plans, plan_approvals, body, looked, now>>

ApprovalStep(q) == CheckApproval(q) \/ CommitApproval(q) \/ ApprovalFails(q)

PlansTick ==
  /\ now < MaxTime
  /\ now' = now + 1
  /\ UNCHANGED <<plans, plan_approvals, step, body, looked>>

PlansNext ==
  \/ \E p \in PlanIds, d \in Devices, h \in Hashes, m \in Commits, ttl \in 0..MaxTtl :
       CreatePlan(p, d, h, m, ttl)
  \/ \E q \in Approvals : (\E b \in Bodies : ReceiveApproval(q, b)) \/ ApprovalStep(q)
  \/ PlansTick

PlansSpec == PlansInit /\ [][PlansNext]_planVars

-----------------------------------------------------------------------------
(* What the plan store promises. *)

\* A plan is approved exactly when an approval of it is on record, and every
\* approval on record is for the very device, fingerprint and manifest of the
\* plan (approve_plan's WHERE clause and its "no longer matches" check).
ApprovalsMatchPlans ==
  /\ \A p \in PlanIds : plans[p] # None =>
       (plans[p].approved <=> \E q \in plan_approvals : body[q].plan = p)
  /\ \A q \in plan_approvals :
       LET row == plans[body[q].plan] IN
         /\ row # None
         /\ row.device = body[q].device
         /\ row.hash = body[q].hash
         /\ row.commit = body[q].commit

\* Whoever approved a plan had looked at it while it was still alive.
ApprovedWhileAlive ==
  \A q \in plan_approvals : looked[q] < plans[body[q].plan].expires

\* A registered plan keeps its identity and its deadline, and an approval is
\* never taken back: what an agent checks against cannot move under it.
KeepsPlan(p) ==
  plans[p] # None =>
    /\ plans'[p] # None
    /\ plans'[p].device = plans[p].device
    /\ plans'[p].hash = plans[p].hash
    /\ plans'[p].commit = plans[p].commit
    /\ plans'[p].expires = plans[p].expires
    /\ plans[p].approved => plans'[p].approved

PlansAreStable == [][\A p \in PlanIds : KeepsPlan(p)]_planVars

-----------------------------------------------------------------------------
\* A request that passed the checks still matches the plan it looked at.
CheckedStillMatches ==
  \A q \in Approvals :
    /\ step[q] \in {"received", "checked"} => body[q] \in Bodies
    /\ step[q] = "checked" =>
         /\ Found(body[q])
         /\ SameChange(plans[body[q].plan], body[q])
         /\ looked[q] < plans[body[q].plan].expires

RecordedIsApproved ==
  \A q \in plan_approvals : body[q] \in Bodies /\ step[q] = "approved"

\* The inductive invariant of the plan store.
PlansInv ==
  /\ PlansTypeOK
  /\ CheckedStillMatches
  /\ RecordedIsApproved
  /\ ApprovalsMatchPlans
  /\ ApprovedWhileAlive
=============================================================================
