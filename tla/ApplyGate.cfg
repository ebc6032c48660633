SPECIFICATION Spec
CHECK_DEADLOCK FALSE
CONSTANTS
  None = None
  Device = device
  Devices = {device}
  Hashes <- States
  Blank = Blank
  Unset = Unset
  Absent = Absent
  Broken = Broken
  NoBackup = NoBackup
  v1 = v1
  w1 = w1
  Desired <- AsksForAll
  PlanIds = {p1, p2}
  Approvals = {q1, q2}
  Agents = {a1, a2, a3}
  Ids = {i1}
  Commits = {m1}
  Catalogs = {v1}
  Watched = {Blank}
  Rest = {Blank, w1}
  Posts <- Strays
  InitialFiles <- InUse
  MaxTtl = 1
  MaxTime = 1
  MaxEdits = 1
  OneAtATime = FALSE
VIEW WithoutEndedMemory
SYMMETRY Symmetry
INVARIANTS
  IInv
  ApplyIsApproved
  BackupsExist
  PlansInv
  ApprovalsMatchPlans
  ApprovedWhileAlive
  UserContentSurvives
PROPERTIES
  PlansAreStable
