SPECIFICATION Spec
CHECK_DEADLOCK FALSE
CONSTANTS
  None = None
  Device = device
  Devices = {device}
  Hashes <- States
  Blank = Blank
  Unset = Unset
  Absent = Absent
  Broken = Broken
  NoBackup = NoBackup
  v1 = v1
  w1 = w1
  Desired <- AsksForAllOrOne
  PlanIds = {p1}
  Approvals = {q1}
  Agents = {a1, a2, a3, a4, a5}
  Ids = {i1, i2}
  Commits = {m1, m2}
  Catalogs = {v1}
  Watched = {Blank}
  Rest = {Blank, w1}
  Posts <- NoPosts
  InitialFiles <- Mixed
  MaxTtl = 1
  MaxTime = 1
  MaxEdits = 0
  OneAtATime = TRUE
VIEW WithoutEndedMemory
SYMMETRY SymmetryOfRuns
INVARIANTS
  SequentialInv
  UserContentSurvives
PROPERTIES
  CommandsRunOut
  FailureAfterOneRestores
  RollbackOfOneRestores
  AppliedMeansConverged
