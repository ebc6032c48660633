SPECIFICATION Spec
CHECK_DEADLOCK FALSE
CONSTANTS
  None = None
  Device = device
  Devices = {device}
  Hashes <- States
  Blank = Blank
  Unset = Unset
  Absent = Absent
  Broken = Broken
  NoBackup = NoBackup
  v1 = v1
  w1 = w1
  Desired <- AsksForAll
  PlanIds = {p1}
  Approvals = {q1}
  Agents = {a1, a2}
  Ids = {i1}
  Commits = {m1}
  Catalogs = {v1}
  Watched = {Blank}
  Rest = {Blank, w1}
  Posts <- NoPosts
  InitialFiles <- InUse
  MaxTtl = 1
  MaxTime = 1
  MaxEdits = 1
  OneAtATime = TRUE
SYMMETRY Symmetry
PROPERTY
  AppliedFromApprovedState
