SPECIFICATION Spec
CHECK_DEADLOCK FALSE
CONSTANTS
  None = None
  Missing = Missing
  Garbled = Garbled
  Agents = {a1, a2}
  Codes = {c1, c2}
  Devices = {device, other}
  Device = device
  Machines <- SampleMachines
  MaxEdits = 1
SYMMETRY Symmetry
INVARIANTS
  TypeOK
  TokenStaysStored
  CodesAreNotWasted
  EnrollmentIsKept
PROPERTY
  ReportedChecksWereTrue
