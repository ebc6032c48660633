SPECIFICATION Spec
CONSTANTS
  Codes = {c1}
  Devices = {d1}
  Requests = {r1, r2}
  None = None
  MaxTtl = 1
  MaxTime = 1
SYMMETRY Symmetry
INVARIANT
  EveryMintedKeyRecorded
