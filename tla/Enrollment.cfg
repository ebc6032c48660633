SPECIFICATION FairSpec
CONSTANTS
  Codes = {c1, c2}
  Devices = {d1, d2}
  Requests = {r1, r2}
  None = None
  MaxTtl = 1
  MaxTime = 1
INVARIANTS
  OneTokenPerCode
  SpentMeansGranted
  GrantedInTimeToItsDevice
  KeyRowsMatchTokens
  OrphanKeysAreUndelivered
  IInv
PROPERTIES
  ImplementsOneTimeCodes
  EveryRequestAnswered
