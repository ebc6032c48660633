SPECIFICATION Spec
CHECK_DEADLOCK FALSE
CONSTANTS
  d1 = d1
  d2 = d2
  None = None
  Reports = {1, 2}
  Devices <- DeviceOrder
  Capabilities <- TwoCapabilities
  Contents <- Samples
  Statuses <- AllStatuses
  Priority <- Ranks
  Malformed = "malformed"
  NoCheck = "none"
  Refreshes = {f1}
  Integrations = {d1, "litellm"}
  Probed = {"litellm"}
  Ttl = 1
  Fresh = 1
  MaxTime = 1
INVARIANTS
  HealthInv
  HealthIsCurrent
  DeviceRowsMatchReports
PROPERTY
  WriteLockIsReleased
