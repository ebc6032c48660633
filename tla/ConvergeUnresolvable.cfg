SPECIFICATION Spec
CONSTANTS
  halo = halo
  halo_ = halo_
  zen = zen
  github = github
  u1 = u1
  u2 = u2
  e1 = e1
  e2 = e2
  m1 = m1
  Ids = {halo, halo_, zen, github}
  Providers = {halo, halo_, zen}
  Norm <- Spelling
  Urls = {u1, u2}
  NoUrl = NoUrl
  Envs = {e1, e2}
  EnvNames = {e1}
  Models = {m1}
  Unset = Unset
  Broken = Broken
  Odd = Odd
  Shared = Shared
  Private = Private
  Modes = {Private, Shared}
  Partial = Partial
  Absent = Absent
  Contents <- FileContents
  Writers = {1, 2}
  Cases <- DeviceCases
  MaxFaults = 2
INVARIANT
  UnresolvableIsNone

CHECK_DEADLOCK FALSE
