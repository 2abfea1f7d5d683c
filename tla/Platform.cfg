SPECIFICATION PlatformSpec
CONSTANTS
  Configs <- MCConfigs
  Machines <- MCMachines
  MaxBoots = 2
  Settings <- MCSettings
  Chunks = {1, 2, 3}
  Submitters = {s1, s2}
  Request <- MCRequest
  Entries = 2
  MaxFaults = 2
  FileOf <- MCFileOf
  Files = {"a", "b"}
  Workers = {w1, w2}
  Depth = 2
  PoolMax = 1
  NShards = 2
  NMirrors = 1
  Disks <- MCDisks
  Returns <- MCReturns
  MaxFalls = 2
  ErrorBudget = 2
  Reqs = {r1, r2}
  Experts = {1, 2, 3}
  Identities = {"a", "b"}
  Capacities = {1, 2}
  Base = 100
  MaxUses = 2
INVARIANTS EngineLetsGo MemoryExact UringSound IocpSound MirrorsSound SnapshotSound RecordingSound
CHECK_DEADLOCK FALSE
