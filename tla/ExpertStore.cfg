SPECIFICATION Spec
CONSTANTS
    k1 = k1
    k2 = k2
    k3 = k3
    Keys = {k1, k2, k3}
    DefaultKey = k1
    NumSlots = 2
    PathB <- MCPathB
    EvictPath = "PreferA"
    MaxRuns = 1
    MaxStamp = 1
    MaxTimeline = 2
INVARIANTS
    StoreConsistent ReadersKept
PROPERTIES
    StoreSteps ImplementsCache
