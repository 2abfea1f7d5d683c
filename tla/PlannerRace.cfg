SPECIFICATION PlannerSpec
CONSTANTS
    k1 = k1
    k2 = k2
    k3 = k3
    k4 = k4
    Keys = {k1, k2, k3, k4}
    DefaultKey = k1
    NumSlots = 3
    PathB <- MCPathB
    EvictPath = "Off"
    MaxRuns = 1
    MaxStamp = 16
    MaxTimeline = 0
    TopK = 2
    Routes <- MCRoutes
    Order <- MCOrder
    Keep = FALSE
    Inflights = {2}
    Runs = 1
    DemandBase = 3
    MaxLayers = 2
    NumFetch = 3
    Word = 16
    Faults = {}
    Modes = {}
INVARIANTS
    LayerReady
