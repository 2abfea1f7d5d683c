SPECIFICATION PlannerSpec
CONSTANTS
    k1 = k1
    k2 = k2
    k3 = k3
    k4 = k4
    Keys = {k1, k2, k3}
    DefaultKey = k1
    NumSlots = 2
    PathB <- MCPathB
    EvictPath = "Off"
    MaxRuns = 2
    MaxStamp = 12
    MaxTimeline = 2
    TopK = 2
    Routes <- MCRoutes
    Order <- MCOrder0
    Keep = FALSE
    Inflights = {}
    Runs = 2
    DemandBase = 1
    MaxLayers = 2
    NumFetch = 3
    Word = 16
    Faults = {"read"}
    Modes = {"Off", "Mask", "FixedMask"}
SYMMETRY OtherKeys
INVARIANTS
    GroupExact LayerReady
