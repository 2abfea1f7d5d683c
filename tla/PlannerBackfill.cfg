SPECIFICATION FairPlannerSpec
CONSTANTS
    k1 = k1
    k2 = k2
    k3 = k3
    k4 = k4
    Keys = {k1, k2, k3}
    DefaultKey = k1
    NumSlots = 2
    PathB <- MCPathB
    EvictPath = "Off"
    MaxRuns = 2
    MaxStamp = 12
    MaxTimeline = 0
    TopK = 2
    Routes <- MCRoutes
    Order <- MCOrder
    Keep = FALSE
    Inflights = {2}
    Runs = 2
    DemandBase = 3
    MaxLayers = 1
    NumFetch = 3
    Word = 16
    Faults = {"read", "refuse", "timeout"}
    Modes = {}
INVARIANTS
    FillsExact
PROPERTIES
    GuessesGoFirst WaitReturns BackfillEnds
