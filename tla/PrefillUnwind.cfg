CONSTANTS
    EngramLayers = {2}
    Experts <- MCExperts
    TransitSlots = 1
    Configs <- MCConfigs
    ReadFaults = 1
    CutLayer = 3
    KvSources = {2, 3}
    IndexSources = {2, 3, 4}
    DraftLayers = {3, 4}
    CandLayer = 3
    Ratio = 2
    Window = 2
    TopK = 2
    QueryBlock = 2
    W16Slots = 4
SPECIFICATION Spec
INVARIANT NothingLandsFreed
CHECK_DEADLOCK FALSE
