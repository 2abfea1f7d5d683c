SPECIFICATION PassesSpec
CONSTANTS
    NumLayers = 2
    EngramLayers <- MCEngram
    Configs <- MCConfigs
    tokA = tokA
    tokB = tokB
    Tokens = {tokA, tokB}
    Prompts <- MCPrompts
    Window = 4
    MaxContext = 8
    FirstContext = 3
    MaxNew = 3
    MaxDraft = 2
    GpuMin = 5
    Speedup = 2
    BakeMin = 5
    ContextConfigs <- MCContexts
    PrefillEngram = {2}
    Experts <- MCPrefillExperts
    TransitSlots = 1
    PrefillConfigs <- MCPrefills
    ReadFaults = 1
    CutLayer = 3
    KvSources = {2, 3}
    IndexSources = {2, 3, 4}
    DraftLayers = {3, 4}
    CandLayer = 3
    PrefillRatio = 2
    PrefillWindow = 2
    TopK = 2
    QueryBlock = 2
    W16Slots = 4
INVARIANTS
    StepSound
    IdleReleased
    NeverStuck
    ContextExact
    DraftReady
    TransitExact
    HandoffExact
PROPERTIES
    RejectedLeaveNoTrace
CHECK_DEADLOCK FALSE
