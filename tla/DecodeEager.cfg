SPECIFICATION Spec
CONSTANTS
    NumLayers = 2
    EngramLayers <- MCEngram
    Configs <- MCEager
INVARIANT
    CommandIdle
CHECK_DEADLOCK FALSE
