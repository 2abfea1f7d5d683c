SPECIFICATION Spec
CONSTANTS
    NumLayers = 2
    EngramLayers <- MCEngram
    Configs <- MCFailing
INVARIANT
    TokenStarts
CHECK_DEADLOCK FALSE
