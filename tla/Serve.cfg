CONSTANTS
    Names = {"default", "a", "b"}
    Default = "default"
    FileOf <- MCFileOf
    WriteFaults = 1
    Configs <- MCConfigs
    MaxStarts = 2
SPECIFICATION Spec
INVARIANTS Resumes NothingLost CancelStops
PROPERTY Served
CHECK_DEADLOCK FALSE
