SPECIFICATION Spec
CONSTANTS
    MaxFrames = 3
    MaxRemote = 0
    IngressLimit = 1
    BackendLimit = 1
    MaxLost = 0
    Places = {"local"}
CHECK_DEADLOCK FALSE
PROPERTY FailedEnds
