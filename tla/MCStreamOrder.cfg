SPECIFICATION Spec
CONSTANTS
    MaxFrames = 1
    MaxRemote = 1
    IngressLimit = 1
    BackendLimit = 1
    MaxLost = 0
    Places = {"remote"}
CHECK_DEADLOCK FALSE
INVARIANT WriteIsLegal
