\* The callbacks of the two threads, within one session.
SPECIFICATION Spec
CONSTANTS
    MaxCmds = 4
    MaxResets = 0
    Rtts = {1}
    DefaultRtt = 1
    kMaxWaitRtt = 3
    MaxWait = 3
INVARIANT FiredInOrder
