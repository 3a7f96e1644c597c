\* Five commands over a lossy wire; the endpoints reset twice between them.
SPECIFICATION FairSpec
CONSTANTS
    MaxCmds = 5
    MaxResets = 2
    Rtts = {0, 2}
    DefaultRtt = 1
    kMaxWaitRtt = 3
    MaxWait = 6
INVARIANTS TypeOK HeldWaitsOnGap HandedInOrder
PROPERTIES ImplementsOrdered HeldIsReleased
