\* Reordering alone, on a reliable channel.
SPECIFICATION Spec
CONSTANTS
    Channels = {"file"}
    Reliable = {"file"}
    MaxData = 3
    MaxControl = 0
    MaxFlight = 1
    kMaxRetries = 1
    LossThreshold = 0
    GiveUp = 1
    MaxListed = 3
    MaxMissing = 2
INVARIANT MissingHasNotArrived
