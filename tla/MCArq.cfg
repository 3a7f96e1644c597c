\* Three data packets on either kind of channel and one control packet.
SPECIFICATION FairSpec
CONSTANTS
    Channels = {"video", "file"}
    Reliable = {"file"}
    MaxData = 3
    MaxControl = 1
    MaxFlight = 2
    kMaxRetries = 1
    LossThreshold = 0
    GiveUp = 1
    MaxListed = 3
    MaxMissing = 2
INVARIANTS NothingPrunedEarly CursorIsExact
PROPERTIES GapIsSettled AckedIsReleased
