\* One file of one chunk, each message one packet.
SPECIFICATION Spec
CONSTANTS
    MaxMessages = 2
    MaxFiles = 1
    MaxChunks = 1
    DataCounts = {1}
    ParityCounts = {0}
INVARIANT FileArrives
CHECK_DEADLOCK FALSE
