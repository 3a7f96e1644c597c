\* Two messages in every shape: data, or a manifest and a chunk of a file of
\* one or two chunks.
SPECIFICATION FairSpec
CONSTANTS
    MaxMessages = 2
    MaxFiles = 1
    MaxChunks = 2
    DataCounts = {1, 2}
    ParityCounts = {0, 1, 2}
INVARIANTS HandedOnce FiredWhole
PROPERTY IncomingIsSettled
CHECK_DEADLOCK FALSE
