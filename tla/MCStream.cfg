SPECIFICATION Spec
CONSTANTS
    MaxFrames = 3
    MaxRemote = 2
    IngressLimit = 1
    BackendLimit = 1
    MaxLost = 1
    Places = {"local", "remote"}
CHECK_DEADLOCK FALSE
INVARIANTS CallsAreLegal LocalInOrder
PROPERTIES EndIsReached SpeakerIsCancelled
