\* No fault at all: packets are only lost or reordered.
SPECIFICATION Spec
CONSTANTS
    Ends = {"leaf", "node"}
    Connectors = {"leaf"}
    Stopping = {}
    MaxFaults = 0
    MaxFlight = 2
INVARIANT OnlineIsHandshaken
