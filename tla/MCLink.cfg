\* A leaf that connects and a node that waits; either crashes, the leaf may
\* also be stopped.
SPECIFICATION FairSpec
CONSTANTS
    Ends = {"leaf", "node"}
    Connectors = {"leaf"}
    Stopping = {"leaf"}
    MaxFaults = 1
    MaxFlight = 1
INVARIANT AnswererIsKeyed
PROPERTIES Converges DeadIsNoticed
