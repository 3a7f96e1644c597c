SPECIFICATION Spec
CONSTANTS
    Callers = {c1, c2}
    Sticky = {c1}
    Sharded = {}
    List <- EndpointList
    Local = {"e1"}
    Parents = {p1, p2}
    Threshold = 2
    MinSamples = 1
    HalfOpenMax = 1
    MaxCalls = 2
    MaxOutages = 3
    MaxFaults = 1
CHECK_DEADLOCK FALSE
INVARIANTS PendingIsWaited
PROPERTIES ClosedByProbe ProbeDecides ParentIsFound
