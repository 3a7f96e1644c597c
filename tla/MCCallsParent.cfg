SPECIFICATION Spec
CONSTANTS
    Callers = {c1, c2}
    Sticky = {c1}
    Sharded = {}
    List <- EndpointList
    Local = {"e1"}
    Parents = {p1, p2}
    Threshold = 2
    MinSamples = 1
    HalfOpenMax = 1
    MaxCalls = 0
    MaxOutages = 3
    MaxFaults = 0
CHECK_DEADLOCK FALSE
PROPERTY ParentIsOnline
