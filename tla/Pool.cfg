\* Two receivers share three endpoints, one of which refuses connections.
CONSTANTS
    Endpoints = {e1, e2, e3}
    BadEndpoints = {e3}
    Sources = {e1}
    N = 2
    BufferSize = 2
    MaxSent = 3
    MaxCalls = 5
SPECIFICATION FairSpec
\* The bound on calls ends every behaviour, and a call may never return.
CHECK_DEADLOCK FALSE
INVARIANTS
    OneReceiver
    OneConnection
    Balanced
    OrderKept
PROPERTIES
    StopEndsAll
