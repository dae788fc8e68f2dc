\* A listener with a limit ends while the owner's command is on its way; every
\* source goes on sending.
CONSTANTS
    Endpoints = {e1, e2}
    BadEndpoints = {}
    Owner = owner
    Threads = {t1}
    Shared = FALSE
    Operations = {"fork", "add"}
    Limits = {1}
    InboxCap = 1
    CountCap = 1
    MaxRequests = 1
SPECIFICATION TrafficSpec
PROPERTIES
    CallReturns
\* The owner may wait for ever for a listener.
CHECK_DEADLOCK FALSE
