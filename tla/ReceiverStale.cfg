\* Individual sockets, endpoints removed while messages of theirs are in the
\* list of readable ones.
CONSTANTS
    Endpoints = {e1, e2}
    BadEndpoints = {}
    Owner = owner
    Threads = {t1}
    Shared = FALSE
    Operations = {"start", "add", "remove"}
    Limits = {}
    InboxCap = 1
    CountCap = 1
    MaxRequests = 3
SPECIFICATION SchedSpec
PROPERTIES
    NeverDeaf
\* The owner may wait for ever for a listener.
CHECK_DEADLOCK FALSE
