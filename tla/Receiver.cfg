\* Individual sockets, two successive listeners, every operation of a receiver
\* that is started, stopped and joined; nothing assumed of the messages.
CONSTANTS
    Endpoints = {e1, e2}
    BadEndpoints = {}
    Owner = owner
    Threads = {t1, t2}
    Shared = FALSE
    Operations = {"start", "stop", "join", "connect", "disconnect", "add", "remove", "interrupt"}
    Limits = {}
    InboxCap = 1
    CountCap = 1
    MaxRequests = 3
SPECIFICATION SchedSpec
INVARIANTS
    TypeOK
    SocketsFollowEndpoints
    SingleListener
PROPERTIES
    CommandAnswered
    InterruptStops
\* The owner may wait for ever for a listener that ended.
CHECK_DEADLOCK FALSE
