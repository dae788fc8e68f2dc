\* One shared socket, a refused endpoint, listeners forked beside a listen of
\* the owner: everything the owner may do, in any order.
CONSTANTS
    Endpoints = {e1, e2}
    BadEndpoints = {e2}
    Owner = owner
    Threads = {t1, t2}
    Shared = TRUE
    Operations = {"fork", "async", "listen", "disconnect", "add", "remove", "ctxInterrupt"}
    Limits = {1}
    InboxCap = 1
    CountCap = 1
    MaxRequests = 1
SPECIFICATION Spec
INVARIANTS
    AtMostOneLate
\* The owner may wait for ever for a listener.
CHECK_DEADLOCK FALSE
