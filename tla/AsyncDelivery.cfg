\* Two receivers, one with two endpoints, of a pool or not; a channel is full
\* with one message; any one callback panics or never ends.
CONSTANTS
    e1 = e1
    e2 = e2
    e3 = e3
    Endpoints = {e1, e2, e3}
    N = 2
    None = None
    Serves <- ServesTwo
    Capacity = 1
    MaxRead <- Read
    MaxFaults = 1
SPECIFICATION FairSpec
INVARIANTS
    OneAtATime
    PanicHasCause
PROPERTIES
    InOrder
    EveryReadIsDelivered
    StopReturns
\* All has been read and stopped.
CHECK_DEADLOCK FALSE
