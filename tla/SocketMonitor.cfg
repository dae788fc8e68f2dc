\* Two endpoints, one of which can be opened, closed and opened again while
\* connections change and the thread is behind.
CONSTANTS
    Endpoints = {e1, e2}
    MaxSockets = 3
    MaxChanges = 3
SPECIFICATION FairSpec
\* A thread that has ended does nothing more.
CHECK_DEADLOCK FALSE
INVARIANTS
    StatesAreCurrent
PROPERTIES
    Converges
    RemovedIsForgotten
