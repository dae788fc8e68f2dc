\* Sources that switch between two headers send flawed messages and any of five
\* orders of ID ranges (0 is not positive, 5 out of range in the future, 1 in the
\* past), while checks are switched on and off, endpoints come and go, counters
\* are reset and a listener is forked; on one socket or on several.
CONSTANTS
    Endpoints = {e1, e2}
    h1 = h1  h2 = h2
    HeadersOf <- Changing
    Ids = {0, 1, 3, 5}
    Faults = {"none", "late", "compressed", "channels"}
    Masks = {{0}, {1}, {0, 1}, {2}}
    Operations = {"socketError", "disconnect", "add", "remove", "reset", "initT0", "fork"}
    Now = 3
    IdRange = 1
    MaxReceives = 3
    MaxCalls = 2
SPECIFICATION Spec
VIEW Outlook
\* The bounds on messages and calls end every behaviour.
CHECK_DEADLOCK FALSE
INVARIANTS
    StatsAddUp
PROPERTIES
    IncreasingWhileChecked
    RefusedOnlyAgainstDelivered
    ChangeIsExact
