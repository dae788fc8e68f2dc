\* Three keys compete for zero, one, two or three places.
CONSTANTS
    Keys = {k1, k2, k3}
    Values = {v1, v2}
    MaxSizes = {0, 1, 2, 3}
    MaxUpdates = 4
SPECIFICATION MapSpec
INVARIANTS
    MapTypeOK
    WellFormed
    KeepsNewest
    OrderIsByUpdate
