\* Three data headers, two of which have as many channels; simulated IDs from 1
\* and an explicit one in between.
CONSTANTS
    two = two  other = other  one = one
    Layouts <- Wide
    Width <- Widths
    StartId = 1
    ExplicitIds = {3}
    MaxSends = 3
SPECIFICATION Spec
\* The bound on sends ends every behaviour.
CHECK_DEADLOCK FALSE
INVARIANTS
    NothingLeftBehind
    AcceptedIsGenuine
    WholeIsAccepted
PROPERTY
    IdsIncrease
