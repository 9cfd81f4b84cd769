SPECIFICATION Spec
CONSTANTS
    Ids = {i1, i2}
    Fields = {f1}
    Values = {v1}
    Clients = {c1, c2}
    Sweeper = Sweeper
    Cap = 1
    MaxTime = 1
    MaxRequests = 3
    MaxRestarts = 1
    None = None
SYMMETRY Symmetry
INVARIANT ShadowsAreTrue
PROPERTIES
    ForceLeavesNoTrace
    CountIsCurrent
    DeadAreSwept
CHECK_DEADLOCK FALSE
