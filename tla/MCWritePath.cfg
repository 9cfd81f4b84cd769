CONSTANTS
    Docs = {d1}
    Fields = {f1}
    Clients = {c1, c2}
    MaxFails = 1
    MaxClock = 2
    None = None
SPECIFICATION WSpec
INVARIANTS ExactUnlessOverlapped GetIsCurrent
SYMMETRY Symmetry
