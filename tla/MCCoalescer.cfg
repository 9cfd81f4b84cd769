CONSTANTS
    Docs = {d1, d2}
    Fields = {f1, f2}
    MaxFails = 2
    MaxClock = 3
    None = None
SPECIFICATION BSpec
INVARIANTS TypeOK RetriesWithinBudget LayersOrdered
PROPERTIES ImplementsWriteBehind DropsOnlyAfterBudget BufferDrains
CHECK_DEADLOCK FALSE
