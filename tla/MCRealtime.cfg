SPECIFICATION Spec
CONSTANTS
    Docs = {d1}
    Values = {in, out, hidden}
    Fitting = {in, hidden}
    Readable = {in, out}
    Writers = {w1}
    Watches = {TRUE, FALSE}
    Floods = TRUE
    BusCap = 1
    TickCap = 1
    MaxWrites = 3
    None = None
INVARIANTS ViewFollowsSnapshot
PROPERTIES EventsFitTheView SnapshotHeals
CHECK_DEADLOCK FALSE
