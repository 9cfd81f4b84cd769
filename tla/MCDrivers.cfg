SPECIFICATION Spec
CONSTANTS
    Engines = {"sqlite", "postgres", "mysql", "rethinkdb"}
    Clients = {c1, c2}
    Subs = {s1, s2}
    Top = Top
    MaxOps = 2
    MaxFaults = 1
    None = None
    Nothing = Nothing
SYMMETRY Symmetry
PROPERTIES
    RequestsAreAtomic
    FailuresLeaveNoTrace
    CollectionsKeepApart
