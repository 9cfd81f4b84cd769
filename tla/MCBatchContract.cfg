SPECIFICATION Spec
CONSTANTS
    Engines = {"rethinkdb"}
    Clients = {c1}
    Subs = {s1}
    Top = Top
    MaxOps = 2
    MaxFaults = 0
    None = None
    Nothing = Nothing
PROPERTY BatchContract
