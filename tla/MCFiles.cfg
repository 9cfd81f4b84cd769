SPECIFICATION Spec
CONSTANTS
    Docs = 2
    Fields = {f}
    Shas = {x}
    Clients = {c1, c2}
    PageSize = 1
    MaxRequests = 2
    MaxFaults = 1
    Mortals = {1}
    None = None
INVARIANTS
    ReadyHasBytes
PROPERTY GarbageGoes
CHECK_DEADLOCK FALSE
