SPECIFICATION Spec
CONSTANTS
    c1 = c1
    c2 = c2
    d1 = d1
    Docs = {d1, d2}
    Clients = {c1, c2}
    Longest <- MCLongest
    Words <- MCWords
    Rules <- MCRules
    Needed = {1}
    Own <- MCOwn
    MaxRequests = 2
    Old = Old
    None = None
INVARIANT BusFollowsStore
PROPERTY BatchIsSequential
CHECK_DEADLOCK FALSE
