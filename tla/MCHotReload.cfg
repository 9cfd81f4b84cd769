SPECIFICATION DSpec
CONSTANTS
    Requests = {r1}
    Admins = {a1, a2}
    Tokens = {t1}
    MaxReloads = 2
    None = None
SYMMETRY Symmetry
INVARIANTS
    RefusedReloadLeavesNoTrace
    DrainsIntoFreshDriver
CHECK_DEADLOCK FALSE
