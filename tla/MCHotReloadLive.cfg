SPECIFICATION DSpec
CONSTANTS
    Requests = {r1, r2}
    Admins = {a1}
    Tokens = {t1}
    MaxReloads = 1
    None = None
PROPERTY OldWorldDies
CHECK_DEADLOCK FALSE
