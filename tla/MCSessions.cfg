SPECIFICATION RSpec
CONSTANTS
    Clients = {c1, c2}
    Users = {u1, u2}
    MaxTokens = 3
    MaxAttempts = 2
    None = None
SYMMETRY Symmetry
INVARIANTS
    SpentTokensStayDead
    TokensStayInTheirSession
    RevocationIsComplete
    GuessesBounded
CHECK_DEADLOCK FALSE
