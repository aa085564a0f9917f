SPECIFICATION Spec
CONSTANTS
    g = g
    a = a
    Accounts = {g, a}
    Genesis = {g}
    Tokens = 1
    Deltas <- NetOnly
    Purchases = {1, 5}
    Limits = {0}
    RamSizes = {4}
    Rates = {5}
    InitialRam = 2
    TokenUnit = 3
    WordModulus = 8
    MaxWeight = 1
    MaxTime = 2
INVARIANTS
    TypeOK
    LimitsFollowRows
    RamIsBacked
    SupplyIsDue
PROPERTY
    BytesAreExact
CHECK_DEADLOCK FALSE
