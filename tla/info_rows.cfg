SPECIFICATION InfoSpec
CONSTANTS
    kyc = kyc
    u1 = u1
    u2 = u2
    k1 = k1
    k2 = k2
    m1 = m1
    m2 = m2
    KycAccounts = {kyc}
    Users = {u1, u2}
    Keys = {k1, k2}
    Memos = {m1, m2}
    MaxId = 2
INVARIANT
    RowsAreUnique
SYMMETRY UsersAreAlike
CHECK_DEADLOCK FALSE
