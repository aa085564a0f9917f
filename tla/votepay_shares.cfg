SPECIFICATION PaySpec
CONSTANTS
    a1 = a1
    a2 = a2
    p = p
    q = q
    Accounts = {a1, a2}
    Candidates = {p, q}
    NoProxy = NoProxy
    MaxVotes = 1
    Growth <- TwoWeeks
    StakeChanges = {1}
    MaxStake = 1
    MinActivatedStake = 0
    MinActivatedWeek = 0
    Legacy = {q}
    LegacyClaims = {0}
    ClaimWindow = 2
    WeekLength = 4
    MaxTime = 5
SYMMETRY AccountSymmetry
INVARIANTS
    RateIsOfVotes
    TotalIsSumOfShares
    LapsedHaveNoShare
