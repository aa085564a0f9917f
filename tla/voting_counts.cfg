SPECIFICATION Spec
CONSTANTS
    a1 = a1
    a2 = a2
    a3 = a3
    p = p
    Accounts = {a1, a2, a3}
    Candidates = {p}
    NoProxy = NoProxy
    MaxVotes = 30
    Growth <- TwoWeeks
    StakeChanges <- UpDown
    MaxStake = 2
    MinActivatedStake = 2
    MinActivatedWeek = 0
SYMMETRY AccountSymmetry
INVARIANTS
    VotesAreCounted
    ProxiesAreCounted
    
    ProxiesFormChains
PROPERTIES
    StakeActivatesOnce
