SPECIFICATION Spec
CONSTANTS
    a1 = a1
    a2 = a2
    a3 = a3
    p = p
    Accounts = {a1, a2, a3}
    Candidates = {p}
    NoProxy = NoProxy
    MaxVotes = 30
    Growth <- OneWeek
    StakeChanges <- UpDown
    MaxStake = 2
    MinActivatedStake = 1
    MinActivatedWeek = 0
PROPERTY
    FirstVoteActivates
