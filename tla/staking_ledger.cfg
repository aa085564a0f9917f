SPECIFICATION Spec
CONSTANTS
    a = a
    b = b
    Accounts = {a, b}
    Candidates = {a}
    NoProxy = NoProxy
    MaxVotes = 30
    Growth <- OneWeek
    StakeChanges <- AllChanges
    MaxStake = 10
    MinActivatedStake = 1
    MinActivatedWeek = 0
    Quantities <- NetOrCpu
    Liquid <- OneEach
    MinSelfStake = 1
    RefundDelay = 1
    WordModulus = 1000
    MaxTime = 1
PROPERTY ImplementsVoting
INVARIANTS
    StakeIsBacked
    StakeIsUsed
    DeferredInTime
CHECK_DEADLOCK FALSE
