SPECIFICATION FairSpec
CONSTANTS
    h1 = h1
    h2 = h2
    f1 = f1
    alice = alice
    bob = bob
    alice1bob = alice1bob
    Oracles <- HonestAndFaulty
    Faulty <- OneFaulty
    Accounts <- TwoAccounts
    Totals <- MCTotals
    Datasets <- MCDatasets
    Reports <- MCReports
    Thresholds = {2}
    BatchSize = 2
    PeriodSeconds = 1
    Rankings <- MCRankings
    Amounts <- TightTokens
    PeriodCap = 10
    Precision = 11
    MaxSupply = 2
    InitialSupply = 1
    MaxDays = 3
    SystemMaxCpu = 3
    SystemMaxNet = 8
    WordModulus = 64
    CarefulGovernance = TRUE
    MaxTime = 2
    MaxDataset = 2
INVARIANTS TypeOK InflationIsTrue DistributionsAreTrue HonestAreAccepted HonestSuffice
PROPERTIES ImplementsPeriods HonestScore PeriodsAdvance
