SPECIFICATION Spec
CONSTANTS
    h1 = h1
    h2 = h2
    f1 = f1
    alice = alice
    bob = bob
    alice1bob = alice1bob
    Oracles <- HonestAndFaulty
    Faulty <- OneFaulty
    Accounts <- ThreeAccounts
    Totals <- LedgerTotals
    Datasets <- LedgerDatasets
    Reports <- LedgerReports
    Thresholds = {2}
    BatchSize = 2
    PeriodSeconds = 1
    Rankings <- LedgerRanking
    Amounts <- SomeTokens
    PeriodCap = 10
    Precision = 11
    MaxSupply = 16
    InitialSupply = 1
    MaxDays = 2
    SystemMaxCpu = 3
    SystemMaxNet = 8
    WordModulus = 64
    CarefulGovernance = TRUE
    MaxTime = 1
    MaxDataset = 1
INVARIANTS BpaySolvent
PROPERTIES UpayIsSolvent
