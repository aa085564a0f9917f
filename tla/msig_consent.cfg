SPECIFICATION Spec
CONSTANTS
    Proposers = {"prop"}
    ProposalNames = {"p1"}
    Levels <- MCLevels
    Trxs <- MCTrxs
    RequestedLists <- MCLists
    Authorities <- MCAuthorities
    Legacy <- MCLegacy
    NoHash = NoHash
    MaxTime = 2
INVARIANTS
    TypeOK
    TablesInSync
PROPERTY
    ExecIsConsented
