SPECIFICATION FairSpec
CONSTANTS
    n1 = n1
    n2 = n2
    alice = alice
    bob = bob
    Names = {n1, n2}
    Bidders = {alice, bob}
    System = System
    Funds = 4
    IdleDays = 1
    WaitDays = 1
INVARIANTS
    NamesAreFunded
    BiddersPayForNames
PROPERTIES
    ClosedIsFinal
    OutbidAreRefunded
    AuctionsClose
