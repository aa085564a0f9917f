SPECIFICATION Spec
CONSTANTS
    a = a
    b = b
    c = c
    UTX = UTX
    RAM = RAM
    Accounts = {a, b, c}
    Codes = {UTX, RAM}
    Precisions = {4, 8}
    MaxAmount = 4
    Supplies = {0, 3, 5}
    Amounts = {0, 1, 2}
SYMMETRY TokenSymmetry
INVARIANTS
    TypeOK
    SupplyIsHeld
