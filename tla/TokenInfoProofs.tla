--------------------------- MODULE TokenInfoProofs ---------------------------
(***************************************************************************)
(* The two contracts that stand alone.  The token: amounts are never       *)
(* negative, and all tokens issued are held, for any accounts, symbols and *)
(* amounts.  eosio.info: rows are unique, for any users, keys and ids.     *)
(***************************************************************************)
EXTENDS Token, Info, Sums

\* What the rows of the table b hold of the token c.
Rows(b, c) == {x \in DOMAIN b : x[2] = c}
Held(b, c) == SumFunction([k \in Rows(b, c) |-> b[k].amount])

\* What the table b has at k.
AmountOf(b, k) == IF k \in DOMAIN b THEN b[k].amount ELSE 0

IsTable(b) ==
    /\ DOMAIN b \subseteq Accounts \X Codes
    /\ \A k \in DOMAIN b : b[k] \in [precision : Precisions, amount : Nat]

TokenInv == TypeOK /\ SupplyIsHeld

-----------------------------------------------------------------------------
LEMMA RowsAreFinite ==
    ASSUME NEW b, IsTable(b), NEW c
    PROVE  IsFiniteSet(Rows(b, c))
  <1>1. IsFiniteSet(Accounts \X Codes)
    BY TokenConstants, FS_Product
  <1>2. Rows(b, c) \in SUBSET (Accounts \X Codes)
    BY DEF IsTable, Rows
  <1> QED BY <1>1, <1>2, FS_Subset

LEMMA HeldIsSum ==
    ASSUME NEW b, NEW c
    PROVE  Held(b, c) = SumFunctionOnSet([k \in Rows(b, c) |-> b[k].amount], Rows(b, c))
  BY DEF Held, SumFunction

\* When one row of the table changes, appears or goes, what is held of its
\* token changes by as much as the row, and nothing changes for other tokens.
LEMMA HeldChanges ==
    ASSUME NEW b, NEW d, IsTable(b), IsTable(d), NEW k, NEW c,
           DOMAIN b \ {k} = DOMAIN d \ {k}, \A x \in DOMAIN b \ {k} : d[x] = b[x]
    PROVE  /\ Held(b, c) \in Nat
           /\ Held(d, c) = Held(b, c) + IF k[2] = c THEN AmountOf(d, k) - AmountOf(b, k) ELSE 0
  <1> DEFINE f == [x \in Rows(b, c) |-> b[x].amount]
             g == [x \in Rows(d, c) |-> d[x].amount]
  <1>1. /\ \A x \in Rows(b, c) : f[x] \in Nat /\ f[x] = b[x].amount
        /\ \A x \in Rows(d, c) : g[x] \in Nat /\ g[x] = d[x].amount
    BY DEF IsTable, Rows
  <1>2. /\ Rows(b, c) \ {k} = Rows(d, c) \ {k}
        /\ \A x \in Rows(b, c) \ {k} : f[x] = g[x]
    BY DEF Rows
  <1>3. Held(b, c) = SumFunctionOnSet(f, Rows(b, c)) /\ Held(d, c) = SumFunctionOnSet(g, Rows(d, c))
    BY HeldIsSum
  <1> HIDE DEF f, g
  <1>4. IsFiniteSet(Rows(b, c))
    BY RowsAreFinite
  <1>5. Held(b, c) \in Nat
    BY <1>1, <1>3, <1>4, SumNat
  <1>6. Held(d, c) = Held(b, c) + (IF k \in Rows(d, c) THEN g[k] ELSE 0)
                                - (IF k \in Rows(b, c) THEN f[k] ELSE 0)
    BY <1>1, <1>2, <1>3, <1>4, SumDiffer
  <1>7. CASE k[2] = c
    <2>1. /\ k \in Rows(b, c) <=> k \in DOMAIN b
          /\ k \in Rows(d, c) <=> k \in DOMAIN d
      BY <1>7 DEF Rows
    <2> QED BY <1>1, <1>5, <1>6, <1>7, <2>1 DEF AmountOf
  <1>8. CASE k[2] # c
    <2>1. k \notin Rows(b, c) /\ k \notin Rows(d, c)
      BY <1>8 DEF Rows
    <2> QED BY <1>5, <1>6, <1>8, <2>1
  <1> QED BY <1>5, <1>7, <1>8

\* A row is never more than what is held in all of its token.
LEMMA HeldBoundsRows ==
    ASSUME NEW b, IsTable(b), NEW k \in DOMAIN b
    PROVE  b[k].amount <= Held(b, k[2])
  <1> DEFINE f == [x \in Rows(b, k[2]) |-> b[x].amount]
  <1>1. k \in Rows(b, k[2]) /\ \A x \in Rows(b, k[2]) : f[x] \in Nat
    BY DEF IsTable, Rows
  <1>2. f[k] <= SumFunctionOnSet(f, Rows(b, k[2]))
    BY <1>1, RowsAreFinite, SumBounds
  <1> QED BY <1>1, <1>2, HeldIsSum

-----------------------------------------------------------------------------
\* From the table b to the table d, the row at k gets n more, and is made with
\* the precision p if it was not there.
RowGets(b, d, k, n, p) ==
    /\ DOMAIN d = DOMAIN b \cup {k}
    /\ \A x \in DOMAIN b \ {k} : d[x] = b[x]
    /\ AmountOf(d, k) = AmountOf(b, k) + n
    /\ d[k].precision = IF k \in DOMAIN b THEN b[k].precision ELSE p
    /\ IsTable(d)

LEMMA AddBalanceRow ==
    ASSUME NEW b, IsTable(b), NEW o \in Accounts, NEW c \in Codes, NEW p \in Precisions, NEW n \in Nat
    PROVE  RowGets(b, AddBalance(b, o, c, p, n), <<o, c>>, n, p)
  <1> DEFINE k == <<o, c>>
             d == AddBalance(b, o, c, p, n)
  <1>1. CASE k \in DOMAIN b
    <2>1. d = [b EXCEPT ![k].amount = @ + n]
      BY <1>1 DEF AddBalance
    <2>2. b[k] \in [precision : Precisions, amount : Nat]
      BY <1>1 DEF IsTable
    <2>3. [b[k] EXCEPT !.amount = @ + n] \in [precision : Precisions, amount : Nat]
      BY <2>2
    <2> QED BY <1>1, <2>1, <2>2, <2>3 DEF IsTable, AmountOf, RowGets
  <1>2. CASE k \notin DOMAIN b
    <2>1. d = Row(b, k, [precision |-> p, amount |-> n])
      BY <1>2 DEF AddBalance
    <2>2. k \in Accounts \X Codes
      OBVIOUS
    <2> HIDE DEF k, d
    <2>3. RowGets(b, d, k, n, p)
      BY <1>2, <2>1, <2>2 DEF IsTable, AmountOf, Row, RowGets
    <2> USE DEF k, d
    <2> QED BY <2>3
  <1> QED BY <1>1, <1>2

LEMMA SubBalanceRow ==
    ASSUME NEW b, IsTable(b), NEW o \in Accounts, NEW c \in Codes, NEW n \in Nat,
           <<o, c>> \in DOMAIN b, b[<<o, c>>].amount >= n, NEW p
    PROVE  RowGets(b, SubBalance(b, o, c, n), <<o, c>>, -n, p)
  <1> DEFINE k == <<o, c>>
             d == SubBalance(b, o, c, n)
  <1>1. d = [b EXCEPT ![k].amount = @ - n]
    BY DEF SubBalance
  <1>2. b[k] \in [precision : Precisions, amount : Nat]
    BY DEF IsTable
  <1>3. [b[k] EXCEPT !.amount = @ - n] \in [precision : Precisions, amount : Nat]
    BY <1>2
  <1> QED BY <1>1, <1>2, <1>3 DEF IsTable, AmountOf, RowGets

\* What is held changes by as much.
LEMMA RowGetsHeld ==
    ASSUME NEW b, IsTable(b), NEW d, NEW k, NEW n \in Int, NEW p, RowGets(b, d, k, n, p), NEW c
    PROVE  /\ Held(b, c) \in Nat
           /\ Held(d, c) = Held(b, c) + IF k[2] = c THEN n ELSE 0
  <1>1. /\ DOMAIN b \ {k} = DOMAIN d \ {k}
        /\ \A x \in DOMAIN b \ {k} : d[x] = b[x]
        /\ IsTable(d) /\ AmountOf(d, k) = AmountOf(b, k) + n
    BY DEF RowGets
  <1>2. /\ Held(b, c) \in Nat
        /\ Held(d, c) = Held(b, c) + IF k[2] = c THEN AmountOf(d, k) - AmountOf(b, k) ELSE 0
    BY <1>1, HeldChanges
  <1>3. AmountOf(b, k) \in Nat
    BY DEF IsTable, AmountOf
  <1> QED BY <1>1, <1>2, <1>3

-----------------------------------------------------------------------------
\* A step is checked by what it does to the tables: each token's supply stays
\* between nothing and its maximum and moves as what is held of it.
LEMMA StepKeepsInv ==
    ASSUME TokenInv, IsTable(balances'),
           \A c \in DOMAIN stats' : stats'[c] \in [precision : Precisions, supply : Nat,
                                                   max_supply : 1..MaxAmount, issuer : Accounts],
           DOMAIN stats' \subseteq Codes,
           \A k \in DOMAIN balances' : /\ k[2] \in DOMAIN stats'
                                       /\ balances'[k].precision = stats'[k[2]].precision,
           \A c \in DOMAIN stats' : /\ stats'[c].supply <= stats'[c].max_supply
                                    /\ stats'[c].supply = Held(balances', c)
    PROVE  TokenInv'
  <1>1. ASSUME NEW k \in DOMAIN balances'
        PROVE  balances'[k] \in [precision : {stats'[k[2]].precision}, amount : Nat]
    BY <1>1 DEF IsTable
  <1>2. DOMAIN balances' \subseteq Accounts \X DOMAIN stats'
    BY DEF IsTable
  <1>3. TypeOK'
    BY <1>1, <1>2 DEF TypeOK
  <1>4. SupplyIsHeld'
    BY DEF SupplyIsHeld, Held, Rows
  <1> QED BY <1>3, <1>4 DEF TokenInv

LEMMA InvIsTable == TokenInv => IsTable(balances)
  <1> SUFFICES ASSUME TokenInv PROVE IsTable(balances)
    OBVIOUS
  <1>1. ASSUME NEW k \in DOMAIN balances
        PROVE  balances[k] \in [precision : Precisions, amount : Nat]
    BY DEF TokenInv, TypeOK
  <1> QED BY <1>1 DEF IsTable, TokenInv, TypeOK

LEMMA InvHeld ==
    ASSUME TokenInv, NEW c \in DOMAIN stats
    PROVE  /\ stats[c] \in [precision : Precisions, supply : Nat,
                            max_supply : 1..MaxAmount, issuer : Accounts]
           /\ c \in Codes
           /\ stats[c].supply <= stats[c].max_supply
           /\ stats[c].supply = Held(balances, c)
  BY DEF TokenInv, TypeOK, SupplyIsHeld, Held, Rows

\* A row that does not exist yet is of a token that has been created.
LEMMA InvRows ==
    ASSUME TokenInv, NEW k \in DOMAIN balances
    PROVE  k[2] \in DOMAIN stats /\ balances[k].precision = stats[k[2]].precision
  BY DEF TokenInv, TypeOK

LEMMA CreateStep ==
    ASSUME TokenInv, NEW issuer \in Accounts, NEW code \in Codes, NEW precision \in Precisions,
           NEW max \in Supplies, Create(issuer, code, precision, max)
    PROVE  TokenInv'
  <1> DEFINE row == [precision |-> precision, supply |-> 0, max_supply |-> max, issuer |-> issuer]
  <1>1. /\ max \in 1..MaxAmount /\ code \notin DOMAIN stats
        /\ stats' = Row(stats, code, row) /\ balances' = balances
    BY TokenConstants DEF Create, IsValid
  <1>2. row \in [precision : Precisions, supply : Nat, max_supply : 1..MaxAmount, issuer : Accounts]
    BY <1>1
  <1>3. row.supply = 0 /\ row.max_supply = max
    OBVIOUS
  <1> HIDE DEF row
  <1>4. /\ DOMAIN stats' = DOMAIN stats \cup {code}
        /\ stats'[code] = row
        /\ \A c \in DOMAIN stats : stats'[c] = stats[c]
    BY <1>1 DEF Row
  <1>5. Held(balances, code) = 0
    <2>1. Rows(balances, code) = {}
      BY <1>1, InvRows DEF Rows
    <2> QED BY <2>1, HeldIsSum, SumEmpty
  <1>6. IsTable(balances')
    BY <1>1, InvIsTable
  <1>7. \A k \in DOMAIN balances' : /\ k[2] \in DOMAIN stats'
                                    /\ balances'[k].precision = stats'[k[2]].precision
    BY <1>1, <1>4, InvRows
  <1>8. ASSUME NEW c \in DOMAIN stats'
        PROVE  /\ stats'[c] \in [precision : Precisions, supply : Nat,
                                 max_supply : 1..MaxAmount, issuer : Accounts]
               /\ stats'[c].supply <= stats'[c].max_supply
               /\ stats'[c].supply = Held(balances', c)
               /\ c \in Codes
    BY <1>1, <1>2, <1>3, <1>4, <1>5, InvHeld
  <1> QED BY <1>6, <1>7, <1>8, StepKeepsInv

\* issue, retire and transfer begin with the same checks.
LEMMA MoveType ==
    ASSUME TokenInv, NEW code \in Codes, NEW precision, NEW amount \in Amounts,
           MayMove(code, precision, amount)
    PROVE  /\ code \in DOMAIN stats /\ amount \in Nat /\ amount > 0
           /\ precision = stats[code].precision /\ precision \in Precisions
           /\ stats[code].issuer \in Accounts
  BY TokenConstants, InvHeld DEF MayMove

StatRows == [precision : Precisions, supply : Nat, max_supply : 1..MaxAmount, issuer : Accounts]

\* From stats to stats', the supply of the token changes by n.
SupplyGets(code, n) ==
    /\ DOMAIN stats' = DOMAIN stats
    /\ \A c \in DOMAIN stats \ {code} : stats'[c] = stats[c]
    /\ stats'[code] \in StatRows
    /\ stats'[code].precision = stats[code].precision
    /\ stats'[code].max_supply = stats[code].max_supply
    /\ stats'[code].supply = stats[code].supply + n

\* The supply of the token and one row change by the same amount.
LEMMA SupplyStep ==
    ASSUME TokenInv, NEW code \in DOMAIN stats, NEW n \in Int, NEW k, k[2] = code,
           RowGets(balances, balances', k, n, stats[code].precision), SupplyGets(code, n),
           stats[code].supply + n \in 0..stats[code].max_supply
    PROVE  TokenInv'
  <1>1. IsTable(balances) /\ IsTable(balances')
    BY InvIsTable DEF RowGets
  <1>2. \A c : /\ Held(balances, c) \in Nat
               /\ Held(balances', c) = Held(balances, c) + IF code = c THEN n ELSE 0
    BY <1>1, RowGetsHeld
  <1>3. ASSUME NEW c \in DOMAIN stats'
        PROVE  /\ stats'[c] \in [precision : Precisions, supply : Nat,
                                 max_supply : 1..MaxAmount, issuer : Accounts]
               /\ stats'[c].precision = stats[c].precision
               /\ stats'[c].supply <= stats'[c].max_supply
               /\ stats'[c].supply = Held(balances', c)
               /\ c \in Codes
    <2>1. c \in DOMAIN stats
      BY DEF SupplyGets
    <2>2. CASE c = code
      BY <1>2, <2>2, InvHeld DEF SupplyGets, StatRows
    <2>3. CASE c # code
      <3>1. stats'[c] = stats[c] /\ Held(balances', c) = Held(balances, c)
        BY <1>2, <2>1, <2>3 DEF SupplyGets
      <3> QED BY <2>1, <3>1, InvHeld
    <2> QED BY <2>2, <2>3
  <1>4. \A x \in DOMAIN balances' : /\ x[2] \in DOMAIN stats'
                                    /\ balances'[x].precision = stats'[x[2]].precision
    BY <1>3, InvRows DEF RowGets, SupplyGets
  <1> QED BY <1>1, <1>3, <1>4, StepKeepsInv DEF SupplyGets

LEMMA IssueStep ==
    ASSUME TokenInv, NEW code \in Codes, NEW precision \in Precisions, NEW amount \in Amounts,
           Issue(code, precision, amount)
    PROVE  TokenInv'
  <1> DEFINE k == <<stats[code].issuer, code>>
  <1>1. /\ code \in DOMAIN stats /\ amount \in Nat /\ stats[code].issuer \in Accounts
        /\ precision = stats[code].precision
    BY MoveType DEF Issue
  <1>2. RowGets(balances, balances', k, amount, precision)
    BY <1>1, InvIsTable, AddBalanceRow DEF Issue
  <1>3. stats[code].supply + amount \in 0..stats[code].max_supply
    BY <1>1, InvHeld DEF Issue, MayIssue
  <1>4. SupplyGets(code, amount)
    <2>1. stats[code] \in StatRows /\ stats' = [stats EXCEPT ![code].supply = @ + amount]
      BY <1>1, InvHeld DEF Issue, StatRows
    <2> QED BY <1>1, <1>3, <2>1 DEF SupplyGets, StatRows
  <1>5. k[2] = code
    OBVIOUS
  <1> HIDE DEF k
  <1> QED BY <1>1, <1>2, <1>3, <1>4, <1>5, SupplyStep

\* What is retired was held, so the supply does not go below nothing although
\* retire does not look at it.
LEMMA RetireStep ==
    ASSUME TokenInv, NEW code \in Codes, NEW precision \in Precisions, NEW amount \in Amounts,
           Retire(code, precision, amount)
    PROVE  TokenInv'
  <1> DEFINE k == <<stats[code].issuer, code>>
             n == -amount
  <1>1. /\ code \in DOMAIN stats /\ amount \in Nat /\ stats[code].issuer \in Accounts
        /\ precision = stats[code].precision
    BY MoveType DEF Retire
  <1>2. k \in DOMAIN balances /\ balances[k].amount >= amount
    BY DEF Retire, MaySubBalance
  <1>3. RowGets(balances, balances', k, n, precision)
    BY <1>1, <1>2, InvIsTable, SubBalanceRow DEF Retire
  <1>4. k[2] = code
    OBVIOUS
  <1>5. n \in Int /\ amount = -n
    BY <1>1
  <1>6. stats' = [stats EXCEPT ![code].supply = @ - amount]
    BY <1>1 DEF Retire
  <1> HIDE DEF k, n
  <1>7. balances[k].amount <= Held(balances, code) /\ balances[k].amount \in Nat
    BY <1>2, <1>4, InvIsTable, HeldBoundsRows DEF IsTable
  <1>8. stats[code].supply + n \in 0..stats[code].max_supply
    BY <1>1, <1>2, <1>5, <1>7, InvHeld
  <1>9. SupplyGets(code, n)
    <2>1. stats[code] \in StatRows
      BY <1>1, InvHeld DEF StatRows
    <2> QED BY <1>1, <1>5, <1>6, <1>8, <2>1 DEF SupplyGets, StatRows
  <1> QED BY <1>1, <1>3, <1>4, <1>5, <1>8, <1>9, SupplyStep

LEMMA TransferStep ==
    ASSUME TokenInv, NEW from \in Accounts, NEW to \in Accounts, NEW code \in Codes,
           NEW precision \in Precisions, NEW amount \in Amounts,
           Transfer(from, to, code, precision, amount)
    PROVE  TokenInv'
  <1> DEFINE k == <<from, code>>
             l == <<to, code>>
             n == -amount
             b == SubBalance(balances, from, code, amount)
  <1>1. /\ code \in DOMAIN stats /\ amount \in Nat
        /\ precision = stats[code].precision /\ stats' = stats
    BY MoveType DEF Transfer
  <1>2. k \in DOMAIN balances /\ balances[k].amount >= amount
    BY DEF Transfer, MaySubBalance
  <1>3. RowGets(balances, b, k, n, precision)
    BY <1>1, <1>2, InvIsTable, SubBalanceRow
  <1>4. IsTable(b) /\ balances' = AddBalance(b, to, code, precision, amount)
    BY <1>3 DEF RowGets, Transfer
  <1>5. n \in Int /\ n + amount = 0 /\ k[2] = code /\ l[2] = code
    BY <1>1
  <1> HIDE DEF b
  <1>6. RowGets(b, balances', l, amount, precision)
    BY <1>1, <1>4, AddBalanceRow
  <1> HIDE DEF k, l, n
  <1>7. ASSUME NEW c
        PROVE  Held(balances', c) = Held(balances, c)
    <2>1. /\ Held(balances, c) \in Nat
          /\ Held(b, c) = Held(balances, c) + IF code = c THEN n ELSE 0
      BY <1>3, <1>5, InvIsTable, RowGetsHeld
    <2>2. Held(balances', c) = Held(b, c) + IF code = c THEN amount ELSE 0
      BY <1>1, <1>4, <1>5, <1>6, RowGetsHeld
    <2> QED BY <1>1, <1>5, <2>1, <2>2
  <1>8. IsTable(balances') /\ DOMAIN balances' = DOMAIN balances \cup {k, l}
    BY <1>3, <1>6 DEF RowGets
  <1>9. ASSUME NEW x \in DOMAIN balances'
        PROVE  x[2] \in DOMAIN stats /\ balances'[x].precision = stats[x[2]].precision
    <2>1. ASSUME NEW y \in DOMAIN b
          PROVE  y[2] \in DOMAIN stats /\ b[y].precision = stats[y[2]].precision
      BY <1>1, <1>2, <1>3, <1>5, <2>1, InvRows DEF RowGets
    <2> QED BY <1>1, <1>5, <1>6, <2>1 DEF RowGets
  <1> QED BY <1>1, <1>7, <1>8, <1>9, InvHeld, StepKeepsInv

LEMMA OpenStep ==
    ASSUME TokenInv, NEW owner \in Accounts, NEW code \in Codes, NEW precision \in Precisions,
           Open(owner, code, precision)
    PROVE  TokenInv'
  <1> DEFINE k == <<owner, code>>
  <1>1. CASE k \in DOMAIN balances
    <2>1. UNCHANGED vars
      BY <1>1 DEF Open, vars
    <2> QED BY <2>1 DEF vars, TokenInv, TypeOK, SupplyIsHeld
  <1>2. CASE k \notin DOMAIN balances
    <2>1. stats' = stats /\ code \in DOMAIN stats /\ precision = stats[code].precision
      BY DEF Open
    <2>2. balances' = AddBalance(balances, owner, code, precision, 0)
      BY <1>2 DEF Open, AddBalance
    <2>3. RowGets(balances, balances', k, 0, precision)
      BY <2>2, InvIsTable, AddBalanceRow
    <2>4. k[2] = code
      OBVIOUS
    <2> HIDE DEF k
    <2>5. ASSUME NEW c
          PROVE  Held(balances', c) = Held(balances, c)
      BY <2>3, InvIsTable, RowGetsHeld
    <2>6. \A x \in DOMAIN balances' : /\ x[2] \in DOMAIN stats
                                      /\ balances'[x].precision = stats[x[2]].precision
      BY <1>2, <2>1, <2>3, <2>4, InvRows DEF RowGets
    <2> QED BY <2>1, <2>3, <2>5, <2>6, InvHeld, StepKeepsInv DEF RowGets
  <1> QED BY <1>1, <1>2

\* close erases a row of nothing.
LEMMA CloseStep ==
    ASSUME TokenInv, NEW owner \in Accounts, NEW code \in Codes, Close(owner, code)
    PROVE  TokenInv'
  <1> DEFINE k == <<owner, code>>
  <1>1. k \in DOMAIN balances /\ balances[k].amount = 0 /\ stats' = stats
    BY DEF Close
  <1>2. /\ DOMAIN balances' = DOMAIN balances \ {k}
        /\ \A x \in DOMAIN balances' : balances'[x] = balances[x]
    BY DEF Close, Restrict
  <1> HIDE DEF k
  <1>3. IsTable(balances) /\ IsTable(balances')
    BY <1>2, InvIsTable DEF IsTable
  <1>4. AmountOf(balances, k) = 0 /\ AmountOf(balances', k) = 0
    BY <1>1, <1>2 DEF AmountOf
  <1>5. DOMAIN balances \ {k} = DOMAIN balances' \ {k}
    BY <1>2
  <1>6. \A c : /\ Held(balances, c) \in Nat
               /\ Held(balances', c) = Held(balances, c)
                      + IF k[2] = c THEN AmountOf(balances', k) - AmountOf(balances, k) ELSE 0
    BY <1>2, <1>3, <1>5, HeldChanges
  <1>7. \A c : Held(balances', c) = Held(balances, c)
    BY <1>4, <1>6
  <1>8. \A x \in DOMAIN balances' : /\ x[2] \in DOMAIN stats
                                    /\ balances'[x].precision = stats[x[2]].precision
    BY <1>2, InvRows
  <1> QED BY <1>1, <1>3, <1>7, <1>8, InvHeld, StepKeepsInv

-----------------------------------------------------------------------------
LEMMA TokenInvHolds == Spec => []TokenInv
  <1>1. Init => TokenInv
    <2> SUFFICES ASSUME Init PROVE TokenInv
      OBVIOUS
    <2> QED BY DEF Init, TokenInv, TypeOK, SupplyIsHeld
  <1>2. TokenInv /\ [Next]_vars => TokenInv'
    <2> SUFFICES ASSUME TokenInv, [Next]_vars PROVE TokenInv'
      OBVIOUS
    <2>1. CASE UNCHANGED vars
      BY <2>1 DEF vars, TokenInv, TypeOK, SupplyIsHeld
    <2>2. ASSUME NEW code \in Codes, NEW precision \in Precisions, NEW owner \in Accounts,
                 NEW max \in Supplies, Create(owner, code, precision, max)
          PROVE  TokenInv'
      BY <2>2, CreateStep
    <2>3. ASSUME NEW code \in Codes, NEW precision \in Precisions, NEW amount \in Amounts,
                 Issue(code, precision, amount)
          PROVE  TokenInv'
      BY <2>3, IssueStep
    <2>4. ASSUME NEW code \in Codes, NEW precision \in Precisions, NEW amount \in Amounts,
                 Retire(code, precision, amount)
          PROVE  TokenInv'
      BY <2>4, RetireStep
    <2>5. ASSUME NEW code \in Codes, NEW precision \in Precisions, NEW owner \in Accounts,
                 NEW amount \in Amounts, NEW to \in Accounts,
                 Transfer(owner, to, code, precision, amount)
          PROVE  TokenInv'
      BY <2>5, TransferStep
    <2>6. ASSUME NEW code \in Codes, NEW precision \in Precisions, NEW owner \in Accounts,
                 Open(owner, code, precision)
          PROVE  TokenInv'
      BY <2>6, OpenStep
    <2>7. ASSUME NEW code \in Codes, NEW owner \in Accounts, Close(owner, code)
          PROVE  TokenInv'
      BY <2>7, CloseStep
    <2> QED BY <2>1, <2>2, <2>3, <2>4, <2>5, <2>6, <2>7 DEF Next
  <1> QED BY <1>1, <1>2, PTL DEF Spec

\* The tables of the token are well typed: no balance and no supply is ever
\* negative, and no row has a precision other than its token's.
THEOREM TypeCorrect == Spec => []TypeOK
  BY TokenInvHolds, PTL DEF TokenInv

\* What is issued and not retired is held, and at most the maximum supply is.
THEOREM SupplyCorrect == Spec => []SupplyIsHeld
  BY TokenInvHolds, PTL DEF TokenInv

-----------------------------------------------------------------------------
(***************************************************************************)
(* eosio.info.  Its second indexes are not unique by themselves: that they *)
(* are follows from what the actions look up before they add a row, and    *)
(* that ids are never given twice from all ids being below the next one.   *)
(***************************************************************************)
\* A table of finitely many rows whose ids are natural numbers, none twice.
IsKept(rows) ==
    /\ IsFiniteSet(rows)
    /\ \A r \in rows : r.id \in Nat
    /\ Unique(rows)

InfoInv ==
    /\ IsKept(userkeys)
    /\ DOMAIN userverifs = KycAccounts
    /\ \A a \in KycAccounts : IsKept(userverifs[a])

\* A finite set of numbers has a greatest one.
LEMMA FiniteHasMax ==
    ASSUME NEW S, IsFiniteSet(S), S # {}, \A x \in S : x \in Nat
    PROVE  Max(S) \in S /\ \A y \in S : Max(S) >= y
  <1> DEFINE HasMax(T) == T # {} => \E x \in T : \A y \in T : x >= y
             Good == {T \in SUBSET S : HasMax(T)}
  <1>1. {} \in Good
    OBVIOUS
  <1>2. ASSUME NEW T \in SUBSET S, T # {}, \A x \in T : T \ {x} \in Good
        PROVE  T \in Good
    <2>1. PICK z \in T : T \ {z} \in Good
      BY <1>2
    <2>2. CASE T \ {z} = {}
      <3>1. T = {z} /\ z \in Nat
        BY <2>1, <2>2
      <3> QED BY <3>1
    <2>3. CASE T \ {z} # {}
      <3>1. PICK m \in T \ {z} : \A y \in T \ {z} : m >= y
        BY <2>1, <2>3
      <3>2. m \in Nat /\ z \in Nat /\ (\A y \in T : y \in Nat)
        BY <2>1, <3>1
      <3>3. \E x \in {m, z} : \A y \in T : x >= y
        BY <3>1, <3>2
      <3> QED BY <2>1, <3>1, <3>3
    <2> QED BY <2>2, <2>3
  <1> HIDE DEF Good
  <1>3. S \in Good
    BY <1>1, <1>2, SubsetsInduction
  <1>4. \E x \in S : \A y \in S : x >= y
    BY <1>3 DEF Good
  <1> QED BY <1>4 DEF Max

\* No row has the id that the next row gets.
LEMMA AvailableIdIsNew ==
    ASSUME NEW rows, IsKept(rows)
    PROVE  AvailableId(rows) \in Nat /\ \A r \in rows : r.id # AvailableId(rows)
  <1>1. CASE rows = {}
    BY <1>1 DEF AvailableId
  <1>2. CASE rows # {}
    <2> DEFINE ids == {r.id : r \in rows}
    <2>1. IsFiniteSet(ids)
      <3> DEFINE f == [r \in rows |-> r.id]
      <3>1. f \in Surjection(rows, ids)
        BY DEF Surjection
      <3> HIDE DEF f, ids
      <3> QED BY <3>1, FS_Surjection DEF IsKept
    <2>2. ids # {} /\ (\A x \in ids : x \in Nat) /\ \A r \in rows : r.id \in ids
      BY <1>2 DEF IsKept
    <2> HIDE DEF ids
    <2>3. Max(ids) \in Nat /\ \A y \in ids : y \in Nat /\ Max(ids) >= y
      BY <2>1, <2>2, FiniteHasMax
    <2>4. AvailableId(rows) = Max(ids) + 1
      BY <1>2 DEF AvailableId, ids
    <2> QED BY <2>2, <2>3, <2>4
  <1> QED BY <1>1, <1>2

\* Removing rows keeps the table.
LEMMA RemovalKeeps ==
    ASSUME NEW rows, IsKept(rows), NEW S
    PROVE  IsKept(rows \ S)
  BY FS_Difference DEF IsKept, Unique

\* So does a row with a new id, for a user and key that have none.
LEMMA AdditionKeeps ==
    ASSUME NEW rows, IsKept(rows), NEW row, row.id \in Nat,
           \A r \in rows : r.id # row.id, Of(rows, row.user, row.key) = {}
    PROVE  IsKept(rows \cup {row})
  <1>1. IsFiniteSet(rows \cup {row})
    BY FS_AddElement DEF IsKept
  <1>2. \A r \in rows : ~ (r.user = row.user /\ r.key = row.key)
    BY DEF Of
  <1> QED BY <1>1, <1>2 DEF IsKept, Unique

-----------------------------------------------------------------------------
\* adduserver looks for the verification before it adds one.
LEMMA AddUserVerStep ==
    ASSUME InfoInv, NEW a \in KycAccounts, NEW u \in Users, NEW k \in Keys,
           AddUserVer(a, u, k)
    PROVE  InfoInv'
  <1> DEFINE row == [id |-> AvailableId(userverifs[a]), user |-> u, key |-> k]
  <1>1. IsKept(userverifs[a] \cup {row})
    <2>1. IsKept(userverifs[a])
      BY DEF InfoInv
    <2>2. row.user = u /\ row.key = k /\ row.id = AvailableId(userverifs[a])
      OBVIOUS
    <2>3. Of(userverifs[a], row.user, row.key) = {}
      BY <2>2 DEF AddUserVer
    <2> HIDE DEF row
    <2> QED BY <2>1, <2>2, <2>3, AvailableIdIsNew, AdditionKeeps
  <1>2. userverifs' = [userverifs EXCEPT ![a] = userverifs[a] \cup {row}] /\ userkeys' = userkeys
    BY DEF AddUserVer
  <1> QED BY <1>1, <1>2 DEF InfoInv

\* setuserkey changes the row it finds and keeps its id, or adds one.
LEMMA SetUserKeyStep ==
    ASSUME InfoInv, NEW u \in Users, NEW k \in Keys, NEW m \in Memos, SetUserKey(u, k, m)
    PROVE  InfoInv'
  <1> DEFINE present == Of(userkeys, u, k)
             id == IF present = {} THEN AvailableId(userkeys)
                                   ELSE Max({r.id : r \in present})
             row == [id |-> id, user |-> u, key |-> k, memo |-> m]
  <1>1. userkeys' = (userkeys \ present) \cup {row} /\ userverifs' = userverifs
    BY DEF SetUserKey
  <1>2. IsKept(userkeys) /\ IsKept(userkeys \ present)
    BY RemovalKeeps DEF InfoInv
  <1>3. id \in Nat /\ \A r \in userkeys \ present : r.id # id
    <2>1. CASE present = {}
      BY <1>2, <2>1, AvailableIdIsNew
    <2>2. CASE present # {}
      <3>1. PICK old \in userkeys : present = {old}
        BY <1>2, <2>2 DEF Of, Unique, IsKept
      <3>2. {r.id : r \in present} = {old.id} /\ old.id \in Nat
        BY <1>2, <3>1 DEF IsKept
      <3>3. Max({old.id}) = old.id
        BY <3>2 DEF Max
      <3>4. id = old.id
        BY <2>2, <3>2, <3>3
      <3>5. \A r \in userkeys : r.id = old.id => r = old
        BY <1>2 DEF IsKept, Unique
      <3> QED BY <3>1, <3>2, <3>4, <3>5
    <2> QED BY <2>1, <2>2
  <1>4. Of(userkeys \ present, u, k) = {}
    BY DEF Of
  <1>5. row.id = id /\ row.user = u /\ row.key = k
    OBVIOUS
  <1> HIDE DEF row, id, present
  <1>6. IsKept((userkeys \ present) \cup {row})
    BY <1>2, <1>3, <1>4, <1>5, AdditionKeeps
  <1> QED BY <1>1, <1>6 DEF InfoInv

LEMMA InfoInvHolds == InfoSpec => []InfoInv
  <1>1. InfoInit => InfoInv
    BY FS_EmptySet DEF InfoInit, InfoInv, IsKept, Unique
  <1>2. InfoInv /\ [InfoNext]_infoVars => InfoInv'
    <2> SUFFICES ASSUME InfoInv, [InfoNext]_infoVars PROVE InfoInv'
      OBVIOUS
    <2>1. CASE userkeys' = userkeys /\ userverifs' = userverifs
      BY <2>1 DEF InfoInv
    <2>2. ASSUME NEW a \in KycAccounts, NEW u \in Users, NEW k \in Keys, DelUserVer(a, u, k)
          PROVE  InfoInv'
      <3>1. /\ userverifs' = [userverifs EXCEPT ![a] = userverifs[a] \ Of(userverifs[a], u, k)]
            /\ userkeys' = userkeys
        BY <2>2 DEF DelUserVer
      <3>2. IsKept(userverifs[a] \ Of(userverifs[a], u, k))
        BY RemovalKeeps DEF InfoInv
      <3> QED BY <3>1, <3>2 DEF InfoInv
    <2>3. ASSUME NEW u \in Users, NEW k \in Keys, DelUserKey(u, k)
          PROVE  InfoInv'
      <3>1. userkeys' = userkeys \ Of(userkeys, u, k) /\ userverifs' = userverifs
        BY <2>3 DEF DelUserKey
      <3> QED BY <3>1, RemovalKeeps DEF InfoInv
    <2>4. CASE UNCHANGED infoVars
      BY <2>1, <2>4 DEF infoVars
    <2>5. ASSUME NEW a \in KycAccounts, AddKycAcc(a) \/ DelKycAcc(a)
          PROVE  InfoInv'
      BY <2>1, <2>5 DEF AddKycAcc, DelKycAcc
    <2>6. ASSUME NEW k \in Keys, NEW user \in BOOLEAN, AddKeyType(k, user) \/ UpdKeyType(k, user)
          PROVE  InfoInv'
      BY <2>1, <2>6 DEF AddKeyType, UpdKeyType, WriteKeyType
    <2>7. CASE InfoNext
      BY <2>2, <2>3, <2>5, <2>6, <2>7, AddUserVerStep, SetUserKeyStep DEF InfoNext
    <2> QED BY <2>4, <2>7
  <1> QED BY <1>1, <1>2, PTL DEF InfoSpec

\* However rows were deleted and added, no two rows of userkeys, and no two
\* verifications of a KYC account, have the same id or the same user and key.
THEOREM RowsCorrect == InfoSpec => []RowsAreUnique
  <1>1. InfoInv => RowsAreUnique
    BY DEF InfoInv, IsKept, RowsAreUnique
  <1> QED BY <1>1, InfoInvHolds, PTL
=============================================================================
