--------------------------- MODULE ResourcesProofs ---------------------------
(***************************************************************************)
(* Theorems about Resources, for all accounts, amounts and bounds.         *)
(***************************************************************************)
EXTENDS Resources, Sums

\* The tokens of eosio.ram, the stake counted and the RAM reserved go
\* together; TypeOK needs it where sellram lowers all three.
MarketInv == ram_stake = reserved /\ ram_balance = reserved

MarketTypeOK == TypeOK /\ MarketInv

-----------------------------------------------------------------------------
\* What buyram and sellram do to the limits leaves them limits.
LEMMA RamLimitType ==
    ASSUME TypeOK, NEW a \in DOMAIN limits, NEW row \in [Kinds -> Nat]
    PROVE  /\ DOMAIN RamLimit(a, row) = DOMAIN limits
           /\ \A b \in DOMAIN limits : RamLimit(a, row)[b] \in [Kinds -> Int]
BY DEF RamLimit, TypeOK, Kinds

\* The row of an account is one, whether or not it is stored.
LEMMA ResourceType ==
    ASSUME TypeOK, NEW a
    PROVE  Resource(a) \in [Kinds -> Nat]
BY DEF Resource, NoResources, TypeOK, Kinds

\* update_ram_supply leaves the supply well typed.
LEMMA SupplyType ==
    ASSUME TypeOK, UpdateRamSupply
    PROVE  max_ram_size' \in Nat /\ base' \in Nat /\ last_ram_increase' \in 0..now
<1>1. CASE now <= last_ram_increase
  BY <1>1 DEF UpdateRamSupply, TypeOK
<1>2. CASE ~(now <= last_ram_increase)
  <2> DEFINE new_ram == ((now - last_ram_increase) * rate) % WordModulus
  <2>1. (now - last_ram_increase) * rate \in Nat
    BY <1>2 DEF TypeOK
  <2>2. new_ram \in Nat
    BY <2>1, ResourcesConstants
  <2>3. max_ram_size' = max_ram_size + new_ram /\ base' = base + new_ram /\ last_ram_increase' = now
    BY <1>2 DEF UpdateRamSupply
  <2> QED
    BY <2>2, <2>3 DEF TypeOK
<1> QED
  BY <1>1, <1>2

\* A purchase keeps the types and the market.
LEMMA BuyRamType ==
    ASSUME MarketTypeOK, NEW payer \in Accounts, NEW a \in Accounts, NEW units \in Int,
           BuyRam(payer, a, units)
    PROVE  MarketTypeOK'
<1> DEFINE row == [Resource(a) EXCEPT !.ram = @ + units]
<1>1. units \in Nat /\ a \in DOMAIN limits /\ payer \in DOMAIN limits
  BY DEF BuyRam, Exists
<1>2. row \in [Kinds -> Nat]
  BY <1>1, ResourceType DEF MarketTypeOK, Kinds
<1>3. userres' = Row(userres, a, row) /\ limits' = RamLimit(a, row)
  BY DEF BuyRam, Receive
<1>4. DOMAIN limits' = DOMAIN limits /\ \A b \in DOMAIN limits' : limits'[b] \in [Kinds -> Int]
  BY <1>1, <1>2, <1>3, RamLimitType DEF MarketTypeOK
<1>5. DOMAIN userres' \subseteq DOMAIN limits' /\ \A b \in DOMAIN userres' : userres'[b] \in [Kinds -> Nat]
  BY <1>1, <1>2, <1>3, <1>4 DEF Row, MarketTypeOK, TypeOK
<1>6. max_ram_size' \in Nat /\ base' \in Nat /\ last_ram_increase' \in 0..now
  BY SupplyType DEF BuyRam, MarketTypeOK
<1>7. /\ tokens' \in [Accounts -> Nat] /\ ram_balance' \in Nat /\ reserved' \in Nat
      /\ ram_stake' \in Nat /\ MarketInv'
  BY <1>1 DEF BuyRam, MarketTypeOK, TypeOK, MarketInv
<1>8. managed' = managed /\ unfit' = unfit /\ rate' = rate /\ due' = due /\ now' = now
  BY DEF BuyRam
<1> QED
  BY <1>4, <1>5, <1>6, <1>7, <1>8 DEF MarketTypeOK, TypeOK

\* So does a sale.
LEMMA SellRamType ==
    ASSUME MarketTypeOK, NEW a \in Accounts, NEW units \in Int, SellRam(a, units)
    PROVE  MarketTypeOK'
<1> DEFINE row == [userres[a] EXCEPT !.ram = @ - units]
<1>1. units \in Nat /\ a \in DOMAIN userres /\ a \in DOMAIN limits /\ userres[a].ram >= units
  BY DEF SellRam, MarketTypeOK, TypeOK
<1>2. userres[a] \in [Kinds -> Nat] /\ row \in [Kinds -> Nat]
  BY <1>1 DEF MarketTypeOK, TypeOK, Kinds
<1>3. userres' = [userres EXCEPT ![a] = row] /\ limits' = RamLimit(a, row)
  <2>1. userres' = [userres EXCEPT ![a].ram = @ - units] /\ limits' = RamLimit(a, userres'[a])
    BY DEF SellRam
  <2>2. userres'[a] = row
    BY <2>1, <1>1
  <2> QED
    BY <2>1, <2>2
<1>4. DOMAIN limits' = DOMAIN limits /\ \A b \in DOMAIN limits' : limits'[b] \in [Kinds -> Int]
  BY <1>1, <1>2, <1>3, RamLimitType DEF MarketTypeOK
<1>5. DOMAIN userres' \subseteq DOMAIN limits' /\ \A b \in DOMAIN userres' : userres'[b] \in [Kinds -> Nat]
  BY <1>1, <1>2, <1>3, <1>4 DEF MarketTypeOK, TypeOK
<1>6. max_ram_size' \in Nat /\ base' \in Nat /\ last_ram_increase' \in 0..now
  BY SupplyType DEF SellRam, MarketTypeOK
<1>7. /\ tokens' \in [Accounts -> Nat] /\ ram_balance' \in Nat /\ reserved' \in Nat
      /\ ram_stake' \in Nat /\ MarketInv'
  BY <1>1 DEF SellRam, MarketTypeOK, TypeOK, MarketInv
<1>8. managed' = managed /\ unfit' = unfit /\ rate' = rate /\ due' = due /\ now' = now
  BY DEF SellRam
<1> QED
  BY <1>4, <1>5, <1>6, <1>7, <1>8 DEF MarketTypeOK, TypeOK

\* What the actions on one account leave alone.
OnlyAccounts == UNCHANGED <<marketVars, supplyVars, now>>

\* The types of an account's row and limits are all there is to show for the
\* actions that change nothing else.
LEMMA OnlyAccountsType ==
    ASSUME MarketTypeOK, OnlyAccounts,
           DOMAIN limits' \subseteq Accounts,
           \A a \in DOMAIN limits' : limits'[a] \in [Kinds -> Int],
           DOMAIN userres' \subseteq DOMAIN limits',
           \A a \in DOMAIN userres' : userres'[a] \in [Kinds -> Nat],
           managed' \in [Accounts -> SUBSET Kinds],
           unfit' \subseteq DOMAIN limits'
    PROVE  MarketTypeOK'
BY DEF OnlyAccounts, marketVars, supplyVars, MarketTypeOK, TypeOK, MarketInv

\* The part of changebw on resources writes weights from 0 on, and keeps or
\* erases the row.
LEMMA ChangeWeightsType ==
    ASSUME MarketTypeOK, NEW a \in Accounts, NEW d \in Deltas, ChangeWeights(a, d)
    PROVE  MarketTypeOK'
<1> USE DEF MarketTypeOK
<1> DEFINE row == [Resource(a) EXCEPT !.net = @ + d.net, !.cpu = @ + d.cpu]
<1>1. a \in DOMAIN limits /\ limits[a] \in [Kinds -> Int]
  BY DEF ChangeWeights, Exists, TypeOK
<1>2. row.net \in 0..MaxWeight /\ row.cpu \in 0..MaxWeight /\ limits' = StakeLimits(a, row)
      /\ userres' = (IF row = NoResources THEN Restrict(userres, DOMAIN userres \ {a})
                                          ELSE Row(userres, a, row))
      /\ managed' = managed /\ unfit' = unfit /\ OnlyAccounts
  BY DEF ChangeWeights, OnlyAccounts
<1>3. row \in [Kinds -> Nat]
  <2>1. row.net \in Nat /\ row.cpu \in Nat
    BY <1>2, ResourcesConstants
  <2>2. Resource(a) \in [Kinds -> Nat]
    BY ResourceType
  <2> QED
    BY <2>1, <2>2 DEF Kinds
<1> HIDE DEF row
<1>4. DOMAIN limits' = DOMAIN limits /\ \A b \in DOMAIN limits' : limits'[b] \in [Kinds -> Int]
  BY <1>1, <1>2, <1>3 DEF StakeLimits, TypeOK, Kinds
<1>5. DOMAIN userres' \subseteq DOMAIN limits' /\ \A b \in DOMAIN userres' : userres'[b] \in [Kinds -> Nat]
  BY <1>1, <1>2, <1>3, <1>4 DEF Row, Restrict, TypeOK
<1> QED
  BY <1>2, <1>4, <1>5, OnlyAccountsType DEF TypeOK

\* newaccount makes a row and limits of nothing.
LEMMA NewAccountType ==
    ASSUME MarketTypeOK, NEW a \in Accounts, NewAccount(a)
    PROVE  MarketTypeOK'
<1>1. NoResources \in [Kinds -> Nat] /\ NoResources \in [Kinds -> Int]
  BY DEF NoResources, Kinds
<1>2. OnlyAccounts
  BY DEF NewAccount, OnlyAccounts
<1> QED
  BY <1>1, <1>2, OnlyAccountsType DEF NewAccount, Row, MarketTypeOK, TypeOK

\* setalimits and the setters of managed resources write what they are given,
\* or what is in the row.
LEMMA SettersType ==
    ASSUME MarketTypeOK, NEW a \in Accounts,
           \/ \E l \in [Kinds -> Limits] : SetALimits(a, l)
           \/ \E kind \in Kinds : Unmanage(a, kind) \/ \E value \in Limits : Manage(a, kind, value)
    PROVE  MarketTypeOK'
<1> USE DEF MarketTypeOK
<1>1. OnlyAccounts
  BY DEF SetALimits, Manage, Unmanage, OnlyAccounts
<1>2. ASSUME NEW l \in [Kinds -> Limits], SetALimits(a, l) PROVE MarketTypeOK'
  BY <1>1, <1>2, OnlyAccountsType, ResourcesConstants DEF SetALimits, Exists, TypeOK
<1>3. ASSUME NEW kind \in Kinds, NEW value \in Limits, Manage(a, kind, value) PROVE MarketTypeOK'
  <2>1. value \in Int
    BY ResourcesConstants
  <2> QED
    BY <1>1, <1>3, <2>1, OnlyAccountsType DEF Manage, Exists, TypeOK
<1>4. ASSUME NEW kind \in Kinds, Unmanage(a, kind) PROVE MarketTypeOK'
  <2>1. Resource(a)[kind] \in Int
    BY ResourceType
  <2> QED
    BY <1>1, <1>4, <2>1, OnlyAccountsType DEF Unmanage, Exists, TypeOK
<1> QED
  BY <1>2, <1>3, <1>4

\* buyrambytes is a purchase of an integer amount.
LEMMA BytesBuy ==
    ASSUME NEW payer, NEW a, NEW units \in Int, BuyRamBytes(payer, a, units)
    PROVE  \E u \in Int : BuyRam(payer, a, u)
<1> DEFINE price == (units * TokenUnit) % WordModulus
<1>1. units * TokenUnit \in Int /\ price \in Int
  BY ResourcesConstants
<1>2. price \div TokenUnit \in Int
  BY <1>1, ResourcesConstants
<1> QED
  BY <1>2 DEF BuyRamBytes

(***************************************************************************)
(* The tables stay well typed: delegate_bandwidth.cpp and eosio.system.cpp *)
(* never write a negative weight, a negative amount of RAM or, in unsigned *)
(* arithmetic, a negative total.                                           *)
(***************************************************************************)
THEOREM TypeCorrect == Spec => []TypeOK
<1>1. Init => MarketTypeOK
  BY ResourcesConstants
  DEF Init, MarketTypeOK, TypeOK, MarketInv, Kinds, Unlimited
<1>2. MarketTypeOK /\ [Next]_vars => MarketTypeOK'
  <2> SUFFICES ASSUME MarketTypeOK, [Next]_vars PROVE MarketTypeOK'
    OBVIOUS
  <2>1. ASSUME NEW a \in Accounts, NEW units \in Purchases, NEW payer \in Accounts,
               \/ BuyRam(payer, a, units) \/ BuyRamBytes(payer, a, units)
        PROVE  MarketTypeOK'
    BY <2>1, BuyRamType, BytesBuy, ResourcesConstants
  <2>2. ASSUME NEW a \in Accounts, NEW units \in Purchases, SellRam(a, units)
        PROVE  MarketTypeOK'
    BY <2>2, SellRamType, ResourcesConstants
  <2>3. ASSUME NEW size \in RamSizes, SetRam(size) PROVE MarketTypeOK'
    BY <2>3, ResourcesConstants
    DEF SetRam, accountVars, marketVars, MarketTypeOK, TypeOK, MarketInv
  <2>4. ASSUME NEW r \in Rates, SetRamRate(r) PROVE MarketTypeOK'
    <3>1. max_ram_size' \in Nat /\ base' \in Nat /\ last_ram_increase' \in 0..now
      BY <2>4, SupplyType DEF SetRamRate, MarketTypeOK
    <3> QED
      BY <2>4, <3>1, ResourcesConstants
      DEF SetRamRate, accountVars, marketVars, MarketTypeOK, TypeOK, MarketInv
  <2>5. CASE NextBlock
    BY <2>5, ResourcesConstants
    DEF NextBlock, accountVars, marketVars, MarketTypeOK, TypeOK, MarketInv
  <2>6. CASE UNCHANGED vars
    BY <2>6 DEF vars, accountVars, marketVars, supplyVars, MarketTypeOK, TypeOK, MarketInv
  <2>7. ASSUME NEW a \in Accounts, NEW d \in Deltas, ChangeWeights(a, d) PROVE MarketTypeOK'
    BY <2>7, ChangeWeightsType
  <2>8. ASSUME NEW a \in Accounts, NewAccount(a) PROVE MarketTypeOK'
    BY <2>8, NewAccountType
  <2>9. ASSUME NEW a \in Accounts,
               \/ \E l \in [Kinds -> Limits] : SetALimits(a, l)
               \/ \E kind \in Kinds : Unmanage(a, kind) \/ \E value \in Limits : Manage(a, kind, value)
        PROVE  MarketTypeOK'
    BY <2>9, SettersType
  <2> QED
    BY <2>1, <2>2, <2>3, <2>4, <2>5, <2>6, <2>7, <2>8, <2>9 DEF Next
<1>3. MarketTypeOK => TypeOK
  BY DEF MarketTypeOK
<1> QED
  BY <1>1, <1>2, <1>3, PTL DEF Spec
-----------------------------------------------------------------------------
\* LimitsFollowRows, of one account.
Follows(a) == \A kind \in Kinds \ managed[a] : limits[a][kind] = Resource(a)[kind]

\* An account whose row, limits and flags an action leaves alone is as before.
LEMMA OthersFollow ==
    ASSUME NEW b, Follows(b),
           b \in DOMAIN userres' <=> b \in DOMAIN userres,
           b \in DOMAIN userres => userres'[b] = userres[b],
           limits'[b] = limits[b], managed'[b] = managed[b]
    PROVE  Follows(b)'
BY DEF Follows, Resource

\* A purchase or a sale gives a row new RAM, and the limits follow.
LEMMA RamFollows ==
    ASSUME TypeOK, LimitsFollowRows, NEW a \in DOMAIN limits, NEW row \in [Kinds -> Nat],
           row.net = Resource(a).net, row.cpu = Resource(a).cpu,
           userres' = Row(userres, a, row), limits' = RamLimit(a, row),
           managed' = managed, unfit' = unfit
    PROVE  LimitsFollowRows'
<1> SUFFICES ASSUME NEW b \in DOMAIN limits' \ unfit' PROVE Follows(b)'
  BY DEF LimitsFollowRows, Follows
<1>1. b \in DOMAIN limits \ unfit /\ Follows(b)
  BY RamLimitType DEF LimitsFollowRows, Follows
<1>2. CASE b # a
  BY <1>1, <1>2, OthersFollow DEF Row, RamLimit, TypeOK
<1>3. CASE b = a
  <2>1. Resource(a)' = row
    BY DEF Resource, Row
  <2>2. limits[a] \in [Kinds -> Int] /\ \A kind \in Kinds \ managed[a] : limits[a][kind] = Resource(a)[kind]
    BY <1>1, <1>3 DEF TypeOK, Follows
  <2> QED
    BY <1>3, <2>1, <2>2 DEF Follows, RamLimit, TypeOK, Kinds
<1> QED
  BY <1>2, <1>3

\* A change of the stake writes the NET and CPU limits that are not managed,
\* and the RAM limit it writes is what it was.
LEMMA WeightsFollow ==
    ASSUME TypeOK, LimitsFollowRows, NEW a \in Accounts, NEW d \in Deltas, ChangeWeights(a, d)
    PROVE  LimitsFollowRows'
<1> DEFINE row == [Resource(a) EXCEPT !.net = @ + d.net, !.cpu = @ + d.cpu]
<1>1. a \in DOMAIN limits /\ limits[a] \in [Kinds -> Int] /\ managed' = managed /\ unfit' = unfit
      /\ limits' = StakeLimits(a, row)
      /\ userres' = (IF row = NoResources THEN Restrict(userres, DOMAIN userres \ {a})
                                          ELSE Row(userres, a, row))
  BY DEF ChangeWeights, Exists, TypeOK
<1>2. row \in [Kinds -> Nat] /\ row.ram = Resource(a).ram
  <2>1. Resource(a) \in [Kinds -> Nat]
    BY ResourceType
  <2>2. row.net \in 0..MaxWeight /\ row.cpu \in 0..MaxWeight
    BY DEF ChangeWeights
  <2>3. row.net \in Nat /\ row.cpu \in Nat
    BY <2>2, ResourcesConstants
  <2> QED
    BY <2>1, <2>3 DEF Kinds
<1> HIDE DEF row
<1> SUFFICES ASSUME NEW b \in DOMAIN limits' \ unfit' PROVE Follows(b)'
  BY DEF LimitsFollowRows, Follows
<1>3. b \in DOMAIN limits \ unfit /\ Follows(b)
  BY <1>1 DEF LimitsFollowRows, Follows, StakeLimits
<1>4. CASE b # a
  BY <1>1, <1>3, <1>4, OthersFollow DEF Row, Restrict, StakeLimits, TypeOK
<1>5. CASE b = a
  <2>1. Resource(a)' = row
    BY <1>1 DEF Resource, Row, Restrict
  <2>2. \A kind \in Kinds \ managed[a] : limits[a][kind] = Resource(a)[kind]
    BY <1>3, <1>5 DEF Follows
  <2>3. \A kind \in Kinds \ managed[a] : limits'[a][kind] = row[kind]
    BY <1>1, <1>2, <2>2 DEF StakeLimits, Kinds
  <2> QED
    BY <1>1, <1>5, <2>1, <2>3 DEF Follows
<1> QED
  BY <1>4, <1>5

\* The actions that set limits put them at the row's value, or take them out
\* of those that follow it.
LEMMA SettersFollow ==
    ASSUME TypeOK, LimitsFollowRows, NEW a \in Accounts,
           \/ NewAccount(a)
           \/ \E l \in [Kinds -> Limits] : SetALimits(a, l)
           \/ \E kind \in Kinds : Unmanage(a, kind) \/ \E value \in Limits : Manage(a, kind, value)
    PROVE  LimitsFollowRows'
<1>1. ASSUME NEW b \in DOMAIN limits \ unfit, b # a PROVE Follows(b)'
  <2>1. Follows(b)
    BY DEF LimitsFollowRows, Follows
  <2>2. limits'[b] = limits[b]
    BY <1>1 DEF NewAccount, SetALimits, Unmanage, Manage, Row, TypeOK
  <2>3. managed'[b] = managed[b]
    BY <1>1 DEF NewAccount, SetALimits, Unmanage, Manage, TypeOK
  <2>4. (b \in DOMAIN userres' <=> b \in DOMAIN userres) /\ (b \in DOMAIN userres => userres'[b] = userres[b])
    BY <1>1 DEF NewAccount, SetALimits, Unmanage, Manage, Row
  <2> QED
    BY <2>1, <2>2, <2>3, <2>4, OthersFollow
<1>2. CASE NewAccount(a)
  <2>1. Resource(a)' = NoResources /\ limits'[a] = NoResources
    BY <1>2 DEF NewAccount, Row, Resource
  <2>2. Follows(a)'
    BY <2>1 DEF Follows
  <2>3. DOMAIN limits' = DOMAIN limits \cup {a} /\ unfit' = unfit
    BY <1>2 DEF NewAccount, Row
  <2> QED
    BY <1>1, <2>2, <2>3 DEF LimitsFollowRows, Follows
<1>3. ASSUME NEW l \in [Kinds -> Limits], SetALimits(a, l) PROVE LimitsFollowRows'
  <2>1. DOMAIN limits' = DOMAIN limits /\ unfit' = unfit \cup {a}
    BY <1>3 DEF SetALimits
  <2> QED
    BY <1>1, <2>1 DEF LimitsFollowRows, Follows
<1>4. ASSUME NEW kind \in Kinds, NEW value \in Limits, Manage(a, kind, value)
      PROVE  LimitsFollowRows'
  <2>1. DOMAIN limits' = DOMAIN limits /\ unfit' = unfit /\ a \in DOMAIN limits
    BY <1>4 DEF Manage, Exists
  <2>2. ASSUME a \notin unfit PROVE Follows(a)'
    <3>1. Follows(a)
      BY <2>1, <2>2 DEF LimitsFollowRows, Follows
    <3> QED
      BY <1>4, <2>1, <3>1 DEF Follows, Manage, Resource, TypeOK
  <2> QED
    BY <1>1, <2>1, <2>2 DEF LimitsFollowRows, Follows
<1>5. ASSUME NEW kind \in Kinds, Unmanage(a, kind) PROVE LimitsFollowRows'
  <2>1. DOMAIN limits' = DOMAIN limits /\ unfit' = unfit /\ a \in DOMAIN limits
    BY <1>5 DEF Unmanage, Exists
  <2>2. ASSUME a \notin unfit PROVE Follows(a)'
    <3>1. Follows(a)
      BY <2>1, <2>2 DEF LimitsFollowRows, Follows
    <3> QED
      BY <1>5, <2>1, <3>1 DEF Follows, Unmanage, Resource, TypeOK
  <2> QED
    BY <1>1, <2>1, <2>2 DEF LimitsFollowRows, Follows
<1> QED
  BY <1>2, <1>3, <1>4, <1>5

(***************************************************************************)
(* The limits of every account made by newaccount and never given to       *)
(* setalimits are those of its row of userres, but for managed kinds: the  *)
(* three places of delegate_bandwidth.cpp that set limits, newaccount and  *)
(* the setters of eosio.system.cpp agree, in any order of actions.         *)
(***************************************************************************)
THEOREM LimitsCorrect == Spec => []LimitsFollowRows
<1>1. Init => LimitsFollowRows
  BY DEF Init, LimitsFollowRows
<1>2. TypeOK /\ LimitsFollowRows /\ [Next]_vars => LimitsFollowRows'
  <2> SUFFICES ASSUME TypeOK, LimitsFollowRows, [Next]_vars PROVE LimitsFollowRows'
    OBVIOUS
  <2>1. ASSUME NEW payer \in Accounts, NEW a \in Accounts, NEW units \in Int, BuyRam(payer, a, units)
        PROVE  LimitsFollowRows'
    <3> DEFINE row == [Resource(a) EXCEPT !.ram = @ + units]
    <3>1. units \in Nat /\ a \in DOMAIN limits /\ Resource(a) \in [Kinds -> Nat]
      BY <2>1, ResourceType DEF BuyRam, Exists
    <3>2. row \in [Kinds -> Nat] /\ row.net = Resource(a).net /\ row.cpu = Resource(a).cpu
      BY <3>1 DEF Kinds
    <3>3. userres' = Row(userres, a, row) /\ limits' = RamLimit(a, row) /\ managed' = managed /\ unfit' = unfit
      BY <2>1 DEF BuyRam, Receive
    <3> HIDE DEF row
    <3> QED
      BY <3>1, <3>2, <3>3, RamFollows
  <2>2. ASSUME NEW payer \in Accounts, NEW a \in Accounts, NEW units \in Purchases,
               BuyRamBytes(payer, a, units)
        PROVE  LimitsFollowRows'
    BY <2>1, <2>2, BytesBuy, ResourcesConstants
  <2>3. ASSUME NEW a \in Accounts, NEW units \in Purchases, SellRam(a, units) PROVE LimitsFollowRows'
    <3> DEFINE row == [userres[a] EXCEPT !.ram = @ - units]
    <3>1. units \in Nat /\ a \in DOMAIN userres /\ a \in DOMAIN limits /\ userres[a].ram >= units
          /\ userres[a] \in [Kinds -> Nat] /\ Resource(a) = userres[a]
      BY <2>3, ResourcesConstants DEF SellRam, TypeOK, Resource
    <3>2. row \in [Kinds -> Nat] /\ row.net = Resource(a).net /\ row.cpu = Resource(a).cpu
      BY <3>1 DEF Kinds
    <3>3. userres' = [userres EXCEPT ![a] = row] /\ managed' = managed /\ unfit' = unfit
      BY <2>3 DEF SellRam
    <3>4. userres'[a] = row /\ userres' = Row(userres, a, row)
      BY <3>1, <3>3 DEF Row
    <3>5. limits' = RamLimit(a, row)
      BY <2>3, <3>4 DEF SellRam
    <3> HIDE DEF row
    <3> QED
      BY <3>1, <3>2, <3>3, <3>4, <3>5, RamFollows
  <2>4. ASSUME NEW a \in Accounts, NEW d \in Deltas, ChangeWeights(a, d) PROVE LimitsFollowRows'
    BY <2>4, WeightsFollow
  <2>5. ASSUME NEW a \in Accounts,
               \/ NewAccount(a)
               \/ \E l \in [Kinds -> Limits] : SetALimits(a, l)
               \/ \E kind \in Kinds : Unmanage(a, kind) \/ \E value \in Limits : Manage(a, kind, value)
        PROVE  LimitsFollowRows'
    BY <2>5, SettersFollow
  <2>6. ASSUME UNCHANGED accountVars PROVE LimitsFollowRows'
    BY <2>6 DEF accountVars, LimitsFollowRows, Resource
  <2>7. ASSUME \/ \E size \in RamSizes : SetRam(size)
               \/ \E r \in Rates : SetRamRate(r)
               \/ NextBlock
               \/ UNCHANGED vars
        PROVE  LimitsFollowRows'
    BY <2>6, <2>7 DEF SetRam, SetRamRate, NextBlock, vars
  <2> QED
    BY <2>1, <2>2, <2>3, <2>4, <2>5, <2>7, ResourcesConstants DEF Next
<1> QED
  BY <1>1, <1>2, TypeCorrect, PTL DEF Spec

-----------------------------------------------------------------------------
\* The RAM of all rows, the sum that RamIsBacked is about.
RamHeld == SumFunction([a \in DOMAIN userres |-> userres[a].ram])

\* Where one row at most is written, made or erased, the sum changes by what
\* the account's row has more than before.
LEMMA OneRowHeld ==
    ASSUME TypeOK, TypeOK', NEW a,
           DOMAIN userres' \ {a} = DOMAIN userres \ {a},
           \A b \in DOMAIN userres \ {a} : userres'[b] = userres[b]
    PROVE  RamHeld' = RamHeld + Resource(a)'.ram - Resource(a).ram /\ RamHeld \in Int
<1> DEFINE f == [b \in DOMAIN userres |-> userres[b].ram]
           g == [b \in DOMAIN userres' |-> userres'[b].ram]
<1>1. IsFiniteSet(DOMAIN userres)
  BY FS_Subset, ResourcesConstants DEF TypeOK
<1>2. /\ \A b \in DOMAIN userres : f[b] \in Int
      /\ \A b \in DOMAIN userres' : g[b] \in Int
      /\ \A b \in DOMAIN userres \ {a} : f[b] = g[b]
  BY DEF TypeOK, Kinds
<1>3. /\ f[a] = IF a \in DOMAIN userres THEN Resource(a).ram ELSE f[a]
      /\ g[a] = IF a \in DOMAIN userres' THEN Resource(a)'.ram ELSE g[a]
      /\ a \notin DOMAIN userres => Resource(a).ram = 0
      /\ a \notin DOMAIN userres' => Resource(a)'.ram = 0
  BY DEF Resource, NoResources
<1>4. RamHeld = SumFunctionOnSet(f, DOMAIN userres) /\ RamHeld' = SumFunctionOnSet(g, DOMAIN userres')
  BY DEF RamHeld, SumFunction
<1>5. Resource(a).ram \in Int /\ Resource(a)'.ram \in Int
  BY DEF Resource, NoResources, TypeOK, Kinds
<1> HIDE DEF f, g
<1>6. /\ SumFunctionOnSet(f, DOMAIN userres) \in Int
      /\ SumFunctionOnSet(g, DOMAIN userres') = SumFunctionOnSet(f, DOMAIN userres)
             + (IF a \in DOMAIN userres' THEN g[a] ELSE 0) - (IF a \in DOMAIN userres THEN f[a] ELSE 0)
  BY <1>1, <1>2, SumDiffer
<1> QED
  BY <1>3, <1>4, <1>5, <1>6

\* A purchase puts into a row what it reserves.
LEMMA BuyRamIsHeld ==
    ASSUME TypeOK, TypeOK', RamIsBacked, NEW payer \in Accounts, NEW a \in Accounts,
           NEW units \in Int, BuyRam(payer, a, units)
    PROVE  RamIsBacked'
<1> DEFINE row == [Resource(a) EXCEPT !.ram = @ + units]
<1>1. userres' = Row(userres, a, row)
  BY DEF BuyRam, Receive
<1>2. Resource(a) \in [Kinds -> Nat]
  BY ResourceType
<1>3. row.ram = Resource(a).ram + units /\ Resource(a).ram \in Int
  BY <1>2 DEF Kinds
<1> HIDE DEF row
<1>4. Resource(a)' = row
  BY <1>1 DEF Resource, Row
<1>5. /\ DOMAIN userres' \ {a} = DOMAIN userres \ {a}
      /\ \A b \in DOMAIN userres \ {a} : userres'[b] = userres[b]
  BY <1>1 DEF Row
<1>6. RamHeld' = RamHeld + Resource(a)'.ram - Resource(a).ram /\ RamHeld \in Int
  BY <1>5, OneRowHeld
<1> QED
  BY <1>3, <1>4, <1>6 DEF BuyRam, RamIsBacked, RamHeld

\* A sale takes out of a row what is no longer reserved.
LEMMA SellRamIsHeld ==
    ASSUME TypeOK, TypeOK', RamIsBacked, NEW a \in Accounts, NEW units \in Int, SellRam(a, units)
    PROVE  RamIsBacked'
<1>1. a \in DOMAIN userres /\ userres' = [userres EXCEPT ![a].ram = @ - units]
  BY DEF SellRam
<1>2. userres[a] \in [Kinds -> Nat]
  BY <1>1 DEF TypeOK
<1>3. Resource(a)'.ram = Resource(a).ram - units /\ Resource(a).ram \in Int
  BY <1>1, <1>2 DEF Resource, Kinds
<1>4. /\ DOMAIN userres' \ {a} = DOMAIN userres \ {a}
      /\ \A b \in DOMAIN userres \ {a} : userres'[b] = userres[b]
  BY <1>1
<1>5. RamHeld' = RamHeld + Resource(a)'.ram - Resource(a).ram /\ RamHeld \in Int
  BY <1>4, OneRowHeld
<1> QED
  BY <1>3, <1>5 DEF SellRam, RamIsBacked, RamHeld

\* A row that changebw writes has the RAM it had, and the row it erases and
\* the row that newaccount makes have none.
LEMMA OthersHold ==
    ASSUME TypeOK, TypeOK', RamIsBacked, NEW a \in Accounts,
           NewAccount(a) \/ \E d \in Deltas : ChangeWeights(a, d)
    PROVE  RamIsBacked'
<1>1. ram_stake' = ram_stake /\ ram_balance' = ram_balance /\ reserved' = reserved
  BY DEF NewAccount, ChangeWeights, marketVars
<1>2. /\ DOMAIN userres' \ {a} = DOMAIN userres \ {a}
      /\ \A b \in DOMAIN userres \ {a} : userres'[b] = userres[b]
      /\ Resource(a)'.ram = Resource(a).ram
  <2>1. CASE NewAccount(a)
    BY <2>1 DEF NewAccount, Row, Exists, Resource, NoResources, TypeOK
  <2>2. ASSUME NEW d \in Deltas, ChangeWeights(a, d)
        PROVE  /\ DOMAIN userres' \ {a} = DOMAIN userres \ {a}
               /\ \A b \in DOMAIN userres \ {a} : userres'[b] = userres[b]
               /\ Resource(a)'.ram = Resource(a).ram
    <3> DEFINE row == [Resource(a) EXCEPT !.net = @ + d.net, !.cpu = @ + d.cpu]
    <3>1. userres' = IF row = NoResources THEN Restrict(userres, DOMAIN userres \ {a})
                                          ELSE Row(userres, a, row)
      BY <2>2 DEF ChangeWeights
    <3>2. Resource(a) \in [Kinds -> Nat]
      BY ResourceType
    <3>3. row.ram = Resource(a).ram
      BY <3>2 DEF Kinds
    <3> HIDE DEF row
    <3>4. Resource(a)' = row
      BY <3>1 DEF Resource, Row, Restrict
    <3> QED
      BY <3>1, <3>3, <3>4 DEF Row, Restrict
  <2> QED
    BY <2>1, <2>2
<1>3. RamHeld' = RamHeld + Resource(a)'.ram - Resource(a).ram /\ RamHeld \in Int
  BY <1>2, OneRowHeld
<1>4. Resource(a) \in [Kinds -> Nat]
  BY ResourceType
<1>5. Resource(a).ram \in Int
  BY <1>4 DEF Kinds
<1> QED
  BY <1>1, <1>2, <1>3, <1>5 DEF RamIsBacked, RamHeld

(***************************************************************************)
(* The RAM that is reserved is the RAM in the rows of userres, and         *)
(* eosio.ram has as much UTXRAM: a sale within the seller's row can always *)
(* be paid, whoever paid for that RAM and whatever changebw erased.        *)
(***************************************************************************)
THEOREM RamCorrect == Spec => []RamIsBacked
<1>1. Init => RamIsBacked
  <2> SUFFICES ASSUME Init PROVE RamIsBacked
    OBVIOUS
  <2> DEFINE f == [a \in DOMAIN userres |-> userres[a].ram]
  <2>1. DOMAIN userres = {} /\ DOMAIN f = {} /\ reserved = 0 /\ ram_stake = 0 /\ ram_balance = 0
    BY DEF Init
  <2> HIDE DEF f
  <2>2. SumFunction(f) = 0
    BY <2>1, SumEmpty DEF SumFunction
  <2> QED
    BY <2>1, <2>2 DEF RamIsBacked, f
<1>2. TypeOK /\ TypeOK' /\ RamIsBacked /\ [Next]_vars => RamIsBacked'
  <2> SUFFICES ASSUME TypeOK, TypeOK', RamIsBacked, [Next]_vars PROVE RamIsBacked'
    OBVIOUS
  <2>1. ASSUME NEW a \in Accounts, NEW units \in Purchases, NEW payer \in Accounts,
               \/ BuyRam(payer, a, units) \/ BuyRamBytes(payer, a, units)
        PROVE  RamIsBacked'
    BY <2>1, BuyRamIsHeld, BytesBuy, ResourcesConstants
  <2>2. ASSUME NEW a \in Accounts, NEW units \in Purchases, SellRam(a, units) PROVE RamIsBacked'
    BY <2>2, SellRamIsHeld, ResourcesConstants
  <2>3. ASSUME NEW a \in Accounts, NewAccount(a) \/ \E d \in Deltas : ChangeWeights(a, d)
        PROVE  RamIsBacked'
    BY <2>3, OthersHold
  <2>4. ASSUME UNCHANGED <<userres, marketVars>> PROVE RamIsBacked'
    BY <2>4 DEF marketVars, RamIsBacked
  <2>5. ASSUME NEW a \in Accounts,
               \/ \E l \in [Kinds -> Limits] : SetALimits(a, l)
               \/ \E kind \in Kinds : Unmanage(a, kind) \/ \E value \in Limits : Manage(a, kind, value)
        PROVE  RamIsBacked'
    BY <2>4, <2>5 DEF SetALimits, Unmanage, Manage
  <2>6. ASSUME \/ \E size \in RamSizes : SetRam(size)
               \/ \E r \in Rates : SetRamRate(r)
               \/ NextBlock
               \/ UNCHANGED vars
        PROVE  RamIsBacked'
    BY <2>4, <2>6 DEF SetRam, SetRamRate, NextBlock, vars, accountVars
  <2> QED
    BY <2>1, <2>2, <2>3, <2>5, <2>6 DEF Next
<1> QED
  BY <1>1, <1>2, TypeCorrect, PTL DEF Spec

\* So is each row by itself: the checks of sellram on eosio.ram and on the
\* total, an unsigned number, never refuse an account that sells what it has.
THEOREM SalesArePaid ==
    Spec => [](\A a \in DOMAIN userres : userres[a].ram <= ram_balance /\ userres[a].ram <= ram_stake)
<1>1. TypeOK /\ RamIsBacked =>
          \A a \in DOMAIN userres : userres[a].ram <= ram_balance /\ userres[a].ram <= ram_stake
  <2> SUFFICES ASSUME TypeOK, RamIsBacked, NEW a \in DOMAIN userres PROVE userres[a].ram <= reserved
    BY DEF RamIsBacked
  <2> DEFINE f == [b \in DOMAIN userres |-> userres[b].ram]
  <2>1. IsFiniteSet(DOMAIN userres)
    BY FS_Subset, ResourcesConstants DEF TypeOK
  <2>2. \A b \in DOMAIN userres : f[b] \in Nat
    BY DEF TypeOK, Kinds
  <2>3. reserved = SumFunctionOnSet(f, DOMAIN userres) /\ f[a] = userres[a].ram
    BY DEF RamIsBacked, SumFunction
  <2> HIDE DEF f
  <2> QED
    BY <2>1, <2>2, <2>3, SumBounds
<1> QED
  BY <1>1, TypeCorrect, RamCorrect, PTL

-----------------------------------------------------------------------------
\* Of a product, the remainder by the range is kept and a multiple of it is
\* lost; multiples add up.
LEMMA Multiples ==
    ASSUME NEW m \in Nat \ {0}
    PROVE  /\ \A n \in Nat : (n - (n % m)) % m = 0
           /\ \A n \in Nat, k \in Nat : n % m = 0 /\ k % m = 0 => (n + k) % m = 0
<1>1. ASSUME NEW n \in Nat PROVE n \div m \in Nat /\ n % m = n - m * (n \div m)
  OBVIOUS
<1>2. \A q \in Nat : (q * m) % m = 0
  OBVIOUS
<1>3. ASSUME NEW n \in Nat PROVE (n - (n % m)) % m = 0
  <2>1. \A q \in Nat : n % m = n - m * q => n - (n % m) = q * m
    OBVIOUS
  <2> QED
    BY <1>1, <1>2, <2>1
<1>4. ASSUME NEW n \in Nat, NEW k \in Nat, n % m = 0, k % m = 0 PROVE (n + k) % m = 0
  <2>1. \A q \in Nat, r \in Nat : 0 = n - m * q /\ 0 = k - m * r => n + k = (q + r) * m /\ q + r \in Nat
    OBVIOUS
  <2>2. n + k = (n \div m + k \div m) * m /\ n \div m + k \div m \in Nat
    BY <1>1, <1>4, <2>1
  <2> QED
    BY <1>2, <2>2
<1> QED
  BY <1>3, <1>4

\* update_ram_supply moves what it finds unseen into the supply, modulo the
\* range of its product.
LEMMA SupplyGrows ==
    ASSUME TypeOK, UpdateRamSupply
    PROVE  /\ Unseen \in Nat /\ Unseen % WordModulus \in Nat /\ Unseen % WordModulus <= Unseen
           /\ max_ram_size' = max_ram_size + (Unseen % WordModulus)
           /\ last_ram_increase' = now
           /\ base = max_ram_size => base' = max_ram_size'
<1>1. now - last_ram_increase \in Nat /\ rate \in Nat /\ WordModulus \in Nat \ {0}
      /\ max_ram_size \in Nat /\ base \in Nat
  BY ResourcesConstants DEF TypeOK
<1>2. Unseen \in Nat
  BY <1>1 DEF Unseen
<1>3. Unseen % WordModulus \in Nat /\ Unseen % WordModulus <= Unseen
      /\ (Unseen = 0 => Unseen % WordModulus = 0)
  <2>1. \A n \in Nat, m \in Nat \ {0} : n % m \in Nat /\ n % m <= n /\ 0 % m = 0
    OBVIOUS
  <2> QED
    BY <1>1, <1>2, <2>1
<1>4. CASE now <= last_ram_increase
  <2>1. now = last_ram_increase
    BY <1>4 DEF TypeOK
  <2>2. Unseen = 0
    <3>1. now - last_ram_increase = 0 /\ \A r \in Nat : 0 * r = 0
      BY <2>1 DEF TypeOK
    <3> QED
      BY <1>1, <3>1 DEF Unseen
  <2>3. Unseen % WordModulus = 0
    BY <1>3, <2>2
  <2>4. max_ram_size' = max_ram_size /\ base' = base /\ last_ram_increase' = last_ram_increase
    BY <1>4 DEF UpdateRamSupply
  <2> QED
    BY <1>1, <1>2, <1>3, <2>1, <2>3, <2>4
<1>5. CASE ~(now <= last_ram_increase)
  <2>1. /\ max_ram_size' = max_ram_size + (Unseen % WordModulus)
        /\ base' = base + (Unseen % WordModulus)
        /\ last_ram_increase' = now
    BY <1>5 DEF UpdateRamSupply, Unseen
  <2> QED
    BY <1>2, <1>3, <2>1
<1> QED
  BY <1>4, <1>5

\* Every step calls update_ram_supply at the rate so far, lets a slot pass,
\* changes the supply by setram, or leaves the supply alone.
LEMMA SupplySteps ==
    ASSUME TypeOK, [Next]_vars
    PROVE  \/ UpdateRamSupply /\ rate' \in Rates \cup {rate} /\ due' = due /\ now' = now
           \/ NextBlock
           \/ \E size \in RamSizes : SetRam(size)
           \/ UNCHANGED <<supplyVars, now>>
<1>1. ASSUME NEW a \in Accounts, NEW units \in Purchases, NEW payer \in Accounts,
             \/ BuyRam(payer, a, units) \/ BuyRamBytes(payer, a, units) \/ SellRam(a, units)
      PROVE  UpdateRamSupply /\ rate' \in Rates \cup {rate} /\ due' = due /\ now' = now
  BY <1>1 DEF BuyRam, BuyRamBytes, SellRam
<1>2. ASSUME NEW a \in Accounts,
             \/ \E d \in Deltas : ChangeWeights(a, d)
             \/ NewAccount(a)
             \/ \E l \in [Kinds -> Limits] : SetALimits(a, l)
             \/ \E kind \in Kinds : Unmanage(a, kind) \/ \E value \in Limits : Manage(a, kind, value)
      PROVE  UNCHANGED <<supplyVars, now>>
  BY <1>2 DEF ChangeWeights, NewAccount, SetALimits, Unmanage, Manage
<1>3. ASSUME NEW r \in Rates, SetRamRate(r)
      PROVE  UpdateRamSupply /\ rate' \in Rates \cup {rate} /\ due' = due /\ now' = now
  BY <1>3 DEF SetRamRate
<1> QED
  BY <1>1, <1>2, <1>3 DEF Next, vars

\* One slot more at the rate.
LEMMA OneSlotMore ==
    ASSUME TypeOK, NextBlock
    PROVE  /\ Unseen' = Unseen + rate /\ Unseen \in Nat
           /\ due' = due + rate /\ max_ram_size' = max_ram_size /\ base' = base /\ rate' = rate
<1>1. now \in Nat /\ last_ram_increase \in Nat /\ now - last_ram_increase \in Nat /\ rate \in Nat
  BY DEF TypeOK
<1>2. now' = now + 1 /\ last_ram_increase' = last_ram_increase /\ rate' = rate
  BY DEF NextBlock
<1>3. \A n \in Nat, m \in Nat, r \in Nat : ((n + 1) - m) * r = (n - m) * r + r
  OBVIOUS
<1> QED
  BY <1>1, <1>2, <1>3 DEF Unseen, NextBlock

(***************************************************************************)
(* For every rate, range of the product and time between two calls of      *)
(* update_ram_supply: what is allocated never exceeds what setram and each *)
(* rate in its own slots give, so that a new rate is not applied to slots  *)
(* before it; it falls short by whole multiples of the range, and the      *)
(* market has to sell all that is allocated.                               *)
(***************************************************************************)
THEOREM SupplyCorrect == Spec => []SupplyIsDue
<1> DEFINE Lost == due - (max_ram_size + Unseen)
<1>1. Init => SupplyIsDue
  <2>1. \A m \in Nat \ {0} : 0 % m = 0
    OBVIOUS
  <2> QED
    BY <2>1, ResourcesConstants DEF Init, SupplyIsDue, Unseen
<1>2. TypeOK /\ TypeOK' /\ SupplyIsDue /\ [Next]_vars => SupplyIsDue'
  <2> SUFFICES ASSUME TypeOK, TypeOK', SupplyIsDue, [Next]_vars PROVE SupplyIsDue'
    OBVIOUS
  <2>1. max_ram_size \in Nat /\ due \in Nat /\ base \in Nat /\ WordModulus \in Nat \ {0}
    BY ResourcesConstants DEF TypeOK
  <2>2. Lost >= 0 /\ Lost % WordModulus = 0 /\ base = max_ram_size
    BY DEF SupplyIsDue
  <2>3. ASSUME UpdateRamSupply, due' = due, now' = now PROVE SupplyIsDue'
    <3>1. Unseen' = 0
      <4>1. last_ram_increase' = now
        BY <2>3, SupplyGrows
      <4>2. now' - last_ram_increase' = 0 /\ rate' \in Nat
        BY <2>3, <4>1 DEF TypeOK
      <4> QED
        BY <4>2 DEF Unseen
    <3> DEFINE wrapped == Unseen - (Unseen % WordModulus)
    <3>2. wrapped \in Nat /\ wrapped % WordModulus = 0
      BY <2>1, <2>3, SupplyGrows, Multiples
    <3>3. Lost \in Nat /\ Lost' = Lost + wrapped
      <4>1. Unseen \in Nat /\ Unseen % WordModulus \in Nat /\ max_ram_size' = max_ram_size + (Unseen % WordModulus)
        BY <2>3, SupplyGrows
      <4>2. Lost' = due - (max_ram_size + (Unseen % WordModulus))
        BY <2>1, <2>3, <3>1, <4>1
      <4>3. Lost \in Nat
        BY <2>1, <2>2, <4>1
      <4>4. Lost + wrapped = due - (max_ram_size + (Unseen % WordModulus))
        <5> DEFINE kept == Unseen % WordModulus
        <5> HIDE DEF kept
        <5>1. kept \in Nat
          BY <4>1 DEF kept
        <5>2. Lost + (Unseen - kept) = due - (max_ram_size + kept)
          BY <2>1, <4>1, <5>1
        <5> QED
          BY <5>2 DEF kept
      <4> QED
        BY <4>2, <4>3, <4>4
    <3>4. base' = max_ram_size'
      BY <2>2, <2>3, SupplyGrows
    <3> HIDE DEF wrapped, Lost
    <3>5. Lost' \in Nat /\ Lost' % WordModulus = 0
      <4>1. (Lost + wrapped) % WordModulus = 0
        BY <2>1, <2>2, <3>2, <3>3, Multiples
      <4> QED
        BY <3>2, <3>3, <4>1
    <3> QED
      BY <3>4, <3>5 DEF SupplyIsDue, Lost
  <2>4. CASE NextBlock
    <3>1. Lost' = Lost /\ base' = max_ram_size'
      BY <2>1, <2>2, <2>4, OneSlotMore DEF TypeOK
    <3> QED
      BY <2>2, <3>1 DEF SupplyIsDue
  <2>5. ASSUME NEW size \in RamSizes, SetRam(size) PROVE SupplyIsDue'
    <3>1. size \in Nat /\ Unseen' = Unseen /\ Unseen \in Nat
      BY <2>5, ResourcesConstants DEF SetRam, Unseen, TypeOK
    <3>2. base' = base + (size - max_ram_size) /\ max_ram_size' = size /\ due' = due + (size - max_ram_size)
      BY <2>5 DEF SetRam
    <3>3. Lost' = Lost /\ base' = max_ram_size'
      BY <2>1, <2>2, <3>1, <3>2
    <3> QED
      BY <2>2, <3>3 DEF SupplyIsDue
  <2>6. ASSUME UNCHANGED <<supplyVars, now>> PROVE SupplyIsDue'
    BY <2>6 DEF supplyVars, SupplyIsDue, Unseen
  <2> QED
    BY <2>3, <2>4, <2>5, <2>6, SupplySteps
<1> QED
  BY <1>1, <1>2, TypeCorrect, PTL DEF Spec

-----------------------------------------------------------------------------
(***************************************************************************)
(* What buyrambytes reserves is what it was asked for: a price that wraps  *)
(* around in 32 bits is refused (the check of buyrambytes that the price   *)
(* is a multiple of 1.0000 UTXRAM), under WrappedPricesAreRefused.         *)
(***************************************************************************)
THEOREM BytesCorrect == Spec => BytesAreExact
<1>1. ASSUME NEW payer \in Accounts, NEW a \in Accounts, NEW units \in Purchases,
             BuyRamBytes(payer, a, units)
      PROVE  reserved' = reserved + units
  <2> DEFINE product == units * TokenUnit
             price == product % WordModulus
  <2>1. units \in Nat /\ product \in Nat /\ TokenUnit \in Nat \ {0} /\ WordModulus \in Nat \ {0}
    BY <1>1, ResourcesConstants DEF BuyRamBytes
  <2>2. price % TokenUnit = 0
    BY <1>1 DEF BuyRamBytes
  <2>3. product < WordModulus
    BY <2>1, <2>2, WrappedPricesAreRefused
  <2>4. price = product
    <3> HIDE DEF product
    <3> QED BY <2>1, <2>3
  <2>5. price \div TokenUnit = units
    <3>1. \A n \in Nat, m \in Nat \ {0} : (n * m) \div m = n
      OBVIOUS
    <3> QED
      BY <2>1, <2>4, <3>1
  <2> QED
    BY <1>1, <2>5 DEF BuyRamBytes, BuyRam
<1>2. [Next]_vars => [\A payer, a \in Accounts, units \in Purchases :
                        BuyRamBytes(payer, a, units) => reserved' = reserved + units]_vars
  BY <1>1
<1> QED
  BY <1>2, PTL DEF Spec, BytesAreExact

(***************************************************************************)
(* WrappedPricesAreRefused holds of the code's numbers: for every number   *)
(* of units that a uint32_t of bytes can ask buyrambytes for, the price in *)
(* uint32_t is a multiple of 10000 only if it has not wrapped around.      *)
(***************************************************************************)
THEOREM PricesOf32Bits ==
    \A u \in Nat :
        /\ u < 1024 * 4096
        /\ ((u * 10000) % (1024 * 1024 * 4096)) % 10000 = 0
        => u * 10000 < 1024 * 1024 * 4096
<1> DEFINE W == 1024 * 1024 * 4096
<1> SUFFICES ASSUME NEW u \in Nat, u < 1024 * 4096, ((u * 10000) % W) % 10000 = 0, u * 10000 >= W
             PROVE  FALSE
  OBVIOUS
<1>1. PICK j \in Int : u * 10000 = (j * W) + ((u * 10000) % W)
  BY SMT
<1>2. j = 1 \/ j = 2 \/ j = 3 \/ j = 4 \/ j = 5 \/ j = 6 \/ j = 7 \/ j = 8 \/ j = 9
  BY <1>1, SMT
<1>3. PICK k \in Int : (u * 10000) % W = k * 10000
  BY SMT
<1>4. j * W = (u - k) * 10000
  BY <1>1, <1>3, SMT
<1>5. ASSUME NEW i \in Int
      PROVE  /\ i * 10000 # W     /\ i * 10000 # 2 * W /\ i * 10000 # 3 * W
             /\ i * 10000 # 4 * W /\ i * 10000 # 5 * W /\ i * 10000 # 6 * W
             /\ i * 10000 # 7 * W /\ i * 10000 # 8 * W /\ i * 10000 # 9 * W
  BY SMT
<1> QED
  BY <1>2, <1>4, <1>5, SMT
=============================================================================
