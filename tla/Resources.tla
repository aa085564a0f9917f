------------------------------ MODULE Resources ------------------------------
(***************************************************************************)
(* The resources of accounts in eosio.system: the RAM market with its      *)
(* fixed price (buyram, buyrambytes, sellram of delegate_bandwidth.cpp;    *)
(* setram, setramrate, update_ram_supply of eosio.system.cpp), the weights *)
(* that staking gives (the part of changebw on userres) and the limits     *)
(* that the node enforces (setalimits, setacctram, setacctnet, setacctcpu, *)
(* newaccount of eosio.system.cpp).                                        *)
(*                                                                         *)
(* RAM is counted in units of 1024 bytes; one costs 1.0000 UTXRAM.         *)
(* Accounts of the genesis have no limits and no row of userres.           *)
(***************************************************************************)
EXTENDS Integers, FiniteSets, Functions

CONSTANTS
    Accounts,
    Genesis,            \* the accounts that exist at first
    Tokens,             \* UTXRAM of each account at first
    Deltas,             \* changes [net, cpu] of weights
    Purchases,          \* units of RAM bought or sold at once
    Limits,             \* values given to setalimits and setacct*
    RamSizes,           \* values given to setram
    Rates,              \* values given to setramrate
    InitialRam,         \* max_ram_size at first
    TokenUnit,          \* 10000: the amount of 1.0000 UTXRAM
    WordModulus,        \* 2^32: the range of uint32_t
    MaxWeight,          \* bound on a weight
    MaxTime             \* bound on the block slot

Kinds == {"ram", "net", "cpu"}
Unlimited == -1

ASSUME ResourcesConstants ==
    /\ IsFiniteSet(Accounts) /\ Genesis \subseteq Accounts
    /\ Tokens \in Nat
    /\ Deltas \subseteq [net : Int, cpu : Int]
    /\ Purchases \subseteq Int
    /\ Limits \subseteq Int
    /\ RamSizes \subseteq Nat /\ Rates \subseteq Nat /\ InitialRam \in Nat
    /\ TokenUnit \in Nat \ {0} /\ WordModulus \in Nat \ {0}
    /\ MaxWeight \in Nat /\ MaxTime \in Nat

(***************************************************************************)
(* A price that does not fit into 32 bits is not a multiple of TokenUnit   *)
(* when it has wrapped around.                                             *)
(***************************************************************************)
ASSUME WrappedPricesAreRefused ==
    \A u \in Purchases \cap Nat :
        ((u * TokenUnit) % WordModulus) % TokenUnit = 0 => u * TokenUnit < WordModulus

VARIABLES
    userres,            \* table userres: account -> [ram, net, cpu]
    managed,            \* account -> kinds of resources with a flag in voters.flags1
    limits,             \* limits of the accounts, kept by the node
    unfit,              \* history: accounts of the genesis or given to setalimits
    tokens,             \* UTXRAM of the accounts
    ram_balance,        \* UTXRAM of eosio.ram
    reserved,           \* _gstate.total_ram_bytes_reserved
    ram_stake,          \* _gstate.total_ram_stake
    max_ram_size,       \* _gstate.max_ram_size
    base,               \* base balance of the row of rammarket
    rate,               \* _gstate2.new_ram_per_block
    last_ram_increase,  \* _gstate2.last_ram_increase
    due,                \* history: the supply that setram and the rates add up to
    now

accountVars == <<userres, managed, limits, unfit>>
marketVars == <<tokens, ram_balance, reserved, ram_stake>>
supplyVars == <<max_ram_size, base, rate, last_ram_increase, due>>
vars == <<accountVars, marketVars, supplyVars, now>>

-----------------------------------------------------------------------------
NoResources == [ram |-> 0, net |-> 0, cpu |-> 0]

Row(f, k, v) == [x \in DOMAIN f \cup {k} |-> IF x = k THEN v ELSE f[x]]

Exists(a) == a \in DOMAIN limits

\* The row of a, or what a new one starts with.
Resource(a) == IF a \in DOMAIN userres THEN userres[a] ELSE NoResources

Init ==
    /\ userres = [a \in {} |-> NoResources]
    /\ managed = [a \in Accounts |-> {}]
    /\ limits = [a \in Genesis |-> [k \in Kinds |-> Unlimited]]
    /\ unfit = Genesis
    /\ tokens = [a \in Accounts |-> Tokens]
    /\ ram_balance = 0 /\ reserved = 0 /\ ram_stake = 0
    /\ max_ram_size = InitialRam
    /\ base = InitialRam
    /\ rate = 0
    /\ last_ram_increase = 0
    /\ due = InitialRam
    /\ now = 0

\* update_ram_supply: the product is one of uint32_t.
UpdateRamSupply ==
    LET new_ram == ((now - last_ram_increase) * rate) % WordModulus
    IN  IF now <= last_ram_increase
        THEN UNCHANGED <<max_ram_size, base, last_ram_increase>>
        ELSE /\ max_ram_size' = max_ram_size + new_ram
             /\ base' = base + new_ram
             /\ last_ram_increase' = now

\* What buyram and sellram do to the limits of a.
RamLimit(a, row) ==
    IF "ram" \in managed[a] THEN limits ELSE [limits EXCEPT ![a].ram = row.ram]

BugBuyForPayer(payer, receiver, units) ==
    LET row == [Resource(payer) EXCEPT !.ram = @ + units]
    IN  /\ userres' = Row(userres, receiver, row)
        /\ limits' = RamLimit(receiver, row)

\* The receiver gets the RAM.
Receive(payer, receiver, units) ==
    LET row == [Resource(receiver) EXCEPT !.ram = @ + units]
    IN  /\ userres' = Row(userres, receiver, row)
        /\ limits' = RamLimit(receiver, row)

\* buyram(payer, receiver, quant), quant being so many units.
BuyRam(payer, receiver, units) ==
    /\ Exists(payer) /\ Exists(receiver)
    /\ units > 0 /\ units <= tokens[payer]
    /\ UpdateRamSupply
    /\ tokens' = [tokens EXCEPT ![payer] = @ - units]
    /\ ram_balance' = ram_balance + units
    /\ reserved' = reserved + units
    /\ ram_stake' = ram_stake + units
    /\ Receive(payer, receiver, units)
    /\ UNCHANGED <<managed, unfit, rate, due, now>>

BugBuyRamBytesTruncated(payer, receiver, units) ==
    BuyRam(payer, receiver, ((units * TokenUnit) % WordModulus) \div TokenUnit)

\* buyrambytes(payer, receiver, bytes), for so many units of bytes: the price
\* is computed in 32 bits, and has to be a multiple of TokenUnit.
BuyRamBytes(payer, receiver, units) ==
    LET price == (units * TokenUnit) % WordModulus
    IN  /\ units > 0
        /\ price % TokenUnit = 0
        /\ BuyRam(payer, receiver, price \div TokenUnit)

BugSellRamUnchecked(a, units) ==
    /\ UpdateRamSupply
    /\ units > 0
    /\ a \in DOMAIN userres
    /\ ram_stake - units >= 0
    /\ units <= ram_balance
    /\ tokens' = [tokens EXCEPT ![a] = @ + units]
    /\ ram_balance' = ram_balance - units
    /\ reserved' = reserved - units
    /\ ram_stake' = ram_stake - units
    /\ userres' = [userres EXCEPT ![a].ram = @ - units]
    /\ limits' = RamLimit(a, userres'[a])
    /\ UNCHANGED <<managed, unfit, rate, due, now>>

\* sellram(a, bytes), for so many units of bytes.
SellRam(a, units) ==
    /\ UpdateRamSupply
    /\ units > 0
    /\ a \in DOMAIN userres /\ userres[a].ram >= units
    /\ ram_stake - units >= 0
    /\ units <= ram_balance
    /\ tokens' = [tokens EXCEPT ![a] = @ + units]
    /\ ram_balance' = ram_balance - units
    /\ reserved' = reserved - units
    /\ ram_stake' = ram_stake - units
    /\ userres' = [userres EXCEPT ![a].ram = @ - units]
    /\ limits' = RamLimit(a, userres'[a])
    /\ UNCHANGED <<managed, unfit, rate, due, now>>

\* setram(size)
SetRam(size) ==
    /\ max_ram_size < size
    /\ size > reserved
    /\ base' = base + (size - max_ram_size)
    /\ max_ram_size' = size
    /\ due' = due + (size - max_ram_size)
    /\ UNCHANGED <<accountVars, marketVars, rate, last_ram_increase, now>>

BugSetRamRateOnly(bytes_per_block) ==
    /\ rate' = bytes_per_block
    /\ UNCHANGED <<accountVars, marketVars, max_ram_size, base, last_ram_increase, due, now>>

\* setramrate(bytes_per_block)
SetRamRate(bytes_per_block) ==
    /\ UpdateRamSupply
    /\ rate' = bytes_per_block
    /\ UNCHANGED <<accountVars, marketVars, due, now>>

\* The limits that changebw sets for the receiver a of the stake.
StakeLimits(a, row) ==
    IF {"net", "cpu"} \subseteq managed[a] THEN limits
    ELSE [limits EXCEPT ![a] =
            [ram |-> IF "ram" \in managed[a] \/ @.ram > row.ram THEN @.ram ELSE row.ram,
             net |-> IF "net" \in managed[a] THEN @.net ELSE row.net,
             cpu |-> IF "cpu" \in managed[a] THEN @.cpu ELSE row.cpu]]

\* The part of changebw on the resources of the receiver; a row that would be
\* empty is erased.
ChangeWeights(a, d) ==
    LET row == [Resource(a) EXCEPT !.net = @ + d.net, !.cpu = @ + d.cpu]
    IN  /\ Exists(a)
        /\ row.net \in 0..MaxWeight /\ row.cpu \in 0..MaxWeight
        /\ limits' = StakeLimits(a, row)
        /\ userres' = IF row = NoResources THEN Restrict(userres, DOMAIN userres \ {a})
                                           ELSE Row(userres, a, row)
        /\ UNCHANGED <<managed, unfit, marketVars, supplyVars, now>>

\* newaccount
NewAccount(a) ==
    /\ ~Exists(a)
    /\ userres' = Row(userres, a, NoResources)
    /\ limits' = Row(limits, a, NoResources)
    /\ UNCHANGED <<managed, unfit, marketVars, supplyVars, now>>

\* setalimits(a, ram, net, cpu)
SetALimits(a, l) ==
    /\ Exists(a)
    /\ a \notin DOMAIN userres
    /\ managed[a] = {}
    /\ limits' = [limits EXCEPT ![a] = l]
    /\ unfit' = unfit \cup {a}
    /\ UNCHANGED <<userres, managed, marketVars, supplyVars, now>>

\* setacctram, setacctnet and setacctcpu with a value: the kind is managed.
Manage(a, kind, value) ==
    /\ Exists(a)
    /\ value >= IF kind = "ram" THEN 0 ELSE Unlimited
    /\ managed' = [managed EXCEPT ![a] = @ \cup {kind}]
    /\ limits' = [limits EXCEPT ![a][kind] = value]
    /\ UNCHANGED <<userres, unfit, marketVars, supplyVars, now>>

BugUnmanageKeeps(a, kind) ==
    /\ Exists(a)
    /\ kind \in managed[a]
    /\ managed' = [managed EXCEPT ![a] = @ \ {kind}]
    /\ UNCHANGED <<userres, limits, unfit, marketVars, supplyVars, now>>

\* The same actions without a value: the limit is that of the row again.
Unmanage(a, kind) ==
    /\ Exists(a)
    /\ kind \in managed[a]
    /\ managed' = [managed EXCEPT ![a] = @ \ {kind}]
    /\ limits' = [limits EXCEPT ![a][kind] = Resource(a)[kind]]
    /\ UNCHANGED <<userres, unfit, marketVars, supplyVars, now>>

NextBlock ==
    /\ now < MaxTime
    /\ now' = now + 1
    /\ due' = due + rate
    /\ UNCHANGED <<accountVars, marketVars, max_ram_size, base, rate, last_ram_increase>>

Next ==
    \/ \E a \in Accounts :
        \/ \E units \in Purchases : \/ \E payer \in Accounts : \/ BuyRam(payer, a, units)
                                                               \/ BuyRamBytes(payer, a, units)
                                    \/ SellRam(a, units)
        \/ \E d \in Deltas : ChangeWeights(a, d)
        \/ NewAccount(a)
        \/ \E l \in [Kinds -> Limits] : SetALimits(a, l)
        \/ \E kind \in Kinds : Unmanage(a, kind) \/ \E value \in Limits : Manage(a, kind, value)
    \/ \E size \in RamSizes : SetRam(size)
    \/ \E r \in Rates : SetRamRate(r)
    \/ NextBlock

Spec == Init /\ [][Next]_vars

-----------------------------------------------------------------------------
\* The tables hold values of the types they declare: no weight, RAM or supply
\* is negative.
TypeOK ==
    /\ DOMAIN limits \subseteq Accounts
    /\ \A a \in DOMAIN limits : limits[a] \in [Kinds -> Int]
    /\ DOMAIN userres \subseteq DOMAIN limits
    /\ \A a \in DOMAIN userres : userres[a] \in [Kinds -> Nat]
    /\ managed \in [Accounts -> SUBSET Kinds]
    /\ unfit \subseteq DOMAIN limits
    /\ tokens \in [Accounts -> Nat]
    /\ ram_balance \in Nat /\ reserved \in Nat /\ ram_stake \in Nat
    /\ max_ram_size \in Nat /\ base \in Nat /\ rate \in Nat /\ due \in Nat
    /\ last_ram_increase \in 0..now
    /\ now \in 0..MaxTime

\* An account made by newaccount and never given to setalimits may use what
\* it has bought and what is staked for it, no more and no less, except of
\* the kinds that are managed; whatever was bought, sold, staked, managed and
\* unmanaged before.
LimitsFollowRows ==
    \A a \in DOMAIN limits \ unfit : \A kind \in Kinds \ managed[a] :
        limits[a][kind] = Resource(a)[kind]

\* All RAM reserved is in some row, and eosio.ram has the UTXRAM it is paid
\* back with; so sellram never fails for want of tokens, and the unsigned
\* total never goes below zero.
RamIsBacked ==
    /\ reserved = SumFunction([a \in DOMAIN userres |-> userres[a].ram])
    /\ ram_stake = reserved
    /\ ram_balance = reserved

\* What an account gets by buyrambytes is what it asked for.
BytesAreExact ==
    [][\A payer, a \in Accounts, units \in Purchases :
          BuyRamBytes(payer, a, units) => reserved' = reserved + units]_vars

\* delegate_bandwidth.cpp, buyram: "RAM is a scarce resource whose supply is
\* defined by global properties max_ram_size."
RamIsScarce == reserved <= max_ram_size

\* eosio.system.cpp, setalimits: "only supports unlimited accounts".
OnlyUnlimited ==
    [][\A a \in unfit' \ unfit : limits[a] = [k \in Kinds |-> Unlimited]]_vars

\* RAM per block that no call has allocated yet.
Unseen == (now - last_ram_increase) * rate

\* Nothing is allocated that setram and the rates do not give, each rate in
\* its own slots; where the product of 32 bits in update_ram_supply wraps
\* around, whole multiples of its range are lost.  What the market has to
\* sell grows with the supply.
SupplyIsDue ==
    LET lost == due - (max_ram_size + Unseen)
    IN  /\ lost >= 0 /\ lost % WordModulus = 0
        /\ base = max_ram_size

\* eosio.system.hpp, setramrate: "new ram will be allocated at the old rate
\* up to the present block before switching the rate".
RateIsApplied == max_ram_size + Unseen = due
=============================================================================
