-------------------------------- MODULE Token --------------------------------
(***************************************************************************)
(* The token contract (eosio.token.cpp).                                   *)
(*                                                                         *)
(* A symbol is a code with a precision; there is one token for a code.     *)
(* The tables are keyed by the code, and an amount carries its symbol.     *)
(* Memos, the payers of the rows and the notifications are left out.       *)
(***************************************************************************)
EXTENDS Integers, FiniteSets, Functions

CONSTANTS
    Accounts,
    Codes,              \* codes of symbols
    Precisions,
    MaxAmount,          \* the greatest amount of an asset: 2^62 - 1
    Supplies,           \* maximum supplies asked for
    Amounts             \* amounts given to issue, retire and transfer

ASSUME TokenConstants ==
    /\ IsFiniteSet(Accounts) /\ IsFiniteSet(Codes)
    /\ MaxAmount \in Nat
    /\ Supplies \subseteq Int /\ Amounts \subseteq Int

VARIABLES
    stats,              \* tables stat: code -> [precision, supply, max_supply, issuer]
    balances            \* tables accounts: <<owner, code>> -> [precision, amount]

vars == <<stats, balances>>

-----------------------------------------------------------------------------
Row(f, k, v) == [x \in DOMAIN f \cup {k} |-> IF x = k THEN v ELSE f[x]]

\* An asset is valid.
IsValid(amount) == amount \in -MaxAmount..MaxAmount

BugAddBalanceReplaces(f, owner, code, precision, amount) ==
    Row(f, <<owner, code>>, [precision |-> precision, amount |-> amount])

\* add_balance: the table f with more for the owner.
AddBalance(f, owner, code, precision, amount) ==
    LET k == <<owner, code>>
    IN  IF k \in DOMAIN f THEN [f EXCEPT ![k].amount = @ + amount]
        ELSE Row(f, k, [precision |-> precision, amount |-> amount])

\* sub_balance, where it succeeds.
MaySubBalance(owner, code, amount) ==
    <<owner, code>> \in DOMAIN balances /\ balances[<<owner, code>>].amount >= amount

SubBalance(f, owner, code, amount) == [f EXCEPT ![<<owner, code>>].amount = @ - amount]

\* The checks of an amount that issue, retire and transfer have in common.
MayMove(code, precision, amount) ==
    /\ code \in DOMAIN stats
    /\ IsValid(amount) /\ amount > 0
    /\ precision = stats[code].precision

Init ==
    /\ stats = [c \in {} |-> 0]
    /\ balances = [k \in {} |-> 0]

\* create(issuer, maximum_supply)
Create(issuer, code, precision, max) ==
    /\ IsValid(max) /\ max > 0
    /\ code \notin DOMAIN stats
    /\ stats' = Row(stats, code, [precision |-> precision, supply |-> 0,
                                  max_supply |-> max, issuer |-> issuer])
    /\ UNCHANGED balances

BugMayIssueMax(code, amount) == amount <= stats[code].max_supply

\* The check "quantity exceeds available supply".
MayIssue(code, amount) == amount <= stats[code].max_supply - stats[code].supply

\* issue(issuer, quantity)
Issue(code, precision, amount) ==
    /\ MayMove(code, precision, amount)
    /\ MayIssue(code, amount)
    /\ stats' = [stats EXCEPT ![code].supply = @ + amount]
    /\ balances' = AddBalance(balances, stats[code].issuer, code, precision, amount)

\* retire(quantity) takes it from the issuer.
Retire(code, precision, amount) ==
    /\ MayMove(code, precision, amount)
    /\ MaySubBalance(stats[code].issuer, code, amount)
    /\ stats' = [stats EXCEPT ![code].supply = @ - amount]
    /\ balances' = SubBalance(balances, stats[code].issuer, code, amount)

\* transfer(from, to, quantity)
Transfer(from, to, code, precision, amount) ==
    /\ from # to
    /\ MayMove(code, precision, amount)
    /\ MaySubBalance(from, code, amount)
    /\ balances' = AddBalance(SubBalance(balances, from, code, amount), to, code, precision, amount)
    /\ UNCHANGED stats

BugOpenAnyPrecision(owner, code, precision) ==
    /\ code \in DOMAIN stats
    /\ balances' = IF <<owner, code>> \in DOMAIN balances THEN balances
                   ELSE Row(balances, <<owner, code>>, [precision |-> precision, amount |-> 0])
    /\ UNCHANGED stats

\* open(owner, symbol)
Open(owner, code, precision) ==
    /\ code \in DOMAIN stats
    /\ precision = stats[code].precision
    /\ balances' = IF <<owner, code>> \in DOMAIN balances THEN balances
                   ELSE Row(balances, <<owner, code>>, [precision |-> precision, amount |-> 0])
    /\ UNCHANGED stats

\* close(owner, symbol): only the code of the symbol is looked at.
Close(owner, code) ==
    /\ <<owner, code>> \in DOMAIN balances
    /\ balances[<<owner, code>>].amount = 0
    /\ balances' = Restrict(balances, DOMAIN balances \ {<<owner, code>>})
    /\ UNCHANGED stats

Next ==
    \E code \in Codes, precision \in Precisions, owner \in Accounts :
        \/ \E max \in Supplies : Create(owner, code, precision, max)
        \/ \E amount \in Amounts :
                \/ Issue(code, precision, amount)
                \/ Retire(code, precision, amount)
                \/ \E to \in Accounts : Transfer(owner, to, code, precision, amount)
        \/ Open(owner, code, precision)
        \/ Close(owner, code)

Spec == Init /\ [][Next]_vars

-----------------------------------------------------------------------------
\* The tables hold valid amounts, and a balance is never negative; it has the
\* symbol of its token, which create has fixed, so that amounts of different
\* precision are never added.
TypeOK ==
    /\ DOMAIN stats \subseteq Codes
    /\ \A c \in DOMAIN stats : stats[c] \in [precision : Precisions, supply : Nat,
                                             max_supply : 1..MaxAmount, issuer : Accounts]
    /\ DOMAIN balances \subseteq Accounts \X DOMAIN stats
    /\ \A k \in DOMAIN balances :
            balances[k] \in [precision : {stats[k[2]].precision}, amount : Nat]

\* All tokens issued and not retired are in some balance, and there are never
\* more than the maximum supply: so neither the supply nor a balance leaves
\* the range of an asset, although add_balance and retire check neither.
SupplyIsHeld ==
    \A c \in DOMAIN stats :
        /\ stats[c].supply <= stats[c].max_supply
        /\ stats[c].supply =
               SumFunction([k \in {x \in DOMAIN balances : x[2] = c} |-> balances[k].amount])

=============================================================================
