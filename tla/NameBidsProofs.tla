--------------------------- MODULE NameBidsProofs ---------------------------
(***************************************************************************)
(* The type invariant of the name auctions, that nothing but the account   *)
(* of its winner ends a closed auction, and that eosio.names, eosio.upay   *)
(* and the bidders have the tokens that bids, refunds and prices leave.    *)
(***************************************************************************)
EXTENDS NameBids, Sums

BidRows == [bidder : Bidders, high : Int \ {0}, age : 0..(IdleDays + 1)]
CreatedRows == [by : Bidders \cup {System}, price : Nat]

-----------------------------------------------------------------------------
\* Restrict erases entries and keeps the others.
LEMMA RestrictDef ==
    ASSUME NEW f, NEW S
    PROVE  DOMAIN Restrict(f, S) = S /\ \A x \in S : Restrict(f, S)[x] = f[x]
  BY DEF Restrict

\* A bidder who is outbid gets a refund of more than nothing.
LEMMA OutbidType ==
    ASSUME TypeOK, NEW n \in DOMAIN bids, bids[n].high > 0, Outbid(n)
    PROVE  /\ DOMAIN refunds' \subseteq Names \X Bidders
           /\ \A x \in DOMAIN refunds' : refunds'[x] \in Nat \ {0}
           /\ deferred' \subseteq Names \X Bidders
  <1> DEFINE loser == <<n, bids[n].bidder>>
             amount == bids[n].high + IF loser \in DOMAIN refunds THEN refunds[loser] ELSE 0
  <1>1. bids[n] \in BidRows /\ loser \in Names \X Bidders
    BY DEF TypeOK, BidRows
  <1>2. bids[n].high \in Nat \ {0}
    BY <1>1 DEF BidRows
  <1>3. amount \in Nat \ {0}
    <2>1. CASE loser \in DOMAIN refunds
      <3>1. refunds[loser] \in Nat
        BY <2>1 DEF TypeOK
      <3> QED BY <1>2, <2>1, <3>1
    <2>2. CASE loser \notin DOMAIN refunds
      BY <1>2, <2>2
    <2> QED BY <2>1, <2>2
  <1>4. refunds' = Row(refunds, loser, amount) /\ deferred' = deferred \cup {loser}
    BY DEF Outbid
  <1> HIDE DEF loser, amount
  <1>5. /\ DOMAIN refunds' = DOMAIN refunds \cup {loser}
        /\ \A x \in DOMAIN refunds \cup {loser} :
               refunds'[x] = IF x = loser THEN amount ELSE refunds[x]
    BY <1>4 DEF Row
  <1> QED BY <1>1, <1>3, <1>4, <1>5 DEF TypeOK

\* A refund that is paid leaves the tables well typed.
LEMMA PayRefundType ==
    ASSUME TypeOK, NEW b \in Bidders, NEW n \in Names, MayRefund(b, n), PayRefund(b, n)
    PROVE  /\ DOMAIN refunds' \subseteq Names \X Bidders
           /\ \A x \in DOMAIN refunds' : refunds'[x] \in Nat \ {0}
           /\ balance' \in [Bidders -> Nat]
           /\ names_balance' \in Nat
  <1>1. refunds[<<n, b>>] \in Nat \ {0} /\ refunds[<<n, b>>] <= names_balance
    BY DEF TypeOK, MayRefund
  <1>2. /\ DOMAIN refunds' = DOMAIN refunds \ {<<n, b>>}
        /\ \A x \in DOMAIN refunds' : refunds'[x] = refunds[x]
    BY RestrictDef DEF PayRefund
  <1>3. DOMAIN refunds' \subseteq Names \X Bidders /\ \A x \in DOMAIN refunds' : refunds'[x] \in Nat \ {0}
    BY <1>2 DEF TypeOK
  <1>4. balance' = [balance EXCEPT ![b] = @ + refunds[<<n, b>>]]
    BY DEF PayRefund
  <1>5. balance' \in [Bidders -> Nat]
    BY <1>1, <1>4 DEF TypeOK
  <1>6. names_balance' \in Nat
    BY <1>1 DEF TypeOK, PayRefund
  <1> QED BY <1>3, <1>5, <1>6

-----------------------------------------------------------------------------
\* The tables of the auctions are well typed in every reachable state: no
\* balance is overdrawn, no bid or refund is of nothing.
THEOREM TypeCorrect == Spec => []TypeOK
  <1> USE NameBidsConstants
  <1>1. Init => TypeOK
    BY DEF Init, TypeOK
  <1>2. TypeOK /\ [Next]_vars => TypeOK'
    <2> SUFFICES ASSUME TypeOK, [Next]_vars PROVE TypeOK'
      OBVIOUS
    <2>1. ASSUME NEW b \in Bidders, NEW n \in Names, NEW amount \in 1..Funds, BidName(b, n, amount)
          PROVE  TypeOK'
      <3> DEFINE row == [bidder |-> b, high |-> amount, age |-> 0]
      <3>1. row \in BidRows
        BY DEF BidRows
      <3>2. bids' = Row(bids, n, row)
        BY <2>1 DEF BidName
      <3> HIDE DEF row
      <3>3. /\ DOMAIN bids' = DOMAIN bids \cup {n}
            /\ \A x \in DOMAIN bids \cup {n} : bids'[x] = IF x = n THEN row ELSE bids[x]
        BY <3>2 DEF Row
      <3>4. DOMAIN bids' \subseteq Names /\ \A x \in DOMAIN bids' : bids'[x] \in BidRows
        BY <3>1, <3>3 DEF TypeOK, BidRows
      <3>5. /\ DOMAIN refunds' \subseteq Names \X Bidders
            /\ \A x \in DOMAIN refunds' : refunds'[x] \in Nat \ {0}
            /\ deferred' \subseteq Names \X Bidders
        <4>1. CASE n \in DOMAIN bids
          BY <2>1, <4>1, OutbidType DEF BidName, MayOutbid
        <4>2. CASE n \notin DOMAIN bids
          BY <2>1, <4>2 DEF BidName, TypeOK
        <4> QED BY <4>1, <4>2
      <3>6. balance' \in [Bidders -> Nat] /\ names_balance' \in Nat
        BY <2>1 DEF BidName, TypeOK
      <3> QED BY <2>1, <3>4, <3>5, <3>6 DEF BidName, TypeOK, BidRows, ages
    <2>2. ASSUME NEW b \in Bidders, NEW n \in Names, BidRefund(b, n)
          PROVE  TypeOK'
      BY <2>2, PayRefundType DEF BidRefund, TypeOK, ages
    <2>3. ASSUME NEW b \in Bidders, NEW n \in Names, RunDeferred(b, n)
          PROVE  TypeOK'
      <3>1. CASE MayRefund(b, n) /\ PayRefund(b, n)
        BY <2>3, <3>1, PayRefundType DEF RunDeferred, TypeOK, ages
      <3>2. CASE UNCHANGED <<balance, names_balance, refunds>>
        BY <2>3, <3>2 DEF RunDeferred, TypeOK, ages
      <3> QED BY <2>3, <3>1, <3>2 DEF RunDeferred
    <2>4. ASSUME NEW b \in Bidders, NEW n \in Names, NewAccount(b, n)
          PROVE  TypeOK'
      <3> DEFINE row == [by |-> b, price |-> -bids[n].high]
      <3>1. n \in DOMAIN bids /\ bids[n] \in BidRows /\ bids[n].high < 0
        BY <2>4 DEF NewAccount, MayClaim, TypeOK, BidRows
      <3>2. row \in CreatedRows
        BY <3>1 DEF BidRows, CreatedRows
      <3>3. created' = Row(created, n, row)
        BY <2>4 DEF NewAccount
      <3> HIDE DEF row
      <3>4. /\ DOMAIN created' = DOMAIN created \cup {n}
            /\ \A x \in DOMAIN created \cup {n} : created'[x] = IF x = n THEN row ELSE created[x]
        BY <3>3 DEF Row
      <3>5. /\ DOMAIN bids' = DOMAIN bids \ {n}
            /\ \A x \in DOMAIN bids' : bids'[x] = bids[x]
        BY <2>4, RestrictDef DEF NewAccount
      <3>6. DOMAIN created' \subseteq Names /\ \A x \in DOMAIN created' : created'[x] \in CreatedRows
        BY <3>2, <3>4 DEF TypeOK, CreatedRows
      <3> QED BY <2>4, <3>5, <3>6 DEF NewAccount, TypeOK, CreatedRows, ages
    <2>5. ASSUME NEW n \in Names, CloseAuction(n)
          PROVE  TypeOK'
      <3>1. n \in DOMAIN bids /\ bids[n] \in BidRows
        BY <2>5 DEF CloseAuction, TypeOK, BidRows
      <3>2. bids[n].high > 0 /\ bids[n].high <= names_balance
        BY <2>5 DEF CloseAuction, MayClose
      <3>3. /\ DOMAIN bids' = DOMAIN bids
            /\ \A x \in DOMAIN bids : bids'[x] = IF x = n THEN [bids[n] EXCEPT !.high = -@] ELSE bids[x]
        BY <2>5 DEF CloseAuction
      <3>4. [bids[n] EXCEPT !.high = -@] \in BidRows
        BY <3>1, <3>2 DEF BidRows
      <3>5. DOMAIN bids' \subseteq Names /\ \A x \in DOMAIN bids' : bids'[x] \in BidRows
        BY <3>3, <3>4 DEF TypeOK, BidRows
      <3>6. names_balance' \in Nat /\ upay' \in Nat
        BY <2>5, <3>1, <3>2 DEF CloseAuction, TypeOK, BidRows
      <3> QED BY <2>5, <3>5, <3>6 DEF CloseAuction, TypeOK, BidRows
    <2>6. ASSUME NEW n \in Names, NewSystemAccount(n)
          PROVE  TypeOK'
      <3> DEFINE row == [by |-> System, price |-> 0]
      <3>1. row \in CreatedRows
        BY DEF CreatedRows
      <3>2. created' = Row(created, n, row)
        BY <2>6 DEF NewSystemAccount
      <3> HIDE DEF row
      <3>3. /\ DOMAIN created' = DOMAIN created \cup {n}
            /\ \A x \in DOMAIN created \cup {n} : created'[x] = IF x = n THEN row ELSE created[x]
        BY <3>2 DEF Row
      <3>4. DOMAIN created' \subseteq Names /\ \A x \in DOMAIN created' : created'[x] \in CreatedRows
        BY <3>1, <3>3 DEF TypeOK, CreatedRows
      <3> QED BY <2>6, <3>4 DEF NewSystemAccount, TypeOK, CreatedRows, ages
    <2>7. ASSUME Tick
          PROVE  TypeOK'
      <3>1. \A i \in Nat : \A age \in 0..(i + 1) : Older(age, i + 1) \in 0..(i + 1)
        BY DEF Older
      <3>2. \A x \in DOMAIN bids : [bids[x] EXCEPT !.age = Older(@, IdleDays + 1)] \in BidRows
        BY <3>1 DEF TypeOK, BidRows
      <3>3. DOMAIN bids' \subseteq Names /\ \A x \in DOMAIN bids' : bids'[x] \in BidRows
        BY <2>7, <3>2 DEF Tick, TypeOK
      <3> QED BY <2>7, <3>1, <3>3 DEF Tick, TypeOK, BidRows
    <2>8. CASE UNCHANGED vars
      BY <2>8 DEF TypeOK, vars, ages
    <2> QED BY <2>1, <2>2, <2>3, <2>4, <2>5, <2>6, <2>7, <2>8 DEF Next
  <1> QED BY <1>1, <1>2, PTL DEF Spec

-----------------------------------------------------------------------------
\* A closed auction stays as it is, whatever is bid, refunded, closed or
\* created, until its winner creates the account.  (Not a type: bids below
\* zero are those of closed auctions.)
THEOREM ClosedCorrect == Spec => ClosedIsFinal
  <1> DEFINE Final(n) ==
          \/ /\ n \in DOMAIN bids'
             /\ bids'[n].bidder = bids[n].bidder /\ bids'[n].high = bids[n].high
          \/ n \in DOMAIN created' /\ created'[n].by = bids[n].bidder
  <1>1. TypeOK /\ [Next]_vars => [\A n \in DOMAIN bids : bids[n].high < 0 => Final(n)]_vars
    <2> SUFFICES ASSUME TypeOK, [Next]_vars, NEW n \in DOMAIN bids, bids[n].high < 0
                 PROVE  Final(n)
      OBVIOUS
    <2>1. bids[n].high \in Int
      BY DEF TypeOK
    <2>2. CASE bids' = bids
      BY <2>2
    <2>3. ASSUME NEW b \in Bidders, NEW m \in Names, NEW amount \in 1..Funds, BidName(b, m, amount)
          PROVE  Final(n)
      <3>1. m # n
        BY <2>1, <2>3 DEF BidName, MayOutbid
      <3> QED BY <2>3, <3>1 DEF BidName, Row
    <2>4. ASSUME NEW b \in Bidders, NEW m \in Names, NewAccount(b, m)
          PROVE  Final(n)
      <3>1. CASE m = n
        BY <2>4, <3>1 DEF NewAccount, MayClaim, Row
      <3>2. CASE m # n
        BY <2>4, <3>2, RestrictDef DEF NewAccount
      <3> QED BY <3>1, <3>2
    <2>5. ASSUME NEW m \in Names, CloseAuction(m)
          PROVE  Final(n)
      <3>1. m # n
        BY <2>1, <2>5 DEF CloseAuction, MayClose
      <3> QED BY <2>5, <3>1 DEF CloseAuction
    <2>6. CASE Tick
      BY <2>6 DEF Tick, TypeOK
    <2>7. CASE UNCHANGED vars
      BY <2>2, <2>7 DEF vars
    <2> QED
      BY <2>2, <2>3, <2>4, <2>5, <2>6, <2>7 DEF Next, BidRefund, RunDeferred, NewSystemAccount
  <1> QED BY <1>1, TypeCorrect, PTL DEF Spec, ClosedIsFinal

-----------------------------------------------------------------------------
\* The tables of which the ledgers are sums: open and closed bids and prices,
\* and of one bidder the refunds that wait, its bids and what it has won.
OpenBids == [n \in Open |-> bids[n].high]
ClosedBids == [n \in DOMAIN bids \ Open |-> -bids[n].high]
Prices == [n \in DOMAIN created |-> created[n].price]
RefundsOf(b) == [x \in {x \in DOMAIN refunds : x[2] = b} |-> refunds[x]]
BidsOf(b) == [n \in {n \in DOMAIN bids : bids[n].bidder = b} |-> Abs(bids[n].high)]
WonBy(b) == [n \in {n \in DOMAIN created : created[n].by = b} |-> created[n].price]

\* What they have of one auction, refund or account.
OpenAt(n) == IF n \in Open THEN bids[n].high ELSE 0
ClosedAt(n) == IF n \in DOMAIN bids \ Open THEN -bids[n].high ELSE 0
BidAt(b, n) == IF n \in DOMAIN bids /\ bids[n].bidder = b THEN Abs(bids[n].high) ELSE 0
RefundAt(x) == IF x \in DOMAIN refunds THEN refunds[x] ELSE 0
RefundOf(b, x) == IF x[2] = b THEN RefundAt(x) ELSE 0
PriceAt(n) == IF n \in DOMAIN created THEN created[n].price ELSE 0
WonAt(b, n) == IF n \in DOMAIN created /\ created[n].by = b THEN created[n].price ELSE 0

\* The ledgers, in these terms.
LEMMA FundedAsSums ==
    NamesAreFunded <=> /\ names_balance = SumFunction(OpenBids) + SumFunction(refunds)
                       /\ upay = SumFunction(ClosedBids) + SumFunction(Prices)
  BY DEF NamesAreFunded, Sum, OpenBids, ClosedBids, Prices

PaysFor(b) == Funds = balance[b] + SumFunction(RefundsOf(b)) + SumFunction(BidsOf(b)) + SumFunction(WonBy(b))

LEMMA PaysAsSums == BiddersPayForNames <=> \A b \in Bidders : PaysFor(b)
  BY DEF BiddersPayForNames, PaysFor, Sum, RefundsOf, BidsOf, WonBy

\* All of these tables are finite and hold integers.
LEMMA LedgerTypes ==
    ASSUME TypeOK
    PROVE  /\ IsFiniteSet(DOMAIN bids) /\ IsFiniteSet(DOMAIN refunds) /\ IsFiniteSet(DOMAIN created)
           /\ \A n \in DOMAIN bids : bids[n].high \in Int /\ Abs(bids[n].high) \in Int
           /\ \A x \in DOMAIN refunds : refunds[x] \in Int
           /\ \A n \in DOMAIN created : created[n].price \in Int
  <1>1. IsFiniteSet(Names \X Bidders)
    BY FS_Product, NameBidsConstants
  <1>2. IsFiniteSet(DOMAIN bids) /\ IsFiniteSet(DOMAIN refunds) /\ IsFiniteSet(DOMAIN created)
    BY <1>1, FS_Subset, NameBidsConstants DEF TypeOK
  <1> QED BY <1>2 DEF TypeOK, Abs

\* Where at most the auction of n changes, the sums of bids change by what
\* they have at n.
LEMMA BidChanges ==
    ASSUME TypeOK, TypeOK', NEW n,
           DOMAIN bids' \ {n} = DOMAIN bids \ {n},
           \A m \in DOMAIN bids \ {n} : bids'[m].high = bids[m].high /\ bids'[m].bidder = bids[m].bidder
    PROVE  /\ Moves(SumFunction(OpenBids), SumFunction(OpenBids)', OpenAt(n), OpenAt(n)')
           /\ Moves(SumFunction(ClosedBids), SumFunction(ClosedBids)', ClosedAt(n), ClosedAt(n)')
           /\ \A b : Moves(SumFunction(BidsOf(b)), SumFunction(BidsOf(b))', BidAt(b, n), BidAt(b, n)')
  <1>1. /\ IsFiniteSet(DOMAIN bids)
        /\ \A m \in DOMAIN bids : bids[m].high \in Int /\ Abs(bids[m].high) \in Int
        /\ \A m \in DOMAIN bids' : bids'[m].high \in Int /\ Abs(bids'[m].high) \in Int
    <2>1. /\ IsFiniteSet(DOMAIN bids)
          /\ \A m \in DOMAIN bids : bids[m].high \in Int /\ Abs(bids[m].high) \in Int
      BY LedgerTypes
    <2>2. \A m \in DOMAIN bids' : bids'[m].high \in Int /\ Abs(bids'[m].high) \in Int
      BY DEF TypeOK, Abs
    <2> QED BY <2>1, <2>2
  <1>2. Moves(SumFunction(OpenBids), SumFunction(OpenBids)', OpenAt(n), OpenAt(n)')
    <2>1. /\ IsFiniteSet(DOMAIN OpenBids) /\ \A m \in DOMAIN OpenBids : OpenBids[m] \in Int
          /\ \A m \in DOMAIN OpenBids' : OpenBids'[m] \in Int
          /\ DOMAIN OpenBids \ {n} = DOMAIN OpenBids' \ {n}
          /\ \A m \in DOMAIN OpenBids \ {n} : OpenBids[m] = OpenBids'[m]
      BY <1>1, FS_Subset DEF OpenBids, Open
    <2>2. At(OpenBids, n) = OpenAt(n) /\ At(OpenBids', n) = OpenAt(n)'
      BY DEF At, OpenAt, OpenBids, Open
    <2> QED BY <2>1, <2>2, SumChanges
  <1>3. Moves(SumFunction(ClosedBids), SumFunction(ClosedBids)', ClosedAt(n), ClosedAt(n)')
    <2>1. /\ IsFiniteSet(DOMAIN ClosedBids) /\ \A m \in DOMAIN ClosedBids : ClosedBids[m] \in Int
          /\ \A m \in DOMAIN ClosedBids' : ClosedBids'[m] \in Int
          /\ DOMAIN ClosedBids \ {n} = DOMAIN ClosedBids' \ {n}
          /\ \A m \in DOMAIN ClosedBids \ {n} : ClosedBids[m] = ClosedBids'[m]
      BY <1>1, FS_Subset DEF ClosedBids, Open
    <2>2. At(ClosedBids, n) = ClosedAt(n) /\ At(ClosedBids', n) = ClosedAt(n)'
      BY DEF At, ClosedAt, ClosedBids, Open
    <2> QED BY <2>1, <2>2, SumChanges
  <1>4. ASSUME NEW b
        PROVE  Moves(SumFunction(BidsOf(b)), SumFunction(BidsOf(b))', BidAt(b, n), BidAt(b, n)')
    <2>1. /\ IsFiniteSet(DOMAIN BidsOf(b)) /\ \A m \in DOMAIN BidsOf(b) : BidsOf(b)[m] \in Int
          /\ \A m \in DOMAIN BidsOf(b)' : BidsOf(b)'[m] \in Int
          /\ DOMAIN BidsOf(b) \ {n} = DOMAIN BidsOf(b)' \ {n}
          /\ \A m \in DOMAIN BidsOf(b) \ {n} : BidsOf(b)[m] = BidsOf(b)'[m]
      BY <1>1, FS_Subset DEF BidsOf
    <2>2. At(BidsOf(b), n) = BidAt(b, n) /\ At(BidsOf(b)', n) = BidAt(b, n)'
      BY DEF At, BidAt, BidsOf
    <2> QED BY <2>1, <2>2, SumChanges
  <1> QED BY <1>2, <1>3, <1>4

\* The same of one refund, and of one account.
LEMMA RefundChanges ==
    ASSUME TypeOK, TypeOK', NEW x,
           DOMAIN refunds' \ {x} = DOMAIN refunds \ {x},
           \A y \in DOMAIN refunds \ {x} : refunds'[y] = refunds[y]
    PROVE  /\ Moves(SumFunction(refunds), SumFunction(refunds)', RefundAt(x), RefundAt(x)')
           /\ \A b : Moves(SumFunction(RefundsOf(b)), SumFunction(RefundsOf(b))', RefundOf(b, x), RefundOf(b, x)')
  <1>1. /\ IsFiniteSet(DOMAIN refunds)
        /\ \A y \in DOMAIN refunds : refunds[y] \in Int
        /\ \A y \in DOMAIN refunds' : refunds'[y] \in Int
    <2>1. IsFiniteSet(DOMAIN refunds) /\ \A y \in DOMAIN refunds : refunds[y] \in Int
      BY LedgerTypes
    <2>2. \A y \in DOMAIN refunds' : refunds'[y] \in Int
      BY DEF TypeOK
    <2> QED BY <2>1, <2>2
  <1>2. Moves(SumFunction(refunds), SumFunction(refunds)', RefundAt(x), RefundAt(x)')
    BY <1>1, SumChanges DEF At, RefundAt
  <1>3. ASSUME NEW b
        PROVE  Moves(SumFunction(RefundsOf(b)), SumFunction(RefundsOf(b))', RefundOf(b, x), RefundOf(b, x)')
    <2>1. /\ IsFiniteSet(DOMAIN RefundsOf(b)) /\ \A y \in DOMAIN RefundsOf(b) : RefundsOf(b)[y] \in Int
          /\ \A y \in DOMAIN RefundsOf(b)' : RefundsOf(b)'[y] \in Int
          /\ DOMAIN RefundsOf(b) \ {x} = DOMAIN RefundsOf(b)' \ {x}
          /\ \A y \in DOMAIN RefundsOf(b) \ {x} : RefundsOf(b)[y] = RefundsOf(b)'[y]
      BY <1>1, FS_Subset DEF RefundsOf
    <2>2. At(RefundsOf(b), x) = RefundOf(b, x) /\ At(RefundsOf(b)', x) = RefundOf(b, x)'
      BY DEF At, RefundOf, RefundAt, RefundsOf
    <2> QED BY <2>1, <2>2, SumChanges
  <1> QED BY <1>2, <1>3

LEMMA PriceChanges ==
    ASSUME TypeOK, TypeOK', NEW n,
           DOMAIN created' \ {n} = DOMAIN created \ {n},
           \A m \in DOMAIN created \ {n} : created'[m] = created[m]
    PROVE  /\ Moves(SumFunction(Prices), SumFunction(Prices)', PriceAt(n), PriceAt(n)')
           /\ \A b : Moves(SumFunction(WonBy(b)), SumFunction(WonBy(b))', WonAt(b, n), WonAt(b, n)')
  <1>1. /\ IsFiniteSet(DOMAIN created)
        /\ \A m \in DOMAIN created : created[m].price \in Int
        /\ \A m \in DOMAIN created' : created'[m].price \in Int
    <2>1. IsFiniteSet(DOMAIN created) /\ \A m \in DOMAIN created : created[m].price \in Int
      BY LedgerTypes
    <2>2. \A m \in DOMAIN created' : created'[m].price \in Int
      BY DEF TypeOK
    <2> QED BY <2>1, <2>2
  <1>2. Moves(SumFunction(Prices), SumFunction(Prices)', PriceAt(n), PriceAt(n)')
    <2>1. /\ IsFiniteSet(DOMAIN Prices) /\ \A m \in DOMAIN Prices : Prices[m] \in Int
          /\ \A m \in DOMAIN Prices' : Prices'[m] \in Int
          /\ DOMAIN Prices \ {n} = DOMAIN Prices' \ {n}
          /\ \A m \in DOMAIN Prices \ {n} : Prices[m] = Prices'[m]
      BY <1>1 DEF Prices
    <2>2. At(Prices, n) = PriceAt(n) /\ At(Prices', n) = PriceAt(n)'
      BY DEF At, PriceAt, Prices
    <2> QED BY <2>1, <2>2, SumChanges
  <1>3. ASSUME NEW b
        PROVE  Moves(SumFunction(WonBy(b)), SumFunction(WonBy(b))', WonAt(b, n), WonAt(b, n)')
    <2>1. /\ IsFiniteSet(DOMAIN WonBy(b)) /\ \A m \in DOMAIN WonBy(b) : WonBy(b)[m] \in Int
          /\ \A m \in DOMAIN WonBy(b)' : WonBy(b)'[m] \in Int
          /\ DOMAIN WonBy(b) \ {n} = DOMAIN WonBy(b)' \ {n}
          /\ \A m \in DOMAIN WonBy(b) \ {n} : WonBy(b)[m] = WonBy(b)'[m]
      BY <1>1, FS_Subset DEF WonBy
    <2>2. At(WonBy(b), n) = WonAt(b, n) /\ At(WonBy(b)', n) = WonAt(b, n)'
      BY DEF At, WonAt, WonBy
    <2> QED BY <2>1, <2>2, SumChanges
  <1> QED BY <1>2, <1>3

\* A step that touches the auction, the account and the bidders' refund of one
\* name, and pays for what it changes there.
Touches(n, x) ==
    /\ DOMAIN bids' \ {n} = DOMAIN bids \ {n}
    /\ \A m \in DOMAIN bids \ {n} : bids'[m].high = bids[m].high /\ bids'[m].bidder = bids[m].bidder
    /\ DOMAIN refunds' \ {x} = DOMAIN refunds \ {x}
    /\ \A y \in DOMAIN refunds \ {x} : refunds'[y] = refunds[y]
    /\ DOMAIN created' \ {n} = DOMAIN created \ {n}
    /\ \A m \in DOMAIN created \ {n} : created'[m] = created[m]

Pays(n, x) ==
    /\ names_balance' = names_balance + (OpenAt(n)' - OpenAt(n)) + (RefundAt(x)' - RefundAt(x))
    /\ upay' = upay + (ClosedAt(n)' - ClosedAt(n)) + (PriceAt(n)' - PriceAt(n))
    /\ \A b \in Bidders :
           balance'[b] = balance[b] - (RefundOf(b, x)' - RefundOf(b, x))
                                    - (BidAt(b, n)' - BidAt(b, n)) - (WonAt(b, n)' - WonAt(b, n))

\* Such a step keeps both ledgers.
LEMMA LedgersMove ==
    ASSUME TypeOK, TypeOK', NamesAreFunded, BiddersPayForNames, NEW n, NEW x, Touches(n, x), Pays(n, x)
    PROVE  NamesAreFunded' /\ BiddersPayForNames'
  <1>1. /\ Moves(SumFunction(OpenBids), SumFunction(OpenBids)', OpenAt(n), OpenAt(n)')
        /\ Moves(SumFunction(ClosedBids), SumFunction(ClosedBids)', ClosedAt(n), ClosedAt(n)')
        /\ \A b : Moves(SumFunction(BidsOf(b)), SumFunction(BidsOf(b))', BidAt(b, n), BidAt(b, n)')
    BY BidChanges DEF Touches
  <1>2. /\ Moves(SumFunction(refunds), SumFunction(refunds)', RefundAt(x), RefundAt(x)')
        /\ \A b : Moves(SumFunction(RefundsOf(b)), SumFunction(RefundsOf(b))', RefundOf(b, x), RefundOf(b, x)')
    BY RefundChanges DEF Touches
  <1>3. /\ Moves(SumFunction(Prices), SumFunction(Prices)', PriceAt(n), PriceAt(n)')
        /\ \A b : Moves(SumFunction(WonBy(b)), SumFunction(WonBy(b))', WonAt(b, n), WonAt(b, n)')
    BY PriceChanges DEF Touches
  <1>4. NamesAreFunded'
    <2>1. /\ names_balance = SumFunction(OpenBids) + SumFunction(refunds)
          /\ upay = SumFunction(ClosedBids) + SumFunction(Prices)
      BY FundedAsSums
    <2>2. /\ names_balance' = SumFunction(OpenBids)' + SumFunction(refunds)'
          /\ upay' = SumFunction(ClosedBids)' + SumFunction(Prices)'
      BY <1>1, <1>2, <1>3, <2>1 DEF Moves, Pays
    <2>3. NamesAreFunded' <=> /\ names_balance' = SumFunction(OpenBids)' + SumFunction(refunds)'
                              /\ upay' = SumFunction(ClosedBids)' + SumFunction(Prices)'
      BY DEF NamesAreFunded, Sum, OpenBids, ClosedBids, Prices
    <2> QED BY <2>2, <2>3
  <1>5. BiddersPayForNames'
    <2>1. ASSUME NEW b \in Bidders PROVE PaysFor(b)'
      <3>1. PaysFor(b) /\ balance[b] \in Int
        BY PaysAsSums DEF TypeOK
      <3> QED BY <1>1, <1>2, <1>3, <3>1 DEF Moves, Pays, PaysFor
    <2>2. BiddersPayForNames' <=> \A b \in Bidders : PaysFor(b)'
      BY DEF BiddersPayForNames, PaysFor, Sum, RefundsOf, BidsOf, WonBy
    <2> QED BY <2>1, <2>2
  <1> QED BY <1>4, <1>5

\* A bid brings its tokens to eosio.names, and who is outbid has its own there
\* as a refund instead.
LEMMA BidPays ==
    ASSUME TypeOK, NEW b \in Bidders, NEW n \in Names, NEW amount \in 1..Funds, BidName(b, n, amount)
    PROVE  \E x : Touches(n, x) /\ Pays(n, x)
  <1> DEFINE row == [bidder |-> b, high |-> amount, age |-> 0]
  <1>0. PICK x \in Names \X Bidders : n \in DOMAIN bids => x = <<n, bids[n].bidder>>
    <2>1. n \in DOMAIN bids => <<n, bids[n].bidder>> \in Names \X Bidders
      BY DEF TypeOK
    <2>2. <<n, b>> \in Names \X Bidders
      OBVIOUS
    <2> QED BY <2>1, <2>2
  <1>1. /\ DOMAIN bids' = DOMAIN bids \cup {n}
        /\ \A m \in DOMAIN bids \cup {n} : bids'[m] = IF m = n THEN row ELSE bids[m]
    <2>1. bids' = Row(bids, n, row)
      BY DEF BidName
    <2> HIDE DEF row
    <2> QED BY <2>1 DEF Row
  <1>2. created' = created /\ n \notin DOMAIN created /\ upay' = upay
        /\ balance' = [balance EXCEPT ![b] = @ - amount] /\ names_balance' = names_balance + amount
    BY DEF BidName
  <1>3. \A c \in Bidders : balance[c] \in Int /\ balance'[c] = IF c = b THEN balance[c] - amount ELSE balance[c]
    BY <1>2 DEF TypeOK
  <1>4. row.high = amount /\ row.bidder = b /\ amount \in Int /\ amount > 0
    OBVIOUS
  <1>5. /\ OpenAt(n)' = amount /\ ClosedAt(n)' = 0
        /\ \A c \in Bidders : BidAt(c, n)' = IF c = b THEN amount ELSE 0
    BY <1>1, <1>4 DEF OpenAt, ClosedAt, BidAt, Open, Abs
  <1>6. PriceAt(n) = 0 /\ PriceAt(n)' = 0 /\ \A c \in Bidders : WonAt(c, n) = 0 /\ WonAt(c, n)' = 0
    BY <1>2 DEF PriceAt, WonAt
  <1>7. x[2] \in Bidders /\ RefundAt(x) \in Int
    BY DEF TypeOK, RefundAt
  <1>8. CASE n \in DOMAIN bids
    <2> DEFINE high == bids[n].high
               amount2 == high + IF x \in DOMAIN refunds THEN refunds[x] ELSE 0
    <2>1. high > 0 /\ high \in Int /\ bids[n].bidder # b /\ bids[n].bidder \in Bidders /\ x = <<n, bids[n].bidder>>
      BY <1>0, <1>8 DEF BidName, MayOutbid, TypeOK
    <2>2. refunds' = Row(refunds, x, amount2)
      BY <1>0, <1>8 DEF BidName, Outbid
    <2>3. amount2 = high + RefundAt(x)
      BY DEF RefundAt
    <2> HIDE DEF amount2, row
    <2>4. /\ DOMAIN refunds' = DOMAIN refunds \cup {x}
          /\ \A y \in DOMAIN refunds \cup {x} : refunds'[y] = IF y = x THEN amount2 ELSE refunds[y]
      BY <2>2 DEF Row
    <2>5. RefundAt(x)' = RefundAt(x) + high
      <3>1. RefundAt(x)' = amount2
        BY <2>4 DEF RefundAt
      <3> QED BY <1>7, <2>1, <2>3, <3>1
    <2>6. \A c \in Bidders : RefundOf(c, x)' - RefundOf(c, x) = IF c = bids[n].bidder THEN high ELSE 0
      <3>1. x[2] = bids[n].bidder
        BY <2>1
      <3> QED BY <1>7, <2>1, <2>5, <3>1 DEF RefundOf
    <2>7. /\ OpenAt(n) = high /\ ClosedAt(n) = 0
          /\ \A c \in Bidders : BidAt(c, n) = IF c = bids[n].bidder THEN high ELSE 0
      BY <1>8, <2>1 DEF OpenAt, ClosedAt, BidAt, Open, Abs
    <2> HIDE DEF high
    <2>8. Touches(n, x)
      BY <1>1, <1>2, <2>4 DEF Touches
    <2>9. Pays(n, x)
      BY <1>2, <1>3, <1>4, <1>5, <1>6, <1>7, <2>1, <2>5, <2>6, <2>7 DEF Pays, TypeOK
    <2> QED BY <2>8, <2>9
  <1>9. CASE n \notin DOMAIN bids
    <2>1. refunds' = refunds
      BY <1>9 DEF BidName
    <2> HIDE DEF row
    <2>2. RefundAt(x)' = RefundAt(x) /\ \A c \in Bidders : RefundOf(c, x)' = RefundOf(c, x) /\ RefundOf(c, x) \in Int
      BY <1>7, <2>1 DEF RefundAt, RefundOf
    <2>3. OpenAt(n) = 0 /\ ClosedAt(n) = 0 /\ \A c \in Bidders : BidAt(c, n) = 0
      BY <1>9 DEF OpenAt, ClosedAt, BidAt, Open
    <2>4. Touches(n, x)
      BY <1>1, <1>2, <2>1 DEF Touches
    <2>5. Pays(n, x)
      BY <1>2, <1>3, <1>4, <1>5, <1>6, <1>7, <2>2, <2>3 DEF Pays, TypeOK
    <2> QED BY <2>4, <2>5
  <1> QED BY <1>8, <1>9

\* What the tables have of the others is what it was.
LEMMA KeptBids ==
    ASSUME NEW n, bids' = bids
    PROVE  OpenAt(n)' = OpenAt(n) /\ ClosedAt(n)' = ClosedAt(n) /\ \A c : BidAt(c, n)' = BidAt(c, n)
  BY DEF OpenAt, ClosedAt, BidAt, Open

LEMMA KeptRefunds ==
    ASSUME NEW x, refunds' = refunds
    PROVE  RefundAt(x)' = RefundAt(x) /\ \A c : RefundOf(c, x)' = RefundOf(c, x)
  BY DEF RefundAt, RefundOf

LEMMA KeptAccounts ==
    ASSUME NEW n, created' = created
    PROVE  PriceAt(n)' = PriceAt(n) /\ \A c : WonAt(c, n)' = WonAt(c, n)
  BY DEF PriceAt, WonAt

\* What the tables have of a name, a refund and a bidder are integers.
LEMMA LedgerInts ==
    ASSUME TypeOK, NEW n, NEW x
    PROVE  /\ OpenAt(n) \in Int /\ ClosedAt(n) \in Int /\ RefundAt(x) \in Int /\ PriceAt(n) \in Int
           /\ \A c : RefundOf(c, x) \in Int /\ BidAt(c, n) \in Int /\ WonAt(c, n) \in Int
           /\ names_balance \in Int /\ upay \in Int /\ \A c \in Bidders : balance[c] \in Int
  <1>1. /\ \A m \in DOMAIN bids : bids[m].high \in Int /\ Abs(bids[m].high) \in Int /\ -bids[m].high \in Int
        /\ \A y \in DOMAIN refunds : refunds[y] \in Int
        /\ \A m \in DOMAIN created : created[m].price \in Int
    BY LedgerTypes
  <1>2. names_balance \in Int /\ upay \in Int /\ \A c \in Bidders : balance[c] \in Int
    BY DEF TypeOK
  <1> QED BY <1>1, <1>2 DEF OpenAt, ClosedAt, RefundAt, PriceAt, RefundOf, BidAt, WonAt, Open

\* A step that leaves bids and accounts alone in all that the ledgers are about
\* and pays a refund to its bidder.
LEMMA RefundPays ==
    ASSUME TypeOK, NEW b \in Bidders, NEW n \in Names, MayRefund(b, n), PayRefund(b, n),
           bids' = bids, created' = created, upay' = upay
    PROVE  Touches(n, <<n, b>>) /\ Pays(n, <<n, b>>)
  <1> DEFINE x == <<n, b>>
  <1>0. x[2] = b
    OBVIOUS
  <1> HIDE DEF x
  <1>1. /\ DOMAIN refunds' = DOMAIN refunds \ {x}
        /\ \A y \in DOMAIN refunds' : refunds'[y] = refunds[y]
    BY RestrictDef DEF PayRefund, x
  <1>2. x \in DOMAIN refunds /\ RefundAt(x) = refunds[x]
    BY DEF MayRefund, RefundAt, x
  <1>3. /\ balance' = [balance EXCEPT ![b] = @ + RefundAt(x)]
        /\ names_balance' = names_balance - RefundAt(x)
    BY <1>2 DEF PayRefund, x
  <1>4. RefundAt(x)' = 0
    BY <1>1 DEF RefundAt, x
  <1>5. \A c \in Bidders : RefundOf(c, x)' = 0 /\ RefundOf(c, x) = IF c = b THEN RefundAt(x) ELSE 0
    BY <1>0, <1>4 DEF RefundOf, x
  <1>6. Touches(n, x)
    BY <1>1 DEF Touches
  <1>7. \A c \in Bidders : balance'[c] = IF c = b THEN balance[c] + RefundAt(x) ELSE balance[c]
    BY <1>3 DEF TypeOK
  <1>8. Pays(n, x)
    BY <1>3, <1>4, <1>5, <1>7, KeptBids, KeptAccounts, LedgerInts DEF Pays
  <1> QED BY <1>6, <1>8 DEF x

\* onblock sends a bid that it closes from eosio.names to eosio.upay.
LEMMA ClosePays ==
    ASSUME TypeOK, NEW n \in Names, CloseAuction(n), NEW x
    PROVE  Touches(n, x) /\ Pays(n, x)
  <1> DEFINE high == bids[n].high
  <1>1. n \in DOMAIN bids /\ bids[n] \in BidRows /\ high > 0 /\ high \in Int
    BY DEF CloseAuction, MayClose, TypeOK, BidRows
  <1>2. /\ DOMAIN bids' = DOMAIN bids
        /\ \A m \in DOMAIN bids : bids'[m] = IF m = n THEN [bids[n] EXCEPT !.high = -@] ELSE bids[m]
    BY DEF CloseAuction
  <1>3. bids'[n].high = -high /\ bids'[n].bidder = bids[n].bidder
    BY <1>1, <1>2 DEF BidRows
  <1>4. OpenAt(n) = high /\ ClosedAt(n) = 0
    BY <1>1 DEF OpenAt, ClosedAt, Open
  <1>5. OpenAt(n)' = 0 /\ ClosedAt(n)' = high
    <2>1. n \in DOMAIN bids' /\ ~(bids'[n].high > 0) /\ -(bids'[n].high) = high
      BY <1>1, <1>2, <1>3
    <2> QED BY <2>1 DEF OpenAt, ClosedAt, Open
  <1>6. \A c : BidAt(c, n)' = BidAt(c, n)
    BY <1>1, <1>2, <1>3 DEF BidAt, Abs
  <1>7. names_balance' = names_balance - high /\ upay' = upay + high
        /\ refunds' = refunds /\ created' = created /\ balance' = balance
    BY DEF CloseAuction
  <1> HIDE DEF high
  <1>8. Touches(n, x)
    BY <1>2, <1>7 DEF Touches
  <1>9. /\ RefundAt(x)' = RefundAt(x) /\ PriceAt(n)' = PriceAt(n)
        /\ \A c : RefundOf(c, x)' = RefundOf(c, x) /\ WonAt(c, n)' = WonAt(c, n)
    BY <1>7, KeptRefunds, KeptAccounts
  <1>10. /\ RefundAt(x) \in Int /\ PriceAt(n) \in Int /\ names_balance \in Int /\ upay \in Int
         /\ \A c \in Bidders : balance[c] \in Int
         /\ \A c : RefundOf(c, x) \in Int /\ BidAt(c, n) \in Int /\ WonAt(c, n) \in Int
    BY LedgerInts
  <1>11. Pays(n, x)
    BY <1>1, <1>4, <1>5, <1>6, <1>7, <1>9, <1>10 DEF Pays
  <1> QED BY <1>8, <1>11

\* The account of a won name has the price that was bid for it.
LEMMA AccountPays ==
    ASSUME TypeOK, NEW b \in Bidders, NEW n \in Names, NewAccount(b, n), NEW x
    PROVE  Touches(n, x) /\ Pays(n, x)
  <1> DEFINE high == bids[n].high
             row == [by |-> b, price |-> -high]
  <1>1. n \in DOMAIN bids /\ bids[n].bidder = b /\ high < 0 /\ high \in Int /\ n \notin DOMAIN created
    BY DEF NewAccount, MayClaim, TypeOK
  <1>2. /\ DOMAIN bids' = DOMAIN bids \ {n}
        /\ \A m \in DOMAIN bids' : bids'[m] = bids[m]
    BY RestrictDef DEF NewAccount
  <1>3. /\ DOMAIN created' = DOMAIN created \cup {n}
        /\ \A m \in DOMAIN created \cup {n} : created'[m] = IF m = n THEN row ELSE created[m]
    <2>1. created' = Row(created, n, row)
      BY DEF NewAccount
    <2> HIDE DEF row
    <2> QED BY <2>1 DEF Row
  <1>4. row.by = b /\ row.price = -high
    OBVIOUS
  <1>5. OpenAt(n) = 0 /\ ClosedAt(n) = -high /\ \A c : BidAt(c, n) = IF c = b THEN -high ELSE 0
    BY <1>1 DEF OpenAt, ClosedAt, BidAt, Open, Abs
  <1>6. OpenAt(n)' = 0 /\ ClosedAt(n)' = 0 /\ \A c : BidAt(c, n)' = 0
    BY <1>2 DEF OpenAt, ClosedAt, BidAt, Open
  <1>7. PriceAt(n) = 0 /\ \A c : WonAt(c, n) = 0
    BY <1>1 DEF PriceAt, WonAt
  <1> HIDE DEF row, high
  <1>8. PriceAt(n)' = -high /\ \A c : WonAt(c, n)' = IF c = b THEN -high ELSE 0
    BY <1>3, <1>4 DEF PriceAt, WonAt
  <1>9. names_balance' = names_balance /\ upay' = upay /\ refunds' = refunds /\ balance' = balance
    BY DEF NewAccount
  <1>10. Touches(n, x)
    BY <1>2, <1>3, <1>9 DEF Touches
  <1>11. Pays(n, x)
    BY <1>1, <1>5, <1>6, <1>7, <1>8, <1>9, KeptRefunds, LedgerInts DEF Pays
  <1> QED BY <1>10, <1>11

\* eosio pays nothing for an account.
LEMMA SystemPays ==
    ASSUME TypeOK, NEW n \in Names, NewSystemAccount(n), NEW x
    PROVE  Touches(n, x) /\ Pays(n, x)
  <1> DEFINE row == [by |-> System, price |-> 0]
  <1>1. n \notin DOMAIN created /\ bids' = bids /\ refunds' = refunds
        /\ names_balance' = names_balance /\ upay' = upay /\ balance' = balance
    BY DEF NewSystemAccount
  <1>2. /\ DOMAIN created' = DOMAIN created \cup {n}
        /\ \A m \in DOMAIN created \cup {n} : created'[m] = IF m = n THEN row ELSE created[m]
    <2>1. created' = Row(created, n, row)
      BY DEF NewSystemAccount
    <2> HIDE DEF row
    <2> QED BY <2>1 DEF Row
  <1>3. row.price = 0
    OBVIOUS
  <1> HIDE DEF row
  <1>4. /\ PriceAt(n) = 0 /\ PriceAt(n)' = 0 /\ \A c : WonAt(c, n) = 0 /\ WonAt(c, n)' = 0
    BY <1>1, <1>2, <1>3 DEF PriceAt, WonAt
  <1>5. Touches(n, x)
    BY <1>1, <1>2 DEF Touches
  <1>6. Pays(n, x)
    BY <1>1, <1>4, KeptBids, KeptRefunds, LedgerInts DEF Pays
  <1> QED BY <1>5, <1>6

\* What changes no token, no refund, no account, and of bids their age only.
LEMMA OthersPay ==
    ASSUME TypeOK, UNCHANGED <<refunds, created, balance, names_balance, upay>>, DOMAIN bids' = DOMAIN bids,
           \A m \in DOMAIN bids : bids'[m].high = bids[m].high /\ bids'[m].bidder = bids[m].bidder,
           NEW n, NEW x
    PROVE  Touches(n, x) /\ Pays(n, x)
  <1>1. OpenAt(n)' = OpenAt(n) /\ ClosedAt(n)' = ClosedAt(n) /\ \A c : BidAt(c, n)' = BidAt(c, n)
    BY DEF OpenAt, ClosedAt, BidAt, Open
  <1>2. Touches(n, x)
    BY DEF Touches
  <1>3. Pays(n, x)
    BY <1>1, KeptRefunds, KeptAccounts, LedgerInts DEF Pays
  <1> QED BY <1>2, <1>3

LEMMA StepsPay ==
    ASSUME TypeOK, [Next]_vars
    PROVE  \E n, x : Touches(n, x) /\ Pays(n, x)
  <1>1. ASSUME NEW b \in Bidders, NEW n \in Names, NEW amount \in 1..Funds, BidName(b, n, amount)
        PROVE  \E m, x : Touches(m, x) /\ Pays(m, x)
    BY <1>1, BidPays
  <1>2. ASSUME NEW b \in Bidders, NEW n \in Names, BidRefund(b, n)
        PROVE  \E m, x : Touches(m, x) /\ Pays(m, x)
    BY <1>2, RefundPays DEF BidRefund
  <1>3. ASSUME NEW b \in Bidders, NEW n \in Names, RunDeferred(b, n)
        PROVE  \E m, x : Touches(m, x) /\ Pays(m, x)
    <2>1. CASE MayRefund(b, n) /\ PayRefund(b, n)
      BY <1>3, <2>1, RefundPays DEF RunDeferred
    <2>2. CASE UNCHANGED <<balance, names_balance, refunds>>
      BY <1>3, <2>2, OthersPay DEF RunDeferred
    <2> QED BY <1>3, <2>1, <2>2 DEF RunDeferred
  <1>4. ASSUME NEW b \in Bidders, NEW n \in Names, NewAccount(b, n)
        PROVE  \E m, x : Touches(m, x) /\ Pays(m, x)
    BY <1>4, AccountPays
  <1>5. ASSUME NEW n \in Names, CloseAuction(n) \/ NewSystemAccount(n)
        PROVE  \E m, x : Touches(m, x) /\ Pays(m, x)
    BY <1>5, ClosePays, SystemPays
  <1>6. CASE Tick
    <2>1. \A m \in DOMAIN bids : bids[m] \in BidRows
      BY DEF TypeOK, BidRows
    <2>2. /\ DOMAIN bids' = DOMAIN bids
          /\ \A m \in DOMAIN bids : bids'[m].high = bids[m].high /\ bids'[m].bidder = bids[m].bidder
      BY <1>6, <2>1 DEF Tick, BidRows
    <2> QED BY <1>6, <2>2, OthersPay DEF Tick
  <1>7. CASE UNCHANGED vars
    BY <1>7, OthersPay DEF vars
  <1> QED BY <1>1, <1>2, <1>3, <1>4, <1>5, <1>6, <1>7 DEF Next

\* At first nobody has bid.
LEMMA LedgersStart == ASSUME Init PROVE NamesAreFunded /\ BiddersPayForNames
  <1>1. DOMAIN bids = {} /\ DOMAIN refunds = {} /\ DOMAIN created = {}
        /\ names_balance = 0 /\ upay = 0 /\ \A b \in Bidders : balance[b] = Funds
    BY DEF Init
  <1>2. SumFunction(OpenBids) = 0 /\ SumFunction(ClosedBids) = 0 /\ SumFunction(Prices) = 0 /\ SumFunction(refunds) = 0
    <2>1. DOMAIN OpenBids = {} /\ DOMAIN ClosedBids = {} /\ DOMAIN Prices = {}
      BY <1>1 DEF OpenBids, ClosedBids, Prices, Open
    <2> QED BY <1>1, <2>1, SumOfNone
  <1>3. ASSUME NEW b \in Bidders PROVE PaysFor(b)
    <2>1. DOMAIN RefundsOf(b) = {} /\ DOMAIN BidsOf(b) = {} /\ DOMAIN WonBy(b) = {}
      BY <1>1 DEF RefundsOf, BidsOf, WonBy
    <2>2. SumFunction(RefundsOf(b)) = 0 /\ SumFunction(BidsOf(b)) = 0 /\ SumFunction(WonBy(b)) = 0
      BY <2>1, SumOfNone
    <2> QED BY <1>1, <2>2, NameBidsConstants DEF PaysFor
  <1> QED BY <1>1, <1>2, <1>3, FundedAsSums, PaysAsSums

LEMMA LedgersKept ==
    TypeOK /\ TypeOK' /\ NamesAreFunded /\ BiddersPayForNames /\ [Next]_vars
        => NamesAreFunded' /\ BiddersPayForNames'
  BY StepsPay, LedgersMove

(***************************************************************************)
(* eosio.names has exactly the open bids and the refunds that wait, and    *)
(* eosio.upay what the closed auctions brought: whatever is outbid,        *)
(* refunded by hand or by the node, closed or claimed, in any order.       *)
(***************************************************************************)
THEOREM FundsCorrect == Spec => []NamesAreFunded
  BY LedgersStart, LedgersKept, TypeCorrect, PTL DEF Spec

(***************************************************************************)
(* And every bidder has paid for what it leads and has won, nothing else.  *)
(***************************************************************************)
THEOREM BiddersCorrect == Spec => []BiddersPayForNames
  BY LedgersStart, LedgersKept, TypeCorrect, PTL DEF Spec

(***************************************************************************)
(* A refund never fails for want of tokens: bidrefund and the transaction  *)
(* that calls it pay whoever was outbid, and onblock can close whatever    *)
(* auction it finds.                                                       *)
(***************************************************************************)
THEOREM RefundsArePaid ==
    Spec => [](/\ \A b \in Bidders, n \in Names : <<n, b>> \in DOMAIN refunds => MayRefund(b, n)
               /\ \A n \in Open : bids[n].high <= names_balance)
  <1>1. TypeOK /\ NamesAreFunded =>
            /\ \A b \in Bidders, n \in Names : <<n, b>> \in DOMAIN refunds => MayRefund(b, n)
            /\ \A n \in Open : bids[n].high <= names_balance
    <2> SUFFICES ASSUME TypeOK, NamesAreFunded
                 PROVE  /\ \A x \in DOMAIN refunds : refunds[x] <= names_balance
                        /\ \A n \in Open : bids[n].high <= names_balance
      BY DEF MayRefund
    <2>1. /\ IsFiniteSet(DOMAIN refunds) /\ \A x \in DOMAIN refunds : refunds[x] \in Nat
          /\ IsFiniteSet(Open) /\ \A n \in Open : OpenBids[n] \in Nat /\ OpenBids[n] = bids[n].high
      BY LedgerTypes, FS_Subset DEF TypeOK, Open, OpenBids
    <2>2. SumFunctionOnSet(refunds, DOMAIN refunds) \in Nat /\ SumFunctionOnSet(OpenBids, Open) \in Nat
      BY <2>1, SumNat
    <2>3. names_balance = SumFunctionOnSet(OpenBids, Open) + SumFunctionOnSet(refunds, DOMAIN refunds)
      <3>1. DOMAIN OpenBids = Open
        BY DEF OpenBids
      <3> QED BY <3>1, FundedAsSums DEF SumFunction
    <2>4. ASSUME NEW x \in DOMAIN refunds PROVE refunds[x] <= names_balance
      <3>1. refunds[x] <= SumFunctionOnSet(refunds, DOMAIN refunds) /\ refunds[x] \in Nat
        BY <2>1, SumBounds
      <3> QED BY <2>2, <2>3, <3>1
    <2>5. ASSUME NEW n \in Open PROVE bids[n].high <= names_balance
      <3>1. OpenBids[n] <= SumFunctionOnSet(OpenBids, Open) /\ OpenBids[n] \in Nat
        BY <2>1, SumBounds
      <3> QED BY <2>1, <2>2, <2>3, <3>1
    <2> QED BY <2>4, <2>5
  <1> QED BY <1>1, TypeCorrect, FundsCorrect, PTL
=============================================================================
