------------------------------ MODULE NameBids ------------------------------
(***************************************************************************)
(* The auction of account names in eosio.system: bidname and bidrefund     *)
(* (name_bidding.cpp), the closing of an auction by onblock                *)
(* (producer_pay.cpp) and the claim of a name by newaccount                *)
(* (eosio.system.cpp).                                                     *)
(*                                                                         *)
(* All bids lie with eosio.names.  Who is outbid has a refund there, which *)
(* a deferred transaction pays at once, unless the node drops it, and      *)
(* anyone may pay by bidrefund.  The names are those that have to be won.  *)
(*                                                                         *)
(* Time is counted in days.  Of a time the code stores, only how long ago  *)
(* it was matters, and only up to the bound the code compares it with: it  *)
(* is kept as that age, so that time can go on for ever.                   *)
(***************************************************************************)
EXTENDS Integers, FiniteSets, Functions

CONSTANTS
    Names,              \* account names that have to be won
    Bidders,
    System,             \* eosio, which creates any account
    Funds,              \* tokens of each bidder at first
    IdleDays,           \* days after which a bid or a closing is old (1)
    WaitDays            \* days before the first auction closes (14)

ASSUME NameBidsConstants ==
    /\ IsFiniteSet(Names) /\ IsFiniteSet(Bidders)
    /\ System \notin Bidders
    /\ Funds \in Nat
    /\ IdleDays \in Nat /\ WaitDays \in Nat

VARIABLES
    bids,               \* table namebids: name -> [bidder, high, age]
    refunds,            \* tables bidrefunds: <<name, bidder>> -> amount
    deferred,           \* ids of the scheduled refunds
    created,            \* accounts of the names: name -> [by, price]
    balance,            \* tokens of the bidders
    names_balance,      \* tokens of eosio.names
    upay,               \* tokens that auctions have brought eosio.upay
    close_age,          \* days since _gstate.last_name_close
    active_age          \* days since _gstate.thresh_activated_stake_time

ages == <<close_age, active_age>>
vars == <<bids, refunds, deferred, created, balance, names_balance, upay, ages>>

-----------------------------------------------------------------------------
Row(f, k, v) == [x \in DOMAIN f \cup {k} |-> IF x = k THEN v ELSE f[x]]

Init ==
    /\ bids = [n \in {} |-> 0]
    /\ refunds = [x \in {} |-> 0]
    /\ deferred = {}
    /\ created = [n \in {} |-> 0]
    /\ balance = [b \in Bidders |-> Funds]
    /\ names_balance = 0
    /\ upay = 0
    /\ close_age = IdleDays + 1
    /\ active_age = 0

BugOutbidReplaces(n) ==
    LET loser == <<n, bids[n].bidder>>
    IN  /\ refunds' = Row(refunds, loser, bids[n].high)
        /\ deferred' = deferred \cup {loser}

\* The highest bidder so far has its bid refunded, by a transaction that
\* replaces one still scheduled.
Outbid(n) ==
    LET loser == <<n, bids[n].bidder>>
    IN  /\ refunds' = Row(refunds, loser,
                bids[n].high + IF loser \in DOMAIN refunds THEN refunds[loser] ELSE 0)
        /\ deferred' = deferred \cup {loser}

BugMayOutbidClosed(b, n, amount) ==
    /\ amount - bids[n].high > bids[n].high \div 10
    /\ bids[n].bidder # b

\* What bidname asks of a bid on a name that has one.
MayOutbid(b, n, amount) ==
    /\ bids[n].high > 0
    /\ amount - bids[n].high > bids[n].high \div 10
    /\ bids[n].bidder # b

\* bidname(b, n, amount)
BidName(b, n, amount) ==
    /\ n \notin DOMAIN created
    /\ amount > 0 /\ amount <= balance[b]
    /\ IF n \in DOMAIN bids THEN MayOutbid(b, n, amount) /\ Outbid(n)
                            ELSE UNCHANGED <<refunds, deferred>>
    /\ bids' = Row(bids, n, [bidder |-> b, high |-> amount, age |-> 0])
    /\ balance' = [balance EXCEPT ![b] = @ - amount]
    /\ names_balance' = names_balance + amount
    /\ UNCHANGED <<created, upay, ages>>

BugMayRefundKnownBid(b, n) ==
    n \in DOMAIN bids /\ <<n, b>> \in DOMAIN refunds /\ refunds[<<n, b>>] <= names_balance

\* What bidrefund asks for.
MayRefund(b, n) == <<n, b>> \in DOMAIN refunds /\ refunds[<<n, b>>] <= names_balance

PayRefund(b, n) ==
    /\ balance' = [balance EXCEPT ![b] = @ + refunds[<<n, b>>]]
    /\ names_balance' = names_balance - refunds[<<n, b>>]
    /\ refunds' = Restrict(refunds, DOMAIN refunds \ {<<n, b>>})

\* bidrefund(b, n), which anyone may call.
BidRefund(b, n) ==
    /\ MayRefund(b, n)
    /\ PayRefund(b, n)
    /\ UNCHANGED <<bids, deferred, created, upay, ages>>

\* The node runs a scheduled refund, or drops it: it may fail or expire, and
\* is not sent again.
RunDeferred(b, n) ==
    /\ <<n, b>> \in deferred
    /\ deferred' = deferred \ {<<n, b>>}
    /\ \/ MayRefund(b, n) /\ PayRefund(b, n)
       \/ UNCHANGED <<balance, names_balance, refunds>>
    /\ UNCHANGED <<bids, created, upay, ages>>

Abs(i) == IF i < 0 THEN -i ELSE i

BugMayCloseHighestEver(n) ==
    /\ close_age > IdleDays
    /\ bids[n].high > 0
    /\ \A m \in DOMAIN bids : Abs(bids[m].high) <= bids[n].high
    /\ bids[n].age > IdleDays
    /\ active_age > WaitDays

(***************************************************************************)
(* onblock closes the auction with the highest open bid, if that bid is    *)
(* older than a day: no other auction closes meanwhile.  Of equal bids the *)
(* index has one first.                                                    *)
(***************************************************************************)
MayClose(n) ==
    /\ close_age > IdleDays
    /\ bids[n].high > 0
    /\ \A m \in DOMAIN bids : bids[m].high <= bids[n].high
    /\ bids[n].age > IdleDays
    /\ active_age > WaitDays

\* The part of onblock that closes an auction; it runs once a minute.
CloseAuction(n) ==
    /\ n \in DOMAIN bids
    /\ MayClose(n)
    /\ bids[n].high <= names_balance
    /\ close_age' = 0
    /\ names_balance' = names_balance - bids[n].high
    /\ upay' = upay + bids[n].high
    /\ bids' = [bids EXCEPT ![n].high = -@]
    /\ UNCHANGED <<refunds, deferred, created, balance, active_age>>

BugMayClaimOpen(b, n) == n \in DOMAIN bids /\ bids[n].bidder = b

\* Whether newaccount lets b create the account n.
MayClaim(b, n) == n \in DOMAIN bids /\ bids[n].bidder = b /\ bids[n].high < 0

\* newaccount by a bidder.
NewAccount(b, n) ==
    /\ n \notin DOMAIN created
    /\ MayClaim(b, n)
    /\ created' = Row(created, n, [by |-> b, price |-> -bids[n].high])
    /\ bids' = Restrict(bids, DOMAIN bids \ {n})
    /\ UNCHANGED <<refunds, deferred, balance, names_balance, upay, ages>>

\* newaccount by eosio, which no auction binds.
NewSystemAccount(n) ==
    /\ n \notin DOMAIN created
    /\ created' = Row(created, n, [by |-> System, price |-> 0])
    /\ UNCHANGED <<bids, refunds, deferred, balance, names_balance, upay, ages>>

\* One day more, up to a bound.
Older(age, bound) == IF age < bound THEN age + 1 ELSE age

\* A day passes.
Tick ==
    /\ close_age' = Older(close_age, IdleDays + 1)
    /\ active_age' = Older(active_age, WaitDays + 1)
    /\ bids' = [n \in DOMAIN bids |-> [bids[n] EXCEPT !.age = Older(@, IdleDays + 1)]]
    /\ UNCHANGED <<refunds, deferred, created, balance, names_balance, upay>>

Next ==
    \/ \E b \in Bidders, n \in Names : \/ \E amount \in 1..Funds : BidName(b, n, amount)
                                       \/ BidRefund(b, n)
                                       \/ RunDeferred(b, n)
                                       \/ NewAccount(b, n)
    \/ \E n \in Names : CloseAuction(n) \/ NewSystemAccount(n)
    \/ Tick

Spec == Init /\ [][Next]_vars

(***************************************************************************)
(* Days pass, blocks are made and onblock runs in each of them.  Nobody    *)
(* has to bid, claim or create, and no scheduled refund has to succeed.    *)
(***************************************************************************)
Fairness ==
    /\ WF_vars(Tick)
    /\ WF_vars(\E n \in Names : CloseAuction(n))

FairSpec == Spec /\ Fairness

-----------------------------------------------------------------------------
\* The tables hold values of the types they declare; no bid and no refund is
\* of nothing.
TypeOK ==
    /\ DOMAIN bids \subseteq Names
    /\ \A n \in DOMAIN bids : bids[n] \in [bidder : Bidders, high : Int \ {0}, age : 0..(IdleDays + 1)]
    /\ DOMAIN refunds \subseteq Names \X Bidders
    /\ \A x \in DOMAIN refunds : refunds[x] \in Nat \ {0}
    /\ deferred \subseteq Names \X Bidders
    /\ DOMAIN created \subseteq Names
    /\ \A n \in DOMAIN created : created[n] \in [by : Bidders \cup {System}, price : Nat]
    /\ balance \in [Bidders -> Nat]
    /\ names_balance \in Nat /\ upay \in Nat
    /\ close_age \in 0..(IdleDays + 1)
    /\ active_age \in 0..(WaitDays + 1)

\* The sum of f over S.
Sum(S, f(_)) == SumFunction([x \in S |-> f(x)])

Open == {n \in DOMAIN bids : bids[n].high > 0}

\* The tokens of eosio.names are the highest bids of the open auctions and
\* the refunds that wait; those of the closed auctions have left for
\* eosio.upay.  No refund and no closing can fail for want of tokens.
NamesAreFunded ==
    /\ names_balance = Sum(Open, LAMBDA n : bids[n].high) + SumFunction(refunds)
    /\ upay = Sum(DOMAIN bids \ Open, LAMBDA n : -bids[n].high)
              + Sum(DOMAIN created, LAMBDA n : created[n].price)

\* A bidder pays for the names it leads or has won, and for nothing else:
\* the rest of its tokens it has or will be refunded.
BiddersPayForNames ==
    \A b \in Bidders :
        Funds = balance[b]
                + Sum({x \in DOMAIN refunds : x[2] = b}, LAMBDA x : refunds[x])
                + Sum({n \in DOMAIN bids : bids[n].bidder = b}, LAMBDA n : Abs(bids[n].high))
                + Sum({n \in DOMAIN created : created[n].by = b}, LAMBDA n : created[n].price)

\* A closed auction stays as it is until its winner creates the account.
ClosedIsFinal ==
    [][\A n \in DOMAIN bids : bids[n].high < 0 =>
          \/ /\ n \in DOMAIN bids'
             /\ bids'[n].bidder = bids[n].bidder /\ bids'[n].high = bids[n].high
          \/ n \in DOMAIN created' /\ created'[n].by = bids[n].bidder]_vars

(***************************************************************************)
(* Who is outbid is repaid in full, whatever became of the scheduled       *)
(* refund and of the auction: bidrefund stays possible until it is done,   *)
(* so that it is enough to try it.                                         *)
(***************************************************************************)
OutbidAreRefunded ==
    \A b \in Bidders, n \in Names :
        WF_vars(BidRefund(b, n)) =>
            (<<n, b>> \in DOMAIN refunds ~> <<n, b>> \notin DOMAIN refunds)

\* Every auction closes though only the highest bid of all can, and only when
\* it has been idle for a day: bids must rise, and bidders run out of tokens.
AuctionsClose == \A n \in Names : n \in Open ~> n \notin Open
=============================================================================
