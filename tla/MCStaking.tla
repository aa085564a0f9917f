------------------------------ MODULE MCStaking ------------------------------
(***************************************************************************)
(* Instances of Staking for TLC.                                           *)
(***************************************************************************)
EXTENDS Staking, TLC

CONSTANTS a, b

\* Weights double in a week.
OneWeek == 0 :> 2

NetOrBoth == {[net |-> 1, cpu |-> 0], [net |-> 1, cpu |-> 1]}
NetOrCpu == {[net |-> 1, cpu |-> 0], [net |-> 0, cpu |-> 1]}

TwoAndOne == (a :> 2) @@ (b :> 1)

OneEach == (a :> 1) @@ (b :> 1)

\* All changes of stake that these quantities make.
AllChanges == -3..3
=============================================================================
