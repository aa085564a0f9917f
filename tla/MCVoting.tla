------------------------------ MODULE MCVoting ------------------------------
(***************************************************************************)
(* Instances of Voting for TLC.                                            *)
(***************************************************************************)
EXTENDS Voting, TLC

\* The growth is exaggerated: every week doubles the weights.
TwoWeeks == (0 :> 2) @@ (1 :> 4)
OneWeek == 0 :> 2

\* A unit of stake is added or taken back.
UpDown == {1, -1}

\* Accounts are interchangeable.
AccountSymmetry == Permutations(Accounts)
=============================================================================
