----------------------------- MODULE MCVotePay -----------------------------
(***************************************************************************)
(* An instance of VotePay for TLC.                                         *)
(***************************************************************************)
EXTENDS VotePay, TLC

\* A unit of stake weighs 2 in the first week and 4 in the second.
TwoWeeks == (0 :> 2) @@ (1 :> 4)

\* Accounts are interchangeable.
AccountSymmetry == Permutations(Accounts)
=============================================================================
