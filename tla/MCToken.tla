------------------------------- MODULE MCToken -------------------------------
(***************************************************************************)
(* Instances of Token for TLC.                                             *)
(***************************************************************************)
EXTENDS Token, TLC

\* Accounts are interchangeable, and so are codes.
TokenSymmetry == Permutations(Accounts) \cup Permutations(Codes)
=============================================================================
