-------------------------------- MODULE MCInfo --------------------------------
(***************************************************************************)
(* Instances of Info for TLC.                                              *)
(***************************************************************************)
EXTENDS Info, TLC

\* Users are alike.
UsersAreAlike == Permutations(Users)
=============================================================================
