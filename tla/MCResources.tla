---------------------------- MODULE MCResources ----------------------------
(***************************************************************************)
(* Instances of Resources for TLC.                                         *)
(***************************************************************************)
EXTENDS Resources, TLC

NetOnly == {[net |-> 1, cpu |-> 0], [net |-> -1, cpu |-> 0]}
=============================================================================
