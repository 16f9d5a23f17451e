------------------------------ MODULE MCSubTurn ------------------------------
(***************************************************************************)
(* Small instances of SubTurn for TLC: the constants are given in the      *)
(* configurations.                                                         *)
(***************************************************************************)
EXTENDS SubTurn
=============================================================================
