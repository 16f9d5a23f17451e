-------------------------- MODULE MCSessionHistory ---------------------------
(***************************************************************************)
(* Small instances of SessionHistory for TLC; the constants are given in   *)
(* the configurations.  KeepTail is 2 instead of 4 so that four messages   *)
(* are enough for a cut.                                                   *)
(***************************************************************************)
EXTENDS SessionHistory
=============================================================================
