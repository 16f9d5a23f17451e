-------------------------- MODULE MCChannelWorkers --------------------------
(***************************************************************************)
(* Small instances of ChannelWorkers for TLC.                              *)
(***************************************************************************)
EXTENDS ChannelWorkers

\* One channel that is replaced, removed and added, and one that stays.
OneChanges == {[t |-> 1, w |-> 1], [t |-> 2, w |-> 1], [t |-> 0, w |-> 1]}
=============================================================================
