---------------------------- MODULE MCCronService ----------------------------
(***************************************************************************)
(* Small instances of CronService for TLC.                                 *)
(***************************************************************************)
EXTENDS CronService

\* jobs.json with no job, or one: a recurring one, or a one-time one that was written
\* by hand (DeleteAfterRun is false) and whose time is more than an hour away.
UpToOneJob ==
  {<<>>,
   [i \in {1} |-> [kind |-> "every", arg |-> 1, enabled |-> TRUE, next |-> Never, del |-> FALSE]],
   [i \in {1} |-> [kind |-> "at", arg |-> 3, enabled |-> TRUE, next |-> 3, del |-> FALSE]]}
=============================================================================
