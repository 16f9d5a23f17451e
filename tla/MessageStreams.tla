--------------------------- MODULE MessageStreams ---------------------------
(***************************************************************************)
(* What the message bus promises its callers: a set of bounded streams.    *)
(* Each message is accepted at most once, leaves its stream in the order   *)
(* of acceptance, and after the bus is shut nothing is accepted any more;  *)
(* what is still buffered is then received or thrown away.                 *)
(***************************************************************************)
EXTENDS Integers, Sequences

CONSTANTS Messages, Streams, StreamOf, Cap

VARIABLES buffer,    \* what each stream holds
          accepted,  \* messages some stream took
          received,  \* messages a consumer got
          shut       \* nothing is accepted any more

vars == <<buffer, accepted, received, shut>>

Init ==
  /\ buffer = [s \in Streams |-> <<>>]
  /\ accepted = {} /\ received = {}
  /\ shut = FALSE

Accept(m) ==
  LET s == StreamOf[m]
  IN  /\ ~shut /\ m \notin accepted /\ Len(buffer[s]) < Cap
      /\ buffer' = [buffer EXCEPT ![s] = Append(@, m)]
      /\ accepted' = accepted \cup {m}
      /\ UNCHANGED <<received, shut>>

Deliver(s) ==
  /\ buffer[s] # <<>>
  /\ received' = received \cup {Head(buffer[s])}
  /\ buffer' = [buffer EXCEPT ![s] = Tail(@)]
  /\ UNCHANGED <<accepted, shut>>

Discard(s) ==
  /\ shut /\ buffer[s] # <<>>
  /\ buffer' = [buffer EXCEPT ![s] = Tail(@)]
  /\ UNCHANGED <<accepted, received, shut>>

Shut == ~shut /\ shut' = TRUE /\ UNCHANGED <<buffer, accepted, received>>

Next == (\E m \in Messages : Accept(m)) \/ (\E s \in Streams : Deliver(s) \/ Discard(s)) \/ Shut

Spec == Init /\ [][Next]_vars
=============================================================================
