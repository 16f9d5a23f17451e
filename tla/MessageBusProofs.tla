--------------------------- MODULE MessageBusProofs ---------------------------
(***************************************************************************)
(* Proofs about MessageBus, for every set of messages, streams and callers *)
(* of Close: no send meets a closed channel, Close is complete when it     *)
(* returns, and the bus implements MessageStreams.  The invariant behind   *)
(* all three says that a call inside publish is counted by the wait group, *)
(* and that nothing is closed before the wait group is empty.              *)
(***************************************************************************)
EXTENDS MessageBus, SequenceTheorems, TLAPS

Counting == \A m \in Messages : call[m] = "inside" => m \in wg
QuietWhenShut == IsShut => wg = {}
ClosedInOrder == live # Streams => IsShut
EmptyWhenClosed == stage = "closed" => live = {} /\ \A s \in Streams : queue[s] = <<>>
ReturnedAtTheEnd == \A k \in Closers : caller[k] = "returned" => stage = "closed"

BusInv ==
  /\ TypeOK /\ Counting /\ QuietWhenShut /\ ClosedInOrder
  /\ EmptyWhenClosed /\ ReturnedAtTheEnd /\ NoSendOnClosed

-----------------------------------------------------------------------------
LEMMA BusInit == Init => BusInv
  BY BusConstants
     DEF Init, BusInv, TypeOK, Counting, QuietWhenShut, ClosedInOrder, EmptyWhenClosed,
         ReturnedAtTheEnd, NoSendOnClosed, IsShut, CallStates, Stages

\* Only an open bus, or one that waits for its publishers, has a call inside;
\* so all its channels are open.
LEMMA InsideIsLive ==
  ASSUME BusInv, NEW m \in Messages, call[m] = "inside"
  PROVE  ~IsShut /\ live = Streams /\ StreamOf[m] \in live
  BY BusConstants DEF BusInv, Counting, QuietWhenShut, ClosedInOrder

LEMMA SendInv ==
  ASSUME BusInv, NEW m \in Messages, Send(m)
  PROVE  BusInv'
<1> DEFINE s == StreamOf[m]
<1>1. s \in Streams /\ s \in live /\ ~IsShut /\ call[m] = "inside"
  BY InsideIsLive, BusConstants DEF Send
<1>2. /\ queue' = [queue EXCEPT ![s] = Append(queue[s], m)]
      /\ call' = [call EXCEPT ![m] = "sent"]
      /\ UNCHANGED <<wg, live, received, dropped, stage, caller>>
  BY <1>1 DEF Send, Result
<1>3. queue' \in [Streams -> Seq(Messages)]
  BY <1>1, <1>2 DEF BusInv, TypeOK
<1>4. TypeOK'
  BY <1>2, <1>3 DEF BusInv, TypeOK, CallStates
<1> QED
  BY <1>1, <1>2, <1>4
     DEF BusInv, TypeOK, Counting, QuietWhenShut, ClosedInOrder, EmptyWhenClosed,
         ReturnedAtTheEnd, NoSendOnClosed, IsShut

\* A head taken from a channel, by a consumer or by the drain of Close.
LEMMA TakeInv ==
  ASSUME BusInv, NEW s \in Streams, queue[s] # <<>>,
         queue' = [queue EXCEPT ![s] = Tail(@)],
         received' \in {received, received \cup {Head(queue[s])}},
         UNCHANGED <<call, wg, live, dropped, stage, caller>>
  PROVE  BusInv'
<1>1. queue[s] \in Seq(Messages)
  BY DEF BusInv, TypeOK
<1>2. Tail(queue[s]) \in Seq(Messages) /\ Head(queue[s]) \in Messages
  BY <1>1, HeadTailProperties
<1>3. queue' \in [Streams -> Seq(Messages)]
  BY <1>2 DEF BusInv, TypeOK
<1>4. received' \subseteq Messages
  BY <1>2 DEF BusInv, TypeOK
<1>5. TypeOK'
  BY <1>3, <1>4 DEF BusInv, TypeOK
<1>6. stage # "closed"
  BY DEF BusInv, EmptyWhenClosed
<1> QED
  BY <1>5, <1>6
     DEF BusInv, Counting, QuietWhenShut, ClosedInOrder, EmptyWhenClosed,
         ReturnedAtTheEnd, NoSendOnClosed, IsShut

LEMMA DropInv ==
  ASSUME BusInv, NEW m \in Messages, Drop(m)
  PROVE  BusInv'
<1>1. dropped' \in [Streams -> Nat]
  BY BusConstants DEF BusInv, TypeOK, Drop, Counted
<1>2. TypeOK'
  BY <1>1 DEF BusInv, TypeOK, Drop, Result, MayDrop, CallStates
<1> QED
  BY <1>2
     DEF BusInv, TypeOK, Drop, Result, Counting, QuietWhenShut, ClosedInOrder, EmptyWhenClosed,
         ReturnedAtTheEnd, NoSendOnClosed, IsShut

LEMMA BusStep == BusInv /\ [Next]_vars => BusInv'
<1> SUFFICES ASSUME BusInv, [Next]_vars PROVE BusInv'
  OBVIOUS
<1> USE DEF BusInv, TypeOK, Counting, QuietWhenShut, ClosedInOrder, EmptyWhenClosed,
            ReturnedAtTheEnd, NoSendOnClosed, IsShut, Result, CallStates, Stages
<1>1. ASSUME NEW m \in Messages, Enter(m) PROVE BusInv'
  BY <1>1 DEF Enter, Accepting
<1>2. ASSUME NEW m \in Messages, Refuse(m) \/ Woken(m) \/ Cancelled(m) PROVE BusInv'
  BY <1>2 DEF Refuse, Woken, Cancelled
<1>3. ASSUME NEW m \in Messages, Send(m) PROVE BusInv'
  BY <1>3, SendInv
<1>4. ASSUME NEW m \in Messages, Drop(m) PROVE BusInv'
  BY <1>4, DropInv
<1>5. ASSUME NEW m \in Messages, Leave(m) PROVE BusInv'
  BY <1>5 DEF Leave
<1>6. ASSUME NEW s \in Streams, Receive(s) PROVE BusInv'
  BY <1>6, TakeInv DEF Receive
<1>7. ASSUME NEW k \in Closers, CallClose(k) \/ ReturnClose(k) PROVE BusInv'
  BY <1>7 DEF CallClose, ReturnClose
<1>8. ASSUME MarkClosed PROVE BusInv'
  BY <1>8 DEF MarkClosed
<1>9. ASSUME PublishersGone PROVE BusInv'
  BY <1>9 DEF PublishersGone, NobodyInside
<1>10. ASSUME CloseDone PROVE BusInv'
  BY <1>10 DEF CloseDone, Drained
<1>11. ASSUME NEW s \in Streams, CloseChannel(s) PROVE BusInv'
  BY <1>11 DEF CloseChannel
<1>12. ASSUME NEW s \in Streams, Drain(s) PROVE BusInv'
  BY <1>12, TakeInv DEF Drain
<1>13. CASE UNCHANGED vars
  BY <1>13 DEF vars
<1> QED
  BY <1>1, <1>2, <1>3, <1>4, <1>5, <1>6, <1>7, <1>8, <1>9, <1>10, <1>11, <1>12, <1>13
     DEF Next, Publisher, Closing

LEMMA BusCorrect == Spec => []BusInv
  BY BusInit, BusStep, PTL DEF Spec

\* TypeOK, which says that only streams with a drop budget drop.
THEOREM TypeCorrect == Spec => []TypeOK
<1>1. BusInv => TypeOK
  BY DEF BusInv
<1> QED
  BY BusCorrect, <1>1, PTL

\* Close waits for the publishers before it closes a channel, so none of
\* them panics.
THEOREM NoSendOnClosedCorrect == Spec => []NoSendOnClosed
<1>1. BusInv => NoSendOnClosed
  BY DEF BusInv
<1> QED
  BY BusCorrect, <1>1, PTL

\* Whoever returns from Close finds the bus closed, empty and quiet.
THEOREM CloseIsCompleteCorrect == Spec => []CloseIsComplete
<1>1. BusInv => CloseIsComplete
  BY DEF BusInv, CloseIsComplete, ReturnedAtTheEnd, EmptyWhenClosed, QuietWhenShut, IsShut
<1> QED
  BY BusCorrect, <1>1, PTL

-----------------------------------------------------------------------------
LEMMA StreamsInit == Init => Promised!Init
  BY DEF Init, Promised!Init, Taken, IsShut

\* A step that changes neither the channels nor what the calls have sent
\* is invisible to the callers.
LEMMA Invisible ==
  ASSUME UNCHANGED <<queue, received, IsShut>>,
         \A m \in Messages : call'[m] = "sent" <=> call[m] = "sent"
  PROVE  UNCHANGED Promised!vars
  BY DEF Promised!vars, Taken

LEMMA StreamsStep == BusInv /\ [Next]_vars => [Promised!Next]_(Promised!vars)
<1> SUFFICES ASSUME BusInv, [Next]_vars
             PROVE  Promised!Next \/ UNCHANGED Promised!vars
  OBVIOUS
<1>0. call \in [Messages -> CallStates]
  BY DEF BusInv, TypeOK
<1>1. ASSUME NEW m \in Messages, Enter(m) PROVE UNCHANGED Promised!vars
  BY <1>0, <1>1, Invisible DEF Enter, Result, IsShut
<1>2. ASSUME NEW m \in Messages, Refuse(m) \/ Woken(m) \/ Cancelled(m)
      PROVE UNCHANGED Promised!vars
  BY <1>0, <1>2, Invisible DEF Refuse, Woken, Cancelled, Result, IsShut
<1>3. ASSUME NEW m \in Messages, Send(m) PROVE Promised!Accept(m)
  <2>1. call[m] = "inside" /\ ~IsShut /\ StreamOf[m] \in live
    BY <1>3, InsideIsLive DEF Send
  <2>2. m \notin Taken /\ Taken' = Taken \cup {m} /\ IsShut' = IsShut
    BY <1>0, <1>3, <2>1 DEF Send, Result, Taken, IsShut
  <2> QED
    BY <1>3, <2>1, <2>2 DEF Send, Promised!Accept
<1>4. ASSUME NEW m \in Messages, Drop(m) PROVE UNCHANGED Promised!vars
  BY <1>0, <1>4, Invisible DEF Drop, Result, IsShut
<1>5. ASSUME NEW m \in Messages, Leave(m) PROVE UNCHANGED Promised!vars
  BY <1>5, Invisible DEF Leave, IsShut
<1>6. ASSUME NEW s \in Streams, Receive(s) PROVE Promised!Deliver(s)
  BY <1>6 DEF Receive, Promised!Deliver, Taken, IsShut
<1>7. ASSUME NEW k \in Closers, CallClose(k) \/ ReturnClose(k)
      PROVE UNCHANGED Promised!vars
  BY <1>7, Invisible DEF CallClose, ReturnClose, IsShut
<1>8. ASSUME MarkClosed \/ CloseDone PROVE UNCHANGED Promised!vars
  BY <1>8, Invisible DEF MarkClosed, CloseDone, IsShut
<1>9. ASSUME PublishersGone PROVE Promised!Shut
  BY <1>9 DEF PublishersGone, Promised!Shut, Taken, IsShut
<1>10. ASSUME NEW s \in Streams, CloseChannel(s) PROVE UNCHANGED Promised!vars
  BY <1>10, Invisible DEF CloseChannel, IsShut
<1>11. ASSUME NEW s \in Streams, Drain(s) PROVE Promised!Discard(s)
  BY <1>11 DEF Drain, Promised!Discard, Taken, IsShut
<1>12. CASE UNCHANGED vars
  BY <1>12, Invisible DEF vars, IsShut
<1> QED
  BY <1>1, <1>2, <1>3, <1>4, <1>5, <1>6, <1>7, <1>8, <1>9, <1>10, <1>11, <1>12
     DEF Next, Publisher, Closing, Promised!Next

\* The bus implements MessageStreams: accepted messages leave each channel
\* once and in order, and nothing is accepted after the wait of Close.
THEOREM StreamsImplemented == Spec => ImplementsStreams
  BY BusCorrect, StreamsInit, StreamsStep, PTL DEF Spec, ImplementsStreams, Promised!Spec
=============================================================================
