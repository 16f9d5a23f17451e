----------------------------- MODULE MessageBus -----------------------------
(***************************************************************************)
(* The message bus (src/core/src/pkg/bus/bus.go): publish, its five        *)
(* bounded Go channels and Close.  Every message stands for one call of    *)
(* publish, in a goroutine of its own; the channels are instances of the   *)
(* same generic function and differ in their drop budget only.             *)
(* A send on a closed Go channel panics: the process would die.            *)
(***************************************************************************)
EXTENDS Integers, Sequences, FiniteSets

CONSTANTS Messages,  \* the calls of publish
          Streams,   \* inbound, outbound, outboundMedia, audioChunks, voiceControls
          StreamOf,  \* the channel of each message
          Lossy,     \* streams with a drop budget (audioChunks)
          Cap,       \* bound: capacity of every channel (64, and 256 for audio)
          Closers    \* bound: the goroutines that call Close

ASSUME BusConstants ==
  /\ StreamOf \in [Messages -> Streams] /\ Lossy \subseteq Streams
  /\ Cap \in Nat \ {0} /\ IsFiniteSet(Messages)

CallStates == {"idle", "inside", "sent", "refused", "dropped", "panicked"}
Stages == {"open", "waiting", "closing", "closed"}

VARIABLES
  call,      \* where each call of publish is; "sent", "refused" and "dropped" have their result
  wg,        \* calls between wg.Add and wg.Done
  queue,     \* the buffer of each channel
  live,      \* channels not closed yet
  received,  \* messages a consumer took
  dropped,   \* streamStats.dropped
  stage,     \* progress of Close; done is closed from "waiting" on
  caller     \* where each call of Close is

vars == <<call, wg, queue, live, received, dropped, stage, caller>>

TypeOK ==
  /\ call \in [Messages -> CallStates]
  /\ \A m \in Messages : call[m] = "dropped" => StreamOf[m] \in Lossy
  /\ wg \subseteq Messages /\ received \subseteq Messages
  /\ queue \in [Streams -> Seq(Messages)]
  /\ live \subseteq Streams
  /\ dropped \in [Streams -> Nat]
  /\ stage \in Stages
  /\ caller \in [Closers -> {"idle", "called", "returned"}]

Init ==
  /\ call = [m \in Messages |-> "idle"]
  /\ wg = {} /\ received = {}
  /\ queue = [s \in Streams |-> <<>>]
  /\ live = Streams
  /\ dropped = [s \in Streams |-> 0]
  /\ stage = "open"
  /\ caller = [k \in Closers |-> "idle"]

Result(m, r) == call' = [call EXCEPT ![m] = r]

-----------------------------------------------------------------------------
\* Mutant: enterPublish does not look at closed and done.
AlwaysOpen == TRUE

Accepting == stage = "open"

\* enterPublish, one critical section of publishMu.
Enter(m) ==
  /\ call[m] = "idle" /\ Accepting
  /\ Result(m, "inside")
  /\ wg' = wg \cup {m}
  /\ UNCHANGED <<queue, live, received, dropped, stage, caller>>

\* enterPublish refuses: the bus is closed, or the caller's context is done.
Refuse(m) ==
  /\ call[m] = "idle"
  /\ Result(m, "refused")
  /\ UNCHANGED <<wg, queue, live, received, dropped, stage, caller>>

\* The case ch <- msg of the select; it panics when the channel was closed
\* under the call.
Send(m) ==
  LET s == StreamOf[m]
  IN  /\ call[m] = "inside" /\ (s \in live => Len(queue[s]) < Cap)
      /\ queue' = IF s \in live THEN [queue EXCEPT ![s] = Append(@, m)] ELSE queue
      /\ Result(m, IF s \in live THEN "sent" ELSE "panicked")
      /\ UNCHANGED <<wg, live, received, dropped, stage, caller>>

\* Mutant: done stays open.
NeverDone == FALSE

DoneClosed == stage # "open"

\* The case mb.done of the select.
Woken(m) ==
  /\ call[m] = "inside" /\ DoneClosed
  /\ Result(m, "refused")
  /\ UNCHANGED <<wg, queue, live, received, dropped, stage, caller>>

\* The case ctx.Done of the select.
Cancelled(m) ==
  /\ call[m] = "inside"
  /\ Result(m, "refused")
  /\ UNCHANGED <<wg, queue, live, received, dropped, stage, caller>>

\* Mutant: every stream has a drop budget.
EveryoneDrops(m) == TRUE

MayDrop(m) == StreamOf[m] \in Lossy

\* Mutant: a drop is not counted.
Uncounted(s) == dropped

Counted(s) == [dropped EXCEPT ![s] = @ + 1]

\* The case timer.C: the drop budget is used up.
Drop(m) ==
  /\ call[m] = "inside" /\ MayDrop(m)
  /\ Result(m, "dropped")
  /\ dropped' = Counted(StreamOf[m])
  /\ UNCHANGED <<wg, queue, live, received, stage, caller>>

\* The deferred wg.Done.
Leave(m) ==
  /\ m \in wg /\ call[m] # "inside"
  /\ wg' = wg \ {m}
  /\ UNCHANGED <<call, queue, live, received, dropped, stage, caller>>

\* A consumer (agent loop, channel manager, voice) reads its channel.
Receive(s) ==
  /\ queue[s] # <<>>
  /\ received' = received \cup {Head(queue[s])}
  /\ queue' = [queue EXCEPT ![s] = Tail(@)]
  /\ UNCHANGED <<call, wg, live, dropped, stage, caller>>

-----------------------------------------------------------------------------
\* closeOnce: the first call of Close does the work, the others wait for it.
CallClose(k) ==
  /\ caller[k] = "idle"
  /\ caller' = [caller EXCEPT ![k] = "called"]
  /\ UNCHANGED <<call, wg, queue, live, received, dropped, stage>>

\* closed and done, under publishMu.
MarkClosed ==
  /\ stage = "open" /\ \E k \in Closers : caller[k] = "called"
  /\ stage' = "waiting"
  /\ UNCHANGED <<call, wg, queue, live, received, dropped, caller>>

\* Mutant: the channels are closed without waiting for the publishers.
NoWait == TRUE

NobodyInside == wg = {}

\* wg.Wait returns.
PublishersGone ==
  /\ stage = "waiting" /\ NobodyInside
  /\ stage' = "closing"
  /\ UNCHANGED <<call, wg, queue, live, received, dropped, caller>>

\* close of one channel.  The code closes them in a fixed order; here any.
CloseChannel(s) ==
  /\ stage = "closing" /\ s \in live
  /\ live' = live \ {s}
  /\ UNCHANGED <<call, wg, queue, received, dropped, stage, caller>>

\* One turn of a drain loop, next to the consumers that still read.
Drain(s) ==
  /\ stage = "closing" /\ live = {} /\ queue[s] # <<>>
  /\ queue' = [queue EXCEPT ![s] = Tail(@)]
  /\ UNCHANGED <<call, wg, live, received, dropped, stage, caller>>

\* Mutant: Close does not drain.
NoDrain == TRUE

Drained == \A s \in Streams : queue[s] = <<>>

CloseDone ==
  /\ stage = "closing" /\ live = {} /\ Drained
  /\ stage' = "closed"
  /\ UNCHANGED <<call, wg, queue, live, received, dropped, caller>>

ReturnClose(k) ==
  /\ caller[k] = "called" /\ stage = "closed"
  /\ caller' = [caller EXCEPT ![k] = "returned"]
  /\ UNCHANGED <<call, wg, queue, live, received, dropped, stage>>

-----------------------------------------------------------------------------
Publisher(m) ==
  \/ Enter(m) \/ Refuse(m) \/ Send(m) \/ Woken(m) \/ Cancelled(m) \/ Drop(m) \/ Leave(m)
Closing ==
  \/ MarkClosed \/ PublishersGone \/ CloseDone
  \/ \E s \in Streams : CloseChannel(s) \/ Drain(s)

Next ==
  \/ \E m \in Messages : Publisher(m)
  \/ \E s \in Streams : Receive(s)
  \/ \E k \in Closers : CallClose(k) \/ ReturnClose(k)
  \/ Closing

Spec == Init /\ [][Next]_vars

\* Goroutines of the bus and of its callers go on when they can; consumers
\* and caller contexts are not relied on, since they may have ended already.
Fairness ==
  /\ \A m \in Messages : WF_vars(Send(m) \/ Woken(m)) /\ WF_vars(Leave(m))
  /\ \A k \in Closers : WF_vars(ReturnClose(k))
  /\ WF_vars(Closing)
FairSpec == Spec /\ Fairness

-----------------------------------------------------------------------------
\* Close never closes a channel under a publisher that is about to send.
NoSendOnClosed == \A m \in Messages : call[m] # "panicked"

\* Whoever returns from Close, the first caller or one that came second,
\* finds every channel closed and empty and no publisher inside.
CloseIsComplete ==
  \A k \in Closers :
    caller[k] = "returned" =>
      live = {} /\ wg = {} /\ \A s \in Streams : queue[s] = <<>>

\* Stats and HealthCheck report the drops that happened, and all of them.
DropsCounted ==
  \A s \in Streams :
    dropped[s] = Cardinality({m \in Messages : call[m] = "dropped" /\ StreamOf[m] = s})

\* Close returns, although the channels are full and nobody reads them.
CloseReturns == \A k \in Closers : caller[k] = "called" ~> caller[k] = "returned"

\* The bus implements the bounded streams its callers see: accepted messages
\* leave in order, and nothing is lost or accepted once Close has waited for
\* the publishers.
Taken == {m \in Messages : call[m] = "sent"}
IsShut == stage \in {"closing", "closed"}
Promised == INSTANCE MessageStreams WITH buffer <- queue, accepted <- Taken, shut <- IsShut
ImplementsStreams == Promised!Spec
=============================================================================
