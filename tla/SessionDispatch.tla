-------------------------- MODULE SessionDispatch --------------------------
(***************************************************************************)
(* The message dispatcher of the agent loop (src/core/src/pkg/agent):      *)
(* AgentLoop.Run in agent.go, the session mailboxes of                     *)
(* agent_inbound_mailbox.go, the steering queue of steering.go, the turn   *)
(* shell of agent_steering.go and turn_coord.go, and the /stop path of     *)
(* agent_stop.go.                                                          *)
(*                                                                         *)
(* One main goroutine receives messages.  A message of an idle session     *)
(* claims the session's mailbox and gets a worker goroutine; a message of  *)
(* a busy session is queued in the mailbox (channel "telegram"), pushed on *)
(* the steering queue (any other channel) or handled at once (/stop).      *)
(* A worker is named by the message that spawned it.                       *)
(***************************************************************************)
EXTENDS Integers, Sequences, FiniteSets, Functions

CONSTANTS Msgs,          \* the inbound messages of the bounded run
          Sessions,      \* resolved session keys
          SessionOf,     \* [Msgs -> Sessions]: resolveSteeringTarget
          ChannelOf,     \* [Msgs -> Channels]
          ContentOf,     \* [Msgs -> Contents]
          QueueMax,      \* MaxQueueSize
          WorkerMax,     \* capacity of workerSem
          SteeringAll,   \* steering mode: TRUE "all", FALSE "one-at-a-time"
          MayShutdown,   \* whether the run's context may be cancelled
          None

Channels == {"telegram", "other", "system"}
Contents == {"chat", "command", "stop"}

ASSUME DispatchConstants ==
  /\ SessionOf \in [Msgs -> Sessions]
  /\ ChannelOf \in [Msgs -> Channels]
  /\ ContentOf \in [Msgs -> Contents]
  /\ QueueMax \in Nat /\ WorkerMax \in Nat \ {0}
  /\ SteeringAll \in BOOLEAN /\ MayShutdown \in BOOLEAN
  /\ None \notin Msgs

VARIABLES
  dpc, dmsg, dcleared,   \* the dispatcher: where it is, its message, what /stop cleared
  mailbox,               \* sessionMailboxes: owner (a worker or None) and queued messages
  active,                \* activeTurnStates: nothing, a placeholder or a turn of a worker
  steering,              \* steeringQueue.queues
  pendingStop,           \* pendingStops: None, or the /stop that armed it
  pc, cur,               \* each worker: where it is and the message it serves
  cont,                  \* its turn is a continuation (Continue), not cur's own turn
  bail,                  \* it took a pending stop before its first turn
  abort,                 \* hardAbort of its current turn: None, or the /stop that asked
  ctxDone,               \* the context of Run was cancelled
  fate, killer,          \* what became of each message, and the /stop that cancelled it
  log, begun             \* the order of reception and the order of execution

dispVars == <<dpc, dmsg, dcleared>>
workVars == <<pc, cur, cont, bail, abort>>
histVars == <<fate, killer, log, begun>>
vars == <<dispVars, mailbox, active, steering, pendingStop, workVars, ctxDone, histVars>>

\* Mutant: Telegram messages steer the running turn like any other channel's.
NeverIndependent(m) == FALSE

\* processesIndependently: the message waits its turn instead of steering.
Independent(m) == ChannelOf[m] = "telegram"
Key(w) == SessionOf[w]

NoMailbox == [owner |-> None, queue |-> <<>>]
Placeholder(w) == [kind |-> "pending", by |-> w]
TurnOf(w) == [kind |-> "turn", by |-> w]
Free == [kind |-> "none", by |-> None]

Before(a, b) == \E i, j \in DOMAIN log : i < j /\ log[i] = a /\ log[j] = b

\* Program counters of a worker while it owns a slot of workerSem.
Holding == {"check", "run", "registered", "turn", "final", "drain", "dequeue",
            "publish", "next", "place", "slot"}
Slots == Cardinality({w \in Msgs : pc[w] \in Holding})

Init ==
  /\ dpc = "recv" /\ dmsg = None /\ dcleared = FALSE
  /\ mailbox = [s \in Sessions |-> NoMailbox]
  /\ active = [s \in Sessions |-> Free]
  /\ steering = [s \in Sessions |-> <<>>]
  /\ pendingStop = [s \in Sessions |-> None]
  /\ pc = [w \in Msgs |-> "none"]
  /\ cur = [w \in Msgs |-> None]
  /\ cont = [w \in Msgs |-> FALSE]
  /\ bail = [w \in Msgs |-> FALSE]
  /\ abort = [w \in Msgs |-> None]
  /\ ctxDone = FALSE
  /\ fate = [m \in Msgs |-> "unseen"]
  /\ killer = [m \in Msgs |-> None]
  /\ log = <<>> /\ begun = <<>>

(***************************************************************************)
(* The dispatcher                                                          *)
(***************************************************************************)
CanReceive(m) == dpc = "recv" /\ ~ctxDone /\ fate[m] = "unseen"

Received(m, f) == fate' = [fate EXCEPT ![m] = f] /\ log' = Append(log, m)

\* claimSessionMailboxPosition, the two cases that claim the session: no
\* mailbox, or a steering message that finds no active turn and replaces it.
ClaimSession(m) ==
  /\ CanReceive(m) /\ ChannelOf[m] # "system"
  /\ \/ mailbox[Key(m)].owner = None
     \/ /\ ContentOf[m] # "stop" /\ ~Independent(m)
        /\ active[Key(m)] = Free
  /\ Received(m, "held")
  /\ mailbox' = [mailbox EXCEPT ![Key(m)] = [owner |-> m, queue |-> <<>>]]
  /\ dpc' = "store" /\ dmsg' = m
  /\ UNCHANGED <<dcleared, active, steering, pendingStop, workVars, ctxDone, killer, begun>>

\* Mutant: the newest message goes to the head of the mailbox.
QueueAtHead(m) ==
  /\ CanReceive(m) /\ mailbox[Key(m)].owner # None
  /\ ContentOf[m] # "stop" /\ Independent(m)
  /\ Received(m, "held")
  /\ mailbox' = [mailbox EXCEPT ![Key(m)].queue = <<m>> \o @]
  /\ UNCHANGED <<dispVars, active, steering, pendingStop, workVars, ctxDone, killer, begun>>

\* The independent case: the message waits, whole, behind the running turn.
QueueIndependent(m) ==
  /\ CanReceive(m) /\ mailbox[Key(m)].owner # None
  /\ ContentOf[m] # "stop" /\ Independent(m)
  /\ Received(m, "held")
  /\ mailbox' = [mailbox EXCEPT ![Key(m)].queue = Append(@, m)]
  /\ UNCHANGED <<dispVars, active, steering, pendingStop, workVars, ctxDone, killer, begun>>

\* Neither claimed nor queued: a /stop, or a steering message of an active turn.
DivertMessage(m) ==
  /\ CanReceive(m) /\ ChannelOf[m] # "system"
  /\ mailbox[Key(m)].owner # None
  /\ \/ ContentOf[m] = "stop" /\ dpc' = "stopClear"
     \/ /\ ContentOf[m] # "stop" /\ ~Independent(m)
        /\ active[Key(m)] # Free
        /\ dpc' = "enqueue"
  /\ Received(m, "held")
  /\ dmsg' = m
  /\ UNCHANGED <<dcleared, mailbox, active, steering, pendingStop, workVars, ctxDone, killer, begun>>

\* A system message runs in the main goroutine, on a session of its own.
ReceiveSystem(m) ==
  /\ CanReceive(m) /\ ChannelOf[m] = "system"
  /\ Received(m, "held")
  /\ dpc' = "sync" /\ dmsg' = m
  /\ UNCHANGED <<dcleared, mailbox, active, steering, pendingStop, workVars, ctxDone, killer, begun>>

ProcessMessageSync ==
  /\ dpc = "sync"
  /\ fate' = [fate EXCEPT ![dmsg] = "answered"]
  /\ dpc' = "recv" /\ dmsg' = None
  /\ UNCHANGED <<dcleared, mailbox, active, steering, pendingStop, workVars, ctxDone,
                 killer, log, begun>>

\* The placeholder is stored without a look at what is there, then the worker starts.
SpawnWorker ==
  /\ dpc = "store"
  /\ active' = [active EXCEPT ![Key(dmsg)] = Placeholder(dmsg)]
  /\ pc' = [pc EXCEPT ![dmsg] = "acquire"]
  /\ cur' = [cur EXCEPT ![dmsg] = dmsg]
  /\ dpc' = "recv" /\ dmsg' = None
  /\ UNCHANGED <<dcleared, mailbox, steering, pendingStop, cont, bail, abort, ctxDone, histVars>>

\* enqueueSteeringMessage, after prepareInboundMessageForAgent: a full queue drops the message.
EnqueueSteering ==
  /\ dpc = "enqueue"
  /\ IF Len(steering[Key(dmsg)]) < QueueMax
     THEN /\ steering' = [steering EXCEPT ![Key(dmsg)] = Append(@, dmsg)]
          /\ UNCHANGED fate
     ELSE /\ fate' = [fate EXCEPT ![dmsg] = "rejected"]
          /\ UNCHANGED steering
  /\ dpc' = "recv" /\ dmsg' = None
  /\ UNCHANGED <<dcleared, mailbox, active, pendingStop, workVars, ctxDone, killer, log, begun>>

(***************************************************************************)
(* tryHandleStopCommand                                                    *)
(***************************************************************************)
ClearScope(s) ==
  /\ steering' = [steering EXCEPT ![s] = <<>>]
  /\ fate' = [m \in Msgs |-> IF m \in Range(steering[s]) THEN "cleared" ELSE fate[m]]

StopClear ==
  /\ dpc = "stopClear"
  /\ ClearScope(Key(dmsg))
  /\ dcleared' = (steering[Key(dmsg)] # <<>>)
  /\ dpc' = "stopLook"
  /\ UNCHANGED <<dmsg, mailbox, active, pendingStop, workVars, ctxDone, killer, log, begun>>

\* stopActiveTurnForSession reads the active turn: a turn is aborted, a
\* placeholder or nothing leaves the decision to tryHandleStopCommand.
StopLook ==
  /\ dpc = "stopLook"
  /\ \/ active[Key(dmsg)].kind = "turn" /\ dpc' = "stopAbort"
     \/ active[Key(dmsg)].kind = "pending" /\ dpc' = "stopArm"
     \/ active[Key(dmsg)] = Free /\ dpc' = IF dcleared THEN "stopAck" ELSE "stopArm"
  /\ UNCHANGED <<dmsg, dcleared, mailbox, active, steering, pendingStop, workVars, ctxDone, histVars>>

\* HardAbort reads the entry again: by now it may be gone or a placeholder.
StopAbort ==
  /\ dpc = "stopAbort"
  /\ LET a == active[Key(dmsg)] IN
     IF a.kind = "turn"
     THEN /\ abort' = [abort EXCEPT ![a.by] = IF @ = None THEN dmsg ELSE @]
          /\ dpc' = "stopAck"
     ELSE dpc' = "stopRecheck" /\ UNCHANGED abort
  /\ UNCHANGED <<dmsg, dcleared, mailbox, active, steering, pendingStop, pc, cur, cont, bail,
                 ctxDone, histVars>>

\* After a failed HardAbort: an entry that is gone is no error.
StopRecheck ==
  /\ dpc = "stopRecheck"
  /\ dpc' = IF active[Key(dmsg)] # Free \/ dcleared THEN "stopAck" ELSE "stopArm"
  /\ UNCHANGED <<dmsg, dcleared, mailbox, active, steering, pendingStop, workVars, ctxDone, histVars>>

\* The last look: a placeholder arms a pending stop for the session key.
StopArm ==
  /\ dpc = "stopArm"
  /\ IF active[Key(dmsg)].kind = "pending"
     THEN dpc' = "stopMark"
     ELSE dpc' = "stopAck"
  /\ UNCHANGED <<dmsg, dcleared, mailbox, active, steering, pendingStop, workVars, ctxDone, histVars>>

MarkPendingStop ==
  /\ dpc = "stopMark"
  /\ pendingStop' = [pendingStop EXCEPT ![Key(dmsg)] = dmsg]
  /\ dpc' = "stopAck"
  /\ UNCHANGED <<dmsg, dcleared, mailbox, active, steering, workVars, ctxDone, histVars>>

\* Mutant: the dispatcher keeps the /stop it has answered.
StopAckKeepsMessage ==
  /\ dpc = "stopAck"
  /\ fate' = [fate EXCEPT ![dmsg] = "answered"]
  /\ dpc' = "recv"
  /\ UNCHANGED <<dmsg, dcleared, mailbox, active, steering, pendingStop, workVars, ctxDone,
                 killer, log, begun>>

StopAck ==
  /\ dpc = "stopAck"
  /\ fate' = [fate EXCEPT ![dmsg] = "answered"]
  /\ dpc' = "recv" /\ dmsg' = None
  /\ UNCHANGED <<dcleared, mailbox, active, steering, pendingStop, workVars, ctxDone,
                 killer, log, begun>>

Shutdown ==
  /\ MayShutdown /\ ~ctxDone
  /\ ctxDone' = TRUE
  /\ UNCHANGED <<dispVars, mailbox, active, steering, pendingStop, workVars, histVars>>

(***************************************************************************)
(* The worker goroutine spawned by Run                                     *)
(***************************************************************************)
Goto(w, from, to) == pc[w] = from /\ pc' = [pc EXCEPT ![w] = to]

Settle(m, f) == fate' = [fate EXCEPT ![m] = f]

\* Mutant: the ended turn stays the entry of its session.
ReleaseNothing(s, entry) == active' = active

\* releaseSessionTurnState(key, ts): only if the entry still is this one.
ReleaseIf(s, entry) == active' = [active EXCEPT ![s] = IF @ = entry THEN Free ELSE @]

AcquireSlot(w) ==
  /\ Goto(w, "acquire", "check")
  /\ Slots < WorkerMax
  /\ UNCHANGED <<dispVars, mailbox, active, steering, pendingStop, cur, cont, bail, abort,
                 ctxDone, histVars>>

\* The context ended while the worker waited for a slot: the entry of the
\* session is deleted whoever owns it.
AcquireCancelled(w) ==
  /\ Goto(w, "acquire", "release")
  /\ ctxDone
  /\ active' = [active EXCEPT ![Key(w)] = Free]
  /\ Settle(w, "cancelled")
  /\ UNCHANGED <<dispVars, mailbox, steering, pendingStop, cur, cont, bail, abort, ctxDone,
                 killer, log, begun>>

\* takePendingStop before the first turn.
CheckPendingStop(w) ==
  /\ pc[w] = "check"
  /\ IF pendingStop[Key(w)] = None
     THEN /\ pc' = [pc EXCEPT ![w] = "run"]
          /\ UNCHANGED <<active, pendingStop, bail, fate, killer>>
     ELSE /\ pc' = [pc EXCEPT ![w] = "drain"]
          /\ bail' = [bail EXCEPT ![w] = TRUE]
          /\ killer' = [killer EXCEPT ![w] = pendingStop[Key(w)]]
          /\ Settle(w, "cancelled")
          /\ pendingStop' = [pendingStop EXCEPT ![Key(w)] = None]
          /\ active' = [active EXCEPT ![Key(w)] = Free]
  /\ UNCHANGED <<dispVars, mailbox, steering, cur, cont, abort, ctxDone, log, begun>>

\* handleCommand answers a slash command without a turn, so the placeholder
\* stays.  A /stop that claimed its session runs stopActiveTurnForSession here.
RunCommand(w) ==
  /\ Goto(w, "run", "drain")
  /\ ContentOf[cur[w]] # "chat"
  /\ begun' = Append(begun, cur[w])
  /\ IF ContentOf[cur[w]] = "stop"
     THEN /\ ClearScope(Key(w))
          /\ abort' = [v \in Msgs |->
                         IF active[Key(w)] = TurnOf(v) /\ abort[v] = None
                         THEN cur[w] ELSE abort[v]]
     ELSE UNCHANGED <<steering, fate, abort>>
  /\ UNCHANGED <<dispVars, mailbox, active, pendingStop, cur, cont, bail, ctxDone, killer, log>>

\* registerActiveTurn overwrites whatever entry the session has.
Register(w, isCont) ==
  /\ active' = [active EXCEPT ![Key(w)] = TurnOf(w)]
  /\ cont' = [cont EXCEPT ![w] = isCont]
  /\ abort' = [abort EXCEPT ![w] = None]

RegisterTurn(w) ==
  /\ Goto(w, "run", "registered")
  /\ ContentOf[cur[w]] = "chat"
  /\ Register(w, FALSE)
  /\ begun' = Append(begun, cur[w])
  /\ UNCHANGED <<dispVars, mailbox, steering, pendingStop, cur, bail, ctxDone, fate, killer, log>>

\* An error before the turn exists (routing, turn profile), or a panic there or
\* in a command, is published.
FailBeforeTurn(w) ==
  /\ Goto(w, "run", "next")
  /\ begun' = Append(begun, cur[w])
  /\ Settle(cur[w], "answered")
  /\ UNCHANGED <<dispVars, mailbox, active, steering, pendingStop, cur, cont, bail, abort,
                 ctxDone, killer, log>>

\* runTurn, right after registerActiveTurn: a pending stop aborts this turn.
TakePendingStop(w) ==
  /\ Goto(w, "registered", "turn")
  /\ abort' = [abort EXCEPT ![w] = IF @ = None THEN pendingStop[Key(w)] ELSE @]
  /\ pendingStop' = [pendingStop EXCEPT ![Key(w)] = None]
  /\ UNCHANGED <<dispVars, mailbox, active, steering, cur, cont, bail, ctxDone, histVars>>

\* dequeueLocked: the first message, or all of them.
Dequeued(s) == IF SteeringAll THEN Range(steering[s]) ELSE {Head(steering[s])}

\* Mutant: what a poll took stays in the queue.
DequeueCopies(s) ==
  /\ steering[s] # <<>>
  /\ steering' = steering
  /\ fate' = [m \in Msgs |-> IF m \in Dequeued(s) THEN "merged" ELSE fate[m]]

Dequeue(s) ==
  /\ steering[s] # <<>>
  /\ steering' = [steering EXCEPT ![s] = IF SteeringAll THEN <<>> ELSE Tail(@)]
  /\ fate' = [m \in Msgs |-> IF m \in Dequeued(s) THEN "merged" ELSE fate[m]]

\* The polls of a turn: at its start, after each tool, after a direct answer.
PollSteering(w) ==
  /\ pc[w] = "turn" /\ abort[w] = None
  /\ Dequeue(Key(w))
  /\ UNCHANGED <<dispVars, mailbox, active, pendingStop, workVars, ctxDone, killer, log, begun>>

\* The last poll found nothing, or the iterations ran out: the turn goes to Finalize.
LeaveTurnLoop(w) ==
  /\ Goto(w, "turn", "final")
  /\ abort[w] = None
  /\ UNCHANGED <<dispVars, mailbox, active, steering, pendingStop, cur, cont, bail, abort,
                 ctxDone, histVars>>

\* Finalize, then clearActiveTurn.  A continuation goes back to the drain loop,
\* unless it has no text to return: then Continue's caller ends the loop.
FinishTurn(w) ==
  /\ \/ Goto(w, "final", "drain")
     \/ cont[w] /\ Goto(w, "final", "publish")
  /\ ReleaseIf(Key(w), TurnOf(w))
  /\ UNCHANGED <<dispVars, mailbox, steering, pendingStop, cur, cont, bail, abort, ctxDone,
                 histVars>>

\* abortTurn: the turn ends with no answer; a continuation ends the drain.
AbortTurn(w) ==
  /\ pc[w] = "turn" /\ abort[w] # None
  /\ pc' = [pc EXCEPT ![w] = IF cont[w] THEN "publish" ELSE "drain"]
  /\ ReleaseIf(Key(w), TurnOf(w))
  /\ IF cont[w]
     THEN UNCHANGED <<fate, killer>>
     ELSE /\ Settle(cur[w], "cancelled")
          /\ killer' = [killer EXCEPT ![cur[w]] = abort[w]]
  /\ UNCHANGED <<dispVars, mailbox, steering, pendingStop, cur, cont, bail, abort, ctxDone,
                 log, begun>>

\* Where a worker goes when its turn ends in an error or is cancelled.
AfterFailure(w) == IF cont[w] THEN "publish" ELSE "next"

\* A provider, hook or store error, or a panic confined by runMailboxTurn: the
\* sender is told, and steering is not drained.  A turn that is over goes the same
\* way when its continuation target cannot be built, but its answer is dropped.  A
\* panic of a continuation replaces the answer of the message it continues; after
\* a pending stop there is no runMailboxTurn around it and it ends the worker.
FailTurn(w) ==
  /\ pc[w] \in {"turn", "final"}
  /\ \/ /\ pc' = [pc EXCEPT ![w] = AfterFailure(w)]
        /\ IF cont[w] THEN UNCHANGED fate ELSE Settle(cur[w], "answered")
     \/ /\ cont[w] /\ ~bail[w]
        /\ pc' = [pc EXCEPT ![w] = "next"]
        /\ Settle(cur[w], "answered")
     \/ /\ cont[w] /\ bail[w]
        /\ pc' = [pc EXCEPT ![w] = "release"]
        /\ UNCHANGED fate
  /\ ReleaseIf(Key(w), TurnOf(w))
  /\ UNCHANGED <<dispVars, mailbox, steering, pendingStop, cur, cont, bail, abort, ctxDone,
                 killer, log, begun>>

\* The turn sees the cancelled context: no answer, no error message.
CancelTurn(w) ==
  /\ ctxDone /\ pc[w] \in {"turn", "final"}
  /\ pc' = [pc EXCEPT ![w] = AfterFailure(w)]
  /\ IF cont[w] THEN UNCHANGED fate ELSE Settle(cur[w], "cancelled")
  /\ ReleaseIf(Key(w), TurnOf(w))
  /\ UNCHANGED <<dispVars, mailbox, steering, pendingStop, cur, cont, bail, abort, ctxDone,
                 killer, log, begun>>

(***************************************************************************)
(* drainQueuedSteeringContinuations and Continue                           *)
(***************************************************************************)
DrainDone(w) ==
  /\ Goto(w, "drain", "publish")
  /\ steering[Key(w)] = <<>> \/ ctxDone
  /\ UNCHANGED <<dispVars, mailbox, active, steering, pendingStop, cur, cont, bail, abort,
                 ctxDone, histVars>>

\* Continue claims the session with LoadOrStore; an entry already there, be it
\* the worker's own placeholder, is an error that ends the drain.
ContinueClaim(w) ==
  /\ pc[w] = "drain"
  /\ steering[Key(w)] # <<>>
  /\ IF active[Key(w)] = Free
     THEN /\ active' = [active EXCEPT ![Key(w)] = Placeholder(w)]
          /\ pc' = [pc EXCEPT ![w] = "dequeue"]
     ELSE /\ pc' = [pc EXCEPT ![w] = "publish"]
          /\ UNCHANGED active
  /\ UNCHANGED <<dispVars, mailbox, steering, pendingStop, cur, cont, bail, abort, ctxDone,
                 histVars>>

\* The queue was emptied meanwhile, or the hooks or MCP servers cannot be
\* initialised: the entry is deleted, whoever owns it.
ContinueGivesUp(w) ==
  /\ Goto(w, "dequeue", "publish")
  /\ active' = [active EXCEPT ![Key(w)] = Free]
  /\ UNCHANGED <<dispVars, mailbox, steering, pendingStop, cur, cont, bail, abort, ctxDone,
                 histVars>>

\* continueWithSteeringMessages: what was dequeued becomes a turn of its own.
ContinueTurn(w) ==
  /\ Goto(w, "dequeue", "registered")
  /\ Dequeue(Key(w))
  /\ Register(w, TRUE)
  /\ UNCHANGED <<dispVars, mailbox, pendingStop, cur, bail, ctxDone, killer, log, begun>>

(***************************************************************************)
(* The end of a message and of the worker                                  *)
(***************************************************************************)
\* The final response, if there is one, goes out; a cancelled context may lose it.
Publish(w) ==
  /\ Goto(w, "publish", IF bail[w] THEN "slot" ELSE "next")
  /\ IF fate[cur[w]] = "held"
     THEN \/ Settle(cur[w], "answered")
          \/ ctxDone /\ Settle(cur[w], "cancelled")
     ELSE UNCHANGED fate
  /\ cont' = [cont EXCEPT ![w] = FALSE]
  /\ UNCHANGED <<dispVars, mailbox, active, steering, pendingStop, cur, bail, abort, ctxDone,
                 killer, log, begun>>

\* Mutant: the empty mailbox is left for releaseSessionMailbox to delete.
MailboxLeftBehind(s) == mailbox

\* The mailbox whose owner found it empty is deleted under the lock of that look.
MailboxAfterLast(s) == [mailbox EXCEPT ![s] = NoMailbox]

\* takeNextSessionMessage: only the owner of the mailbox goes on; an empty
\* mailbox is deleted under the same lock.
TakeNextMessage(w) ==
  /\ pc[w] = "next"
  /\ LET box == mailbox[Key(w)] IN
     \/ /\ box.owner # w
        /\ pc' = [pc EXCEPT ![w] = "slot"]
        /\ UNCHANGED <<mailbox, cur>>
     \/ /\ box.owner = w /\ box.queue = <<>>
        /\ pc' = [pc EXCEPT ![w] = "slot"]
        /\ mailbox' = MailboxAfterLast(Key(w))
        /\ UNCHANGED cur
     \/ /\ box.owner = w /\ box.queue # <<>>
        /\ pc' = [pc EXCEPT ![w] = "place"]
        /\ cur' = [cur EXCEPT ![w] = Head(box.queue)]
        /\ mailbox' = [mailbox EXCEPT ![Key(w)].queue = Tail(@)]
  /\ cont' = [cont EXCEPT ![w] = FALSE]
  /\ UNCHANGED <<dispVars, active, steering, pendingStop, bail, abort, ctxDone, histVars>>

\* The next message's placeholder, stored whatever is there.
PlaceNext(w) ==
  /\ Goto(w, "place", "run")
  /\ active' = [active EXCEPT ![Key(w)] = Placeholder(w)]
  /\ UNCHANGED <<dispVars, mailbox, steering, pendingStop, cur, cont, bail, abort, ctxDone,
                 histVars>>

ReleaseSlot(w) ==
  /\ Goto(w, "slot", "safety")
  /\ UNCHANGED <<dispVars, mailbox, active, steering, pendingStop, cur, cont, bail, abort,
                 ctxDone, histVars>>

\* Mutant: no safety net.
NoSafetyNet(w) ==
  /\ Goto(w, "safety", "release")
  /\ UNCHANGED <<dispVars, mailbox, active, steering, pendingStop, cur, cont, bail, abort,
                 ctxDone, histVars>>

\* Mutant: the safety net deletes the entry of the session, placeholder or turn.
SafetyNetTakesTurns(w) ==
  /\ Goto(w, "safety", "release")
  /\ active' = [active EXCEPT ![Key(w)] = Free]
  /\ UNCHANGED <<dispVars, mailbox, steering, pendingStop, cur, cont, bail, abort, ctxDone,
                 histVars>>

\* The safety net of the worker deletes any placeholder of the session, its own
\* or another worker's.
SafetyNet(w) ==
  /\ Goto(w, "safety", "release")
  /\ active' = [active EXCEPT ![Key(w)] = IF @.kind = "pending" THEN Free ELSE @]
  /\ UNCHANGED <<dispVars, mailbox, steering, pendingStop, cur, cont, bail, abort, ctxDone,
                 histVars>>

\* Mutant: the worker ends without releaseSessionMailbox.
MailboxKept(w) ==
  /\ Goto(w, "release", "done")
  /\ UNCHANGED <<dispVars, mailbox, active, steering, pendingStop, cur, cont, bail, abort,
                 ctxDone, histVars>>

\* releaseSessionMailbox: deletes the mailbox, with whatever it holds, if it is
\* still this worker's.
ReleaseMailbox(w) ==
  /\ Goto(w, "release", "done")
  /\ mailbox' = [mailbox EXCEPT ![Key(w)] = IF @.owner = w THEN NoMailbox ELSE @]
  /\ UNCHANGED <<dispVars, active, steering, pendingStop, cur, cont, bail, abort, ctxDone,
                 histVars>>

(***************************************************************************)
(* Specification                                                           *)
(***************************************************************************)
Receive(m) == ClaimSession(m) \/ QueueIndependent(m) \/ DivertMessage(m) \/ ReceiveSystem(m)

HandleStop ==
  \/ StopClear \/ StopLook \/ StopAbort \/ StopRecheck
  \/ StopArm \/ MarkPendingStop \/ StopAck

Dispatcher == SpawnWorker \/ EnqueueSteering \/ ProcessMessageSync \/ HandleStop

Turn(w) ==
  \/ TakePendingStop(w) \/ PollSteering(w) \/ LeaveTurnLoop(w) \/ FinishTurn(w)
  \/ AbortTurn(w) \/ FailTurn(w) \/ CancelTurn(w)

Worker(w) ==
  \/ AcquireSlot(w) \/ AcquireCancelled(w) \/ CheckPendingStop(w)
  \/ RunCommand(w) \/ RegisterTurn(w) \/ FailBeforeTurn(w) \/ Turn(w)
  \/ DrainDone(w) \/ ContinueClaim(w) \/ ContinueGivesUp(w) \/ ContinueTurn(w)
  \/ Publish(w) \/ TakeNextMessage(w) \/ PlaceNext(w)
  \/ ReleaseSlot(w) \/ SafetyNet(w) \/ ReleaseMailbox(w)

Quiescent == dpc = "recv" /\ \A w \in Msgs : pc[w] \in {"none", "done"}

\* Nothing left to receive and nobody at work: the only state allowed to stop.
Idle ==
  /\ Quiescent
  /\ ctxDone \/ \A m \in Msgs : fate[m] # "unseen"
  /\ UNCHANGED vars

Next ==
  \/ \E m \in Msgs : Receive(m)
  \/ Dispatcher
  \/ \E w \in Msgs : Worker(w)
  \/ Shutdown
  \/ Idle

Spec == Init /\ [][Next]_vars

\* Go schedules every runnable goroutine, providers and tools return (they have
\* timeouts), and a slot of workerSem is handed to its waiters in turn.
Fairness ==
  /\ WF_vars(Dispatcher)
  /\ \A w \in Msgs : WF_vars(Worker(w)) /\ SF_vars(AcquireSlot(w))

FairSpec == Spec /\ Fairness

(***************************************************************************)
(* Properties                                                              *)
(***************************************************************************)
DispatchPCs == {"recv", "store", "enqueue", "sync", "stopClear", "stopLook", "stopAbort",
                "stopRecheck", "stopArm", "stopMark", "stopAck"}
WorkerPCs == {"none", "acquire", "safety", "release", "done"} \cup Holding
Fates == {"unseen", "held", "merged", "cleared", "rejected", "cancelled", "answered"}
Mailboxes == [owner : Msgs \cup {None}, queue : Seq(Msgs)]
Entries == {Free} \cup [kind : {"pending", "turn"}, by : Msgs]

\* Every variable has its type, and the dispatcher holds a message exactly
\* while it handles one.
TypeOK ==
  /\ dpc \in DispatchPCs /\ dcleared \in BOOLEAN
  /\ dmsg \in Msgs \cup {None} /\ (dmsg = None <=> dpc = "recv")
  /\ mailbox \in [Sessions -> Mailboxes]
  /\ active \in [Sessions -> Entries]
  /\ steering \in [Sessions -> Seq(Msgs)]
  /\ pendingStop \in [Sessions -> Msgs \cup {None}]
  /\ pc \in [Msgs -> WorkerPCs] /\ cur \in [Msgs -> Msgs \cup {None}]
  /\ \A w \in Msgs : pc[w] # "none" => cur[w] \in Msgs
  /\ cont \in [Msgs -> BOOLEAN] /\ bail \in [Msgs -> BOOLEAN]
  /\ abort \in [Msgs -> Msgs \cup {None}]
  /\ ctxDone \in BOOLEAN
  /\ fate \in [Msgs -> Fates] /\ killer \in [Msgs -> Msgs \cup {None}]
  /\ log \in Seq(Msgs) /\ begun \in Seq(Msgs)

\* The mailbox of a session is owned by a worker that is alive or about to be
\* spawned, of that session: a message queued in it has somebody to take it.
OwnerAlive ==
  \A s \in Sessions : LET w == mailbox[s].owner IN
    w # None => /\ Key(w) = s
                /\ pc[w] # "done"
                /\ pc[w] = "none" => dpc = "store" /\ dmsg = w

\* Where a message still has to be handled: by the dispatcher, by a worker, in
\* the mailbox of its session or in its steering queue.
Working(w) == pc[w] \notin {"none", "done", "slot", "safety", "release"}
Homes(m) ==
  {<<"dispatcher", dmsg>> : d \in {x \in {dmsg} : x = m}}
  \cup {<<"worker", w>> : w \in {x \in Msgs : Working(x) /\ cur[x] = m}}
  \cup {<<"mailbox", i>> : i \in {j \in DOMAIN mailbox[Key(m)].queue : mailbox[Key(m)].queue[j] = m}}
  \cup {<<"steering", i>> : i \in {j \in DOMAIN steering[Key(m)] : steering[Key(m)][j] = m}}

\* No message is handled twice, whatever the interleaving of claim, queueing,
\* steering, /stop and mailbox replacement: it never has two homes at once, and
\* none once it is settled.
HandledOnce ==
  \A m \in Msgs : /\ \A g, h \in Homes(m) : g = h
                  /\ fate[m] \in {"unseen", "merged", "cleared", "rejected"} => Homes(m) = {}

\* At most one worker serves a session (the promise of claimSessionMailbox, and
\* of docs/architecture/steering.md: same-session messages are serialized).
Serving(w) == pc[w] \in {"run", "registered", "turn", "final", "drain", "dequeue", "publish"}
SessionsSerialized ==
  \A v, w \in Msgs : Serving(v) /\ Serving(w) /\ Key(v) = Key(w) => v = w

\* No two turns of one session run at the same time.
InTurn(w) == pc[w] \in {"registered", "turn", "final"}
OneTurnPerSession ==
  \A v, w \in Msgs : InTurn(v) /\ InTurn(w) /\ Key(v) = Key(w) => v = w

\* The messages of one session run in the order they were received.
ArrivalOrder ==
  \A i, j \in DOMAIN begun :
    i < j /\ Key(begun[i]) = Key(begun[j]) => Before(begun[i], begun[j])

\* When everything has come to rest no message is left without an answer (sent,
\* or dropped for want of a target), a turn that took it in, or a /stop, a full
\* queue or a shutdown that ended it.
NothingDropped ==
  Quiescent /\ ~ctxDone => \A m \in Msgs : fate[m] # "held"

\* When everything has come to rest no session is left claimed: neither an
\* active-turn entry nor a mailbox survives its worker.
NoResidue ==
  Quiescent => \A s \in Sessions : active[s] = Free /\ mailbox[s] = NoMailbox

\* Not an invariant of the code (README, section 5):
\* a /stop cancels only work that was received before it.
StopSparesLaterMessages ==
  \A m \in Msgs : killer[m] # None => Before(m, killer[m])

\* The turn a worker runs is the entry of its session, so a /stop (and the
\* sub-turns' parent lookup) finds it for as long as it runs.
TurnReachable ==
  \A w \in Msgs : InTurn(w) => active[Key(w)] = TurnOf(w)

\* A message that was taken in is settled in the end: the dispatcher and the
\* workers never wait on each other for good.
EveryMessageSettled ==
  \A m \in Msgs : fate[m] = "held" ~> fate[m] # "held"
=============================================================================
