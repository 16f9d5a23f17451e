------------------------------ MODULE SubTurn -------------------------------
(***************************************************************************)
(* Sub-turns (src/core/src/pkg/agent/subturn.go, turn_state.go Finish,     *)
(* turn_coord.go, and the spawn and subagent tools of pkg/tools).          *)
(*                                                                         *)
(* Turn 0 is the root turn of a session; the others are numbered in the    *)
(* order generateSubTurnID names them.  A turn spawns children from its    *)
(* tool loop: an "async" child has a goroutine of its own (SpawnTool), a   *)
(* "sync" one blocks the parent until it returns (SubagentTool, delegate). *)
(* Only a sub-turn has slots for its children (concurrencySem) and a       *)
(* channel for their results (pendingResults): newTurnState leaves both    *)
(* nil, spawnSubTurn sets them, and the root turn is not spawned.          *)
(* Contexts: a child's own context does not derive from its parent's, so   *)
(* only a child that still waits for a slot notices that its parent ended. *)
(***************************************************************************)
EXTENDS Integers, FiniteSets

CONSTANTS LastTurn,       \* bound: turns 1..LastTurn may be spawned
          RootChildren,   \* bound: how many of them the root turn spawns
          MaxConcurrent,  \* rtCfg.maxConcurrent
          MaxDepth,       \* rtCfg.maxDepth
          ChanCap,        \* capacity of pendingResults (16 in the code)
          MayPanic        \* whether runTurn of a sub-turn may panic

ASSUME SubTurnConstants ==
  /\ LastTurn \in Nat /\ RootChildren \in Nat /\ MaxConcurrent \in Nat \ {0} /\ MaxDepth \in Nat
  /\ ChanCap \in Nat \ {0} /\ MayPanic \in BOOLEAN

Root == 0
Turns == 0..LastTurn
Children == 1..LastTurn
Modes == {"async", "sync"}
Phases == {"unused", "waiting", "refused", "running", "ended", "sending", "returning", "gone"}

VARIABLES
  spawned,    \* number of sub-turns named so far
  phase,      \* where each turn's goroutine is
  parent, depth, mode,
  sem,        \* number of values in each turn's concurrencySem
  acquired,   \* sub-turns whose local flag semAcquired is set
  blockedOn,  \* the sync child a turn's tool loop waits for, or Root (none)
  pending,    \* number of results in each turn's pendingResults
  finished,   \* isFinished: Finish was called
  panicked    \* sub-turns whose runTurn panicked: their result is nil

vars == <<spawned, phase, parent, depth, mode, sem, acquired, blockedOn, pending, finished, panicked>>
tree == <<spawned, parent, depth, mode>>
slots == <<sem, acquired>>

TypeOK ==
  /\ spawned \in Turns
  /\ phase \in [Turns -> Phases]
  /\ parent \in [Children -> Turns] /\ depth \in [Turns -> 0..(MaxDepth + 1)]
  /\ mode \in [Children -> Modes]
  /\ sem \in [Turns -> 0..MaxConcurrent] /\ acquired \subseteq Children
  /\ blockedOn \in [Turns -> Turns]
  /\ pending \in [Turns -> 0..ChanCap]
  /\ finished \subseteq Turns /\ panicked \subseteq Children

Init ==
  /\ spawned = 0
  /\ phase = [t \in Turns |-> IF t = Root THEN "running" ELSE "unused"]
  /\ parent = [c \in Children |-> Root] /\ depth = [t \in Turns |-> 0]
  /\ mode = [c \in Children |-> "async"]
  /\ sem = [t \in Turns |-> 0] /\ acquired = {}
  /\ blockedOn = [t \in Turns |-> Root]
  /\ pending = [t \in Turns |-> 0]
  /\ finished = {} /\ panicked = {}

\* The turn's own goroutine can take a step: it is not inside a sync spawn.
Active(t) == phase[t] = "running" /\ blockedOn[t] = Root
HasSlots(p) == p # Root
HasChannel(p) == p # Root
HasLoop(t) == t # Root       \* the field al, which Finish needs to cascade

SlotFree(p) == HasSlots(p) => sem[p] < MaxConcurrent

TooDeep(p) == depth[p] >= MaxDepth

\* The send on concurrencySem, with the flag that the deferred function looks at.
TakeSlot(c) ==
  IF HasSlots(parent[c]) THEN sem' = [sem EXCEPT ![parent[c]] = @ + 1] /\ acquired' = acquired \cup {c}
  ELSE UNCHANGED slots

\* A receive from concurrencySem under "if semAcquired"; it waits when the semaphore
\* is empty.
GiveBack(c) ==
  IF c \in acquired
    THEN /\ sem[parent[c]] > 0
         /\ sem' = [sem EXCEPT ![parent[c]] = @ - 1] /\ acquired' = acquired \ {c}
    ELSE UNCHANGED slots

\* Mutant: a sub-turn that leaves early, or panics, takes its slot with it.
NotDeferred(c) == UNCHANGED slots

\* The deferred function of spawnSubTurn.
DeferredRelease(c) == GiveBack(c)

\* Mutant: the flag is not reset, so that the deferred function releases again.
FlagKept(c) ==
  IF c \in acquired THEN sem' = [sem EXCEPT ![parent[c]] = @ - 1] /\ acquired' = acquired
  ELSE UNCHANGED slots

\* The release right after runTurn.
EarlyRelease(c) == GiveBack(c)

Goto(c, ph) == phase' = [phase EXCEPT ![c] = ph]

-----------------------------------------------------------------------------
\* A tool call of turn p: SpawnTool starts a goroutine, SubagentTool and
\* DelegateTool call spawnSubTurn in the tool loop.
Spawn(p, m) ==
  LET c == spawned + 1
  IN  /\ Active(p) /\ spawned < LastTurn
      /\ p = Root => Cardinality({d \in 1..spawned : parent[d] = Root}) < RootChildren
      /\ spawned' = c
      /\ parent' = [parent EXCEPT ![c] = p]
      /\ depth' = [depth EXCEPT ![c] = depth[p] + 1]
      /\ mode' = [mode EXCEPT ![c] = m]
      /\ Goto(c, "waiting")
      /\ blockedOn' = IF m = "sync" THEN [blockedOn EXCEPT ![p] = c] ELSE blockedOn
      /\ UNCHANGED <<slots, pending, finished, panicked>>

\* spawnSubTurn takes a slot, if the parent has slots, and then validates: a spawn
\* that is too deep, or has no model or an unknown agent, is refused.
Acquire(c) ==
  /\ phase[c] = "waiting" /\ SlotFree(parent[c]) /\ TakeSlot(c)
  /\ Goto(c, "refused") \/ (~TooDeep(parent[c]) /\ Goto(c, "running"))
  /\ UNCHANGED <<tree, blockedOn, pending, finished, panicked>>

Refuse(c) ==
  /\ phase[c] = "refused" /\ DeferredRelease(c) /\ Goto(c, "returning")
  /\ UNCHANGED <<tree, blockedOn, pending, finished, panicked>>

\* Mutant: the wait for a slot has no timeout.
NoSlotTimeout(c) == FALSE /\ UNCHANGED vars

\* ErrConcurrencyTimeout: all slots stayed occupied.
SlotTimeout(c) ==
  /\ phase[c] = "waiting" /\ ~SlotFree(parent[c])
  /\ Goto(c, "returning")
  /\ UNCHANGED <<tree, slots, blockedOn, pending, finished, panicked>>

\* The wait for a slot is under the context of the parent's turn, which is
\* cancelled when that turn ends.
SlotCancelled(c) ==
  /\ phase[c] = "waiting" /\ HasSlots(parent[c]) /\ phase[parent[c]] # "running"
  /\ Goto(c, "returning")
  /\ UNCHANGED <<tree, slots, blockedOn, pending, finished, panicked>>

\* runTurn returns: an answer, an error or the sub-turn's own timeout.
EndTurn(t) ==
  /\ Active(t)
  /\ Goto(t, IF t = Root THEN "gone" ELSE "ended")
  /\ UNCHANGED <<tree, slots, blockedOn, pending, finished, panicked>>

\* runTurn panics: the deferred delivery runs before the deferred release of
\* the slot, with a nil result.
Panic(c) ==
  /\ MayPanic /\ Active(c)
  /\ panicked' = panicked \cup {c}
  /\ Goto(c, IF mode[c] = "async" THEN "sending" ELSE "returning")
  /\ IF mode[c] = "async" THEN UNCHANGED slots ELSE DeferredRelease(c)
  /\ UNCHANGED <<tree, blockedOn, pending, finished>>

\* After runTurn: the slot is released, then an async result is delivered.
ReleaseSlot(c) ==
  /\ phase[c] = "ended" /\ EarlyRelease(c)
  /\ Goto(c, IF mode[c] = "async" THEN "sending" ELSE "returning")
  /\ UNCHANGED <<tree, blockedOn, pending, finished, panicked>>

\* deliverSubTurnResult, the parent finished or without a channel: the result is an
\* orphan.  The deferred release of the slot comes after it.
Orphan(c) ==
  /\ phase[c] = "sending" /\ (parent[c] \in finished \/ ~HasChannel(parent[c]))
  /\ DeferredRelease(c) /\ Goto(c, "returning")
  /\ UNCHANGED <<tree, blockedOn, pending, finished, panicked>>

\* deliverSubTurnResult: the send on pendingResults, which waits while the
\* channel is full, or until the parent is finished (Orphan).
Send(c) ==
  LET p == parent[c]
  IN  /\ phase[c] = "sending" /\ HasChannel(p) /\ pending[p] < ChanCap
      /\ pending' = [pending EXCEPT ![p] = @ + 1]
      /\ DeferredRelease(c) /\ Goto(c, "returning")
      /\ UNCHANGED <<tree, blockedOn, finished, panicked>>

\* runTurn and ExecuteTools poll pendingResults without waiting.
Poll(p) ==
  /\ Active(p) /\ pending[p] > 0
  /\ pending' = [pending EXCEPT ![p] = @ - 1]
  /\ UNCHANGED <<tree, phase, slots, blockedOn, finished, panicked>>

\* spawnSubTurn returns: to the blocked tool loop, or to the goroutine of
\* SpawnTool, whose callback publishes the result as a system message.
Return(c) ==
  /\ phase[c] = "returning"
  /\ blockedOn' = IF mode[c] = "sync" THEN [blockedOn EXCEPT ![parent[c]] = Root] ELSE blockedOn
  /\ Goto(c, "gone")
  /\ UNCHANGED <<tree, slots, pending, finished, panicked>>

\* HardAbort of the root turn, which is the one /stop finds: Finish(true).
HardAbort ==
  /\ phase[Root] = "running" /\ Root \notin finished
  /\ finished' = finished \cup {Root}
                  \cup (IF HasLoop(Root) THEN {c \in Children : phase[c] # "gone"} ELSE {})
  /\ UNCHANGED <<tree, phase, slots, blockedOn, pending, panicked>>

-----------------------------------------------------------------------------
Step(t) ==
  \/ EndTurn(t) \/ Poll(t)
  \/ \E m \in Modes : Spawn(t, m)
ChildStep(c) ==
  \/ Acquire(c) \/ Refuse(c) \/ SlotTimeout(c) \/ SlotCancelled(c) \/ Panic(c)
  \/ ReleaseSlot(c) \/ Orphan(c) \/ Send(c) \/ Return(c)

Next == (\E t \in Turns : Step(t)) \/ (\E c \in Children : ChildStep(c)) \/ HardAbort

Spec == Init /\ [][Next]_vars

\* A goroutine that can go on does; a turn ends in the end (its own timeout
\* and MaxIterations); the wait for a slot is bounded by concurrencyTimeout.
Fairness ==
  /\ \A t \in Turns : WF_vars(EndTurn(t))
  /\ \A c \in Children :
       /\ WF_vars(Acquire(c) \/ SlotTimeout(c))
       /\ WF_vars(Refuse(c) \/ ReleaseSlot(c) \/ Orphan(c) \/ Send(c) \/ Return(c))
FairSpec == Spec /\ Fairness

-----------------------------------------------------------------------------
\* The sub-turns of a sub-turn that run are never more than its slots, whatever paths
\* the others leave by: a slot given back twice would let one more in.
SlotsBounded ==
  \A p \in Children : Cardinality({c \in Children : parent[c] = p /\ phase[c] = "running"}) <= MaxConcurrent

\* The sub-turns that occupy a slot: from Acquire to the end of runTurn or the refusal.
\* One that waits for room in its parent's channel does not (the deadlock that the
\* comment of spawnSubTurn describes), unless it panicked.
Occupies(c) ==
  phase[c] \in {"refused", "running", "ended"} \/ (phase[c] = "sending" /\ c \in panicked)

\* Every slot comes back once, whichever way its sub-turn leaves (early release, panic,
\* refusal, orphan): the semaphore holds one value for each sub-turn that occupies it.
SlotsReturned ==
  \A p \in Children : sem[p] = Cardinality({c \in Children : parent[c] = p /\ Occupies(c)})

\* A turn that waits for a sync sub-turn goes on, even when every slot is
\* taken by children that wait for the turn to poll.
CallerReleased ==
  \A p \in Turns : blockedOn[p] # Root ~> blockedOn[p] = Root

\* What docs/architecture/subturn.md says of /stop, and the code does not do:
\* the abort of a turn is passed on to every sub-turn below it.
AbortCascades ==
  [][Root \notin finished /\ Root \in finished'
       => \A c \in Children : phase[c] = "running" => c \in finished']_vars
=============================================================================
