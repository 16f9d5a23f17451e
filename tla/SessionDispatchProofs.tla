----------------------- MODULE SessionDispatchProofs -----------------------
(***************************************************************************)
(* Theorems about SessionDispatch for every set of messages and sessions,  *)
(* every queue and slot limit and every assignment of channels.            *)
(***************************************************************************)
EXTENDS SessionDispatch, TLAPS

\* What a session entry, a mailbox and a worker counter may be.
LEMMA EntryTypes ==
  ASSUME NEW w \in Msgs
  PROVE  /\ Free \in Entries
         /\ Placeholder(w) \in Entries
         /\ TurnOf(w) \in Entries
         /\ NoMailbox \in Mailboxes
         /\ [owner |-> w, queue |-> <<>>] \in Mailboxes
BY DEF Free, Placeholder, TurnOf, NoMailbox, Entries, Mailboxes

\* Appending to one of the sequences of a function of sequences.
LEMMA AppendAt ==
  ASSUME NEW S, NEW M, NEW q \in [S -> Seq(M)], NEW s \in S, NEW m \in M
  PROVE  [q EXCEPT ![s] = Append(@, m)] \in [S -> Seq(M)]
BY Append(q[s], m) \in Seq(M)

\* Emptying one of the sequences of a function of sequences.
LEMMA ClearAt ==
  ASSUME NEW S, NEW M, NEW q \in [S -> Seq(M)], NEW s
  PROVE  [q EXCEPT ![s] = <<>>] \in [S -> Seq(M)]
BY <<>> \in Seq(M)

\* Appending to the queue of one mailbox.
LEMMA AppendToMailbox ==
  ASSUME NEW mb \in [Sessions -> Mailboxes], NEW s \in Sessions, NEW m \in Msgs
  PROVE  [mb EXCEPT ![s].queue = Append(@, m)] \in [Sessions -> Mailboxes]
<1>1. mb[s] \in Mailboxes /\ mb[s].queue \in Seq(Msgs)
  BY DEF Mailboxes
<1>2. Append(mb[s].queue, m) \in Seq(Msgs)
  BY <1>1
<1> QED
  BY <1>1, <1>2 DEF Mailboxes

\* A conditional release leaves a table of entries.
LEMMA ReleaseTyped ==
  ASSUME active \in [Sessions -> Entries], NEW s, NEW e, ReleaseIf(s, e)
  PROVE  active' \in [Sessions -> Entries]
BY DEF ReleaseIf, Entries

\* The labels and outcomes the worker's actions assign.
LEMMA Labels ==
  /\ {"acquire", "check", "run", "registered", "turn", "final", "drain", "dequeue", "publish"}
       \subseteq WorkerPCs \ {"none"}
  /\ {"next", "place", "slot", "safety", "release", "done"} \subseteq WorkerPCs \ {"none"}
  /\ {"merged", "cleared", "cancelled", "answered"} \subseteq Fates
BY DEF WorkerPCs, Holding, Fates

\* What a poll takes leaves a queue of messages.
LEMMA TypeDequeue ==
  ASSUME TypeOK, NEW s \in Sessions, Dequeue(s)
  PROVE  /\ steering' \in [Sessions -> Seq(Msgs)]
         /\ fate' \in [Msgs -> Fates]
<1>1. steering[s] \in Seq(Msgs) /\ steering[s] # <<>>
  BY DEF TypeOK, Dequeue
<1>2. Tail(steering[s]) \in Seq(Msgs) /\ <<>> \in Seq(Msgs)
  BY <1>1
<1> QED
  BY <1>2 DEF TypeOK, Dequeue, Fates

\* Taking the first message of a mailbox.
LEMMA HeadAndTail ==
  ASSUME NEW box \in Mailboxes, box.queue # <<>>
  PROVE  Head(box.queue) \in Msgs /\ [box EXCEPT !.queue = Tail(@)] \in Mailboxes
<1>1. box.queue \in Seq(Msgs) /\ box \in [owner : Msgs \cup {None}, queue : Seq(Msgs)]
  BY DEF Mailboxes
<1>2. Head(box.queue) \in Msgs /\ Tail(box.queue) \in Seq(Msgs)
  BY <1>1
<1> QED
  BY <1>1, <1>2 DEF Mailboxes

LEMMA InitTypeOK == Init => TypeOK
<1> SUFFICES ASSUME Init PROVE TypeOK
  OBVIOUS
<1>1. /\ mailbox \in [Sessions -> Mailboxes]
      /\ active \in [Sessions -> Entries]
      /\ steering \in [Sessions -> Seq(Msgs)]
  BY DEF Init, NoMailbox, Mailboxes, Free, Entries
<1>2. log \in Seq(Msgs) /\ begun \in Seq(Msgs)
  BY DEF Init
<1> QED
  BY <1>1, <1>2 DEF Init, TypeOK, DispatchPCs, WorkerPCs, Holding, Fates

\* The dispatcher's actions, which take a message or work on the one it holds.
LEMMA TypeDispatcher ==
  ASSUME TypeOK, Dispatcher \/ \E m \in Msgs : Receive(m)
  PROVE  TypeOK'
<1> USE DispatchConstants DEF TypeOK, DispatchPCs, Fates, dispVars, workVars, histVars
<1>0. \A m \in Msgs : SessionOf[m] \in Sessions /\ Append(log, m) \in Seq(Msgs)
  OBVIOUS
<1>1. ASSUME NEW m \in Msgs, ClaimSession(m) PROVE TypeOK'
  <2>1. mailbox' \in [Sessions -> Mailboxes]
    BY <1>0, <1>1, EntryTypes DEF ClaimSession, Key
  <2> QED
    BY <1>0, <1>1, <2>1 DEF ClaimSession, CanReceive, Received
<1>2. ASSUME NEW m \in Msgs, QueueIndependent(m) PROVE TypeOK'
  <2>1. mailbox' \in [Sessions -> Mailboxes]
    BY <1>0, <1>2, AppendToMailbox DEF QueueIndependent, Key
  <2> QED
    BY <1>0, <1>2, <2>1 DEF QueueIndependent, CanReceive, Received
<1>3. ASSUME NEW m \in Msgs, DivertMessage(m) PROVE TypeOK'
  BY <1>0, <1>3 DEF DivertMessage, CanReceive, Received
<1>4. ASSUME NEW m \in Msgs, ReceiveSystem(m) PROVE TypeOK'
  BY <1>0, <1>4 DEF ReceiveSystem, CanReceive, Received
<1>5. CASE ProcessMessageSync
  BY <1>5 DEF ProcessMessageSync
<1>6. CASE SpawnWorker
  <2>1. dmsg \in Msgs /\ Key(dmsg) \in Sessions
    BY <1>6 DEF SpawnWorker, Key
  <2>2. active' \in [Sessions -> Entries] /\ pc' \in [Msgs -> WorkerPCs]
    BY <1>6, <2>1, EntryTypes DEF SpawnWorker, WorkerPCs
  <2> QED
    BY <1>6, <2>1, <2>2 DEF SpawnWorker
<1>7. CASE EnqueueSteering
  <2>1. dmsg \in Msgs /\ Key(dmsg) \in Sessions
    BY <1>7 DEF EnqueueSteering, Key
  <2>2. [steering EXCEPT ![Key(dmsg)] = Append(@, dmsg)] \in [Sessions -> Seq(Msgs)]
    BY <2>1, AppendAt
  <2>3. steering' \in [Sessions -> Seq(Msgs)]
    BY <1>7, <2>2 DEF EnqueueSteering
  <2> QED
    BY <1>7, <2>1, <2>3 DEF EnqueueSteering
<1>8. CASE StopClear
  <2>1. [steering EXCEPT ![Key(dmsg)] = <<>>] \in [Sessions -> Seq(Msgs)]
    BY ClearAt
  <2> QED
    BY <1>8, <2>1 DEF StopClear, ClearScope
<1>9. CASE StopLook
  BY <1>9 DEF StopLook
<1>10. CASE StopAbort
  <2>1. dmsg \in Msgs /\ Key(dmsg) \in Sessions
    BY <1>10 DEF StopAbort, Key
  <2>2. abort' \in [Msgs -> Msgs \cup {None}]
    <3>1. ASSUME NEW b, NEW f \in [Msgs -> Msgs \cup {None}]
          PROVE [f EXCEPT ![b] = IF @ = None THEN dmsg ELSE @] \in [Msgs -> Msgs \cup {None}]
      BY <2>1
    <3> QED
      BY <1>10, <3>1 DEF StopAbort
  <2> QED
    BY <1>10, <2>1, <2>2 DEF StopAbort
<1>11. CASE StopRecheck
  BY <1>11 DEF StopRecheck
<1>12. CASE StopArm
  BY <1>12 DEF StopArm
<1>13. CASE MarkPendingStop
  BY <1>13 DEF MarkPendingStop, Key
<1>14. CASE StopAck
  BY <1>14 DEF StopAck
<1> QED
  BY <1>1, <1>2, <1>3, <1>4, <1>5, <1>6, <1>7, <1>8, <1>9, <1>10, <1>11, <1>12, <1>13, <1>14
  DEF Dispatcher, HandleStop, Receive

\* The actions of a worker outside a turn.
LEMMA TypeWorker ==
  ASSUME TypeOK, NEW w \in Msgs, Worker(w), ~Turn(w)
  PROVE  TypeOK'
<1> USE Labels DEF TypeOK, dispVars, workVars, histVars, Goto, Settle
<1>0. /\ Key(w) \in Sessions
      /\ pc[w] # "none" => cur[w] \in Msgs /\ Append(begun, cur[w]) \in Seq(Msgs)
      /\ \A e \in Entries : [active EXCEPT ![Key(w)] = e] \in [Sessions -> Entries]
  BY DispatchConstants DEF Key
<1>t. /\ active \in [Sessions -> Entries]
      /\ pendingStop \in [Sessions -> Msgs \cup {None}]
      /\ pc \in [Msgs -> WorkerPCs] /\ cur \in [Msgs -> Msgs \cup {None}]
      /\ \A v \in Msgs : pc[v] # "none" => cur[v] \in Msgs
      /\ bail \in [Msgs -> BOOLEAN] /\ abort \in [Msgs -> Msgs \cup {None}]
      /\ fate \in [Msgs -> Fates] /\ killer \in [Msgs -> Msgs \cup {None}]
      /\ dpc \in DispatchPCs /\ dcleared \in BOOLEAN
      /\ dmsg \in Msgs \cup {None} /\ (dmsg = None <=> dpc = "recv")
      /\ mailbox \in [Sessions -> Mailboxes] /\ steering \in [Sessions -> Seq(Msgs)]
      /\ cont \in [Msgs -> BOOLEAN] /\ ctxDone \in BOOLEAN
      /\ log \in Seq(Msgs) /\ begun \in Seq(Msgs)
  OBVIOUS
<1>1. CASE AcquireSlot(w)
  BY <1>1 DEF AcquireSlot
<1>2. CASE AcquireCancelled(w)
  BY <1>0, <1>2, EntryTypes DEF AcquireCancelled
<1>3. CASE CheckPendingStop(w)
  <2>1. CASE pendingStop[Key(w)] = None
    BY ZenonT(60), <1>3, <2>1 DEF CheckPendingStop
  <2>2. CASE pendingStop[Key(w)] # None
    <3>1. pendingStop[Key(w)] \in Msgs \cup {None} /\ Free \in Entries
      BY <1>0, EntryTypes
    <3> HIDE Labels DEF TypeOK
    <3>2. active' \in [Sessions -> Entries] /\ pendingStop' \in [Sessions -> Msgs \cup {None}]
      BY ZenonT(40), <1>3, <1>t, <2>2, <3>1 DEF CheckPendingStop
    <3>3. killer' \in [Msgs -> Msgs \cup {None}] /\ fate' \in [Msgs -> Fates]
      BY ZenonT(40), <1>3, <1>t, <2>2, <3>1, Labels DEF CheckPendingStop
    <3>4. pc' \in [Msgs -> WorkerPCs] /\ bail' \in [Msgs -> BOOLEAN]
      BY ZenonT(40), <1>3, <1>t, <2>2, Labels DEF CheckPendingStop
    <3>5. \A v \in Msgs : pc'[v] # "none" => cur'[v] \in Msgs
      BY <1>3, <1>t, <2>2 DEF CheckPendingStop
    <3>6. UNCHANGED <<dispVars, mailbox, steering, cur, cont, abort, ctxDone, log, begun>>
      BY <1>3 DEF CheckPendingStop
    <3> QED
      BY <1>t, <3>2, <3>3, <3>4, <3>5, <3>6 DEF TypeOK
  <2> QED
    BY <2>1, <2>2
<1>4. CASE RunCommand(w)
  <2>1. [steering EXCEPT ![Key(w)] = <<>>] \in [Sessions -> Seq(Msgs)]
    BY ClearAt
  <2> HIDE Labels DEF TypeOK
  <2>2. steering' \in [Sessions -> Seq(Msgs)] /\ fate' \in [Msgs -> Fates]
    <3>1. CASE UNCHANGED <<steering, fate>>
      BY <1>t, <3>1
    <3>2. CASE ClearScope(Key(w))
      BY <1>t, <2>1, <3>2, Labels DEF ClearScope
    <3> QED
      BY <1>4, <3>1, <3>2 DEF RunCommand
  <2>3. abort' \in [Msgs -> Msgs \cup {None}]
    BY <1>0, <1>4, <1>t DEF RunCommand
  <2>4. pc' \in [Msgs -> WorkerPCs] /\ \A v \in Msgs : pc'[v] # "none" => cur[v] \in Msgs
    BY <1>0, <1>4, <1>t, Labels DEF RunCommand
  <2>5. begun' \in Seq(Msgs)
    BY <1>0, <1>4 DEF RunCommand
  <2> QED
    BY <1>4, <1>t, <2>2, <2>3, <2>4, <2>5 DEF RunCommand, TypeOK
<1>5. CASE RegisterTurn(w)
  BY <1>0, <1>5, EntryTypes DEF RegisterTurn, Register
<1>6. CASE FailBeforeTurn(w)
  BY <1>0, <1>6 DEF FailBeforeTurn
<1>7. CASE DrainDone(w)
  BY <1>7 DEF DrainDone
<1>8. CASE ContinueClaim(w)
  BY ZenonT(40), <1>0, <1>8, EntryTypes DEF ContinueClaim
<1>9. CASE ContinueGivesUp(w)
  BY <1>0, <1>9, EntryTypes DEF ContinueGivesUp
<1>10. CASE ContinueTurn(w)
  BY <1>0, <1>10, EntryTypes, TypeDequeue DEF ContinueTurn, Register
<1>11. CASE Publish(w)
  BY SMTT(60), <1>11 DEF Publish
<1>12. CASE TakeNextMessage(w)
  <2> DEFINE box == mailbox[Key(w)]
  <2>1. box \in Mailboxes /\ box.queue \in Seq(Msgs) /\ NoMailbox \in Mailboxes
    BY <1>0, EntryTypes DEF Mailboxes
  <2> HIDE Labels DEF TypeOK
  <2>2. ASSUME box.queue # <<>>
        PROVE  Head(box.queue) \in Msgs /\ [box EXCEPT !.queue = Tail(@)] \in Mailboxes
    BY <2>1, <2>2, HeadAndTail
  <2>3. mailbox' \in [Sessions -> Mailboxes]
    <3>1. CASE UNCHANGED mailbox
      BY <1>t, <3>1
    <3>2. CASE mailbox' = MailboxAfterLast(Key(w))
      BY <1>t, <2>1, <3>2 DEF MailboxAfterLast
    <3>3. CASE box.queue # <<>> /\ mailbox' = [mailbox EXCEPT ![Key(w)].queue = Tail(@)]
      BY <1>t, <2>2, <3>3
    <3> QED
      BY <1>12, <3>1, <3>2, <3>3 DEF TakeNextMessage
  <2>4. cur' \in [Msgs -> Msgs \cup {None}]
    <3>1. CASE UNCHANGED cur
      BY <1>t, <3>1
    <3>2. CASE box.queue # <<>> /\ cur' = [cur EXCEPT ![w] = Head(box.queue)]
      BY <1>t, <2>2, <3>2
    <3> QED
      BY <1>12, <3>1, <3>2 DEF TakeNextMessage
  <2>7. pc' \in [Msgs -> WorkerPCs]
    <3>1. PICK c \in {"slot", "place"} : pc' = [pc EXCEPT ![w] = c]
      BY <1>12 DEF TakeNextMessage
    <3>2. c \in WorkerPCs
      BY Labels
    <3> QED
      BY <1>t, <3>1, <3>2
  <2>5. \A v \in Msgs : pc'[v] # "none" => cur'[v] \in Msgs
    BY <1>12, <1>t, <2>2 DEF TakeNextMessage
  <2>6. cont' \in [Msgs -> BOOLEAN]
    BY <1>12, <1>t DEF TakeNextMessage
  <2> QED
    BY <1>12, <1>t, <2>3, <2>4, <2>5, <2>6, <2>7 DEF TakeNextMessage, TypeOK
<1>13. CASE PlaceNext(w)
  BY <1>0, <1>13, EntryTypes DEF PlaceNext
<1>14. CASE ReleaseSlot(w)
  BY <1>14 DEF ReleaseSlot
<1>15. CASE SafetyNet(w)
  BY <1>0, <1>15, EntryTypes DEF SafetyNet
<1>16. CASE ReleaseMailbox(w)
  BY <1>0, <1>16, EntryTypes DEF ReleaseMailbox
<1> QED
  BY <1>1, <1>2, <1>3, <1>4, <1>5, <1>6, <1>7, <1>8, <1>9, <1>10, <1>11, <1>12, <1>13, <1>14,
     <1>15, <1>16 DEF Worker

\* The actions of a turn.
LEMMA TypeTurn ==
  ASSUME TypeOK, NEW w \in Msgs, Turn(w)
  PROVE  TypeOK'
<1> USE Labels DEF TypeOK, dispVars, workVars, histVars, Goto, Settle
<1>0. Key(w) \in Sessions /\ (ReleaseIf(Key(w), TurnOf(w)) => active' \in [Sessions -> Entries])
  BY DispatchConstants, ReleaseTyped DEF Key
<1>1. CASE TakePendingStop(w)
  BY <1>0, <1>1 DEF TakePendingStop
<1>2. CASE PollSteering(w)
  BY <1>0, <1>2, TypeDequeue DEF PollSteering
<1>3. CASE LeaveTurnLoop(w)
  BY <1>3 DEF LeaveTurnLoop
<1>4. CASE FinishTurn(w)
  BY <1>0, <1>4 DEF FinishTurn
<1>5. CASE AbortTurn(w)
  BY ZenonT(60), <1>0, <1>5 DEF AbortTurn
<1>6. CASE FailTurn(w)
  <2>1. PICK c \in {AfterFailure(w), "next", "release"} : pc' = [pc EXCEPT ![w] = c]
    BY <1>6 DEF FailTurn
  <2>2. pc' \in [Msgs -> WorkerPCs] /\ \A v \in Msgs : pc'[v] # "none" => cur[v] \in Msgs
    BY <1>6, <2>1 DEF FailTurn, AfterFailure
  <2>3. fate' \in [Msgs -> Fates]
    BY <1>6 DEF FailTurn
  <2> QED
    BY <1>0, <1>6, <2>2, <2>3 DEF FailTurn
<1>7. CASE CancelTurn(w)
  BY <1>0, <1>7 DEF CancelTurn, AfterFailure
<1> QED
  BY <1>1, <1>2, <1>3, <1>4, <1>5, <1>6, <1>7 DEF Turn

\* TypeOK holds in every reachable state.
THEOREM TypeCorrect == Spec => []TypeOK
<1>1. TypeOK /\ [Next]_vars => TypeOK'
  <2> SUFFICES ASSUME TypeOK, [Next]_vars PROVE TypeOK'
    OBVIOUS
  <2>1. CASE Shutdown
    BY <2>1 DEF Shutdown, TypeOK, dispVars, workVars, histVars
  <2>2. CASE UNCHANGED vars
    BY <2>2 DEF vars, TypeOK, dispVars, workVars, histVars
  <2> QED
    BY <2>1, <2>2, TypeDispatcher, TypeWorker, TypeTurn DEF Next, Idle
<1> QED
  BY <1>1, InitTypeOK, PTL DEF Spec
(***************************************************************************)
(* Ownership of a session                                                  *)
(***************************************************************************)
\* The counters at which a worker has no mailbox to look at: before its start,
\* and after it gave its mailbox up or is past its last look.
Relinquished == {"none", "slot", "safety", "release", "done"}
Owning(w) == pc[w] \notin Relinquished

\* The owners of the other mailboxes, and of this one unless w gives it up.
OwnersKept(w) ==
  \A s \in Sessions :
    \/ mailbox'[s].owner = mailbox[s].owner
    \/ /\ s = Key(w) /\ mailbox[s].owner = w
       /\ mailbox'[s].owner = None /\ pc'[w] \in Relinquished

\* A step of a worker: it was spawned and has not ended, it leaves the
\* dispatcher and the other workers alone, it makes no message unseen again, and
\* it takes nobody's ownership but its own.
WorkerStep(w) ==
  /\ pc[w] \notin {"none", "done"} /\ pc'[w] \notin {"none", "acquire"}
  /\ \A v \in Msgs : v # w => pc'[v] = pc[v]
  /\ pc'[w] \notin Relinquished => pc[w] \notin Relinquished
  /\ dpc' = dpc /\ dmsg' = dmsg
  /\ \A m \in Msgs : fate'[m] = "unseen" => fate[m] = "unseen"
  /\ OwnersKept(w)
  /\ pc'[w] = "done" => mailbox'[Key(w)].owner # w

LEMMA WorkerSteps ==
  ASSUME TypeOK, NEW w \in Msgs, Worker(w)
  PROVE  WorkerStep(w)
<1> USE DEF WorkerStep, OwnersKept, Relinquished, Goto, dispVars, workVars, histVars
<1>t. /\ pc \in [Msgs -> WorkerPCs] /\ fate \in [Msgs -> Fates] /\ cur \in [Msgs -> Msgs \cup {None}]
      /\ mailbox \in [Sessions -> Mailboxes] /\ Key(w) \in Sessions
      /\ None \notin Msgs
  BY DispatchConstants DEF TypeOK, Key
<1>1. CASE AcquireSlot(w)
  BY <1>1, <1>t DEF AcquireSlot
<1>2. CASE AcquireCancelled(w)
  BY <1>2, <1>t DEF AcquireCancelled, Settle
<1>3. CASE CheckPendingStop(w)
  BY <1>3, <1>t DEF CheckPendingStop, Settle
<1>4. CASE RunCommand(w)
  BY <1>4, <1>t DEF RunCommand, ClearScope
<1>5. CASE RegisterTurn(w)
  BY <1>5, <1>t DEF RegisterTurn
<1>6. CASE FailBeforeTurn(w)
  BY <1>6, <1>t DEF FailBeforeTurn, Settle
<1>7. CASE TakePendingStop(w)
  BY <1>7, <1>t DEF TakePendingStop
<1>8. CASE PollSteering(w)
  BY <1>8, <1>t DEF PollSteering, Dequeue
<1>9. CASE LeaveTurnLoop(w)
  BY <1>9, <1>t DEF LeaveTurnLoop
<1>10. CASE FinishTurn(w)
  BY <1>10, <1>t DEF FinishTurn
<1>11. CASE AbortTurn(w)
  BY <1>11, <1>t DEF AbortTurn, Settle
<1>12. CASE FailTurn(w)
  BY <1>12, <1>t DEF FailTurn, AfterFailure, Settle
<1>13. CASE CancelTurn(w)
  BY <1>13, <1>t DEF CancelTurn, AfterFailure, Settle
<1>14. CASE DrainDone(w)
  BY <1>14, <1>t DEF DrainDone
<1>15. CASE ContinueClaim(w)
  BY <1>15, <1>t DEF ContinueClaim
<1>16. CASE ContinueGivesUp(w)
  BY <1>16, <1>t DEF ContinueGivesUp
<1>17. CASE ContinueTurn(w)
  BY <1>17, <1>t DEF ContinueTurn, Dequeue
<1>18. CASE Publish(w)
  BY <1>18, <1>t DEF Publish, Settle
<1>19. CASE TakeNextMessage(w)
  BY <1>19, <1>t DEF TakeNextMessage, MailboxAfterLast, NoMailbox, Mailboxes
<1>20. CASE PlaceNext(w)
  BY <1>20, <1>t DEF PlaceNext
<1>21. CASE ReleaseSlot(w)
  BY <1>21, <1>t DEF ReleaseSlot
<1>22. CASE SafetyNet(w)
  BY <1>22, <1>t DEF SafetyNet
<1>23. CASE ReleaseMailbox(w)
  BY <1>23, <1>t DEF ReleaseMailbox, NoMailbox
<1> QED
  BY <1>1, <1>2, <1>3, <1>4, <1>5, <1>6, <1>7, <1>8, <1>9, <1>10, <1>11, <1>12, <1>13, <1>14,
     <1>15, <1>16, <1>17, <1>18, <1>19, <1>20, <1>21, <1>22, <1>23 DEF Worker, Turn

\* What the dispatcher's own step does to the workers and the mailboxes: it
\* claims for an unseen message, spawns the worker it claimed for, or neither.
Claims(m) ==
  /\ dpc = "recv" /\ fate[m] = "unseen" /\ dpc' = "store" /\ dmsg' = m /\ pc' = pc
  /\ fate' = [fate EXCEPT ![m] = "held"]
  /\ mailbox' = [mailbox EXCEPT ![Key(m)] = [owner |-> m, queue |-> <<>>]]

Spawns ==
  /\ dpc = "store" /\ dpc' = "recv"
  /\ pc' = [pc EXCEPT ![dmsg] = "acquire"] /\ UNCHANGED <<mailbox, fate>>

Bystands ==
  /\ dpc # "store" /\ dpc' # "store" /\ pc' = pc
  /\ \A m \in Msgs : fate'[m] = "unseen" => fate[m] = "unseen"
  /\ \A s \in Sessions : mailbox'[s].owner = mailbox[s].owner

LEMMA DispatcherSteps ==
  ASSUME TypeOK, Dispatcher \/ \E m \in Msgs : Receive(m)
  PROVE  (\E m \in Msgs : ClaimSession(m) /\ Claims(m)) \/ Spawns \/ Bystands
<1> USE DEF workVars, dispVars, histVars
<1>t. /\ fate \in [Msgs -> Fates] /\ mailbox \in [Sessions -> Mailboxes]
      /\ "held" # "unseen"
  BY DEF TypeOK
<1>1. ASSUME NEW m \in Msgs, ClaimSession(m) PROVE Claims(m)
  BY <1>1 DEF ClaimSession, CanReceive, Received, Claims
<1>2. ASSUME NEW m \in Msgs, QueueIndependent(m) PROVE Bystands
  BY <1>2, <1>t DEF QueueIndependent, CanReceive, Received, Bystands, Mailboxes
<1>3. ASSUME NEW m \in Msgs, DivertMessage(m) PROVE Bystands
  BY <1>3, <1>t DEF DivertMessage, CanReceive, Received, Bystands
<1>4. ASSUME NEW m \in Msgs, ReceiveSystem(m) PROVE Bystands
  BY <1>4, <1>t DEF ReceiveSystem, CanReceive, Received, Bystands
<1>5. CASE ProcessMessageSync
  BY <1>5, <1>t DEF ProcessMessageSync, Bystands
<1>6. CASE SpawnWorker
  BY <1>6 DEF SpawnWorker, Spawns
<1>7. CASE EnqueueSteering
  BY <1>7, <1>t DEF EnqueueSteering, Bystands
<1>8. CASE StopClear
  BY <1>8, <1>t DEF StopClear, ClearScope, Bystands
<1>9. CASE StopLook
  BY <1>9 DEF StopLook, Bystands
<1>10. CASE StopAbort
  BY <1>10 DEF StopAbort, Bystands
<1>11. CASE StopRecheck
  BY <1>11 DEF StopRecheck, Bystands
<1>12. CASE StopArm
  BY <1>12 DEF StopArm, Bystands
<1>13. CASE MarkPendingStop
  BY <1>13 DEF MarkPendingStop, Bystands
<1>14. CASE StopAck
  BY <1>14, <1>t DEF StopAck, Bystands
<1> QED
  BY <1>1, <1>2, <1>3, <1>4, <1>5, <1>6, <1>7, <1>8, <1>9, <1>10, <1>11, <1>12, <1>13, <1>14
  DEF Dispatcher, HandleStop, Receive

\* The message the dispatcher is about to spawn a worker for, like every message
\* not yet received, has no worker.
ClaimPending ==
  /\ \A m \in Msgs : fate[m] = "unseen" => pc[m] = "none"
  /\ dpc = "store" => dmsg \in Msgs /\ pc[dmsg] = "none" /\ fate[dmsg] # "unseen"

LEMMA ClaimPendingStep ==
  ASSUME TypeOK, ClaimPending, [Next]_vars
  PROVE  ClaimPending'
<1>t. fate \in [Msgs -> Fates] /\ pc \in [Msgs -> WorkerPCs]
  BY DEF TypeOK
<1>1. CASE Dispatcher \/ \E m \in Msgs : Receive(m)
  <2>1. ASSUME NEW m \in Msgs, Claims(m) PROVE ClaimPending'
    BY <1>t, <2>1 DEF Claims, ClaimPending
  <2>2. CASE Spawns
    BY <1>t, <2>2 DEF Spawns, ClaimPending
  <2>3. CASE Bystands
    BY <2>3 DEF Bystands, ClaimPending
  <2> QED
    BY <1>1, <2>1, <2>2, <2>3, DispatcherSteps
<1>2. ASSUME NEW w \in Msgs, Worker(w) PROVE ClaimPending'
  BY <1>2, <1>t, WorkerSteps DEF WorkerStep, ClaimPending
<1>3. CASE Shutdown \/ UNCHANGED vars
  BY <1>3 DEF Shutdown, ClaimPending, vars, dispVars, workVars, histVars
<1> QED
  BY <1>1, <1>2, <1>3 DEF Next, Idle

\* OwnerAlive holds in every reachable state: no interleaving of claim, /stop,
\* panic and shutdown leaves a mailbox to a worker that has ended.
THEOREM OwnerAliveCorrect == Spec => []OwnerAlive
<1>1. Init => ClaimPending /\ OwnerAlive
  BY DispatchConstants DEF Init, ClaimPending, OwnerAlive, NoMailbox
<1>2. TypeOK /\ ClaimPending /\ OwnerAlive /\ [Next]_vars => OwnerAlive'
  <2> SUFFICES ASSUME TypeOK, ClaimPending, OwnerAlive, [Next]_vars
               PROVE  OwnerAlive'
    OBVIOUS
  <2>t. pc \in [Msgs -> WorkerPCs] /\ mailbox \in [Sessions -> Mailboxes] /\ None \notin Msgs
    BY DispatchConstants DEF TypeOK
  <2>o. \A s \in Sessions : mailbox[s].owner \in Msgs \cup {None}
    BY <2>t DEF Mailboxes
  <2>1. CASE Dispatcher \/ \E m \in Msgs : Receive(m)
    <3>1. ASSUME NEW m \in Msgs, Claims(m) PROVE OwnerAlive'
      BY <2>t, <3>1 DEF Claims, ClaimPending, OwnerAlive, Key
    <3>2. CASE Spawns
      BY <2>t, <2>o, <3>2 DEF Spawns, ClaimPending, OwnerAlive, Key
    <3>3. CASE Bystands
      BY <3>3 DEF Bystands, OwnerAlive, Key
    <3> QED
      BY <2>1, <3>1, <3>2, <3>3, DispatcherSteps
  <2>2. ASSUME NEW w \in Msgs, Worker(w) PROVE OwnerAlive'
    BY <2>2, <2>t, <2>o, WorkerSteps DEF WorkerStep, OwnersKept, OwnerAlive, Key
  <2>3. CASE Shutdown \/ UNCHANGED vars
    BY <2>3 DEF Shutdown, OwnerAlive, Key, vars, dispVars, workVars, histVars
  <2> QED
    BY <2>1, <2>2, <2>3 DEF Next, Idle
<1> QED
  BY <1>1, <1>2, ClaimPendingStep, TypeCorrect, PTL DEF Spec

\* A message that replaces the mailbox of a session it finds without a turn.
Steers(m) == ChannelOf[m] = "other" /\ ContentOf[m] # "stop"

\* A session whose messages line up: no message of it steers, or it has just the one.
Lined(s) == \A m, n \in Msgs : Key(m) = s /\ Key(n) = s /\ Steers(m) => m = n

\* In a session of L a worker that still has its mailbox to look at owns it.
OwningInv(L) ==
  /\ \A w \in Msgs : Key(w) \in L /\ Owning(w) => mailbox[Key(w)].owner = w
  /\ dpc = "store" /\ Key(dmsg) \in L => mailbox[Key(dmsg)].owner = dmsg

\* A session that lines up is claimed only when nobody owns it.
LEMMA ClaimsUnowned ==
  ASSUME TypeOK, ClaimPending, OwnerAlive, NEW m \in Msgs, ClaimSession(m), Lined(Key(m))
  PROVE  mailbox[Key(m)].owner = None
<1> SUFFICES ASSUME mailbox[Key(m)].owner # None PROVE FALSE
  OBVIOUS
<1>1. PICK w \in Msgs : w = mailbox[Key(m)].owner
  BY DispatchConstants DEF TypeOK, Mailboxes, Key
<1>2. Steers(m) /\ fate[m] = "unseen" /\ dpc = "recv"
  BY DispatchConstants DEF ClaimSession, CanReceive, Independent, Steers, Channels
<1>3. Key(w) = Key(m) /\ (pc[w] = "none" => dpc = "store")
  BY <1>1, DispatchConstants DEF OwnerAlive, Key
<1>4. w = m
  BY <1>2, <1>3 DEF Lined
<1> QED
  BY <1>2, <1>3, <1>4 DEF ClaimPending

LEMMA OwningStep ==
  ASSUME NEW L \in SUBSET Sessions, \A s \in L : Lined(s),
         TypeOK, ClaimPending, OwnerAlive, OwningInv(L), [Next]_vars
  PROVE  OwningInv(L)'
<1>t. /\ pc \in [Msgs -> WorkerPCs] /\ mailbox \in [Sessions -> Mailboxes]
      /\ None \notin Msgs /\ \A m \in Msgs : Key(m) \in Sessions
  BY DispatchConstants DEF TypeOK, Key
<1> USE DEF OwningInv, Owning, Key
<1>1. CASE Dispatcher \/ \E m \in Msgs : Receive(m)
  <2>1. ASSUME NEW m \in Msgs, ClaimSession(m), Claims(m) PROVE OwningInv(L)'
    <3>1. Key(m) \in L => \A w \in Msgs : Owning(w) => Key(w) # Key(m)
      <4>1. Key(m) \in L => mailbox[Key(m)].owner = None
        BY <2>1, ClaimsUnowned
      <4> QED
        BY <1>t, <4>1
    <3> QED
      BY <1>t, <2>1, <3>1 DEF Claims, ClaimPending, Relinquished
  <2>2. CASE Spawns
    BY <1>t, <2>2 DEF Spawns, ClaimPending, Relinquished
  <2>3. CASE Bystands
    BY <1>t, <2>3 DEF Bystands
  <2> QED
    BY <1>1, <2>1, <2>2, <2>3, DispatcherSteps
<1>2. ASSUME NEW w \in Msgs, Worker(w) PROVE OwningInv(L)'
  BY <1>2, <1>t, WorkerSteps DEF WorkerStep, OwnersKept, ClaimPending
<1>3. CASE Shutdown \/ UNCHANGED vars
  BY <1>3 DEF Shutdown, vars, dispVars, workVars, histVars
<1> QED
  BY <1>1, <1>2, <1>3 DEF Next, Idle

LEMMA OwningInit ==
  ASSUME NEW L \in SUBSET Sessions, Init
  PROVE  ClaimPending /\ OwningInv(L)
BY DEF Init, ClaimPending, OwningInv, Owning, Relinquished

\* Two workers that serve one session of L are one.
SerializedIn(L) ==
  \A v, w \in Msgs : Serving(v) /\ Serving(w) /\ Key(v) = Key(w) /\ Key(v) \in L => v = w

\* The sessions of a system that line up are serialized, whatever its other sessions do:
\* no two workers ever serve one of them at a time, however many sessions, messages and
\* slots there are, and whatever is stopped, fails or is shut down.
THEOREM LinedSerialized ==
  ASSUME NEW L \in SUBSET Sessions, \A s \in L : Lined(s)
  PROVE  Spec => []SerializedIn(L)
<1>1. Init => ClaimPending /\ OwningInv(L)
  BY OwningInit
<1>2. TypeOK /\ ClaimPending /\ OwnerAlive /\ OwningInv(L) /\ [Next]_vars => OwningInv(L)'
  BY OwningStep
<1>3. OwningInv(L) => SerializedIn(L)
  BY DEF OwningInv, Owning, Relinquished, SerializedIn, Serving
<1> QED
  BY <1>1, <1>2, <1>3, ClaimPendingStep, OwnerAliveCorrect, TypeCorrect, PTL DEF Spec

\* Where all sessions line up, like Telegram chats next to sessions of one message, no
\* two workers ever serve the same one.
THEOREM SessionsSerializedCorrect ==
  ASSUME \A s \in Sessions : Lined(s)
  PROVE  Spec => []SessionsSerialized
<1>1. Init => ClaimPending /\ OwningInv(Sessions)
  BY OwningInit
<1>2. TypeOK /\ ClaimPending /\ OwnerAlive /\ OwningInv(Sessions) /\ [Next]_vars => OwningInv(Sessions)'
  BY OwningStep
<1>3. OwningInv(Sessions) => SessionsSerialized
  BY DispatchConstants DEF OwningInv, Owning, Relinquished, SessionsSerialized, Serving, Key
<1> QED
  BY <1>1, <1>2, <1>3, ClaimPendingStep, OwnerAliveCorrect, TypeCorrect, PTL DEF Spec

(***************************************************************************)
(* The entries of the sessions                                             *)
(***************************************************************************)
\* Where a worker can have no placeholder: before its start, inside a turn, which
\* has replaced it, and behind its safety net.
Unplaced == {"none", "registered", "turn", "final", "release", "done"}

\* What an entry of session s says of the worker behind it.
Backed(s, e) ==
  \/ e = Free
  \/ \E v \in Msgs : Key(v) = s /\ ((e = TurnOf(v) /\ InTurn(v)) \/ (e = Placeholder(v) /\ pc[v] \notin Unplaced))

EntryInv == \A s \in Sessions : Backed(s, active[s])

\* Worker w moves between places that say the same of its entry.
LEMMA EntryFrame ==
  ASSUME EntryInv, NEW w \in Msgs, UNCHANGED active, \A v \in Msgs : v # w => pc'[v] = pc[v],
         InTurn(w) => InTurn(w)', pc[w] \notin Unplaced => pc'[w] \notin Unplaced
  PROVE  EntryInv'
<1> SUFFICES ASSUME NEW s \in Sessions PROVE Backed(s, active[s])'
  BY DEF EntryInv
<1>1. Backed(s, active[s])
  BY DEF EntryInv
<1>2. \A v \in Msgs : (InTurn(v) => InTurn(v)') /\ (pc[v] \notin Unplaced => pc'[v] \notin Unplaced)
  BY DEF InTurn
<1> QED
  BY <1>1, <1>2 DEF Backed, Key

\* Worker w stores e, which tells the truth about it, as the entry of its session.
LEMMA EntrySet ==
  ASSUME TypeOK, EntryInv, NEW w \in Msgs, NEW e, active' = [active EXCEPT ![Key(w)] = e],
         \A v \in Msgs : v # w => pc'[v] = pc[v], Backed(Key(w), e)'
  PROVE  EntryInv'
<1> SUFFICES ASSUME NEW s \in Sessions PROVE Backed(s, active[s])'
  BY DEF EntryInv
<1>1. active \in [Sessions -> Entries]
  BY DEF TypeOK
<1>2. CASE s = Key(w)
  <2>1. active'[s] = e
    BY <1>1, <1>2
  <2> QED
    BY <1>2, <2>1 DEF Backed, Key
<1>3. CASE s # Key(w)
  <2>1. active'[s] = active[s] /\ Backed(s, active[s])
    BY <1>1, <1>3 DEF EntryInv
  <2>2. \A v \in Msgs : Key(v) = s => pc'[v] = pc[v] /\ (InTurn(v) => InTurn(v)')
    BY <1>3 DEF InTurn
  <2> QED
    BY <2>1, <2>2 DEF Backed, Key
<1> QED
  BY <1>2, <1>3

\* The end of a turn of w: its entry goes, and the entry of another worker stays.
LEMMA EntryRelease ==
  ASSUME TypeOK, EntryInv, NEW w \in Msgs, InTurn(w), ReleaseIf(Key(w), TurnOf(w)),
         \A v \in Msgs : v # w => pc'[v] = pc[v]
  PROVE  EntryInv'
<1>1. CASE active[Key(w)] = TurnOf(w)
  <2>1. active' = [active EXCEPT ![Key(w)] = Free]
    BY <1>1 DEF ReleaseIf
  <2> QED
    BY <2>1, EntrySet DEF Backed
<1>2. CASE active[Key(w)] # TurnOf(w)
  <2> SUFFICES ASSUME NEW s \in Sessions PROVE Backed(s, active[s])'
    BY DEF EntryInv
  <2>1. active'[s] = active[s] /\ Backed(s, active[s])
    BY <1>2 DEF ReleaseIf, EntryInv, TypeOK
  <2>2. ASSUME NEW v \in Msgs, Key(v) = s,
               (active[s] = TurnOf(v) /\ InTurn(v)) \/ (active[s] = Placeholder(v) /\ pc[v] \notin Unplaced)
        PROVE  Backed(s, active[s])'
    <3>1. v # w
      BY <1>2, <2>2 DEF InTurn, Unplaced
    <3> QED
      BY <2>1, <2>2, <3>1 DEF Backed, InTurn, Key
  <2> QED
    BY <2>1, <2>2 DEF Backed, Key
<1> QED
  BY <1>1, <1>2

LEMMA EntryWorker ==
  ASSUME TypeOK, EntryInv, NEW w \in Msgs, Worker(w)
  PROVE  EntryInv'
<1> USE DEF Goto, workVars, Unplaced, InTurn
<1>t. /\ pc \in [Msgs -> WorkerPCs] /\ active \in [Sessions -> Entries] /\ Key(w) \in Sessions
      /\ \A v \in Msgs : v # w => pc'[v] = pc[v]
  BY DispatchConstants, WorkerSteps DEF TypeOK, Key, WorkerStep
<1>f. Backed(Key(w), Free)'
  BY DEF Backed
<1>p. pc'[w] \notin Unplaced => Backed(Key(w), Placeholder(w))'
  BY DEF Backed, Key
<1>r. InTurn(w)' => Backed(Key(w), TurnOf(w))'
  BY DEF Backed, Key
<1>1. CASE AcquireSlot(w) \/ RunCommand(w) \/ FailBeforeTurn(w) \/ TakePendingStop(w) \/ LeaveTurnLoop(w)
           \/ DrainDone(w) \/ Publish(w) \/ TakeNextMessage(w) \/ ReleaseSlot(w) \/ PollSteering(w)
           \/ ReleaseMailbox(w)
  <2>1. UNCHANGED active
    BY <1>1 DEF AcquireSlot, RunCommand, FailBeforeTurn, TakePendingStop, LeaveTurnLoop, DrainDone, Publish,
                TakeNextMessage, ReleaseSlot, PollSteering, ReleaseMailbox
  <2>2. (InTurn(w) => InTurn(w)') /\ (pc[w] \notin Unplaced => pc'[w] \notin Unplaced)
    BY <1>1, <1>t DEF AcquireSlot, RunCommand, FailBeforeTurn, TakePendingStop, LeaveTurnLoop, DrainDone,
                Publish, TakeNextMessage, ReleaseSlot, PollSteering, ReleaseMailbox
  <2> QED
    BY <1>t, <2>1, <2>2, EntryFrame
<1>2. CASE AcquireCancelled(w) \/ ContinueGivesUp(w)
  BY <1>2, <1>f, <1>t, EntrySet DEF AcquireCancelled, ContinueGivesUp
<1>3. CASE CheckPendingStop(w)
  <2>1. CASE UNCHANGED active
    BY <1>3, <1>t, <2>1, EntryFrame DEF CheckPendingStop
  <2>2. CASE active' = [active EXCEPT ![Key(w)] = Free]
    BY <1>f, <1>t, <2>2, EntrySet
  <2> QED
    BY <1>3, <2>1, <2>2 DEF CheckPendingStop
<1>4. CASE RegisterTurn(w) \/ ContinueTurn(w)
  <2>1. active' = [active EXCEPT ![Key(w)] = TurnOf(w)] /\ pc'[w] = "registered"
    BY <1>4, <1>t DEF RegisterTurn, ContinueTurn, Register
  <2> QED
    BY <1>r, <1>t, <2>1, EntrySet
<1>5. CASE FinishTurn(w) \/ AbortTurn(w) \/ FailTurn(w) \/ CancelTurn(w)
  BY <1>5, <1>t, EntryRelease DEF FinishTurn, AbortTurn, FailTurn, CancelTurn
<1>6. CASE ContinueClaim(w)
  <2>1. CASE UNCHANGED active
    BY <1>6, <1>t, <2>1, EntryFrame DEF ContinueClaim
  <2>2. CASE active' = [active EXCEPT ![Key(w)] = Placeholder(w)] /\ pc' = [pc EXCEPT ![w] = "dequeue"]
    BY <1>p, <1>t, <2>2, EntrySet
  <2> QED
    BY <1>6, <2>1, <2>2 DEF ContinueClaim
<1>7. CASE PlaceNext(w)
  BY <1>7, <1>p, <1>t, EntrySet DEF PlaceNext
<1>8. CASE SafetyNet(w)
  <2>1. CASE active[Key(w)].kind = "pending"
    BY <1>8, <1>f, <1>t, <2>1, EntrySet DEF SafetyNet
  <2>2. CASE active[Key(w)].kind # "pending"
    <3> SUFFICES ASSUME NEW s \in Sessions PROVE Backed(s, active[s])'
      BY DEF EntryInv
    <3>1. active'[s] = active[s] /\ Backed(s, active[s])
      BY <1>8, <1>t, <2>2 DEF SafetyNet, EntryInv
    <3>2. ASSUME NEW v \in Msgs, Key(v) = s,
                 (active[s] = TurnOf(v) /\ InTurn(v)) \/ (active[s] = Placeholder(v) /\ pc[v] \notin Unplaced)
          PROVE  Backed(s, active[s])'
      <4>1. v # w
        BY <1>8, <2>2, <3>2 DEF SafetyNet, Placeholder
      <4> QED
        BY <1>t, <3>1, <3>2, <4>1 DEF Backed, Key
    <3> QED
      BY <3>1, <3>2 DEF Backed, Key
  <2> QED
    BY <2>1, <2>2
<1> QED
  BY <1>1, <1>2, <1>3, <1>4, <1>5, <1>6, <1>7, <1>8 DEF Worker, Turn

LEMMA EntryStep == TypeOK /\ ClaimPending /\ EntryInv /\ [Next]_vars => EntryInv'
<1> SUFFICES ASSUME TypeOK, ClaimPending, EntryInv, [Next]_vars PROVE EntryInv'
  OBVIOUS
<1>1. CASE SpawnWorker
  <2>1. /\ dmsg \in Msgs /\ pc' = [pc EXCEPT ![dmsg] = "acquire"]
        /\ active' = [active EXCEPT ![Key(dmsg)] = Placeholder(dmsg)]
    BY <1>1 DEF SpawnWorker, ClaimPending
  <2>2. PICK w \in Msgs : w = dmsg
    BY <2>1
  <2>3. pc'[w] = "acquire" /\ \A v \in Msgs : v # w => pc'[v] = pc[v]
    BY <2>1, <2>2 DEF TypeOK
  <2>4. Backed(Key(w), Placeholder(w))'
    BY <2>3 DEF Backed, Key, Unplaced
  <2> QED
    BY <2>1, <2>2, <2>3, <2>4, EntrySet
<1>2. ASSUME UNCHANGED <<active, pc>> PROVE EntryInv'
  BY <1>2 DEF EntryInv, Backed, InTurn, Key
<1>3. ASSUME NEW m \in Msgs, Receive(m) PROVE EntryInv'
  BY <1>2, <1>3 DEF Receive, ClaimSession, QueueIndependent, DivertMessage, ReceiveSystem, dispVars, workVars
<1>4. CASE EnqueueSteering \/ ProcessMessageSync \/ HandleStop
  BY <1>2, <1>4 DEF EnqueueSteering, ProcessMessageSync, HandleStop, StopClear, StopLook, StopAbort, StopRecheck,
                    StopArm, MarkPendingStop, StopAck, workVars
<1>5. CASE Shutdown \/ UNCHANGED vars
  BY <1>2, <1>5 DEF Shutdown, vars, workVars
<1> QED
  BY <1>1, <1>3, <1>4, <1>5, EntryWorker DEF Next, Dispatcher, Idle

\* A mailbox without an owner is no mailbox: it was deleted whole.
UnownedGone == \A s \in Sessions : mailbox[s].owner = None => mailbox[s] = NoMailbox

LEMMA UnownedStep == TypeOK /\ UnownedGone /\ [Next]_vars => UnownedGone'
<1> SUFFICES ASSUME TypeOK, UnownedGone, [Next]_vars PROVE UnownedGone'
  OBVIOUS
<1>t. mailbox \in [Sessions -> Mailboxes] /\ None \notin Msgs
  BY DispatchConstants DEF TypeOK
<1> USE DEF dispVars, workVars, histVars
<1>1. ASSUME UNCHANGED mailbox PROVE UnownedGone'
  BY <1>1 DEF UnownedGone
<1>2. ASSUME NEW k, NEW box, mailbox' = [mailbox EXCEPT ![k] = box], box.owner # None \/ box = NoMailbox
      PROVE  UnownedGone'
  BY <1>2, <1>t DEF UnownedGone
<1>3. ASSUME NEW m \in Msgs, ClaimSession(m) PROVE UnownedGone'
  <2>1. mailbox' = [mailbox EXCEPT ![Key(m)] = [owner |-> m, queue |-> <<>>]]
    BY <1>3 DEF ClaimSession
  <2> QED
    BY <1>2, <1>t, <2>1
<1>4. ASSUME NEW m \in Msgs, QueueIndependent(m) PROVE UnownedGone'
  BY <1>4, <1>t DEF QueueIndependent, UnownedGone, Mailboxes
<1>5. ASSUME NEW w \in Msgs, TakeNextMessage(w) PROVE UnownedGone'
  BY <1>1, <1>5, <1>t DEF TakeNextMessage, MailboxAfterLast, UnownedGone, Mailboxes
<1>6. ASSUME NEW w \in Msgs, ReleaseMailbox(w) PROVE UnownedGone'
  BY <1>6, <1>t DEF ReleaseMailbox, UnownedGone
<1>7. ASSUME NEW m \in Msgs, DivertMessage(m) \/ ReceiveSystem(m) PROVE UnownedGone'
  BY <1>1, <1>7 DEF DivertMessage, ReceiveSystem
<1>8. CASE Dispatcher \/ Shutdown \/ UNCHANGED vars
  BY <1>1, <1>8 DEF Dispatcher, SpawnWorker, EnqueueSteering, ProcessMessageSync, HandleStop, StopClear, StopLook,
                    StopAbort, StopRecheck, StopArm, MarkPendingStop, StopAck, Shutdown, vars
<1>9. ASSUME NEW w \in Msgs, Turn(w) PROVE UnownedGone'
  BY <1>1, <1>9 DEF Turn, TakePendingStop, PollSteering, LeaveTurnLoop, FinishTurn, AbortTurn, FailTurn, CancelTurn
<1>10. ASSUME NEW w \in Msgs, Worker(w), ~Turn(w), ~TakeNextMessage(w), ~ReleaseMailbox(w) PROVE UnownedGone'
  BY <1>1, <1>10 DEF Worker, AcquireSlot, AcquireCancelled, CheckPendingStop, RunCommand, RegisterTurn,
                     FailBeforeTurn, DrainDone, ContinueClaim, ContinueGivesUp, ContinueTurn, Publish, PlaceNext,
                     ReleaseSlot, SafetyNet
<1> QED
  BY <1>3, <1>4, <1>5, <1>6, <1>7, <1>8, <1>9, <1>10 DEF Next, Receive, Idle

\* When all workers have ended nothing claims a session any more: an entry always has
\* a live worker behind it that will take it away, and so has a mailbox.
THEOREM NoResidueCorrect == Spec => []NoResidue
<1>1. Init => EntryInv /\ UnownedGone /\ ClaimPending
  BY DEF Init, EntryInv, Backed, UnownedGone, ClaimPending
<1>2. TypeOK /\ OwnerAlive /\ EntryInv /\ UnownedGone => NoResidue
  <2> SUFFICES ASSUME TypeOK, OwnerAlive, EntryInv, UnownedGone, Quiescent, NEW s \in Sessions
               PROVE  active[s] = Free /\ mailbox[s] = NoMailbox
    BY DEF NoResidue
  <2>1. active[s] = Free
    BY DEF EntryInv, Backed, Quiescent, InTurn, Unplaced
  <2>2. mailbox[s].owner = None
    <3> SUFFICES ASSUME mailbox[s].owner # None PROVE FALSE
      OBVIOUS
    <3>1. pc[mailbox[s].owner] # "done" /\ pc[mailbox[s].owner] # "none"
      BY DEF OwnerAlive, Quiescent
    <3>2. mailbox[s].owner \in Msgs
      BY DEF TypeOK, Mailboxes
    <3> QED
      BY <3>1, <3>2 DEF Quiescent
  <2> QED
    BY <2>1, <2>2 DEF UnownedGone
<1> QED
  BY <1>1, <1>2, ClaimPendingStep, EntryStep, UnownedStep, OwnerAliveCorrect, TypeCorrect, PTL DEF Spec

(***************************************************************************)
(* The turn of a session that is serialized                                *)
(***************************************************************************)
\* What a step of worker w does to the entry of a session: its own turn stays where it
\* is while w is in it, and a worker that owns no mailbox removes placeholders only.
LEMMA TurnEntryKept ==
  ASSUME TypeOK, NEW w \in Msgs, Worker(w)
  PROVE  /\ \A s \in Sessions : s # Key(w) => active'[s] = active[s]
         /\ InTurn(w)' => active'[Key(w)] = TurnOf(w) \/ (InTurn(w) /\ UNCHANGED active)
         /\ ~Owning(w) /\ active[Key(w)].kind = "turn" => UNCHANGED active
<1> USE DEF Goto, InTurn, Owning, Relinquished
<1>t. /\ pc \in [Msgs -> WorkerPCs] /\ active \in [Sessions -> Entries] /\ Key(w) \in Sessions
  BY DispatchConstants DEF TypeOK, Key
<1>1. CASE AcquireSlot(w) \/ RunCommand(w) \/ FailBeforeTurn(w) \/ TakePendingStop(w) \/ LeaveTurnLoop(w)
           \/ DrainDone(w) \/ Publish(w) \/ TakeNextMessage(w) \/ ReleaseSlot(w) \/ PollSteering(w)
           \/ ReleaseMailbox(w)
  BY <1>1, <1>t DEF AcquireSlot, RunCommand, FailBeforeTurn, TakePendingStop, LeaveTurnLoop, DrainDone, Publish,
                    TakeNextMessage, ReleaseSlot, PollSteering, ReleaseMailbox, workVars
<1>2. CASE AcquireCancelled(w) \/ ContinueGivesUp(w) \/ CheckPendingStop(w)
  BY <1>2, <1>t DEF AcquireCancelled, ContinueGivesUp, CheckPendingStop
<1>3. CASE RegisterTurn(w) \/ ContinueTurn(w)
  <2>1. active' = [active EXCEPT ![Key(w)] = TurnOf(w)] /\ pc[w] \in {"run", "dequeue"}
    BY <1>3 DEF RegisterTurn, ContinueTurn, Register
  <2> QED
    BY <1>t, <2>1
<1>4. CASE FinishTurn(w) \/ AbortTurn(w) \/ FailTurn(w) \/ CancelTurn(w)
  BY <1>4, <1>t DEF FinishTurn, AbortTurn, FailTurn, CancelTurn, AfterFailure, ReleaseIf
<1>5. CASE ContinueClaim(w) \/ PlaceNext(w)
  BY <1>5, <1>t DEF ContinueClaim, PlaceNext
<1>6. CASE SafetyNet(w)
  BY <1>6, <1>t DEF SafetyNet
<1> QED
  BY <1>1, <1>2, <1>3, <1>4, <1>5, <1>6 DEF Worker, Turn

\* In a session of L a worker's turn is the entry of the session.
ReachableIn(L) == \A w \in Msgs : InTurn(w) /\ Key(w) \in L => active[Key(w)] = TurnOf(w)

LEMMA ReachableStep ==
  ASSUME NEW L \in SUBSET Sessions,
         TypeOK, ClaimPending, OwningInv(L), ReachableIn(L), [Next]_vars
  PROVE  ReachableIn(L)'
<1> SUFFICES ASSUME NEW v \in Msgs, InTurn(v)', Key(v) \in L
             PROVE  active'[Key(v)] = TurnOf(v)
  BY DEF ReachableIn, Key, TurnOf
<1>t. pc \in [Msgs -> WorkerPCs] /\ active \in [Sessions -> Entries] /\ Key(v) \in Sessions
  BY DispatchConstants DEF TypeOK, Key
<1>1. ASSUME NEW w \in Msgs, Worker(w) PROVE active'[Key(v)] = TurnOf(v)
  <2>1. CASE v = w
    BY <1>1, <2>1, TurnEntryKept DEF ReachableIn
  <2>2. CASE v # w
    <3>1. InTurn(v) /\ active[Key(v)] = TurnOf(v)
      BY <1>1, <2>2, WorkerSteps DEF WorkerStep, InTurn, ReachableIn
    <3>2. CASE Key(v) = Key(w)
      <4>1. ~Owning(w)
        BY <2>2, <3>1, <3>2 DEF OwningInv, Owning, Relinquished, InTurn
      <4>2. active[Key(w)].kind = "turn"
        BY <3>1, <3>2 DEF TurnOf
      <4> QED
        BY <1>1, <3>1, <4>1, <4>2, TurnEntryKept
    <3>3. CASE Key(v) # Key(w)
      BY <1>1, <1>t, <3>1, <3>3, TurnEntryKept
    <3> QED
      BY <3>2, <3>3
  <2> QED
    BY <2>1, <2>2
<1>2. CASE SpawnWorker
  <2>1. /\ dpc = "store" /\ pc' = [pc EXCEPT ![dmsg] = "acquire"]
        /\ active' = [active EXCEPT ![Key(dmsg)] = Placeholder(dmsg)]
    BY <1>2 DEF SpawnWorker
  <2>2. InTurn(v) /\ v # dmsg /\ active[Key(v)] = TurnOf(v)
    BY <1>t, <2>1 DEF InTurn, ClaimPending, ReachableIn
  <2>3. Key(v) # Key(dmsg)
    BY <2>1, <2>2 DEF OwningInv, Owning, Relinquished, InTurn
  <2> QED
    BY <1>t, <2>1, <2>2, <2>3
<1>3. ASSUME UNCHANGED <<active, pc>> PROVE active'[Key(v)] = TurnOf(v)
  BY <1>3 DEF ReachableIn, InTurn
<1>4. ASSUME NEW m \in Msgs, Receive(m) PROVE active'[Key(v)] = TurnOf(v)
  BY <1>3, <1>4 DEF Receive, ClaimSession, QueueIndependent, DivertMessage, ReceiveSystem, dispVars, workVars
<1>5. CASE EnqueueSteering \/ ProcessMessageSync \/ HandleStop
  BY <1>3, <1>5 DEF EnqueueSteering, ProcessMessageSync, HandleStop, StopClear, StopLook, StopAbort, StopRecheck,
                    StopArm, MarkPendingStop, StopAck, workVars
<1>6. CASE Shutdown \/ UNCHANGED vars
  BY <1>3, <1>6 DEF Shutdown, vars, workVars
<1> QED
  BY <1>1, <1>2, <1>4, <1>5, <1>6 DEF Next, Dispatcher, Idle

\* In a session that lines up the turn a worker runs is the entry of the session for as
\* long as it runs, so that a /stop always finds it: neither a new claim nor the clean-up
\* of the worker before takes the entry away.
THEOREM LinedTurnReachable ==
  ASSUME NEW L \in SUBSET Sessions, \A s \in L : Lined(s)
  PROVE  Spec => []ReachableIn(L)
<1>1. Init => ClaimPending /\ OwningInv(L) /\ ReachableIn(L)
  BY OwningInit DEF Init, ReachableIn, InTurn
<1>2. TypeOK /\ ClaimPending /\ OwnerAlive /\ OwningInv(L) /\ [Next]_vars => OwningInv(L)'
  BY OwningStep
<1>3. TypeOK /\ ClaimPending /\ OwningInv(L) /\ ReachableIn(L) /\ [Next]_vars => ReachableIn(L)'
  BY ReachableStep
<1> QED
  BY <1>1, <1>2, <1>3, ClaimPendingStep, OwnerAliveCorrect, TypeCorrect, PTL DEF Spec

\* Where all sessions line up, a /stop finds every turn that runs.
THEOREM TurnReachableCorrect ==
  ASSUME \A s \in Sessions : Lined(s)
  PROVE  Spec => []TurnReachable
<1>1. Init => ClaimPending /\ OwningInv(Sessions) /\ ReachableIn(Sessions)
  BY OwningInit DEF Init, ReachableIn, InTurn
<1>2. TypeOK /\ ClaimPending /\ OwnerAlive /\ OwningInv(Sessions) /\ [Next]_vars => OwningInv(Sessions)'
  BY OwningStep
<1>3. TypeOK /\ ClaimPending /\ OwningInv(Sessions) /\ ReachableIn(Sessions) /\ [Next]_vars
      => ReachableIn(Sessions)'
  BY ReachableStep
<1>4. ReachableIn(Sessions) => TurnReachable
  BY DispatchConstants DEF ReachableIn, TurnReachable, Key
<1> QED
  BY <1>1, <1>2, <1>3, <1>4, ClaimPendingStep, OwnerAliveCorrect, TypeCorrect, PTL DEF Spec

(***************************************************************************)
(* Where a message is                                                      *)
(***************************************************************************)
Queued(s) == Range(mailbox[s].queue)
Steered(s) == Range(steering[s])
Waits(m) == m \in Queued(Key(m)) \cup Steered(Key(m))
Gone == {"unseen", "merged", "cleared", "rejected"}

\* The queues of a session: messages of that session, each once, in one of them.
QueuesInv ==
  \A s \in Sessions :
    /\ IsInjective(mailbox[s].queue) /\ IsInjective(steering[s])
    /\ \A m \in Queued(s) \cup Steered(s) : Key(m) = s
    /\ Queued(s) \cap Steered(s) = {}

\* A message in a hand, the dispatcher's or a worker's, is in no queue and in no
\* other hand; one that is not held any more is nowhere.
HandsInv ==
  /\ \A w \in Msgs : pc[w] # "none" => Key(cur[w]) = Key(w)
  /\ \A v, w \in Msgs : Working(v) /\ Working(w) /\ cur[v] = cur[w] => v = w
  /\ \A w \in Msgs : Working(w) => ~Waits(cur[w]) /\ cur[w] # dmsg
  /\ dmsg # None => ~Waits(dmsg)
GoneInv ==
  \A m \in Msgs : fate[m] \in Gone =>
    dmsg # m /\ ~Waits(m) /\ \A w \in Msgs : Working(w) => cur[w] # m

PlaceInv == QueuesInv /\ HandsInv /\ GoneInv

LEMMA RangeIs ==
  ASSUME NEW q \in Seq(Msgs)
  PROVE  /\ \A x : x \in Range(q) <=> \E i \in 1..Len(q) : q[i] = x
         /\ Range(q) \subseteq Msgs /\ DOMAIN q = 1..Len(q) /\ Len(q) \in Nat
  BY DEF Range

LEMMA EmptyIs == <<>> \in Seq(Msgs) /\ Range(<<>>) = {} /\ IsInjective(<<>>)
  BY DEF Range, IsInjective

\* One more message at the end of a queue, one less at its head.
LEMMA AppendIs ==
  ASSUME NEW q \in Seq(Msgs), NEW m \in Msgs
  PROVE  /\ Append(q, m) \in Seq(Msgs) /\ Range(Append(q, m)) = Range(q) \cup {m}
         /\ IsInjective(q) /\ m \notin Range(q) => IsInjective(Append(q, m))
<1> DEFINE r == Append(q, m)
<1>1. /\ r \in Seq(Msgs) /\ Len(r) = Len(q) + 1 /\ r[Len(q) + 1] = m /\ Len(q) \in Nat
      /\ \A i \in 1..Len(q) : r[i] = q[i]
  OBVIOUS
<1> HIDE DEF r
<1>2. \A i \in 1..Len(r) : i \in 1..Len(q) \/ i = Len(q) + 1
  BY <1>1
<1>3. \A i \in 1..Len(q) : i \in 1..Len(r) /\ i # Len(q) + 1
  BY <1>1
<1>4. Len(q) + 1 \in 1..Len(r)
  BY <1>1
<1>5. DOMAIN r = 1..Len(r) /\ DOMAIN q = 1..Len(q)
  BY <1>1
<1>6. \A x : x \in Range(r) <=> x \in Range(q) \cup {m}
  BY <1>1, <1>2, <1>3, <1>4, RangeIs
<1>7. ASSUME IsInjective(q), m \notin Range(q) PROVE IsInjective(r)
  <2>1. \A i \in 1..Len(q) : q[i] # m
    BY <1>7, RangeIs
  <2>2. \A i, j \in 1..Len(q) : q[i] = q[j] => i = j
    BY <1>5, <1>7 DEF IsInjective
  <2>3. \A i, j \in 1..Len(r) : r[i] = r[j] => i = j
    BY <1>1, <1>2, <2>1, <2>2
  <2> QED
    BY <1>5, <2>3 DEF IsInjective
<1> QED
  BY <1>1, <1>6, <1>7 DEF r

LEMMA TailIs ==
  ASSUME NEW q \in Seq(Msgs), q # <<>>
  PROVE  /\ Tail(q) \in Seq(Msgs) /\ Head(q) \in Range(q)
         /\ Range(Tail(q)) \subseteq Range(q) /\ Range(q) = Range(Tail(q)) \cup {Head(q)}
         /\ IsInjective(q) => IsInjective(Tail(q)) /\ Head(q) \notin Range(Tail(q))
<1> DEFINE r == Tail(q)
<1>1. /\ r \in Seq(Msgs) /\ Len(q) \in Nat \ {0} /\ Len(r) = Len(q) - 1 /\ Head(q) = q[1]
      /\ \A i \in 1..Len(r) : r[i] = q[i + 1]
  OBVIOUS
<1> HIDE DEF r
<1>2. \A i \in 1..Len(r) : i + 1 \in 1..Len(q) /\ i + 1 # 1
  BY <1>1
<1>3. \A i \in 1..Len(q) : i = 1 \/ (i - 1 \in 1..Len(r) /\ (i - 1) + 1 = i)
  BY <1>1
<1>4. DOMAIN r = 1..Len(r) /\ DOMAIN q = 1..Len(q) /\ 1 \in 1..Len(q)
  BY <1>1
<1>5. \A x : x \in Range(r) => x \in Range(q)
  BY <1>1, <1>2, RangeIs
<1>6. \A x : x \in Range(q) => x \in Range(r) \/ x = Head(q)
  <2> SUFFICES ASSUME NEW x, x \in Range(q), x # Head(q) PROVE x \in Range(r)
    OBVIOUS
  <2>1. PICK i \in 1..Len(q) : q[i] = x
    BY RangeIs
  <2>2. i - 1 \in 1..Len(r) /\ r[i - 1] = x
    BY <1>1, <1>3, <2>1
  <2> QED
    BY <1>1, <2>2, RangeIs
<1>7. Head(q) \in Range(q)
  BY <1>1, <1>4, RangeIs
<1>8. ASSUME IsInjective(q) PROVE IsInjective(r) /\ Head(q) \notin Range(r)
  <2>1. \A i, j \in 1..Len(q) : q[i] = q[j] => i = j
    BY <1>4, <1>8 DEF IsInjective
  <2>2. \A i, j \in 1..Len(r) : r[i] = r[j] => i = j
    <3> SUFFICES ASSUME NEW i \in 1..Len(r), NEW j \in 1..Len(r), r[i] = r[j] PROVE i = j
      OBVIOUS
    <3>1. i + 1 = j + 1
      BY <1>1, <1>2, <2>1
    <3> QED
      BY <3>1
  <2>3. \A i \in 1..Len(r) : r[i] # Head(q)
    BY <1>1, <1>2, <1>4, <2>1
  <2> QED
    BY <1>1, <1>4, <2>2, <2>3, RangeIs DEF IsInjective
<1> QED
  BY <1>1, <1>5, <1>6, <1>7, <1>8 DEF r

LEMMA QueuesTyped ==
  ASSUME TypeOK, NEW s \in Sessions
  PROVE  mailbox[s].queue \in Seq(Msgs) /\ steering[s] \in Seq(Msgs)
  BY DEF TypeOK, Mailboxes

\* A step that takes messages out of queues and hands, and puts none anywhere.
LEMMA FewerPlaces ==
  ASSUME TypeOK, TypeOK', PlaceInv,
         \A s \in Sessions : mailbox'[s].queue = mailbox[s].queue \/ mailbox'[s].queue = <<>>,
         \A s \in Sessions : \/ steering'[s] = steering[s] \/ steering'[s] = <<>>
                             \/ steering[s] # <<>> /\ steering'[s] = Tail(steering[s]),
         dmsg' \in {dmsg, None},
         \A w \in Msgs : pc'[w] # "none" => pc[w] # "none" /\ cur'[w] = cur[w],
         \A w \in Msgs : Working(w)' => Working(w),
         \A m \in Msgs : fate'[m] \in Gone =>
            fate[m] \in Gone \/ (m \in Steered(Key(m)) /\ m \notin Steered(Key(m))')
  PROVE  PlaceInv'
<1>0. \A m \in Msgs : Key(m) \in Sessions
  BY DispatchConstants DEF Key
<1>1. ASSUME NEW s \in Sessions
      PROVE  /\ Queued(s)' \subseteq Queued(s) /\ Steered(s)' \subseteq Steered(s)
             /\ IsInjective(mailbox'[s].queue) /\ IsInjective(steering'[s])
  <2>1. mailbox[s].queue \in Seq(Msgs) /\ steering[s] \in Seq(Msgs)
    BY QueuesTyped
  <2>2. IsInjective(mailbox[s].queue) /\ IsInjective(steering[s])
    BY DEF PlaceInv, QueuesInv
  <2>3. Queued(s)' \subseteq Queued(s) /\ IsInjective(mailbox'[s].queue)
    BY <2>2, EmptyIs DEF Queued
  <2>4. Steered(s)' \subseteq Steered(s) /\ IsInjective(steering'[s])
    <3>1. CASE steering'[s] = steering[s] \/ steering'[s] = <<>>
      BY <2>2, <3>1, EmptyIs DEF Steered
    <3>2. CASE steering[s] # <<>> /\ steering'[s] = Tail(steering[s])
      BY <2>1, <2>2, <3>2, TailIs DEF Steered
    <3> QED
      BY <3>1, <3>2
  <2> QED
    BY <2>3, <2>4
<1>2. QueuesInv'
  BY <1>1 DEF PlaceInv, QueuesInv, Key
<1>3. \A m \in Msgs : Waits(m)' => Waits(m)
  BY <1>0, <1>1 DEF Waits, Key
<1>4. \A w \in Msgs : Working(w)' => Working(w) /\ cur'[w] = cur[w] /\ cur[w] \in Msgs
  <2>1. \A w \in Msgs : Working(w)' => pc'[w] # "none"
    BY DEF Working
  <2> QED
    BY <2>1 DEF TypeOK
<1>5. dmsg' # None => dmsg' = dmsg /\ dmsg \in Msgs
  BY DEF TypeOK
<1>6. HandsInv'
  <2>1. \A w \in Msgs : pc'[w] # "none" => Key(cur[w])' = Key(w)'
    BY DEF PlaceInv, HandsInv, Key
  <2>2. \A v, w \in Msgs : Working(v)' /\ Working(w)' /\ cur'[v] = cur'[w] => v = w
    BY <1>4 DEF PlaceInv, HandsInv
  <2>3. \A w \in Msgs : Working(w)' => ~Waits(cur[w])' /\ cur'[w] # dmsg'
    <3> SUFFICES ASSUME NEW w \in Msgs, Working(w)'
                 PROVE  ~Waits(cur[w])' /\ cur'[w] # dmsg'
      OBVIOUS
    <3>1. PICK m \in Msgs : m = cur[w] /\ m = cur'[w] /\ Working(w)
      BY <1>4
    <3>2. ~Waits(m) /\ m # dmsg
      BY <3>1 DEF PlaceInv, HandsInv
    <3>3. ~Waits(m)'
      BY <1>3, <3>2
    <3>4. m # dmsg'
      BY <3>2, DispatchConstants
    <3> QED
      BY <3>1, <3>3, <3>4 DEF Waits, Key
  <2>4. dmsg' # None => ~Waits(dmsg)'
    <3> SUFFICES ASSUME dmsg' # None PROVE ~Waits(dmsg)'
      OBVIOUS
    <3>1. PICK m \in Msgs : m = dmsg /\ m = dmsg'
      BY <1>5
    <3>2. ~Waits(m) /\ m # None
      BY <3>1, DispatchConstants DEF PlaceInv, HandsInv
    <3>3. ~Waits(m)'
      BY <1>3, <3>2
    <3> QED
      BY <3>1, <3>3 DEF Waits, Key
  <2> QED
    BY <2>1, <2>2, <2>3, <2>4 DEF HandsInv
<1>7. GoneInv'
  <2> SUFFICES ASSUME NEW m \in Msgs, fate'[m] \in Gone
               PROVE  dmsg' # m /\ ~Waits(m)' /\ \A w \in Msgs : Working(w)' => cur'[w] # m
    BY DEF GoneInv
  <2>1. CASE fate[m] \in Gone
    <3>1. dmsg # m /\ ~Waits(m) /\ \A w \in Msgs : Working(w) => cur[w] # m
      BY <2>1 DEF PlaceInv, GoneInv
    <3>2. dmsg' # m
      BY <3>1, DispatchConstants
    <3> QED
      BY <1>3, <1>4, <3>1, <3>2
  <2>2. CASE m \in Steered(Key(m)) /\ m \notin Steered(Key(m))'
    <3>1. Waits(m) /\ Key(m) \in Sessions
      BY <1>0, <2>2 DEF Waits
    <3>2. dmsg' # m
      BY <1>5, <3>1, DispatchConstants DEF PlaceInv, HandsInv
    <3>3. \A w \in Msgs : Working(w)' => cur'[w] # m
      BY <1>4, <3>1 DEF PlaceInv, HandsInv
    <3>4. m \notin Queued(Key(m))
      BY <2>2, <3>1 DEF PlaceInv, QueuesInv
    <3>5. m \notin Queued(Key(m))'
      BY <1>1, <3>1, <3>4 DEF Key
    <3> QED
      BY <2>2, <3>2, <3>3, <3>5 DEF Waits
  <2> QED
    BY <2>1, <2>2
<1> QED
  BY <1>2, <1>6, <1>7 DEF PlaceInv

\* The same in two parts: what the step does to the steering queues and the fates,
\* and what it does to everything else.
SteeringTaken ==
  /\ \A s \in Sessions : \/ steering'[s] = steering[s] \/ steering'[s] = <<>>
                         \/ steering[s] # <<>> /\ steering'[s] = Tail(steering[s])
  /\ \A m \in Msgs : fate'[m] \in Gone =>
        fate[m] \in Gone \/ (m \in Steered(Key(m)) /\ m \notin Steered(Key(m))')

HandsTaken ==
  /\ \A s \in Sessions : mailbox'[s].queue = mailbox[s].queue \/ mailbox'[s].queue = <<>>
  /\ dmsg' \in {dmsg, None}
  /\ \A w \in Msgs : pc'[w] # "none" => pc[w] # "none" /\ cur'[w] = cur[w]
  /\ \A w \in Msgs : Working(w)' => Working(w)

LEMMA TakenKeeps ==
  ASSUME TypeOK, TypeOK', PlaceInv, SteeringTaken, HandsTaken
  PROVE  PlaceInv'
<1>1. \A s \in Sessions : mailbox'[s].queue = mailbox[s].queue \/ mailbox'[s].queue = <<>>
  BY DEF HandsTaken
<1>2. \A s \in Sessions : \/ steering'[s] = steering[s] \/ steering'[s] = <<>>
                          \/ steering[s] # <<>> /\ steering'[s] = Tail(steering[s])
  BY DEF SteeringTaken
<1>3. dmsg' \in {dmsg, None}
  BY DEF HandsTaken
<1>4. \A w \in Msgs : pc'[w] # "none" => pc[w] # "none" /\ cur'[w] = cur[w]
  BY DEF HandsTaken
<1>5. \A w \in Msgs : Working(w)' => Working(w)
  BY DEF HandsTaken
<1>6. \A m \in Msgs : fate'[m] \in Gone =>
        fate[m] \in Gone \/ (m \in Steered(Key(m)) /\ m \notin Steered(Key(m))')
  BY DEF SteeringTaken
<1> QED
  BY <1>1, <1>2, <1>3, <1>4, <1>5, <1>6, FewerPlaces

\* What a poll takes and what a /stop clears leaves the steering queue, and no other
\* message's fate changes; a settled message is not among the gone.
LEMMA DequeueTakes ==
  ASSUME TypeOK, PlaceInv, NEW s \in Sessions, Dequeue(s)
  PROVE  SteeringTaken
<1>1. /\ steering \in [Sessions -> Seq(Msgs)] /\ steering[s] \in Seq(Msgs) /\ steering[s] # <<>>
      /\ steering' = [steering EXCEPT ![s] = IF SteeringAll THEN <<>> ELSE Tail(@)]
      /\ fate' = [m \in Msgs |-> IF m \in Dequeued(s) THEN "merged" ELSE fate[m]]
  BY QueuesTyped DEF TypeOK, Dequeue
<1>2. IsInjective(steering[s]) /\ \A m \in Steered(s) : Key(m) = s
  BY DEF PlaceInv, QueuesInv
<1>3. \A m \in Dequeued(s) : m \in Steered(s) /\ m \notin Steered(s)'
  <2>1. CASE SteeringAll
    BY <1>1, <2>1, EmptyIs DEF Dequeued, Steered
  <2>2. CASE ~SteeringAll
    BY <1>1, <1>2, <2>2, TailIs DEF Dequeued, Steered
  <2> QED
    BY <2>1, <2>2
<1>4. \A m \in Msgs : fate'[m] \in Gone =>
        fate[m] \in Gone \/ (m \in Steered(Key(m)) /\ m \notin Steered(Key(m))')
  BY <1>1, <1>2, <1>3 DEF Key, Steered
<1> QED
  BY <1>1, <1>4 DEF SteeringTaken

LEMMA ClearTakes ==
  ASSUME TypeOK, PlaceInv, NEW s \in Sessions, ClearScope(s)
  PROVE  SteeringTaken
<1>1. /\ steering \in [Sessions -> Seq(Msgs)]
      /\ steering' = [steering EXCEPT ![s] = <<>>]
      /\ fate' = [m \in Msgs |-> IF m \in Steered(s) THEN "cleared" ELSE fate[m]]
  BY DEF TypeOK, ClearScope, Steered
<1>2. \A m \in Steered(s) : Key(m) = s
  BY DEF PlaceInv, QueuesInv
<1>3. Steered(s)' = {}
  BY <1>1, EmptyIs DEF Steered
<1>4. \A m \in Msgs : fate'[m] \in Gone =>
        fate[m] \in Gone \/ (m \in Steered(Key(m)) /\ m \notin Steered(Key(m))')
  BY <1>1, <1>2, <1>3 DEF Key, Steered
<1> QED
  BY <1>1, <1>4 DEF SteeringTaken

LEMMA SettleTakes ==
  ASSUME TypeOK, UNCHANGED steering,
         UNCHANGED fate \/ \E m \in Msgs \cup {None}, f \in {"cancelled", "answered"} : Settle(m, f)
  PROVE  SteeringTaken
BY DEF TypeOK, SteeringTaken, Settle, Gone

\* The next message of a mailbox goes into the hand of the worker that owns it.
TakesNext(w) ==
  /\ pc[w] = "next" /\ pc' = [pc EXCEPT ![w] = "place"]
  /\ mailbox[Key(w)].queue # <<>>
  /\ cur' = [cur EXCEPT ![w] = Head(mailbox[Key(w)].queue)]
  /\ mailbox' = [mailbox EXCEPT ![Key(w)].queue = Tail(@)]
  /\ UNCHANGED <<dmsg, steering, fate>>

\* A worker's step puts no message anywhere, but for that one.
LEMMA WorkerTakes ==
  ASSUME TypeOK, PlaceInv, NEW w \in Msgs, Worker(w)
  PROVE  TakesNext(w) \/ (SteeringTaken /\ HandsTaken)
<1> USE DEF Goto, dispVars, workVars, histVars, HandsTaken, Working
<1>t. /\ pc \in [Msgs -> WorkerPCs] /\ cur \in [Msgs -> Msgs \cup {None}] /\ Key(w) \in Sessions
      /\ pc[w] # "none" => cur[w] \in Msgs
      /\ mailbox \in [Sessions -> Mailboxes]
      /\ WorkerStep(w)
  BY DispatchConstants, WorkerSteps DEF TypeOK, Key
<1>s. /\ pc[w] # "none" /\ dmsg' = dmsg
      /\ \A v \in Msgs : v # w => pc'[v] = pc[v]
  BY <1>t DEF WorkerStep
<1>1. CASE AcquireSlot(w) \/ RegisterTurn(w) \/ TakePendingStop(w) \/ LeaveTurnLoop(w) \/ FinishTurn(w)
           \/ DrainDone(w) \/ ContinueClaim(w) \/ ContinueGivesUp(w) \/ PlaceNext(w) \/ ReleaseSlot(w) \/ SafetyNet(w)
  <2>1. UNCHANGED <<steering, fate, mailbox, cur>>
    BY <1>1 DEF AcquireSlot, RegisterTurn, TakePendingStop, LeaveTurnLoop, FinishTurn, DrainDone, ContinueClaim,
                ContinueGivesUp, PlaceNext, ReleaseSlot, SafetyNet
  <2>2. Working(w)' => Working(w)
    BY <1>1, <1>t DEF AcquireSlot, RegisterTurn, TakePendingStop, LeaveTurnLoop, FinishTurn, DrainDone, ContinueClaim,
                ContinueGivesUp, PlaceNext, ReleaseSlot, SafetyNet
  <2> QED
    BY <1>s, <2>1, <2>2, SettleTakes
<1>2. CASE AcquireCancelled(w) \/ FailBeforeTurn(w) \/ AbortTurn(w) \/ FailTurn(w) \/ CancelTurn(w) \/ Publish(w)
           \/ CheckPendingStop(w)
  <2>1. UNCHANGED <<steering, mailbox, cur>>
    BY <1>2 DEF AcquireCancelled, FailBeforeTurn, AbortTurn, FailTurn, CancelTurn, Publish, CheckPendingStop
  <2>2. Working(w)' => Working(w)
    BY <1>2, <1>t DEF AcquireCancelled, FailBeforeTurn, AbortTurn, FailTurn, CancelTurn, Publish, AfterFailure,
                      CheckPendingStop
  <2>3. UNCHANGED fate \/ \E m \in Msgs \cup {None}, f \in {"cancelled", "answered"} : Settle(m, f)
    BY <1>2, <1>t DEF AcquireCancelled, FailBeforeTurn, AbortTurn, FailTurn, CancelTurn, Publish, CheckPendingStop
  <2> QED
    BY <1>s, <2>1, <2>2, <2>3, SettleTakes
<1>3. CASE RunCommand(w)
  <2>1. UNCHANGED <<mailbox, cur>> /\ pc[w] = "run"
    BY <1>3 DEF RunCommand
  <2>2. SteeringTaken
    <3>1. CASE ClearScope(Key(w))
      BY <1>t, <3>1, ClearTakes
    <3>2. CASE UNCHANGED <<steering, fate>>
      BY <3>2, SettleTakes
    <3> QED
      BY <1>3, <3>1, <3>2 DEF RunCommand
  <2> QED
    BY <1>s, <2>1, <2>2
<1>4. CASE PollSteering(w) \/ ContinueTurn(w)
  <2>1. /\ UNCHANGED <<mailbox, cur>> /\ pc[w] \in {"turn", "dequeue"}
        /\ Dequeue(Key(w))
    BY <1>4 DEF PollSteering, ContinueTurn, Register
  <2> QED
    BY <1>s, <1>t, <2>1, DequeueTakes
<1>5. CASE TakeNextMessage(w)
  <2>1. UNCHANGED <<steering, fate>> /\ pc[w] = "next"
    BY <1>5 DEF TakeNextMessage
  <2>2. CASE UNCHANGED cur /\ (UNCHANGED mailbox \/ mailbox' = MailboxAfterLast(Key(w)))
    <3>1. \A s \in Sessions : mailbox'[s].queue = mailbox[s].queue \/ mailbox'[s].queue = <<>>
      BY <1>t, <2>2 DEF MailboxAfterLast, NoMailbox
    <3> QED
      BY <1>s, <2>1, <2>2, <3>1, SettleTakes
  <2>3. CASE mailbox[Key(w)].queue # <<>> /\ pc' = [pc EXCEPT ![w] = "place"]
             /\ cur' = [cur EXCEPT ![w] = Head(mailbox[Key(w)].queue)]
             /\ mailbox' = [mailbox EXCEPT ![Key(w)].queue = Tail(@)]
    BY <1>s, <2>1, <2>3 DEF TakesNext
  <2> QED
    BY <1>5, <2>2, <2>3 DEF TakeNextMessage
<1>6. CASE ReleaseMailbox(w)
  <2>1. UNCHANGED <<steering, fate, cur>> /\ pc' = [pc EXCEPT ![w] = "done"]
    BY <1>6 DEF ReleaseMailbox
  <2>2. \A s \in Sessions : mailbox'[s].queue = mailbox[s].queue \/ mailbox'[s].queue = <<>>
    BY <1>6, <1>t DEF ReleaseMailbox, NoMailbox
  <2> QED
    BY <1>s, <1>t, <2>1, <2>2, SettleTakes
<1> QED
  BY <1>1, <1>2, <1>3, <1>4, <1>5, <1>6 DEF Worker, Turn

\* The head of a mailbox was in no hand and in no other queue.
LEMMA NextKeeps ==
  ASSUME TypeOK, TypeOK', PlaceInv, NEW w \in Msgs, TakesNext(w)
  PROVE  PlaceInv'
<1>1. PICK s \in Sessions : s = Key(w)
  BY DispatchConstants DEF Key
<1>2. /\ mailbox[s].queue \in Seq(Msgs) /\ mailbox[s].queue # <<>>
      /\ IsInjective(mailbox[s].queue) /\ \A x \in Queued(s) : Key(x) = s
      /\ Queued(s) \cap Steered(s) = {}
  BY <1>1, QueuesTyped DEF TakesNext, PlaceInv, QueuesInv
<1>3. PICK m \in Msgs : m = Head(mailbox[s].queue) /\ m \in Queued(s)
  BY <1>2, TailIs, RangeIs DEF Queued
<1>4. /\ mailbox \in [Sessions -> Mailboxes] /\ pc \in [Msgs -> WorkerPCs]
      /\ cur \in [Msgs -> Msgs \cup {None}]
  BY DEF TypeOK
<1>5. /\ mailbox'[s].queue = Tail(mailbox[s].queue)
      /\ \A r \in Sessions : r # s => mailbox'[r] = mailbox[r]
      /\ \A r \in Sessions : steering'[r] = steering[r]
  BY <1>1, <1>4 DEF TakesNext, Mailboxes
<1>6. /\ m \notin Queued(s)' /\ Queued(s)' \subseteq Queued(s) /\ IsInjective(mailbox'[s].queue)
  BY <1>2, <1>3, <1>5, TailIs DEF Queued
<1>7. /\ Key(m) = s /\ Waits(m) /\ ~Waits(m)'
      /\ \A x \in Msgs : Waits(x)' => Waits(x)
  <2>1. Key(m) = s /\ \A x \in Msgs : Key(x) \in Sessions
    BY <1>2, <1>3, DispatchConstants DEF Key
  <2>2. \A r \in Sessions : Queued(r)' \subseteq Queued(r) /\ Steered(r)' = Steered(r)
    BY <1>5, <1>6 DEF Queued, Steered
  <2> QED
    BY <1>2, <1>3, <1>6, <2>1, <2>2 DEF Waits, Key
<1>8. /\ pc[w] = "next" /\ pc'[w] = "place" /\ cur'[w] = m
      /\ \A v \in Msgs : v # w => pc'[v] = pc[v] /\ cur'[v] = cur[v]
      /\ dmsg' = dmsg /\ fate' = fate
  BY <1>1, <1>3, <1>4 DEF TakesNext
<1>9. /\ \A v \in Msgs : Working(v) => cur[v] # m
      /\ dmsg # m /\ fate[m] \notin Gone
  BY <1>7, DispatchConstants DEF PlaceInv, HandsInv, GoneInv
<1>10. QueuesInv'
  BY <1>5, <1>6 DEF PlaceInv, QueuesInv, Queued, Steered, Key
<1>11. HandsInv'
  <2>1. \A v \in Msgs : pc'[v] # "none" => Key(cur[v])' = Key(v)'
    BY <1>1, <1>7, <1>8 DEF PlaceInv, HandsInv, Key
  <2>2. \A u, v \in Msgs : Working(u)' /\ Working(v)' /\ cur'[u] = cur'[v] => u = v
    BY <1>8, <1>9 DEF PlaceInv, HandsInv, Working
  <2>3. \A v \in Msgs : Working(v)' => ~Waits(cur[v])' /\ cur'[v] # dmsg'
    <3> SUFFICES ASSUME NEW v \in Msgs, Working(v)' PROVE ~Waits(cur[v])' /\ cur'[v] # dmsg'
      OBVIOUS
    <3>1. CASE v = w
      BY <1>7, <1>8, <1>9, <3>1 DEF Waits, Key
    <3>2. CASE v # w
      <4>1. Working(v) /\ cur'[v] = cur[v]
        BY <1>8, <3>2 DEF Working
      <4>2. PICK x \in Msgs : x = cur[v]
        BY <4>1 DEF TypeOK, Working
      <4>3. ~Waits(x)' /\ x # dmsg
        BY <1>7, <4>1, <4>2 DEF PlaceInv, HandsInv
      <4> QED
        BY <1>8, <4>1, <4>2, <4>3 DEF Waits, Key
    <3> QED
      BY <3>1, <3>2
  <2>4. dmsg' # None => ~Waits(dmsg)'
    <3>1. CASE dmsg = None
      BY <1>8, <3>1
    <3>2. CASE dmsg # None
      <4>1. PICK x \in Msgs : x = dmsg
        BY <3>2 DEF TypeOK
      <4>2. ~Waits(x)'
        BY <1>7, <3>2, <4>1 DEF PlaceInv, HandsInv
      <4> QED
        BY <1>8, <4>1, <4>2 DEF Waits, Key
    <3> QED
      BY <3>1, <3>2
  <2> QED
    BY <2>1, <2>2, <2>3, <2>4 DEF HandsInv
<1>12. GoneInv'
  BY <1>7, <1>8, <1>9 DEF PlaceInv, GoneInv, Working
<1> QED
  BY <1>10, <1>11, <1>12 DEF PlaceInv

\* A received message was nowhere before.
LEMMA ReceiveKeeps ==
  ASSUME TypeOK, TypeOK', PlaceInv, NEW m \in Msgs, CanReceive(m), Received(m, "held"),
         dmsg' = m, UNCHANGED <<steering, pc, cur>>,
         \A s \in Sessions : mailbox'[s].queue = mailbox[s].queue \/ mailbox'[s].queue = <<>>
  PROVE  PlaceInv'
<1>0. \A x \in Msgs : Key(x) \in Sessions
  BY DispatchConstants DEF Key
<1>1. /\ fate[m] = "unseen" /\ dmsg = None /\ fate'[m] = "held"
      /\ \A x \in Msgs : x # m => fate'[x] = fate[x]
  BY DEF CanReceive, Received, TypeOK
<1>2. ~Waits(m) /\ \A w \in Msgs : Working(w) => cur[w] # m
  BY <1>1 DEF PlaceInv, GoneInv, Gone
<1>3. ASSUME NEW s \in Sessions
      PROVE  Queued(s)' \subseteq Queued(s) /\ Steered(s)' = Steered(s) /\ IsInjective(mailbox'[s].queue)
  <2>1. IsInjective(mailbox[s].queue)
    BY DEF PlaceInv, QueuesInv
  <2> QED
    BY <2>1, EmptyIs DEF Queued, Steered
<1>4. \A x \in Msgs : Waits(x)' => Waits(x)
  BY <1>0, <1>3 DEF Waits, Key
<1>5. QueuesInv'
  BY <1>3 DEF PlaceInv, QueuesInv, Key
<1>6. HandsInv'
  <2>1. \A w \in Msgs : Working(w)' => Working(w) /\ cur'[w] = cur[w] /\ cur[w] \in Msgs
    BY DEF Working, TypeOK
  <2>2. \A w \in Msgs : Working(w)' => ~Waits(cur[w])' /\ cur'[w] # dmsg'
    <3> SUFFICES ASSUME NEW w \in Msgs, Working(w)' PROVE ~Waits(cur[w])' /\ cur'[w] # dmsg'
      OBVIOUS
    <3>1. PICK x \in Msgs : x = cur[w] /\ x = cur'[w] /\ Working(w)
      BY <2>1
    <3>2. ~Waits(x)' /\ x # m
      BY <1>2, <1>4, <3>1 DEF PlaceInv, HandsInv
    <3> QED
      BY <3>1, <3>2 DEF Waits, Key
  <2>3. ~Waits(dmsg)'
    BY <1>2, <1>4 DEF Waits, Key
  <2> QED
    BY <2>1, <2>2, <2>3 DEF PlaceInv, HandsInv, Key
<1>7. GoneInv'
  BY <1>1, <1>4 DEF PlaceInv, GoneInv, Gone, Working
<1> QED
  BY <1>5, <1>6, <1>7 DEF PlaceInv

\* A message that waits nowhere goes to the end of one queue of its session, out of the
\* dispatcher's hand or as it is received.
LEMMA WaitKeeps ==
  ASSUME TypeOK, TypeOK', PlaceInv, NEW m \in Msgs, ~Waits(m),
         \A w \in Msgs : Working(w) => cur[w] # m,
         \A s \in Sessions : s # Key(m) => UNCHANGED <<mailbox[s].queue, steering[s]>>,
         \/ /\ mailbox'[Key(m)].queue = Append(mailbox[Key(m)].queue, m)
            /\ steering'[Key(m)] = steering[Key(m)]
         \/ /\ steering'[Key(m)] = Append(steering[Key(m)], m)
            /\ mailbox'[Key(m)].queue = mailbox[Key(m)].queue,
         dmsg \in {m, None}, dmsg' = None, UNCHANGED <<pc, cur>>,
         fate'[m] \notin Gone, \A x \in Msgs : x # m => fate'[x] = fate[x]
  PROVE  PlaceInv'
<1>1. PICK s \in Sessions : s = Key(m)
  BY DispatchConstants DEF Key
<1>2. /\ mailbox[s].queue \in Seq(Msgs) /\ steering[s] \in Seq(Msgs)
      /\ IsInjective(mailbox[s].queue) /\ IsInjective(steering[s])
      /\ Queued(s) \cap Steered(s) = {}
      /\ m \notin Queued(s) /\ m \notin Steered(s)
  BY <1>1, QueuesTyped DEF PlaceInv, QueuesInv, Waits
<1>3. /\ IsInjective(mailbox'[s].queue) /\ IsInjective(steering'[s])
      /\ Queued(s)' \cap Steered(s)' = {}
      /\ Queued(s)' \cup Steered(s)' = Queued(s) \cup Steered(s) \cup {m}
  <2>1. CASE /\ mailbox'[s].queue = Append(mailbox[s].queue, m)
             /\ steering'[s] = steering[s]
    <3>1. Queued(s)' = Queued(s) \cup {m} /\ Steered(s)' = Steered(s)
      BY <1>2, <2>1, AppendIs DEF Queued, Steered
    <3>2. IsInjective(mailbox'[s].queue)
      BY <1>2, <2>1, AppendIs DEF Queued
    <3> QED
      BY <1>2, <2>1, <3>1, <3>2
  <2>2. CASE /\ steering'[s] = Append(steering[s], m)
             /\ mailbox'[s].queue = mailbox[s].queue
    <3>1. Steered(s)' = Steered(s) \cup {m} /\ Queued(s)' = Queued(s)
      BY <1>2, <2>2, AppendIs DEF Queued, Steered
    <3>2. IsInjective(steering'[s])
      BY <1>2, <2>2, AppendIs DEF Steered
    <3> QED
      BY <1>2, <2>2, <3>1, <3>2
  <2> QED
    BY <1>1, <2>1, <2>2
<1>4. \A r \in Sessions : r # s => /\ mailbox'[r].queue = mailbox[r].queue /\ steering'[r] = steering[r]
                                   /\ Queued(r)' = Queued(r) /\ Steered(r)' = Steered(r)
  BY <1>1 DEF Queued, Steered
<1>5. QueuesInv'
  BY <1>1, <1>3, <1>4 DEF PlaceInv, QueuesInv, Key
<1>6. \A x \in Msgs : x # m /\ Waits(x)' => Waits(x)
  <2>1. \A x \in Msgs : Key(x) \in Sessions
    BY DispatchConstants DEF Key
  <2> QED
    BY <1>3, <1>4, <2>1 DEF Waits, Key
<1>7. HandsInv'
  <2>1. \A w \in Msgs : Working(w)' => Working(w) /\ cur'[w] = cur[w] /\ cur[w] \in Msgs
    BY DEF Working, TypeOK
  <2>2. \A w \in Msgs : Working(w)' => ~Waits(cur[w])' /\ cur'[w] # dmsg'
    <3> SUFFICES ASSUME NEW w \in Msgs, Working(w)' PROVE ~Waits(cur[w])' /\ cur'[w] # dmsg'
      OBVIOUS
    <3>1. PICK x \in Msgs : x = cur[w] /\ x = cur'[w] /\ Working(w)
      BY <2>1
    <3>2. ~Waits(x)' /\ x # None
      BY <1>6, <3>1, DispatchConstants DEF PlaceInv, HandsInv
    <3> QED
      BY <3>1, <3>2 DEF Waits, Key
  <2> QED
    BY <2>1, <2>2 DEF PlaceInv, HandsInv, Key
<1>8. GoneInv'
  BY <1>6, DispatchConstants DEF PlaceInv, GoneInv, Working
<1> QED
  BY <1>5, <1>7, <1>8 DEF PlaceInv

\* The message goes from the dispatcher's hand into its worker's, which had none.
LEMMA SpawnKeeps ==
  ASSUME TypeOK, TypeOK', PlaceInv, ClaimPending, SpawnWorker
  PROVE  PlaceInv'
<1>1. PICK m \in Msgs : m = dmsg /\ pc[m] = "none"
  BY DEF SpawnWorker, ClaimPending
<1>2. pc \in [Msgs -> WorkerPCs] /\ cur \in [Msgs -> Msgs \cup {None}] /\ m # None
  BY DispatchConstants DEF TypeOK
<1>3. /\ pc'[m] = "acquire" /\ cur'[m] = m /\ dmsg' = None
      /\ \A w \in Msgs : w # m => pc'[w] = pc[w] /\ cur'[w] = cur[w]
      /\ UNCHANGED <<mailbox, steering, fate>>
  BY <1>1, <1>2 DEF SpawnWorker, histVars
<1>4. \A x \in Msgs : Waits(x)' = Waits(x)
  BY <1>3 DEF Waits, Queued, Steered, Key
<1>5. ~Waits(m) /\ fate[m] \notin Gone /\ \A w \in Msgs : Working(w) => cur[w] # m
  BY <1>1, <1>2 DEF PlaceInv, HandsInv, GoneInv
<1>6. QueuesInv'
  BY <1>3 DEF PlaceInv, QueuesInv, Queued, Steered, Key
<1>7. HandsInv'
  <2>1. \A w \in Msgs : w # m /\ Working(w)' => Working(w) /\ cur'[w] = cur[w] /\ cur[w] \in Msgs
    BY <1>3 DEF Working, TypeOK
  <2>2. \A w \in Msgs : Working(w)' => ~Waits(cur[w])' /\ cur'[w] # dmsg'
    <3> SUFFICES ASSUME NEW w \in Msgs, Working(w)' PROVE ~Waits(cur[w])' /\ cur'[w] # dmsg'
      OBVIOUS
    <3>1. CASE w = m
      BY <1>2, <1>3, <1>4, <1>5, <3>1 DEF Waits, Key
    <3>2. CASE w # m
      <4>1. PICK x \in Msgs : x = cur[w] /\ x = cur'[w] /\ Working(w)
        BY <2>1, <3>2
      <4>2. ~Waits(x)' /\ x # None
        BY <1>4, <4>1, DispatchConstants DEF PlaceInv, HandsInv
      <4> QED
        BY <1>3, <4>1, <4>2 DEF Waits, Key
    <3> QED
      BY <3>1, <3>2
  <2>3. \A w \in Msgs : pc'[w] # "none" => Key(cur[w])' = Key(w)'
    BY <1>3 DEF PlaceInv, HandsInv, Key
  <2>4. \A v, w \in Msgs : Working(v)' /\ Working(w)' /\ cur'[v] = cur'[w] => v = w
    BY <1>3, <1>5, <2>1 DEF PlaceInv, HandsInv
  <2> QED
    BY <1>3, <2>2, <2>3, <2>4 DEF HandsInv
<1>8. GoneInv'
  BY <1>2, <1>3, <1>4, <1>5, DispatchConstants DEF PlaceInv, GoneInv, Working
<1> QED
  BY <1>6, <1>7, <1>8 DEF PlaceInv

LEMMA DispatcherPlaces ==
  ASSUME TypeOK, TypeOK', PlaceInv, ClaimPending, Dispatcher \/ \E m \in Msgs : Receive(m)
  PROVE  PlaceInv'
<1> USE DEF dispVars, workVars, histVars
<1>1. ASSUME NEW m \in Msgs, ClaimSession(m) \/ DivertMessage(m) \/ ReceiveSystem(m) PROVE PlaceInv'
  <2>1. CanReceive(m) /\ Received(m, "held") /\ dmsg' = m /\ UNCHANGED <<steering, pc, cur>>
    BY <1>1 DEF ClaimSession, DivertMessage, ReceiveSystem
  <2>2. \A s \in Sessions : mailbox'[s].queue = mailbox[s].queue \/ mailbox'[s].queue = <<>>
    BY SMTT(30), <1>1 DEF ClaimSession, DivertMessage, ReceiveSystem, TypeOK
  <2> QED
    BY <2>1, <2>2, ReceiveKeeps
<1>2. ASSUME NEW m \in Msgs, QueueIndependent(m) PROVE PlaceInv'
  <2>1. /\ fate[m] = "unseen" /\ dmsg = None /\ dmsg' = None /\ fate'[m] \notin Gone
        /\ \A x \in Msgs : x # m => fate'[x] = fate[x]
        /\ UNCHANGED <<steering, pc, cur>> /\ Key(m) \in Sessions
    BY <1>2, DispatchConstants DEF QueueIndependent, CanReceive, Received, TypeOK, Gone, Key
  <2>2. ~Waits(m) /\ \A w \in Msgs : Working(w) => cur[w] # m
    BY <2>1 DEF PlaceInv, GoneInv, Gone
  <2>3. /\ mailbox'[Key(m)].queue = Append(mailbox[Key(m)].queue, m)
        /\ \A s \in Sessions : s # Key(m) => UNCHANGED <<mailbox[s].queue, steering[s]>>
        /\ steering'[Key(m)] = steering[Key(m)]
    BY <1>2, <2>1 DEF QueueIndependent, TypeOK, Mailboxes
  <2> QED
    BY <2>1, <2>2, <2>3, WaitKeeps
<1>3. CASE EnqueueSteering
  <2>1. PICK m \in Msgs : m = dmsg /\ m # None
    BY <1>3, DispatchConstants DEF EnqueueSteering, TypeOK
  <2>2. ~Waits(m) /\ fate[m] \notin Gone /\ \A w \in Msgs : Working(w) => cur[w] # m
    BY <2>1 DEF PlaceInv, HandsInv, GoneInv
  <2>3. dmsg' = None /\ UNCHANGED <<mailbox, pc, cur>>
    BY <1>3 DEF EnqueueSteering
  <2>4. CASE steering' = [steering EXCEPT ![Key(m)] = Append(@, m)] /\ UNCHANGED fate
    <3>1. Key(m) \in Sessions
      BY DispatchConstants DEF Key
    <3>2. /\ steering'[Key(m)] = Append(steering[Key(m)], m)
          /\ mailbox'[Key(m)].queue = mailbox[Key(m)].queue
          /\ \A s \in Sessions : s # Key(m) => UNCHANGED <<mailbox[s].queue, steering[s]>>
      BY <2>3, <2>4, <3>1 DEF TypeOK
    <3>3. fate'[m] \notin Gone /\ \A x \in Msgs : x # m => fate'[x] = fate[x]
      BY <2>2, <2>4
    <3> QED
      BY <2>1, <2>2, <2>3, <3>2, <3>3, WaitKeeps
  <2>5. CASE fate' = [fate EXCEPT ![m] = "rejected"] /\ UNCHANGED steering
    <3>1. \A x \in Msgs : Waits(x)' = Waits(x) /\ (x # m => fate'[x] = fate[x])
      BY <2>3, <2>5 DEF Waits, Queued, Steered, Key
    <3>2. QueuesInv' /\ HandsInv'
      <4>1. \A w \in Msgs : Working(w)' => Working(w) /\ cur'[w] = cur[w] /\ cur[w] \in Msgs
        BY <2>3 DEF Working, TypeOK
      <4>2. \A w \in Msgs : Working(w)' => ~Waits(cur[w])' /\ cur'[w] # dmsg'
        BY <2>3, <2>5, <4>1, DispatchConstants DEF PlaceInv, HandsInv, Waits, Queued, Steered, Key
      <4> QED
        BY <2>3, <2>5, <4>1, <4>2 DEF PlaceInv, QueuesInv, HandsInv, Queued, Steered, Key
    <3>3. GoneInv'
      BY <2>2, <2>3, <3>1, DispatchConstants DEF PlaceInv, GoneInv, Working
    <3> QED
      BY <3>2, <3>3 DEF PlaceInv
  <2> QED
    BY <1>3, <2>1, <2>4, <2>5 DEF EnqueueSteering
<1>4. CASE ProcessMessageSync \/ StopAck
  <2>1. UNCHANGED steering /\ Settle(dmsg, "answered") /\ dmsg \in Msgs \cup {None}
    BY <1>4 DEF ProcessMessageSync, StopAck, Settle, TypeOK
  <2>2. HandsTaken
    BY <1>4 DEF ProcessMessageSync, StopAck, HandsTaken, Working
  <2> QED
    BY <2>1, <2>2, SettleTakes, TakenKeeps
<1>5. CASE StopLook \/ StopAbort \/ StopRecheck \/ StopArm \/ MarkPendingStop
  <2>1. UNCHANGED <<steering, fate>> /\ HandsTaken
    BY <1>5 DEF StopLook, StopAbort, StopRecheck, StopArm, MarkPendingStop, HandsTaken, Working
  <2> QED
    BY <2>1, SettleTakes, TakenKeeps
<1>6. CASE StopClear
  <2>1. Key(dmsg) \in Sessions /\ ClearScope(Key(dmsg)) /\ HandsTaken
    BY <1>6, DispatchConstants DEF StopClear, Key, TypeOK, HandsTaken, Working
  <2> QED
    BY <2>1, ClearTakes, TakenKeeps
<1> QED
  BY <1>1, <1>2, <1>3, <1>4, <1>5, <1>6, SpawnKeeps DEF Dispatcher, HandleStop, Receive

LEMMA PlaceStep == TypeOK /\ TypeOK' /\ PlaceInv /\ ClaimPending /\ [Next]_vars => PlaceInv'
<1> SUFFICES ASSUME TypeOK, TypeOK', PlaceInv, ClaimPending, [Next]_vars PROVE PlaceInv'
  OBVIOUS
<1>1. ASSUME NEW w \in Msgs, Worker(w) PROVE PlaceInv'
  BY <1>1, WorkerTakes, NextKeeps, TakenKeeps
<1>2. CASE Shutdown \/ UNCHANGED vars
  <2>1. UNCHANGED <<steering, fate>> /\ HandsTaken
    BY <1>2 DEF Shutdown, vars, dispVars, workVars, histVars, HandsTaken, Working
  <2> QED
    BY <2>1, SettleTakes, TakenKeeps
<1> QED
  BY <1>1, <1>2, DispatcherPlaces DEF Next, Idle

LEMMA PlaceInit == Init => PlaceInv
<1> SUFFICES ASSUME Init PROVE PlaceInv
  OBVIOUS
<1>1. \A s \in Sessions : mailbox[s].queue = <<>> /\ steering[s] = <<>>
  BY DEF Init, NoMailbox
<1>2. QueuesInv
  BY <1>1, EmptyIs DEF QueuesInv, Queued, Steered
<1>3. HandsInv
  BY DEF HandsInv, Init, Working
<1>4. \A m \in Msgs : ~Waits(m)
  BY <1>1, EmptyIs, DispatchConstants DEF Waits, Queued, Steered, Key
<1>5. GoneInv
  BY <1>4, DispatchConstants DEF GoneInv, Init, Working
<1> QED
  BY <1>2, <1>3, <1>5 DEF PlaceInv

\* A message with one home: the places of PlaceInv are those of Homes.
LEMMA PlaceHomes ==
  ASSUME TypeOK, PlaceInv, NEW m \in Msgs
  PROVE  /\ \A g, h \in Homes(m) : g = h
         /\ fate[m] \in Gone => Homes(m) = {}
<1>1. PICK s \in Sessions : s = Key(m)
  BY DispatchConstants DEF Key
<1>2. mailbox[s].queue \in Seq(Msgs) /\ steering[s] \in Seq(Msgs) /\ m # None
  BY QueuesTyped, DispatchConstants
<1>3. /\ \A i \in DOMAIN mailbox[s].queue : mailbox[s].queue[i] = m => m \in Queued(s)
      /\ \A i \in DOMAIN steering[s] : steering[s][i] = m => m \in Steered(s)
  BY <1>2, RangeIs DEF Queued, Steered
<1>4. /\ \A i, j \in DOMAIN mailbox[s].queue : mailbox[s].queue[i] = m /\ mailbox[s].queue[j] = m => i = j
      /\ \A i, j \in DOMAIN steering[s] : steering[s][i] = m /\ steering[s][j] = m => i = j
  BY DEF PlaceInv, QueuesInv, IsInjective
<1>5. \A h : h \in Homes(m) <=>
        \/ dmsg = m /\ h = <<"dispatcher", m>>
        \/ \E w \in Msgs : Working(w) /\ cur[w] = m /\ h = <<"worker", w>>
        \/ \E i \in DOMAIN mailbox[s].queue : mailbox[s].queue[i] = m /\ h = <<"mailbox", i>>
        \/ \E i \in DOMAIN steering[s] : steering[s][i] = m /\ h = <<"steering", i>>
  BY <1>1 DEF Homes
<1>6. /\ m \in Queued(s) => m \notin Steered(s)
      /\ m \in Queued(s) \cup Steered(s) => dmsg # m /\ \A w \in Msgs : Working(w) => cur[w] # m
      /\ \A w \in Msgs : Working(w) /\ cur[w] = m => dmsg # m
      /\ \A v, w \in Msgs : Working(v) /\ Working(w) /\ cur[v] = m /\ cur[w] = m => v = w
  BY <1>1, <1>2 DEF PlaceInv, QueuesInv, HandsInv, Waits
<1>7. ASSUME NEW g \in Homes(m), NEW h \in Homes(m) PROVE g = h
  <2>1. CASE m \in Queued(s) \cup Steered(s)
    BY <1>3, <1>4, <1>5, <1>6, <1>7, <2>1
  <2>2. CASE m \notin Queued(s) \cup Steered(s)
    BY <1>3, <1>5, <1>6, <1>7, <2>2
  <2> QED
    BY <2>1, <2>2
<1>8. ASSUME fate[m] \in Gone PROVE Homes(m) = {}
  <2>1. dmsg # m /\ m \notin Queued(s) \cup Steered(s) /\ \A w \in Msgs : Working(w) => cur[w] # m
    BY <1>1, <1>8 DEF PlaceInv, GoneInv, Waits
  <2>2. \A h : h \notin Homes(m)
    BY <1>3, <1>5, <2>1
  <2> QED
    BY <2>2
<1> QED
  BY <1>7, <1>8

\* HandledOnce holds in every reachable state, for any mix of channels: no interleaving
\* of claim, mailbox, steering queue, /stop, panic and shutdown leaves a message in two
\* places that would each handle it, or in any place once it was merged, cleared or
\* rejected.
THEOREM HandledOnceCorrect == Spec => []HandledOnce
<1>1. TypeOK /\ PlaceInv => HandledOnce
  BY PlaceHomes DEF HandledOnce, Gone
<1>2. Init => ClaimPending
  BY DEF Init, ClaimPending
<1> QED
  BY <1>1, <1>2, PlaceInit, PlaceStep, ClaimPendingStep, TypeCorrect, PTL DEF Spec

(***************************************************************************)
(* The order of the messages of a session that lines up                    *)
(***************************************************************************)
\* a comes before b in the sequence l; Before is this for the log.
InOrder(l, a, b) == \E i, j \in DOMAIN l : i < j /\ l[i] = a /\ l[j] = b
OrderedBy(l, q) == \A i, j \in 1..Len(q) : i < j => InOrder(l, q[i], q[j])

\* Everything of m's session in the sequence g was received before m.
LaterThan(l, g, m) == \A b \in Range(g) : Key(b) = Key(m) => InOrder(l, b, m)

\* The worker has a message that it has not begun.
Waiting(w) == pc[w] \in {"acquire", "check", "run", "place"}

\* What was received is in the log, and only that was begun.
SeenInv ==
  /\ \A m \in Msgs : fate[m] # "unseen" => m \in Range(log)
  /\ \A b \in Range(begun) : fate[b] # "unseen"

\* A message that waits comes after all that its session has begun, and before all that
\* waits behind it.
QueuesOrdered(L) ==
  \A s \in L : /\ OrderedBy(log, mailbox[s].queue)
               /\ \A m \in Queued(s) : LaterThan(log, begun, m)
WaitingOrdered(L) ==
  \A w \in Msgs : Key(w) \in L /\ Waiting(w) =>
    /\ LaterThan(log, begun, cur[w])
    /\ \A m \in Queued(Key(w)) : InOrder(log, cur[w], m)
StoreOrdered(L) ==
  dpc = "store" /\ Key(dmsg) \in L => LaterThan(log, begun, dmsg) /\ mailbox[Key(dmsg)].queue = <<>>

\* The messages of a session of L were begun in the order they were received.
OrderedIn(L) ==
  \A i, j \in DOMAIN begun :
    i < j /\ Key(begun[i]) = Key(begun[j]) /\ Key(begun[i]) \in L => Before(begun[i], begun[j])

OrderInv(L) == SeenInv /\ QueuesOrdered(L) /\ WaitingOrdered(L) /\ StoreOrdered(L) /\ OrderedIn(L)

\* A longer log keeps the order of the old messages and puts the new one behind them.
LEMMA InOrderGrows ==
  ASSUME NEW l \in Seq(Msgs), NEW m \in Msgs
  PROVE  /\ \A a, b : InOrder(l, a, b) => InOrder(Append(l, m), a, b)
         /\ \A a \in Range(l) : InOrder(Append(l, m), a, m)
<1> DEFINE r == Append(l, m)
<1>1. /\ r \in Seq(Msgs) /\ Len(r) = Len(l) + 1 /\ r[Len(l) + 1] = m /\ Len(l) \in Nat
      /\ \A i \in 1..Len(l) : r[i] = l[i]
  OBVIOUS
<1> HIDE DEF r
<1>2. DOMAIN r = 1..Len(r) /\ DOMAIN l = 1..Len(l)
  BY <1>1
<1>3. \A i \in 1..Len(l) : i \in 1..Len(r) /\ i < Len(l) + 1
  BY <1>1
<1>4. Len(l) + 1 \in 1..Len(r)
  BY <1>1
<1>5. \A a, b : InOrder(l, a, b) => InOrder(r, a, b)
  BY <1>1, <1>2, <1>3 DEF InOrder
<1>6. \A a \in Range(l) : InOrder(r, a, m)
  <2> SUFFICES ASSUME NEW a \in Range(l) PROVE InOrder(r, a, m)
    OBVIOUS
  <2>1. PICK i \in 1..Len(l) : l[i] = a
    BY RangeIs
  <2>2. i \in DOMAIN r /\ Len(l) + 1 \in DOMAIN r /\ i < Len(l) + 1 /\ r[i] = a /\ r[Len(l) + 1] = m
    BY <1>1, <1>2, <1>3, <1>4, <2>1
  <2> QED
    BY <2>2 DEF InOrder
<1> QED
  BY <1>5, <1>6 DEF r

LEMMA OrderedAppend ==
  ASSUME NEW l, NEW q \in Seq(Msgs), NEW m \in Msgs,
         OrderedBy(l, q), \A x \in Range(q) : InOrder(l, x, m)
  PROVE  OrderedBy(l, Append(q, m))
<1> DEFINE r == Append(q, m)
<1>1. /\ Len(r) = Len(q) + 1 /\ r[Len(q) + 1] = m /\ Len(q) \in Nat
      /\ \A i \in 1..Len(q) : r[i] = q[i]
  OBVIOUS
<1> HIDE DEF r
<1>2. ASSUME NEW i \in 1..Len(r), NEW j \in 1..Len(r), i < j PROVE InOrder(l, r[i], r[j])
  <2>1. i \in 1..Len(q) /\ r[i] = q[i] /\ q[i] \in Range(q)
    BY <1>1, <1>2, RangeIs
  <2>2. CASE j \in 1..Len(q)
    BY <1>1, <1>2, <2>1, <2>2 DEF OrderedBy
  <2>3. CASE j = Len(q) + 1
    BY <1>1, <2>1, <2>3
  <2> QED
    BY <1>1, <2>2, <2>3
<1> QED
  BY <1>2 DEF OrderedBy, r

LEMMA OrderedTail ==
  ASSUME NEW l, NEW q \in Seq(Msgs), q # <<>>, OrderedBy(l, q)
  PROVE  OrderedBy(l, Tail(q)) /\ \A x \in Range(Tail(q)) : InOrder(l, Head(q), x)
<1> DEFINE r == Tail(q)
<1>1. /\ r \in Seq(Msgs) /\ Len(q) \in Nat \ {0} /\ Len(r) = Len(q) - 1 /\ Head(q) = q[1]
      /\ \A i \in 1..Len(r) : r[i] = q[i + 1]
  OBVIOUS
<1> HIDE DEF r
<1>2. \A i \in 1..Len(r) : i + 1 \in 1..Len(q) /\ 1 < i + 1 /\ 1 \in 1..Len(q)
  BY <1>1
<1>3. \A i, j \in 1..Len(r) : i < j => i + 1 < j + 1
  BY <1>1
<1>4. OrderedBy(l, r)
  BY <1>1, <1>2, <1>3 DEF OrderedBy
<1>5. \A x \in Range(r) : InOrder(l, Head(q), x)
  <2> SUFFICES ASSUME NEW x \in Range(r) PROVE InOrder(l, Head(q), x)
    OBVIOUS
  <2>1. PICK i \in 1..Len(r) : r[i] = x
    BY <1>1, RangeIs
  <2> QED
    BY <1>1, <1>2, <2>1 DEF OrderedBy
<1> QED
  BY <1>4, <1>5 DEF r

\* A step that begins nothing, receives nothing and lets nobody wait who did not.
Passes ==
  /\ UNCHANGED <<log, begun>>
  /\ \A s \in Sessions : mailbox'[s].queue = mailbox[s].queue \/ mailbox'[s].queue = <<>>
  /\ \A w \in Msgs : Waiting(w)' => Waiting(w) /\ cur'[w] = cur[w]
  /\ dpc' = "store" => dpc = "store" /\ dmsg' = dmsg
  /\ \A m \in Msgs : fate'[m] = "unseen" <=> fate[m] = "unseen"

LEMMA PassesKeeps ==
  ASSUME NEW L \in SUBSET Sessions, TypeOK, TypeOK', OrderInv(L), Passes
  PROVE  OrderInv(L)'
<1>1. SeenInv' /\ OrderedIn(L)'
  <2>1. Range(begun) \subseteq Msgs
    BY RangeIs DEF TypeOK
  <2> QED
    BY <2>1 DEF Passes, OrderInv, SeenInv, OrderedIn, Before, Key
<1>2. ASSUME NEW s \in L
      PROVE  Queued(s)' \subseteq Queued(s) /\ OrderedBy(log', mailbox'[s].queue)
  <2>1. CASE mailbox'[s].queue = mailbox[s].queue
    BY <2>1 DEF Passes, OrderInv, QueuesOrdered, Queued
  <2>2. CASE mailbox'[s].queue = <<>>
    BY <2>2, EmptyIs DEF Queued, OrderedBy
  <2> QED
    BY <2>1, <2>2 DEF Passes
<1>3. QueuesOrdered(L)'
  BY <1>2 DEF Passes, OrderInv, QueuesOrdered, LaterThan, Key
<1>4. WaitingOrdered(L)'
  BY <1>2 DEF Passes, OrderInv, WaitingOrdered, LaterThan, Key
<1>5. StoreOrdered(L)'
  <2>1. dpc' = "store" => Key(dmsg) \in Sessions /\ dmsg' = dmsg /\ dpc = "store"
    BY DispatchConstants DEF Key, Passes, TypeOK
  <2>2. dpc' = "store" /\ Key(dmsg) \in L => mailbox'[Key(dmsg)].queue = <<>>
    BY <2>1 DEF Passes, OrderInv, StoreOrdered
  <2> QED
    BY <2>1, <2>2 DEF Passes, OrderInv, StoreOrdered, LaterThan, Key
<1> QED
  BY <1>1, <1>3, <1>4, <1>5 DEF OrderInv

\* The reception of m, which comes after all that was seen.
Receives(m) ==
  /\ fate[m] = "unseen" /\ fate' = [fate EXCEPT ![m] = "held"]
  /\ log' = Append(log, m) /\ UNCHANGED <<begun, pc, cur>>

LEMMA ReceivesOrder ==
  ASSUME NEW L \in SUBSET Sessions,
         TypeOK, TypeOK', PlaceInv, OrderInv(L), NEW m \in Msgs, Receives(m)
  PROVE  /\ SeenInv' /\ OrderedIn(L)'
         /\ \A a, b : InOrder(log, a, b) => InOrder(log', a, b)
         /\ \A x \in Msgs : LaterThan(log, begun, x) => LaterThan(log', begun', x)
         /\ \A x \in Msgs : fate[x] # "unseen" => InOrder(log', x, m)
         /\ LaterThan(log', begun', m)
<1>1. /\ log \in Seq(Msgs) /\ begun \in Seq(Msgs) /\ fate \in [Msgs -> Fates]
      /\ log' = Append(log, m) /\ begun' = begun
      /\ fate'[m] = "held" /\ \A x \in Msgs : x # m => fate'[x] = fate[x]
  BY DEF TypeOK, Receives
<1>2. Range(log') = Range(log) \cup {m} /\ Range(begun) \subseteq Msgs
  BY <1>1, AppendIs, RangeIs
<1>3. /\ \A a, b : InOrder(log, a, b) => InOrder(log', a, b)
      /\ \A a \in Range(log) : InOrder(log', a, m)
  BY <1>1, InOrderGrows
<1>4. SeenInv'
  BY <1>1, <1>2 DEF OrderInv, SeenInv
<1>5. OrderedIn(L)'
  <2>1. \A i, j \in DOMAIN begun :
          i < j /\ Key(begun[i]) = Key(begun[j]) /\ Key(begun[i]) \in L => InOrder(log, begun[i], begun[j])
    BY DEF OrderInv, OrderedIn, Before, InOrder
  <2>2. \A i, j \in DOMAIN begun :
          i < j /\ Key(begun[i]) = Key(begun[j]) /\ Key(begun[i]) \in L => InOrder(log', begun[i], begun[j])
    BY <1>3, <2>1
  <2> QED
    BY SMTT(30), <1>1, <2>2 DEF OrderedIn, Before, InOrder, Key
<1>6. \A x \in Msgs : fate[x] # "unseen" => InOrder(log', x, m)
  BY <1>3 DEF OrderInv, SeenInv
<1>7. LaterThan(log', begun', m)
  BY <1>1, <1>2, <1>6 DEF OrderInv, SeenInv, LaterThan
<1>8. \A x \in Msgs : LaterThan(log, begun, x) => LaterThan(log', begun', x)
  BY <1>1, <1>3 DEF LaterThan
<1> QED
  BY <1>3, <1>4, <1>5, <1>6, <1>7, <1>8

\* A message the dispatcher takes for itself: it claims, or leaves the mailbox alone.
LEMMA TakenOrder ==
  ASSUME NEW L \in SUBSET Sessions,
         TypeOK, TypeOK', PlaceInv, OrderInv(L), NEW m \in Msgs, Receives(m),
         \A s \in Sessions : mailbox'[s].queue = mailbox[s].queue \/ mailbox'[s].queue = <<>>,
         dpc' = "store" => dmsg' = m /\ mailbox'[Key(m)].queue = <<>>
  PROVE  OrderInv(L)'
<1>1. /\ SeenInv' /\ OrderedIn(L)' /\ LaterThan(log', begun', m)
      /\ \A a, b : InOrder(log, a, b) => InOrder(log', a, b)
      /\ \A x \in Msgs : LaterThan(log, begun, x) => LaterThan(log', begun', x)
  BY ReceivesOrder
<1>2. ASSUME NEW s \in L
      PROVE  /\ Queued(s)' \subseteq Queued(s) /\ Queued(s) \subseteq Msgs
             /\ OrderedBy(log', mailbox'[s].queue)
  <2>1. Queued(s) \subseteq Msgs
    BY QueuesTyped, RangeIs DEF Queued
  <2>2. CASE mailbox'[s].queue = mailbox[s].queue
    BY <1>1, <2>1, <2>2 DEF OrderInv, QueuesOrdered, Queued, OrderedBy
  <2>3. CASE mailbox'[s].queue = <<>>
    BY <2>1, <2>3, EmptyIs DEF Queued, OrderedBy
  <2> QED
    BY <2>2, <2>3
<1>3. QueuesOrdered(L)'
  <2> SUFFICES ASSUME NEW s \in L, NEW x \in Queued(s)' PROVE LaterThan(log', begun', x)
    BY <1>2 DEF QueuesOrdered, LaterThan, Key
  <2>1. x \in Queued(s) /\ x \in Msgs
    BY <1>2
  <2> QED
    BY <1>1, <2>1 DEF OrderInv, QueuesOrdered
<1>4. WaitingOrdered(L)'
  <2> SUFFICES ASSUME NEW w \in Msgs, Key(w) \in L, Waiting(w)'
               PROVE  /\ LaterThan(log', begun', cur'[w])
                      /\ \A x \in Queued(Key(w))' : InOrder(log', cur'[w], x)
    BY DEF WaitingOrdered, LaterThan, Key, Queued
  <2>1. Waiting(w) /\ cur'[w] = cur[w] /\ cur[w] \in Msgs /\ Key(w) \in Sessions
    BY DispatchConstants DEF Receives, Waiting, TypeOK, Key
  <2>2. LaterThan(log, begun, cur[w]) /\ \A x \in Queued(Key(w)) : InOrder(log, cur[w], x)
    BY <2>1 DEF OrderInv, WaitingOrdered
  <2>3. Queued(Key(w))' \subseteq Queued(Key(w))
    BY <1>2, <2>1 DEF Key
  <2> QED
    BY <1>1, <2>1, <2>2, <2>3
<1>5. StoreOrdered(L)'
  BY <1>1 DEF StoreOrdered, LaterThan, Key
<1> QED
  BY <1>1, <1>3, <1>4, <1>5 DEF OrderInv

\* A message that waits behind the turn of its session.
LEMMA QueuedOrder ==
  ASSUME NEW L \in SUBSET Sessions,
         TypeOK, TypeOK', PlaceInv, OrderInv(L), NEW m \in Msgs, QueueIndependent(m)
  PROVE  OrderInv(L)'
<1>0. /\ Receives(m) /\ Key(m) \in Sessions /\ dpc' = "recv"
      /\ mailbox'[Key(m)].queue = Append(mailbox[Key(m)].queue, m)
      /\ \A s \in Sessions : s # Key(m) => mailbox'[s] = mailbox[s]
  BY DispatchConstants DEF QueueIndependent, CanReceive, Received, Receives, TypeOK, Mailboxes, Key,
                           dispVars, workVars
<1>1. /\ SeenInv' /\ OrderedIn(L)' /\ LaterThan(log', begun', m)
      /\ \A a, b : InOrder(log, a, b) => InOrder(log', a, b)
      /\ \A x \in Msgs : LaterThan(log, begun, x) => LaterThan(log', begun', x)
      /\ \A x \in Msgs : fate[x] # "unseen" => InOrder(log', x, m)
  BY <1>0, ReceivesOrder
<1>2. ASSUME NEW s \in L
      PROVE  /\ Queued(s) \subseteq Msgs /\ Queued(s)' = (IF s = Key(m) THEN Queued(s) \cup {m} ELSE Queued(s))
             /\ OrderedBy(log', mailbox'[s].queue)
  <2>1. mailbox[s].queue \in Seq(Msgs) /\ Queued(s) \subseteq Msgs
    BY QueuesTyped, RangeIs DEF Queued
  <2>2. OrderedBy(log', mailbox[s].queue)
    BY <1>1 DEF OrderInv, QueuesOrdered, OrderedBy
  <2>3. CASE s = Key(m)
    <3>1. \A x \in Queued(s) : fate[x] # "unseen"
      BY <2>1 DEF PlaceInv, QueuesInv, GoneInv, Gone, Waits
    <3>2. \A x \in Queued(s) : InOrder(log', x, m)
      BY <1>1, <2>1, <3>1
    <3>3. mailbox'[s].queue = Append(mailbox[s].queue, m)
      BY <1>0, <2>3
    <3>4. OrderedBy(log', Append(mailbox[s].queue, m))
      BY <2>1, <2>2, <3>2, OrderedAppend DEF Queued
    <3>5. Queued(s)' = Queued(s) \cup {m}
      BY <2>1, <3>3, AppendIs DEF Queued
    <3> QED
      BY <2>1, <2>3, <3>3, <3>4, <3>5
  <2>4. CASE s # Key(m)
    BY <1>0, <2>1, <2>2, <2>4 DEF Queued
  <2> QED
    BY <2>3, <2>4
<1>3. QueuesOrdered(L)'
  <2> SUFFICES ASSUME NEW s \in L, NEW x \in Queued(s)' PROVE LaterThan(log', begun', x)
    BY <1>2 DEF QueuesOrdered, LaterThan, Key
  <2>1. x = m \/ (x \in Queued(s) /\ x \in Msgs)
    BY <1>2
  <2> QED
    BY <1>1, <2>1 DEF OrderInv, QueuesOrdered
<1>4. WaitingOrdered(L)'
  <2> SUFFICES ASSUME NEW w \in Msgs, Key(w) \in L, Waiting(w)'
               PROVE  /\ LaterThan(log', begun', cur'[w])
                      /\ \A x \in Queued(Key(w))' : InOrder(log', cur'[w], x)
    BY DEF WaitingOrdered, LaterThan, Key, Queued
  <2>1. Waiting(w) /\ cur'[w] = cur[w] /\ cur[w] \in Msgs /\ Key(w) \in Sessions
    BY <1>0, DispatchConstants DEF Receives, Waiting, TypeOK, Key
  <2>2. LaterThan(log, begun, cur[w]) /\ \A x \in Queued(Key(w)) : InOrder(log, cur[w], x)
    BY <2>1 DEF OrderInv, WaitingOrdered
  <2>3. fate[cur[w]] # "unseen"
    BY <2>1 DEF PlaceInv, GoneInv, Gone, Waiting, Working
  <2>4. \A x \in Queued(Key(w))' : x \in Queued(Key(w)) \/ x = m
    BY <1>2, <2>1 DEF Key
  <2> QED
    BY <1>1, <2>1, <2>2, <2>3, <2>4
<1>5. StoreOrdered(L)'
  BY <1>0 DEF StoreOrdered
<1> QED
  BY <1>1, <1>3, <1>4, <1>5 DEF OrderInv

\* The claimed message goes to its worker, with an empty queue behind it.
LEMMA SpawnOrder ==
  ASSUME NEW L \in SUBSET Sessions, TypeOK, TypeOK', ClaimPending, OrderInv(L), SpawnWorker
  PROVE  OrderInv(L)'
<1>1. PICK m \in Msgs : m = dmsg
  BY DEF SpawnWorker, ClaimPending
<1>2. /\ pc'[m] = "acquire" /\ cur'[m] = m /\ dpc' = "recv"
      /\ \A w \in Msgs : w # m => pc'[w] = pc[w] /\ cur'[w] = cur[w]
      /\ UNCHANGED <<mailbox, fate, log, begun>>
  BY <1>1 DEF SpawnWorker, TypeOK, histVars
<1>3. Key(m) \in L => LaterThan(log, begun, m) /\ mailbox[Key(m)].queue = <<>>
  BY <1>1 DEF SpawnWorker, OrderInv, StoreOrdered
<1>4. SeenInv' /\ OrderedIn(L)' /\ QueuesOrdered(L)'
  BY <1>2 DEF OrderInv, SeenInv, OrderedIn, QueuesOrdered, Before, LaterThan, Queued, Key
<1>5. WaitingOrdered(L)'
  <2> SUFFICES ASSUME NEW w \in Msgs, Key(w) \in L, Waiting(w)'
               PROVE  /\ LaterThan(log, begun, cur'[w])
                      /\ \A x \in Queued(Key(w)) : InOrder(log, cur'[w], x)
    BY <1>2 DEF WaitingOrdered, LaterThan, Key, Queued
  <2>1. CASE w = m
    BY <1>2, <1>3, <2>1, EmptyIs DEF Queued
  <2>2. CASE w # m
    BY <1>2, <2>2 DEF OrderInv, WaitingOrdered, Waiting
  <2> QED
    BY <2>1, <2>2
<1>6. StoreOrdered(L)'
  BY <1>2 DEF StoreOrdered
<1> QED
  BY <1>4, <1>5, <1>6 DEF OrderInv

\* The head of the queue comes before the rest of it.
LEMMA NextOrder ==
  ASSUME NEW L \in SUBSET Sessions,
         TypeOK, TypeOK', OrderInv(L), NEW w \in Msgs, TakesNext(w), UNCHANGED <<dpc, log, begun>>
  PROVE  OrderInv(L)'
<1>1. PICK s \in Sessions : s = Key(w)
  BY DispatchConstants DEF Key
<1>2. /\ mailbox[s].queue \in Seq(Msgs) /\ mailbox[s].queue # <<>>
      /\ s \in L => OrderedBy(log, mailbox[s].queue)
  BY <1>1, QueuesTyped DEF TakesNext, OrderInv, QueuesOrdered
<1>3. PICK m \in Msgs : m = Head(mailbox[s].queue) /\ m \in Queued(s)
  BY <1>2, TailIs, RangeIs DEF Queued
<1>4. /\ mailbox'[s].queue = Tail(mailbox[s].queue)
      /\ \A r \in Sessions : r # s => mailbox'[r] = mailbox[r]
  BY <1>1 DEF TakesNext, TypeOK, Mailboxes
<1>5. /\ Queued(s)' \subseteq Queued(s)
      /\ s \in L => OrderedBy(log, mailbox'[s].queue) /\ \A x \in Queued(s)' : InOrder(log, m, x)
  <2>1. Queued(s)' \subseteq Queued(s)
    BY <1>2, <1>4, TailIs DEF Queued
  <2>2. s \in L => OrderedBy(log, Tail(mailbox[s].queue))
                     /\ \A x \in Range(Tail(mailbox[s].queue)) : InOrder(log, m, x)
    BY <1>2, <1>3, OrderedTail
  <2> QED
    BY <1>4, <2>1, <2>2 DEF Queued
<1>6. /\ pc'[w] = "place" /\ cur'[w] = m /\ dmsg' = dmsg /\ fate' = fate
      /\ \A v \in Msgs : v # w => pc'[v] = pc[v] /\ cur'[v] = cur[v]
  BY <1>1, <1>3 DEF TakesNext, TypeOK
<1>7. \A r \in L : Queued(r)' \subseteq Queued(r) /\ OrderedBy(log, mailbox'[r].queue)
  BY <1>4, <1>5 DEF Queued, OrderInv, QueuesOrdered
<1>8. SeenInv' /\ OrderedIn(L)' /\ QueuesOrdered(L)'
  BY <1>6, <1>7 DEF OrderInv, SeenInv, OrderedIn, QueuesOrdered, Before, LaterThan, Key
<1>9. WaitingOrdered(L)'
  <2> SUFFICES ASSUME NEW v \in Msgs, Key(v) \in L, Waiting(v)'
               PROVE  /\ LaterThan(log, begun, cur'[v])
                      /\ \A x \in Queued(Key(v))' : InOrder(log, cur'[v], x)
    BY DEF WaitingOrdered, LaterThan, Key, Queued
  <2>1. CASE v = w
    <3>1. s \in L
      BY <1>1, <2>1 DEF Key
    <3>2. LaterThan(log, begun, m)
      BY <1>3, <3>1 DEF OrderInv, QueuesOrdered
    <3> QED
      BY <1>1, <1>5, <1>6, <2>1, <3>1, <3>2 DEF Queued, Key
  <2>2. CASE v # w
    <3>1. Waiting(v) /\ Key(v) \in Sessions
      BY <1>6, <2>2, DispatchConstants DEF Waiting, Key
    <3> QED
      BY <1>6, <1>7, <2>2, <3>1 DEF OrderInv, WaitingOrdered, Key
  <2> QED
    BY <2>1, <2>2
<1>10. StoreOrdered(L)'
  <2> SUFFICES ASSUME dpc = "store", Key(dmsg) \in L PROVE LaterThan(log, begun, dmsg) /\ mailbox'[Key(dmsg)].queue = <<>>
    BY <1>6 DEF StoreOrdered, LaterThan, Key
  <2>1. LaterThan(log, begun, dmsg) /\ mailbox[Key(dmsg)].queue = <<>> /\ Key(dmsg) \in Sessions
    BY DispatchConstants DEF OrderInv, StoreOrdered, TypeOK, Key
  <2>2. Key(dmsg) # s
    BY <1>2, <2>1
  <2> QED
    BY <1>4, <2>1, <2>2
<1> QED
  BY <1>8, <1>9, <1>10 DEF OrderInv

\* A worker begins its message: a turn, a command, or an error before the turn.
Begins(w) ==
  /\ pc[w] = "run" /\ begun' = Append(begun, cur[w])
  /\ \A v \in Msgs : Waiting(v)' => v # w /\ Waiting(v)
  /\ UNCHANGED <<cur, mailbox, log, dpc, dmsg>>
  /\ \A m \in Msgs : fate'[m] = "unseen" <=> fate[m] = "unseen"

\* Whatever else its session still has to begin was received later, since no other
\* worker has a message of that session to begin.
LEMMA BeginsOrder ==
  ASSUME NEW L \in SUBSET Sessions,
         TypeOK, TypeOK', ClaimPending, PlaceInv, OwningInv(L), OrderInv(L), NEW w \in Msgs, Begins(w)
  PROVE  OrderInv(L)'
<1>1. PICK m \in Msgs : m = cur[w]
  BY DEF Begins, TypeOK
<1>2. /\ Key(m) = Key(w) /\ fate[m] # "unseen"
      /\ Key(w) \in L => LaterThan(log, begun, m) /\ \A x \in Queued(Key(w)) : InOrder(log, m, x)
  BY <1>1 DEF Begins, PlaceInv, HandsInv, GoneInv, Gone, Working, OrderInv, WaitingOrdered, Waiting
<1>3. begun \in Seq(Msgs) /\ begun' = Append(begun, m) /\ Range(begun') = Range(begun) \cup {m}
  BY <1>1, AppendIs DEF Begins, TypeOK
<1>4. ASSUME NEW x, LaterThan(log, begun, x), Key(x) = Key(w) => InOrder(log, m, x)
      PROVE  LaterThan(log, begun', x)
  BY <1>2, <1>3, <1>4 DEF LaterThan
<1>5. SeenInv'
  <2>1. Range(begun) \subseteq Msgs
    BY <1>3, RangeIs
  <2> QED
    BY <1>2, <1>3, <2>1 DEF Begins, OrderInv, SeenInv
<1>6. OrderedIn(L)'
  <2>1. \A i, j \in DOMAIN begun :
          i < j /\ Key(begun[i]) = Key(begun[j]) /\ Key(begun[i]) \in L => InOrder(log, begun[i], begun[j])
    BY DEF OrderInv, OrderedIn, Before, InOrder
  <2>2. /\ DOMAIN begun' = 1..(Len(begun) + 1) /\ DOMAIN begun = 1..Len(begun) /\ Len(begun) \in Nat
        /\ begun'[Len(begun) + 1] = m /\ \A i \in 1..Len(begun) : begun'[i] = begun[i]
    BY <1>3
  <2>3. ASSUME NEW i \in DOMAIN begun', NEW j \in DOMAIN begun', i < j,
               Key(begun'[i]) = Key(begun'[j]), Key(begun'[i]) \in L
        PROVE  InOrder(log, begun'[i], begun'[j])
    <3>1. i \in DOMAIN begun /\ begun'[i] = begun[i] /\ begun[i] \in Range(begun)
      BY <1>3, <2>2, <2>3, RangeIs
    <3>2. CASE j \in 1..Len(begun)
      BY <2>1, <2>2, <2>3, <3>1, <3>2
    <3>3. CASE j = Len(begun) + 1
      BY <1>2, <2>2, <2>3, <3>1, <3>3 DEF LaterThan
    <3> QED
      BY <2>2, <3>2, <3>3
  <2> QED
    BY <2>3 DEF Begins, OrderedIn, Before, InOrder, Key
<1>7. QueuesOrdered(L)'
  <2> SUFFICES ASSUME NEW s \in L, NEW x \in Queued(s) PROVE LaterThan(log, begun', x)
    BY DEF Begins, OrderInv, QueuesOrdered, LaterThan, Queued, Key
  <2>1. x \in Msgs /\ Key(x) = s /\ LaterThan(log, begun, x)
    BY QueuesTyped, RangeIs DEF Queued, PlaceInv, QueuesInv, OrderInv, QueuesOrdered
  <2> QED
    BY <1>2, <1>4, <2>1
<1>8. WaitingOrdered(L)'
  <2> SUFFICES ASSUME NEW v \in Msgs, Key(v) \in L, Waiting(v)'
               PROVE  LaterThan(log, begun', cur[v]) /\ \A x \in Queued(Key(v)) : InOrder(log, cur[v], x)
    BY DEF Begins, WaitingOrdered, LaterThan, Queued, Key
  <2>1. Waiting(v) /\ v # w
    BY DEF Begins
  <2>2. Key(v) # Key(w)
    <3>1. Owning(v) /\ Owning(w)
      BY <2>1 DEF Begins, Waiting, Owning, Relinquished
    <3> QED
      BY <2>1, <3>1 DEF OwningInv
  <2>3. Key(cur[v]) = Key(v)
    BY <2>1 DEF PlaceInv, HandsInv, Waiting
  <2> QED
    BY <1>4, <2>1, <2>2, <2>3 DEF OrderInv, WaitingOrdered
<1>9. StoreOrdered(L)'
  <2> SUFFICES ASSUME dpc = "store", Key(dmsg) \in L PROVE LaterThan(log, begun', dmsg) /\ mailbox[Key(dmsg)].queue = <<>>
    BY DEF Begins, StoreOrdered, LaterThan, Key
  <2>1. LaterThan(log, begun, dmsg) /\ mailbox[Key(dmsg)].queue = <<>>
    BY DEF OrderInv, StoreOrdered
  <2>2. Key(dmsg) # Key(w)
    <3>1. Owning(w) /\ dmsg # w
      BY DEF Begins, Owning, Relinquished, ClaimPending
    <3> QED
      BY <3>1 DEF OwningInv
  <2> QED
    BY <1>4, <2>1, <2>2
<1> QED
  BY <1>5, <1>6, <1>7, <1>8, <1>9 DEF OrderInv

\* What a step other than a reception settles had been received.
LEMMA SettledSeen ==
  ASSUME TypeOK, PlaceInv, NEW m \in Msgs \cup {None}, NEW f \in {"answered", "cancelled"},
         Settle(m, f), m \in Msgs => fate[m] # "unseen"
  PROVE  \A x \in Msgs : fate'[x] = "unseen" <=> fate[x] = "unseen"
BY DispatchConstants DEF TypeOK, Settle

LEMMA TakenSeen ==
  ASSUME TypeOK, PlaceInv, NEW s \in Sessions, Dequeue(s) \/ ClearScope(s)
  PROVE  \A x \in Msgs : fate'[x] = "unseen" <=> fate[x] = "unseen"
<1>1. \A x \in Steered(s) : x \in Msgs => fate[x] # "unseen"
  BY DEF PlaceInv, QueuesInv, GoneInv, Gone, Waits
<1>2. steering[s] \in Seq(Msgs) /\ (steering[s] # <<>> => Head(steering[s]) \in Steered(s))
  BY QueuesTyped, TailIs DEF Steered
<1> QED
  BY <1>1, <1>2 DEF Dequeue, ClearScope, Dequeued, Steered, TypeOK

LEMMA WorkerOrder ==
  ASSUME TypeOK, ClaimPending, PlaceInv, NEW w \in Msgs, Worker(w)
  PROVE  (TakesNext(w) /\ UNCHANGED <<dpc, log, begun>>) \/ Begins(w) \/ Passes
<1> USE DEF Goto, dispVars, workVars, histVars, Waiting
<1>t. /\ pc \in [Msgs -> WorkerPCs] /\ cur \in [Msgs -> Msgs \cup {None}] /\ Key(w) \in Sessions
      /\ mailbox \in [Sessions -> Mailboxes]
  BY DispatchConstants DEF TypeOK, Key
<1>w. /\ WorkerStep(w) /\ pc[w] # "none" /\ fate[w] # "unseen"
      /\ \A v \in Msgs : v # w => pc'[v] = pc[v]
      /\ Working(w) => fate[cur[w]] # "unseen"
  BY WorkerSteps DEF WorkerStep, ClaimPending, PlaceInv, GoneInv, Gone, TypeOK
<1>1. CASE AcquireSlot(w) \/ TakePendingStop(w) \/ LeaveTurnLoop(w) \/ FinishTurn(w)
           \/ DrainDone(w) \/ ContinueClaim(w) \/ ContinueGivesUp(w) \/ PlaceNext(w) \/ ReleaseSlot(w) \/ SafetyNet(w)
  <2>1. UNCHANGED <<fate, mailbox, cur, log, begun, dpc, dmsg>>
    BY <1>1 DEF AcquireSlot, TakePendingStop, LeaveTurnLoop, FinishTurn, DrainDone, ContinueClaim,
                ContinueGivesUp, PlaceNext, ReleaseSlot, SafetyNet
  <2>2. Waiting(w)' => Waiting(w)
    BY <1>1, <1>t DEF AcquireSlot, TakePendingStop, LeaveTurnLoop, FinishTurn, DrainDone, ContinueClaim,
                ContinueGivesUp, PlaceNext, ReleaseSlot, SafetyNet
  <2> QED
    BY <1>w, <2>1, <2>2 DEF Passes
<1>2. CASE AcquireCancelled(w) \/ AbortTurn(w) \/ FailTurn(w) \/ CancelTurn(w) \/ Publish(w) \/ CheckPendingStop(w)
  <2>1. UNCHANGED <<mailbox, cur, log, begun, dpc, dmsg>>
    BY <1>2 DEF AcquireCancelled, AbortTurn, FailTurn, CancelTurn, Publish, CheckPendingStop
  <2>2. Waiting(w)' => Waiting(w)
    BY <1>2, <1>t DEF AcquireCancelled, AbortTurn, FailTurn, CancelTurn, Publish, AfterFailure, CheckPendingStop
  <2>3. \/ UNCHANGED fate
        \/ \E f \in {"answered", "cancelled"} : Settle(w, f)
        \/ Working(w) /\ \E f \in {"answered", "cancelled"} : Settle(cur[w], f)
    BY <1>2 DEF AcquireCancelled, AbortTurn, FailTurn, CancelTurn, Publish, CheckPendingStop, Working
  <2>4. \A x \in Msgs : fate'[x] = "unseen" <=> fate[x] = "unseen"
    <3>1. CASE Working(w) /\ \E f \in {"answered", "cancelled"} : Settle(cur[w], f)
      <4>1. cur[w] \in Msgs
        BY <1>w DEF TypeOK
      <4> QED
        BY <1>w, <3>1, <4>1, SettledSeen
    <3> QED
      BY <1>w, <2>3, <3>1, SettledSeen
  <2> QED
    BY <1>w, <2>1, <2>2, <2>4 DEF Passes
<1>3. CASE RunCommand(w) \/ RegisterTurn(w) \/ FailBeforeTurn(w)
  <2>1. /\ pc[w] = "run" /\ begun' = Append(begun, cur[w]) /\ UNCHANGED <<cur, mailbox, log, dpc, dmsg>>
        /\ pc'[w] \in {"drain", "registered", "next"} /\ Working(w) /\ cur[w] \in Msgs
    BY <1>3, <1>t, <1>w DEF RunCommand, RegisterTurn, FailBeforeTurn, Working, TypeOK
  <2>2. \A x \in Msgs : fate'[x] = "unseen" <=> fate[x] = "unseen"
    <3>1. UNCHANGED fate \/ ClearScope(Key(w)) \/ Settle(cur[w], "answered")
      BY <1>3 DEF RunCommand, RegisterTurn, FailBeforeTurn
    <3> QED
      BY <1>t, <1>w, <2>1, <3>1, TakenSeen, SettledSeen
  <2> QED
    BY <1>w, <2>1, <2>2 DEF Begins
<1>4. CASE PollSteering(w) \/ ContinueTurn(w)
  <2>1. /\ UNCHANGED <<mailbox, cur, log, begun, dpc, dmsg>> /\ Dequeue(Key(w))
        /\ Waiting(w)' => Waiting(w)
    BY <1>4, <1>t DEF PollSteering, ContinueTurn, Register
  <2>2. \A x \in Msgs : fate'[x] = "unseen" <=> fate[x] = "unseen"
    BY <1>t, <2>1, TakenSeen
  <2> QED
    BY <1>w, <2>1, <2>2 DEF Passes
<1>5. CASE TakeNextMessage(w)
  <2>1. UNCHANGED <<fate, log, begun, dpc, dmsg>> /\ pc[w] = "next"
    BY <1>5 DEF TakeNextMessage
  <2>2. CASE TakesNext(w)
    BY <2>1, <2>2
  <2>3. CASE UNCHANGED cur /\ pc'[w] = "slot" /\ (UNCHANGED mailbox \/ mailbox' = MailboxAfterLast(Key(w)))
    <3>1. \A s \in Sessions : mailbox'[s].queue = mailbox[s].queue \/ mailbox'[s].queue = <<>>
      BY <1>t, <2>3 DEF MailboxAfterLast, NoMailbox
    <3> QED
      BY <1>w, <2>1, <2>3, <3>1 DEF Passes
  <2> QED
    BY <1>5, <1>t, <2>2, <2>3 DEF TakeNextMessage, TakesNext
<1>6. CASE ReleaseMailbox(w)
  <2>1. UNCHANGED <<fate, cur, log, begun, dpc, dmsg>> /\ pc' = [pc EXCEPT ![w] = "done"]
    BY <1>6 DEF ReleaseMailbox
  <2>2. \A s \in Sessions : mailbox'[s].queue = mailbox[s].queue \/ mailbox'[s].queue = <<>>
    BY <1>6, <1>t DEF ReleaseMailbox, NoMailbox
  <2> QED
    BY <1>t, <1>w, <2>1, <2>2 DEF Passes
<1> QED
  BY <1>1, <1>2, <1>3, <1>4, <1>5, <1>6 DEF Worker, Turn

LEMMA DispatcherOrder ==
  ASSUME NEW L \in SUBSET Sessions,
         TypeOK, TypeOK', PlaceInv, ClaimPending, OrderInv(L), Dispatcher \/ \E m \in Msgs : Receive(m)
  PROVE  OrderInv(L)'
<1> USE DEF dispVars, workVars, histVars
<1>1. ASSUME NEW m \in Msgs, ClaimSession(m) \/ DivertMessage(m) \/ ReceiveSystem(m) PROVE OrderInv(L)'
  <2>1. Receives(m) /\ dmsg' = m
    BY <1>1 DEF ClaimSession, DivertMessage, ReceiveSystem, CanReceive, Received, Receives
  <2>2. \A s \in Sessions : mailbox'[s].queue = mailbox[s].queue \/ mailbox'[s].queue = <<>>
    BY SMTT(30), <1>1 DEF ClaimSession, DivertMessage, ReceiveSystem, TypeOK
  <2>3. dpc' = "store" => mailbox'[Key(m)].queue = <<>>
    <3>1. Key(m) \in Sessions
      BY DispatchConstants DEF Key
    <3> QED
      BY <1>1, <3>1 DEF ClaimSession, DivertMessage, ReceiveSystem, TypeOK
  <2> QED
    BY <2>1, <2>2, <2>3, TakenOrder
<1>2. ASSUME NEW m \in Msgs, QueueIndependent(m) PROVE OrderInv(L)'
  BY <1>2, QueuedOrder
<1>3. CASE EnqueueSteering \/ ProcessMessageSync \/ HandleStop
  <2>1. /\ UNCHANGED <<log, begun, mailbox, pc, cur>> /\ dpc' # "store"
        /\ dmsg \in Msgs /\ fate[dmsg] # "unseen" /\ Key(dmsg) \in Sessions
    <3>1. /\ UNCHANGED <<log, begun, mailbox, pc, cur>> /\ dpc' # "store" /\ dpc # "recv"
      BY <1>3 DEF EnqueueSteering, ProcessMessageSync, HandleStop, StopClear, StopLook, StopAbort, StopRecheck,
                  StopArm, MarkPendingStop, StopAck
    <3>2. dmsg \in Msgs
      BY <3>1 DEF TypeOK
    <3> QED
      BY <3>1, <3>2, DispatchConstants DEF PlaceInv, GoneInv, Gone, Key
  <2>2. \/ UNCHANGED fate \/ ClearScope(Key(dmsg)) \/ Settle(dmsg, "answered")
        \/ fate' = [fate EXCEPT ![dmsg] = "rejected"]
    BY <1>3 DEF EnqueueSteering, ProcessMessageSync, HandleStop, StopClear, StopLook, StopAbort, StopRecheck,
                StopArm, MarkPendingStop, StopAck, Settle
  <2>3. \A x \in Msgs : fate'[x] = "unseen" <=> fate[x] = "unseen"
    <3>1. CASE fate' = [fate EXCEPT ![dmsg] = "rejected"]
      BY <2>1, <3>1 DEF TypeOK
    <3> QED
      BY <2>1, <2>2, <3>1, TakenSeen, SettledSeen
  <2>4. Passes
    BY <2>1, <2>3 DEF Passes, Waiting
  <2> QED
    BY <2>4, PassesKeeps
<1> QED
  BY <1>1, <1>2, <1>3, SpawnOrder DEF Dispatcher, Receive

LEMMA OrderStep ==
  ASSUME NEW L \in SUBSET Sessions,
         TypeOK, TypeOK', PlaceInv, ClaimPending, OwningInv(L), OrderInv(L), [Next]_vars
  PROVE  OrderInv(L)'
<1>1. ASSUME NEW w \in Msgs, Worker(w) PROVE OrderInv(L)'
  BY <1>1, WorkerOrder, NextOrder, BeginsOrder, PassesKeeps
<1>2. CASE Shutdown \/ UNCHANGED vars
  <2>1. Passes
    BY <1>2 DEF Shutdown, vars, dispVars, workVars, histVars, Passes, Waiting
  <2> QED
    BY <2>1, PassesKeeps
<1> QED
  BY <1>1, <1>2, DispatcherOrder DEF Next, Idle

LEMMA OrderInit ==
  ASSUME NEW L \in SUBSET Sessions, Init
  PROVE  OrderInv(L)
<1>1. \A s \in Sessions : mailbox[s].queue = <<>>
  BY DEF Init, NoMailbox
<1>2. QueuesOrdered(L)
  BY <1>1, EmptyIs DEF QueuesOrdered, Queued, OrderedBy
<1>3. OrderedIn(L) /\ SeenInv
  BY EmptyIs DEF OrderedIn, SeenInv, Init
<1> QED
  BY <1>2, <1>3 DEF OrderInv, Init, WaitingOrdered, StoreOrdered, Waiting

\* The messages of a session that lines up are begun in the order in which they were
\* received, whatever is stopped, fails or is shut down meanwhile and whatever other
\* sessions do: a later one is never taken before an earlier one, by whichever worker.
THEOREM LinedInOrder ==
  ASSUME NEW L \in SUBSET Sessions, \A s \in L : Lined(s)
  PROVE  Spec => []OrderedIn(L)
<1>1. Init => ClaimPending /\ OwningInv(L) /\ OrderInv(L)
  BY OwningInit, OrderInit
<1>2. TypeOK /\ ClaimPending /\ OwnerAlive /\ OwningInv(L) /\ [Next]_vars => OwningInv(L)'
  BY OwningStep
<1>3. TypeOK /\ TypeOK' /\ PlaceInv /\ ClaimPending /\ OwningInv(L) /\ OrderInv(L) /\ [Next]_vars => OrderInv(L)'
  BY OrderStep
<1>4. OrderInv(L) => OrderedIn(L)
  BY DEF OrderInv
<1> QED
  BY <1>1, <1>2, <1>3, <1>4, PlaceInit, PlaceStep, ClaimPendingStep, OwnerAliveCorrect, TypeCorrect, PTL DEF Spec

\* Where all sessions line up, the messages of each are begun in the order they came.
THEOREM ArrivalOrderCorrect ==
  ASSUME \A s \in Sessions : Lined(s)
  PROVE  Spec => []ArrivalOrder
<1>1. Init => ClaimPending /\ OwningInv(Sessions) /\ OrderInv(Sessions)
  BY OwningInit, OrderInit
<1>2. TypeOK /\ ClaimPending /\ OwnerAlive /\ OwningInv(Sessions) /\ [Next]_vars => OwningInv(Sessions)'
  BY OwningStep
<1>3. TypeOK /\ TypeOK' /\ PlaceInv /\ ClaimPending /\ OwningInv(Sessions) /\ OrderInv(Sessions) /\ [Next]_vars
      => OrderInv(Sessions)'
  BY OrderStep
<1>4. TypeOK /\ OrderInv(Sessions) => ArrivalOrder
  <2>1. TypeOK => \A i \in DOMAIN begun : Key(begun[i]) \in Sessions
    BY DispatchConstants DEF TypeOK, Key
  <2> QED
    BY <2>1 DEF OrderInv, OrderedIn, ArrivalOrder
<1> QED
  BY <1>1, <1>2, <1>3, <1>4, PlaceInit, PlaceStep, ClaimPendingStep, OwnerAliveCorrect, TypeCorrect, PTL DEF Spec

(***************************************************************************)
(* No message of a session that waits in line is dropped                   *)
(***************************************************************************)
\* A session whose messages all wait in line and that nobody stops.
Calm(s) == \A m \in Msgs : Key(m) = s => Independent(m) /\ ContentOf[m] # "stop"

\* In a session of L nothing is stopped, since nobody asks for it, and nothing is steered.
Unstopped(L) ==
  /\ dpc \notin {"recv", "store"} => Key(dmsg) \notin L
  /\ \A s \in L : pendingStop[s] = None /\ steering[s] = <<>>
  /\ \A w \in Msgs : Key(w) \in L => bail[w] = FALSE /\ abort[w] = None

\* A message that is held is in a hand or in its mailbox; a worker that looks for its
\* next message has settled the last one, and one that ends has no mailbox left.
HasHome(L) ==
  \A m \in Msgs : Key(m) \in L /\ fate[m] = "held" =>
    dmsg = m \/ m \in Queued(Key(m)) \/ \E w \in Msgs : Working(w) /\ cur[w] = m
NextSettled(L) == \A w \in Msgs : Key(w) \in L /\ pc[w] = "next" => fate[cur[w]] # "held"
EndsEmpty(L) ==
  \A w \in Msgs : Key(w) \in L /\ pc[w] \in {"slot", "safety", "release"} => mailbox[Key(w)].owner # w

HomeInv(L) == HasHome(L) /\ NextSettled(L) /\ EndsEmpty(L)
HeldInv(L) == ~ctxDone => HomeInv(L)

\* Only a /stop of its own session aborts a turn.
LEMMA AbortedHere ==
  ASSUME TypeOK, EntryInv, NEW s \in Sessions, NEW v, active[s] = TurnOf(v)
  PROVE  v \in Msgs /\ Key(v) = s
<1>1. PICK u \in Msgs : Key(u) = s /\ (active[s] = TurnOf(u) \/ active[s] = Placeholder(u))
  BY DEF EntryInv, Backed, TurnOf, Free
<1>2. u = v
  BY <1>1 DEF TurnOf, Placeholder
<1> QED
  BY <1>1, <1>2

\* A worker of another session stops and steers in that session only.
LEMMA StopsElsewhere ==
  ASSUME NEW L \in SUBSET Sessions, TypeOK, EntryInv, Unstopped(L),
         NEW w \in Msgs, Worker(w), Key(w) \notin L
  PROVE  Unstopped(L)'
<1> USE DEF Unstopped, dispVars, workVars, histVars, Goto
<1>t. /\ bail \in [Msgs -> BOOLEAN] /\ abort \in [Msgs -> Msgs \cup {None}] /\ Key(w) \in Sessions
      /\ pendingStop \in [Sessions -> Msgs \cup {None}] /\ steering \in [Sessions -> Seq(Msgs)]
  BY DispatchConstants DEF TypeOK, Key
<1>1. UNCHANGED <<dpc, dmsg>>
  BY WorkerSteps DEF WorkerStep
<1>2. ASSUME \A s \in Sessions : s # Key(w) => pendingStop'[s] = pendingStop[s] /\ steering'[s] = steering[s],
             \A v \in Msgs : Key(v) # Key(w) => bail'[v] = bail[v] /\ abort'[v] = abort[v]
      PROVE  Unstopped(L)'
  BY <1>1, <1>2 DEF Key
<1>3. CASE RunCommand(w)
  <2>1. UNCHANGED <<pendingStop, bail>> /\ \A s \in Sessions : s # Key(w) => steering'[s] = steering[s]
    BY <1>3, <1>t DEF RunCommand, ClearScope
  <2>2. \A v \in Msgs : Key(v) # Key(w) => abort'[v] = abort[v]
    BY <1>3, <1>t, AbortedHere DEF RunCommand
  <2> QED
    BY <1>2, <2>1, <2>2
<1>4. CASE CheckPendingStop(w) \/ TakePendingStop(w) \/ RegisterTurn(w) \/ PollSteering(w) \/ ContinueTurn(w)
  <2>1. UNCHANGED <<dpc, dmsg>>
    BY <1>1
  <2> QED
    BY <1>2, <1>4, <1>t DEF CheckPendingStop, TakePendingStop, RegisterTurn, Register, PollSteering,
                            ContinueTurn, Dequeue
<1>5. CASE AcquireSlot(w) \/ AcquireCancelled(w) \/ FailBeforeTurn(w) \/ LeaveTurnLoop(w) \/ FinishTurn(w)
           \/ AbortTurn(w) \/ FailTurn(w) \/ CancelTurn(w) \/ DrainDone(w) \/ ContinueClaim(w)
           \/ ContinueGivesUp(w) \/ Publish(w) \/ TakeNextMessage(w) \/ PlaceNext(w) \/ ReleaseSlot(w)
           \/ SafetyNet(w) \/ ReleaseMailbox(w)
  <2>1. UNCHANGED <<pendingStop, steering, bail, abort>>
    BY <1>5 DEF AcquireSlot, AcquireCancelled, FailBeforeTurn, LeaveTurnLoop, FinishTurn, AbortTurn,
                FailTurn, CancelTurn, DrainDone, ContinueClaim, ContinueGivesUp, Publish, TakeNextMessage,
                PlaceNext, ReleaseSlot, SafetyNet, ReleaseMailbox
  <2> QED
    BY <1>2, <2>1
<1> QED
  BY <1>3, <1>4, <1>5 DEF Worker, Turn

LEMMA UnstoppedStep ==
  ASSUME NEW L \in SUBSET Sessions, \A s \in L : Calm(s),
         TypeOK, PlaceInv, EntryInv, Unstopped(L), [Next]_vars
  PROVE  Unstopped(L)'
<1> USE DEF Unstopped, dispVars, workVars, histVars
<1>t. /\ bail \in [Msgs -> BOOLEAN] /\ abort \in [Msgs -> Msgs \cup {None}]
      /\ pendingStop \in [Sessions -> Msgs \cup {None}] /\ steering \in [Sessions -> Seq(Msgs)]
      /\ \A w \in Msgs : Key(w) \in Sessions /\ (pc[w] # "none" => cur[w] \in Msgs)
  BY DispatchConstants DEF TypeOK, Key
<1>c. \A m \in Msgs : Key(m) \in L => ChannelOf[m] = "telegram" /\ ContentOf[m] # "stop"
  BY DEF Calm, Independent
<1>1. ASSUME NEW m \in Msgs, Receive(m) PROVE Unstopped(L)'
  <2>1. UNCHANGED <<pendingStop, steering, bail, abort>>
    BY <1>1 DEF Receive, ClaimSession, QueueIndependent, DivertMessage, ReceiveSystem
  <2>2. CASE ClaimSession(m) \/ QueueIndependent(m)
    BY <2>1, <2>2 DEF ClaimSession, QueueIndependent, CanReceive, Key
  <2>3. CASE DivertMessage(m) \/ ReceiveSystem(m)
    <3>1. Key(m) \notin L /\ dmsg' = m
      BY <1>c, <2>3 DEF DivertMessage, ReceiveSystem, Independent
    <3> QED
      BY <2>1, <3>1 DEF Key
  <2> QED
    BY <1>1, <2>2, <2>3 DEF Receive
<1>2. CASE Dispatcher
  <2>1. CASE SpawnWorker
    BY <2>1 DEF SpawnWorker, Key
  <2>2. CASE ~SpawnWorker
    <3>1. /\ dpc \notin {"recv", "store"} /\ bail' = bail
          /\ dpc' # "recv" => dmsg' = dmsg
      BY <1>2, <2>2 DEF Dispatcher, EnqueueSteering, ProcessMessageSync, HandleStop, StopClear, StopLook, StopAbort,
                        StopRecheck, StopArm, MarkPendingStop, StopAck
    <3>2. Key(dmsg) \notin L /\ dmsg \in Msgs
      BY <3>1 DEF TypeOK
    <3>3. \A s \in L : pendingStop'[s] = pendingStop[s] /\ steering'[s] = steering[s]
      BY <1>2, <1>t, <2>2, <3>2 DEF Dispatcher, EnqueueSteering, ProcessMessageSync, HandleStop, StopClear, ClearScope,
                        StopLook, StopAbort, StopRecheck, StopArm, MarkPendingStop, StopAck
    <3>4. \A w \in Msgs : Key(w) \in L => abort'[w] = abort[w]
      <4>1. CASE StopAbort
        <5>1. CASE active[Key(dmsg)].kind = "turn"
          <6>1. PICK v \in Msgs : Key(v) = Key(dmsg) /\ active[Key(dmsg)] = TurnOf(v)
            <7>1. PICK s \in Sessions : s = Key(dmsg)
              BY <1>t, <3>2
            <7>2. active[s] # Free /\ \A v \in Msgs : active[s] # Placeholder(v)
              BY <5>1, <7>1 DEF Free, Placeholder
            <7>3. Backed(s, active[s])
              BY <7>1 DEF EntryInv
            <7> QED
              BY <7>1, <7>2, <7>3 DEF Backed
          <6>2. active[Key(dmsg)].by = v
            BY <6>1 DEF TurnOf
          <6> QED
            BY <1>t, <3>2, <4>1, <6>1, <6>2 DEF StopAbort
        <5>2. CASE active[Key(dmsg)].kind # "turn"
          BY <4>1, <5>2 DEF StopAbort
        <5> QED
          BY <5>1, <5>2
      <4>2. CASE ~StopAbort
        BY <1>2, <2>2, <4>2 DEF Dispatcher, EnqueueSteering, ProcessMessageSync, HandleStop, StopClear, StopLook,
                        StopRecheck, StopArm, MarkPendingStop, StopAck
      <4> QED
        BY <4>1, <4>2
    <3> QED
      BY <3>1, <3>2, <3>3, <3>4 DEF Key
  <2> QED
    BY <2>1, <2>2
<1>3. ASSUME NEW w \in Msgs, Worker(w), Key(w) \in L PROVE Unstopped(L)'
  <2>1. UNCHANGED <<dpc, dmsg>> /\ pendingStop[Key(w)] = None /\ steering[Key(w)] = <<>> /\ abort[w] = None
    BY <1>3, <1>t, WorkerSteps DEF WorkerStep
  <2>0. ASSUME UNCHANGED <<pendingStop, steering, bail, abort>> PROVE Unstopped(L)'
    BY <2>0, <2>1 DEF Key
  <2>2. CASE RunCommand(w)
    <3>1. cur[w] \in Msgs /\ Key(cur[w]) = Key(w)
      BY <1>t, <2>2 DEF RunCommand, Goto, PlaceInv, HandsInv
    <3>2. ContentOf[cur[w]] # "stop"
      BY <1>3, <1>c, <3>1
    <3> QED
      BY <2>0, <2>2, <3>2 DEF RunCommand
  <2>3. CASE CheckPendingStop(w) \/ TakePendingStop(w) \/ RegisterTurn(w)
    <3>1. UNCHANGED <<steering, bail>> /\ \A s \in Sessions : pendingStop'[s] \in {pendingStop[s], None}
      BY <1>t, <2>1, <2>3 DEF CheckPendingStop, TakePendingStop, RegisterTurn, Register
    <3>2. \A v \in Msgs : abort'[v] \in {abort[v], None}
      BY <1>t, <2>1, <2>3 DEF CheckPendingStop, TakePendingStop, RegisterTurn, Register
    <3> QED
      BY <2>1, <3>1, <3>2 DEF Key
  <2>4. ~PollSteering(w) /\ ~ContinueTurn(w)
    BY <2>1 DEF PollSteering, ContinueTurn, Dequeue
  <2>5. CASE AcquireSlot(w) \/ AcquireCancelled(w) \/ FailBeforeTurn(w) \/ LeaveTurnLoop(w) \/ FinishTurn(w)
             \/ AbortTurn(w) \/ FailTurn(w) \/ CancelTurn(w) \/ DrainDone(w) \/ ContinueClaim(w)
             \/ ContinueGivesUp(w) \/ Publish(w) \/ TakeNextMessage(w) \/ PlaceNext(w) \/ ReleaseSlot(w)
             \/ SafetyNet(w) \/ ReleaseMailbox(w)
    <3>1. UNCHANGED <<pendingStop, steering, bail, abort>>
      BY <2>5 DEF AcquireSlot, AcquireCancelled, FailBeforeTurn, LeaveTurnLoop, FinishTurn, AbortTurn,
                  FailTurn, CancelTurn, DrainDone, ContinueClaim, ContinueGivesUp, Publish, TakeNextMessage,
                  PlaceNext, ReleaseSlot, SafetyNet, ReleaseMailbox
    <3> QED
      BY <2>0, <3>1
  <2> QED
    BY <1>3, <2>2, <2>3, <2>4, <2>5 DEF Worker, Turn
<1>4. CASE Shutdown \/ UNCHANGED vars
  BY <1>4 DEF Shutdown, vars, Key
<1> QED
  BY <1>1, <1>2, <1>3, <1>4, StopsElsewhere DEF Next, Idle

\* A step of worker w that moves no message: if it lets its own go, that is settled,
\* and if it stops looking at its mailbox, that is not its own any more.
LEMMA HeldFrame ==
  ASSUME NEW L \in SUBSET Sessions, TypeOK, HomeInv(L), NEW w \in Msgs, WorkerStep(w), UNCHANGED <<cur, dmsg>>,
         \A s \in Sessions : mailbox'[s].queue = mailbox[s].queue,
         \A m \in Msgs : fate'[m] = "held" => fate[m] = "held",
         Working(w) /\ ~Working(w)' => fate'[cur[w]] # "held",
         pc'[w] = "next" => fate'[cur[w]] # "held",
         pc'[w] \in {"slot", "safety", "release"} =>
            pc[w] \in {"slot", "safety", "release"} \/ mailbox'[Key(w)].owner # w
  PROVE  HomeInv(L)'
<1> USE DEF HomeInv
<1>1. /\ \A v \in Msgs : v # w => pc'[v] = pc[v]
      /\ OwnersKept(w)
  BY DEF WorkerStep
<1>2. HasHome(L)'
  <2> SUFFICES ASSUME NEW m \in Msgs, Key(m) \in L, fate'[m] = "held"
               PROVE  dmsg = m \/ m \in Queued(Key(m))' \/ \E v \in Msgs : Working(v)' /\ cur[v] = m
    BY DEF HasHome, Key
  <2>1. dmsg = m \/ m \in Queued(Key(m)) \/ \E v \in Msgs : Working(v) /\ cur[v] = m
    BY DEF HasHome
  <2>2. m \in Queued(Key(m)) => m \in Queued(Key(m))'
    <3>1. Key(m) \in Sessions
      BY DispatchConstants DEF Key
    <3> QED
      BY <3>1 DEF Queued, Key
  <2>3. \A v \in Msgs : Working(v) /\ cur[v] = m => Working(v)'
    BY <1>1 DEF Working
  <2> QED
    BY <2>1, <2>2, <2>3
<1>3. NextSettled(L)'
  <2> SUFFICES ASSUME NEW v \in Msgs, Key(v) \in L, v # w, pc[v] = "next" PROVE fate'[cur[v]] # "held"
    BY <1>1 DEF NextSettled, Key
  <2>1. cur[v] \in Msgs /\ fate[cur[v]] # "held"
    BY DEF TypeOK, NextSettled
  <2> QED
    BY <2>1
<1>4. EndsEmpty(L)'
  <2> SUFFICES ASSUME NEW v \in Msgs, Key(v) \in L, pc'[v] \in {"slot", "safety", "release"}
               PROVE  mailbox'[Key(v)].owner # v
    BY DEF EndsEmpty, Key
  <2>1. CASE pc[v] \in {"slot", "safety", "release"}
    <3>1. mailbox[Key(v)].owner # v /\ Key(v) \in Sessions /\ v # None
      BY <2>1, DispatchConstants DEF EndsEmpty, Key
    <3> QED
      BY <1>1, <3>1 DEF OwnersKept
  <2>2. CASE pc[v] \notin {"slot", "safety", "release"}
    BY <1>1, <2>2
  <2> QED
    BY <2>1, <2>2
<1> QED
  BY <1>2, <1>3, <1>4

LEMMA HeldNext ==
  ASSUME NEW L \in SUBSET Sessions, TypeOK, HomeInv(L),
         NEW w \in Msgs, Key(w) \in L, WorkerStep(w), TakesNext(w)
  PROVE  HomeInv(L)'
<1> USE DEF HomeInv
<1>1. PICK s \in Sessions : s = Key(w)
  BY DispatchConstants DEF Key
<1>2. mailbox[s].queue \in Seq(Msgs) /\ mailbox[s].queue # <<>>
  BY <1>1, QueuesTyped DEF TakesNext
<1>3. PICK m \in Msgs : m = Head(mailbox[s].queue) /\ m \in Queued(s)
  BY <1>2, TailIs, RangeIs DEF Queued
<1>4. /\ mailbox'[s].queue = Tail(mailbox[s].queue)
      /\ \A r \in Sessions : r # s => mailbox'[r] = mailbox[r]
  BY <1>1 DEF TakesNext, TypeOK, Mailboxes
<1>5. Queued(s) = Queued(s)' \cup {m}
  BY <1>2, <1>3, <1>4, TailIs DEF Queued
<1>6. /\ pc[w] = "next" /\ pc'[w] = "place" /\ cur'[w] = m /\ dmsg' = dmsg /\ fate' = fate
      /\ \A v \in Msgs : v # w => pc'[v] = pc[v] /\ cur'[v] = cur[v]
      /\ OwnersKept(w)
  BY <1>1, <1>3 DEF TakesNext, TypeOK, WorkerStep
<1>7. HasHome(L)'
  <2> SUFFICES ASSUME NEW x \in Msgs, Key(x) \in L, fate[x] = "held"
               PROVE  dmsg = x \/ x \in Queued(Key(x))' \/ \E v \in Msgs : Working(v)' /\ cur'[v] = x
    BY <1>6 DEF HasHome, Key
  <2>1. CASE x = m
    BY <1>6, <2>1 DEF Working
  <2>2. CASE x # m /\ x \in Queued(Key(x))
    <3>1. Key(x) \in Sessions
      BY DispatchConstants DEF Key
    <3>2. x \in Queued(Key(x))'
      BY <1>4, <1>5, <2>2, <3>1 DEF Queued, Key
    <3> QED
      BY <3>2
  <2>3. ASSUME NEW v \in Msgs, Working(v), cur[v] = x
        PROVE  Working(v)' /\ cur'[v] = x
    <3>1. v # w
      BY <1>6, <2>3 DEF NextSettled
    <3> QED
      BY <1>6, <2>3, <3>1 DEF Working
  <2> QED
    BY <2>1, <2>2, <2>3 DEF HasHome
<1>8. NextSettled(L)' /\ EndsEmpty(L)'
  BY <1>6, DispatchConstants DEF NextSettled, EndsEmpty, OwnersKept, Key
<1> QED
  BY <1>7, <1>8

LEMMA HeldWorker ==
  ASSUME NEW L \in SUBSET Sessions, \A s \in L : Calm(s),
         TypeOK, PlaceInv, Unstopped(L), ~ctxDone, HomeInv(L),
         NEW w \in Msgs, Key(w) \in L, Worker(w)
  PROVE  HomeInv(L)'
<1> USE DEF Goto, dispVars, workVars, histVars, Working
<1>t. /\ pc \in [Msgs -> WorkerPCs] /\ fate \in [Msgs -> Fates] /\ Key(w) \in Sessions
      /\ mailbox \in [Sessions -> Mailboxes]
  BY DispatchConstants DEF TypeOK, Key
<1>w. /\ WorkerStep(w) /\ pc[w] # "none" /\ cur[w] \in Msgs
      /\ bail[w] = FALSE /\ abort[w] = None /\ pendingStop[Key(w)] = None /\ steering[Key(w)] = <<>>
  BY <1>t, WorkerSteps DEF WorkerStep, Unstopped, TypeOK
<1>c. Working(w) => ContentOf[cur[w]] # "stop"
  BY <1>w DEF Calm, PlaceInv, HandsInv
<1>1. ~AcquireCancelled(w) /\ ~CancelTurn(w) /\ ~AbortTurn(w) /\ ~PollSteering(w) /\ ~ContinueTurn(w)
      /\ ~ContinueClaim(w)
  BY <1>w DEF AcquireCancelled, CancelTurn, AbortTurn, PollSteering, ContinueTurn, ContinueClaim, Dequeue
<1>2. CASE AcquireSlot(w) \/ CheckPendingStop(w) \/ RunCommand(w) \/ RegisterTurn(w) \/ TakePendingStop(w)
           \/ LeaveTurnLoop(w) \/ FinishTurn(w) \/ DrainDone(w) \/ ContinueGivesUp(w) \/ PlaceNext(w)
  <2>1. /\ UNCHANGED <<mailbox, cur, fate, dmsg>>
        /\ Working(w)' /\ pc'[w] # "next"
    BY <1>2, <1>c, <1>t, <1>w DEF AcquireSlot, CheckPendingStop, RunCommand, RegisterTurn, TakePendingStop, LeaveTurnLoop,
                            FinishTurn, DrainDone, ContinueGivesUp, PlaceNext
  <2> QED
    BY <1>w, <2>1, HeldFrame
<1>3. CASE FailBeforeTurn(w) \/ FailTurn(w) \/ Publish(w)
  <2>1. UNCHANGED <<mailbox, cur, dmsg>>
    BY <1>3 DEF FailBeforeTurn, FailTurn, Publish
  <2>2. \/ UNCHANGED fate /\ pc'[w] = "publish"
        \/ UNCHANGED fate /\ pc'[w] = "next" /\ fate[cur[w]] # "held"
        \/ pc'[w] = "next" /\ \E f \in {"answered", "cancelled"} : fate' = [fate EXCEPT ![cur[w]] = f]
    BY <1>3, <1>t, <1>w DEF FailBeforeTurn, FailTurn, Publish, AfterFailure, Settle
  <2>3. (\A m \in Msgs : fate'[m] = "held" => fate[m] = "held") /\ (pc'[w] = "next" => fate'[cur[w]] # "held")
    BY <1>t, <1>w, <2>2
  <2>4. pc'[w] \in {"publish", "next"}
    BY <2>2
  <2> QED
    BY <1>w, <2>1, <2>3, <2>4, HeldFrame
<1>4. CASE TakeNextMessage(w)
  <2>1. UNCHANGED <<fate, dmsg>> /\ pc[w] = "next"
    BY <1>4 DEF TakeNextMessage
  <2>2. CASE TakesNext(w)
    BY <1>w, <2>2, HeldNext
  <2>3. CASE /\ UNCHANGED cur /\ pc'[w] = "slot"
             /\ \/ UNCHANGED mailbox /\ mailbox[Key(w)].owner # w
                \/ mailbox[Key(w)].queue = <<>> /\ mailbox' = MailboxAfterLast(Key(w))
    <3>1. \A s \in Sessions : mailbox'[s].queue = mailbox[s].queue
      BY <1>t, <2>3 DEF MailboxAfterLast, NoMailbox
    <3>2. mailbox'[Key(w)].owner # w
      BY <1>t, <2>3, DispatchConstants DEF MailboxAfterLast, NoMailbox
    <3>3. fate'[cur[w]] # "held"
      BY <2>1 DEF HomeInv, NextSettled
    <3> QED
      BY <1>w, <2>1, <2>3, <3>1, <3>2, <3>3, HeldFrame
  <2> QED
    BY <1>4, <1>t, <2>2, <2>3 DEF TakeNextMessage, TakesNext
<1>5. CASE ReleaseSlot(w) \/ SafetyNet(w)
  <2>1. /\ UNCHANGED <<mailbox, cur, fate, dmsg>>
        /\ pc[w] \in {"slot", "safety"} /\ pc'[w] \in {"safety", "release"}
    BY <1>5, <1>t DEF ReleaseSlot, SafetyNet
  <2> QED
    BY <1>w, <2>1, HeldFrame
<1>6. CASE ReleaseMailbox(w)
  <2>1. UNCHANGED <<cur, fate, dmsg>> /\ pc[w] = "release" /\ pc'[w] = "done"
    BY <1>6, <1>t DEF ReleaseMailbox
  <2>2. \A s \in Sessions : mailbox'[s].queue = mailbox[s].queue
    BY <1>6, <1>t, <2>1 DEF ReleaseMailbox, HomeInv, EndsEmpty
  <2> QED
    BY <1>w, <2>1, <2>2, HeldFrame
<1> QED
  BY <1>1, <1>2, <1>3, <1>4, <1>5, <1>6 DEF Worker, Turn

\* A worker of another session touches neither the mailboxes nor the messages of L.
LEMMA HeldElsewhere ==
  ASSUME NEW L \in SUBSET Sessions, TypeOK, PlaceInv, HomeInv(L), NEW w \in Msgs, Worker(w), Key(w) \notin L
  PROVE  HomeInv(L)'
<1> USE DEF Goto, dispVars, workVars, histVars
<1>t. /\ pc \in [Msgs -> WorkerPCs] /\ fate \in [Msgs -> Fates] /\ cur \in [Msgs -> Msgs \cup {None}]
      /\ mailbox \in [Sessions -> Mailboxes] /\ Key(w) \in Sessions
  BY DispatchConstants DEF TypeOK, Key
<1>w. /\ \A v \in Msgs : v # w => pc'[v] = pc[v]
      /\ UNCHANGED dmsg /\ OwnersKept(w)
  BY WorkerSteps DEF WorkerStep
<1>1. /\ \A s \in Sessions : s # Key(w) => mailbox'[s] = mailbox[s]
      /\ \A v \in Msgs : v # w => cur'[v] = cur[v]
      /\ \A m \in Msgs : fate'[m] = "held" => fate[m] = "held"
  <2>1. CASE TakeNextMessage(w) \/ ReleaseMailbox(w)
    BY <1>t, <2>1 DEF TakeNextMessage, MailboxAfterLast, ReleaseMailbox
  <2>2. CASE RunCommand(w) \/ PollSteering(w) \/ ContinueTurn(w)
    BY ZenonT(60), <1>t, <2>2 DEF RunCommand, ClearScope, PollSteering, ContinueTurn, Dequeue
  <2>3. CASE AcquireCancelled(w) \/ CheckPendingStop(w) \/ FailBeforeTurn(w) \/ AbortTurn(w) \/ FailTurn(w)
             \/ CancelTurn(w) \/ Publish(w)
    <3>1. UNCHANGED <<mailbox, cur>>
      BY <2>3 DEF AcquireCancelled, CheckPendingStop, FailBeforeTurn, AbortTurn, FailTurn, CancelTurn, Publish
    <3>2. UNCHANGED fate \/ \E x : \E f \in {"answered", "cancelled"} : Settle(x, f)
      BY <2>3 DEF AcquireCancelled, CheckPendingStop, FailBeforeTurn, AbortTurn, FailTurn, CancelTurn, Publish
    <3> QED
      BY <1>t, <3>1, <3>2 DEF Settle
  <2>4. CASE AcquireSlot(w) \/ RegisterTurn(w) \/ TakePendingStop(w) \/ LeaveTurnLoop(w) \/ FinishTurn(w)
             \/ DrainDone(w) \/ ContinueClaim(w) \/ ContinueGivesUp(w) \/ PlaceNext(w) \/ ReleaseSlot(w)
             \/ SafetyNet(w)
    BY <2>4 DEF AcquireSlot, RegisterTurn, TakePendingStop, LeaveTurnLoop, FinishTurn, DrainDone, ContinueClaim,
                ContinueGivesUp, PlaceNext, ReleaseSlot, SafetyNet
  <2> QED
    BY <2>1, <2>2, <2>3, <2>4 DEF Worker, Turn
<1>2. \A v \in Msgs : Key(v) \in L => v # w /\ pc'[v] = pc[v] /\ cur'[v] = cur[v] /\ mailbox'[Key(v)] = mailbox[Key(v)]
  BY <1>w, <1>1
<1>3. HasHome(L)'
  <2> SUFFICES ASSUME NEW m \in Msgs, Key(m) \in L, fate'[m] = "held"
               PROVE  dmsg = m \/ m \in Queued(Key(m))' \/ \E v \in Msgs : Working(v)' /\ cur'[v] = m
    BY <1>w DEF HasHome, Key
  <2>1. dmsg = m \/ m \in Queued(Key(m)) \/ \E v \in Msgs : Working(v) /\ cur[v] = m
    BY <1>1 DEF HomeInv, HasHome
  <2>2. m \in Queued(Key(m)) => m \in Queued(Key(m))'
    BY <1>2 DEF Queued, Key
  <2>3. ASSUME NEW v \in Msgs, Working(v), cur[v] = m
        PROVE  Working(v)' /\ cur'[v] = m
    <3>1. Key(v) = Key(m)
      BY <2>3 DEF PlaceInv, HandsInv, Working
    <3> QED
      BY <1>2, <2>3, <3>1 DEF Working
  <2> QED
    BY <2>1, <2>2, <2>3
<1>4. NextSettled(L)'
  <2> SUFFICES ASSUME NEW v \in Msgs, Key(v) \in L, pc[v] = "next" PROVE fate'[cur[v]] # "held"
    BY <1>2 DEF NextSettled, Key
  <2>1. cur[v] \in Msgs /\ fate[cur[v]] # "held"
    BY DEF TypeOK, HomeInv, NextSettled
  <2> QED
    BY <1>1, <2>1
<1>5. EndsEmpty(L)'
  BY <1>2 DEF HomeInv, EndsEmpty, Key
<1> QED
  BY <1>3, <1>4, <1>5 DEF HomeInv

LEMMA HeldDispatcher ==
  ASSUME NEW L \in SUBSET Sessions, \A s \in L : Calm(s),
         TypeOK, ClaimPending, PlaceInv, UnownedGone, Unstopped(L), HomeInv(L),
         Dispatcher \/ \E m \in Msgs : Receive(m)
  PROVE  HomeInv(L)'
<1> USE DEF dispVars, workVars, histVars, HomeInv
<1>t. /\ pc \in [Msgs -> WorkerPCs] /\ fate \in [Msgs -> Fates]
      /\ mailbox \in [Sessions -> Mailboxes] /\ \A m \in Msgs : Key(m) \in Sessions
  BY DispatchConstants DEF TypeOK, Key
<1>1. ASSUME NEW m \in Msgs, Receive(m) PROVE HomeInv(L)'
  <2> USE DEF Receive
  <2>0. CASE DivertMessage(m) \/ ReceiveSystem(m)
    <3>1. /\ fate[m] = "unseen" /\ dmsg = None /\ dmsg' = m /\ fate' = [fate EXCEPT ![m] = "held"]
          /\ UNCHANGED <<mailbox, pc, cur>>
      BY <2>0 DEF DivertMessage, ReceiveSystem, CanReceive, Received, TypeOK
    <3>2. HasHome(L)'
      BY <1>t, <3>1, DispatchConstants DEF HasHome, Key, Queued, Working
    <3>3. NextSettled(L)' /\ EndsEmpty(L)'
      <4>1. \A v \in Msgs : pc[v] = "next" => cur[v] \in Msgs /\ cur[v] # m
        BY <3>1 DEF TypeOK, PlaceInv, GoneInv, Gone, Working
      <4> QED
        BY <1>t, <3>1, <4>1 DEF NextSettled, EndsEmpty, Key
    <3> QED
      BY <3>2, <3>3
  <2> SUFFICES ASSUME ClaimSession(m) \/ QueueIndependent(m) PROVE HomeInv(L)'
    BY <1>1, <2>0
  <2>1. /\ fate[m] = "unseen" /\ dmsg = None /\ fate' = [fate EXCEPT ![m] = "held"]
        /\ UNCHANGED <<pc, cur>>
    BY DEF ClaimSession, QueueIndependent, CanReceive, Received, TypeOK
  <2>2. m \in Queued(Key(m))' \/ dmsg' = m
    <3>1. CASE ClaimSession(m)
      BY <3>1 DEF ClaimSession
    <3>2. CASE QueueIndependent(m)
      <4>1. mailbox'[Key(m)].queue = Append(mailbox[Key(m)].queue, m)
        BY <1>t, <3>2 DEF QueueIndependent, Mailboxes
      <4>2. m \in Range(mailbox'[Key(m)].queue)
        BY <1>t, <4>1, QueuesTyped, AppendIs
      <4> QED
        BY <4>2 DEF Queued, Key
    <3> QED
      BY <1>1, <3>1, <3>2
  <2>3. \A s \in L : Queued(s) \subseteq Queued(s)'
    <3> SUFFICES ASSUME NEW s \in L PROVE Queued(s) \subseteq Queued(s)'
      OBVIOUS
    <3>1. CASE s = Key(m) /\ ClaimSession(m)
      <4>1. mailbox[s].owner = None
        BY <3>1 DEF ClaimSession, Calm
      <4>2. Queued(s) = {}
        BY <4>1, EmptyIs DEF UnownedGone, NoMailbox, Queued
      <4> QED
        BY <4>2
    <3>2. CASE s = Key(m) /\ QueueIndependent(m)
      <4>1. mailbox'[s].queue = Append(mailbox[s].queue, m)
        BY <1>t, <3>2 DEF QueueIndependent, Mailboxes
      <4> QED
        BY <4>1, QueuesTyped, AppendIs DEF Queued
    <3>3. CASE s # Key(m)
      <4>1. mailbox'[s] = mailbox[s]
        BY <1>1, <1>t, <3>3 DEF ClaimSession, QueueIndependent
      <4> QED
        BY <4>1 DEF Queued
    <3> QED
      BY <1>1, <3>1, <3>2, <3>3
  <2>4. HasHome(L)'
    <3> SUFFICES ASSUME NEW x \in Msgs, Key(x) \in L, fate'[x] = "held"
                 PROVE  dmsg' = x \/ x \in Queued(Key(x))' \/ \E v \in Msgs : Working(v)' /\ cur[v] = x
      BY <2>1 DEF HasHome, Key
    <3>1. CASE x = m
      BY <2>2, <3>1 DEF Key
    <3>2. CASE x # m
      <4>1. x # dmsg /\ (x \in Queued(Key(x)) \/ \E v \in Msgs : Working(v) /\ cur[v] = x)
        BY <1>t, <2>1, <3>2, DispatchConstants DEF HasHome
      <4>2. \A v \in Msgs : Working(v) => Working(v)'
        BY <2>1 DEF Working
      <4>3. x \in Queued(Key(x)) => x \in Queued(Key(x))'
        BY <1>t, <2>3 DEF Key
      <4> QED
        BY <4>1, <4>2, <4>3
    <3> QED
      BY <3>1, <3>2
  <2>5. NextSettled(L)'
    <3> SUFFICES ASSUME NEW v \in Msgs, Key(v) \in L, pc[v] = "next" PROVE fate'[cur[v]] # "held"
      BY <2>1 DEF NextSettled, Key
    <3>1. cur[v] \in Msgs /\ cur[v] # m
      BY <2>1 DEF TypeOK, PlaceInv, GoneInv, Gone, Working
    <3> QED
      BY <1>t, <2>1, <3>1 DEF NextSettled
  <2>6. EndsEmpty(L)'
    <3> SUFFICES ASSUME NEW v \in Msgs, Key(v) \in L, pc[v] \in {"slot", "safety", "release"}
                 PROVE  mailbox'[Key(v)].owner # v
      BY <2>1 DEF EndsEmpty, Key
    <3>1. v # m /\ mailbox[Key(v)].owner # v
      BY <2>1 DEF ClaimPending, EndsEmpty
    <3>2. mailbox'[Key(v)].owner \in {m, mailbox[Key(v)].owner}
      <4>1. Key(v) \in Sessions /\ mailbox[Key(v)] \in Mailboxes
        BY <1>t
      <4>2. CASE ClaimSession(m)
        BY <1>t, <4>1, <4>2 DEF ClaimSession
      <4>3. CASE QueueIndependent(m)
        BY <1>t, <4>1, <4>3 DEF QueueIndependent, Mailboxes
      <4> QED
        BY <1>1, <4>2, <4>3
    <3> QED
      BY <3>1, <3>2
  <2> QED
    BY <2>4, <2>5, <2>6
<1>2. CASE SpawnWorker
  <2>1. PICK m \in Msgs : m = dmsg /\ pc[m] = "none"
    BY <1>2 DEF SpawnWorker, ClaimPending
  <2>2. /\ pc'[m] = "acquire" /\ cur'[m] = m
        /\ \A v \in Msgs : v # m => pc'[v] = pc[v] /\ cur'[v] = cur[v]
        /\ UNCHANGED <<mailbox, fate>>
    BY <1>2, <2>1 DEF SpawnWorker, TypeOK
  <2>3. \A v \in Msgs : Working(v) => Working(v)' /\ cur'[v] = cur[v]
    BY <2>1, <2>2 DEF Working
  <2>4. Working(m)'
    BY <2>2 DEF Working
  <2>5. HasHome(L)'
    BY <2>1, <2>2, <2>3, <2>4 DEF HasHome, Queued, Key
  <2>6. NextSettled(L)' /\ EndsEmpty(L)'
    BY <2>2 DEF NextSettled, EndsEmpty, Key
  <2> QED
    BY <2>5, <2>6
<1>3. CASE Dispatcher /\ ~SpawnWorker
  <2>1. dpc \notin {"recv", "store"} /\ UNCHANGED <<mailbox, pc, cur>> /\ dmsg' \in {dmsg, None}
    BY <1>3 DEF Dispatcher, EnqueueSteering, ProcessMessageSync, HandleStop, StopClear, StopLook, StopAbort,
                StopRecheck, StopArm, MarkPendingStop, StopAck
  <2>2. \A m \in Msgs : fate'[m] = "held" => fate[m] = "held"
    BY <1>3, <1>t DEF Dispatcher, EnqueueSteering, ProcessMessageSync, HandleStop, StopClear, ClearScope, StopLook,
                      StopAbort, StopRecheck, StopArm, MarkPendingStop, StopAck
  <2>3. HasHome(L)'
    BY <2>1, <2>2 DEF Unstopped, HasHome, Key, Queued, Working
  <2>4. NextSettled(L)' /\ EndsEmpty(L)'
    <3>1. \A v \in Msgs : pc[v] = "next" => cur[v] \in Msgs
      BY DEF TypeOK
    <3> QED
      BY <2>1, <2>2, <3>1 DEF NextSettled, EndsEmpty, Key
  <2> QED
    BY <2>3, <2>4
<1> QED
  BY <1>1, <1>2, <1>3

LEMMA HeldStep ==
  ASSUME NEW L \in SUBSET Sessions, \A s \in L : Calm(s),
         TypeOK, ClaimPending, PlaceInv, UnownedGone, Unstopped(L), HeldInv(L), [Next]_vars
  PROVE  HeldInv(L)'
<1> SUFFICES ASSUME ~ctxDone' PROVE HomeInv(L)'
  BY DEF HeldInv
<1>1. ~ctxDone /\ HomeInv(L)
  <2>1. ctxDone => ctxDone'
    <3>1. CASE Shutdown \/ UNCHANGED vars
      BY <3>1 DEF Shutdown, vars
    <3>2. ASSUME NEW m \in Msgs, Receive(m) PROVE UNCHANGED ctxDone
      BY <3>2 DEF Receive, ClaimSession, QueueIndependent, DivertMessage, ReceiveSystem
    <3>3. CASE Dispatcher
      BY <3>3 DEF Dispatcher, SpawnWorker, EnqueueSteering, ProcessMessageSync, HandleStop, StopClear, StopLook,
                  StopAbort, StopRecheck, StopArm, MarkPendingStop, StopAck
    <3>4. ASSUME NEW w \in Msgs, Worker(w) PROVE UNCHANGED ctxDone
      BY <3>4 DEF Worker, Turn, TakePendingStop, PollSteering, LeaveTurnLoop, FinishTurn, AbortTurn, FailTurn,
                  CancelTurn, AcquireSlot, AcquireCancelled, CheckPendingStop, RunCommand, RegisterTurn,
                  FailBeforeTurn, DrainDone, ContinueClaim, ContinueGivesUp, ContinueTurn, Publish, TakeNextMessage,
                  PlaceNext, ReleaseSlot, SafetyNet, ReleaseMailbox
    <3> QED
      BY <3>1, <3>2, <3>3, <3>4 DEF Next, Idle
  <2> QED
    BY <2>1 DEF HeldInv
<1>2. ASSUME NEW w \in Msgs, Worker(w) PROVE HomeInv(L)'
  BY <1>1, <1>2, HeldWorker, HeldElsewhere
<1>3. CASE Dispatcher \/ \E m \in Msgs : Receive(m)
  BY <1>1, <1>3, HeldDispatcher
<1>4. CASE Shutdown
  BY <1>4 DEF Shutdown
<1>5. CASE UNCHANGED vars
  BY <1>1, <1>5 DEF vars, dispVars, workVars, histVars, HomeInv, HasHome, NextSettled, EndsEmpty, Working, Queued, Key
<1> QED
  BY <1>2, <1>3, <1>4, <1>5 DEF Next, Idle

LEMMA HeldInit ==
  ASSUME NEW L \in SUBSET Sessions, Init
  PROVE  ClaimPending /\ UnownedGone /\ EntryInv /\ Unstopped(L) /\ HeldInv(L)
BY DEF Init, ClaimPending, UnownedGone, EntryInv, Backed, Unstopped, HeldInv, HomeInv, HasHome, NextSettled, EndsEmpty

\* At rest no message of a session of L is held without an answer.
DroppedNoneIn(L) == Quiescent /\ ~ctxDone => \A m \in Msgs : Key(m) \in L => fate[m] # "held"

LEMMA HeldSettles ==
  ASSUME NEW L \in SUBSET Sessions, TypeOK, OwnerAlive, UnownedGone, HeldInv(L)
  PROVE  DroppedNoneIn(L)
<1> SUFFICES ASSUME Quiescent, ~ctxDone, NEW m \in Msgs, Key(m) \in L, fate[m] = "held"
             PROVE  FALSE
  BY DEF DroppedNoneIn
<1>1. dmsg = None /\ m # None /\ \A w \in Msgs : ~Working(w)
  BY DispatchConstants DEF Quiescent, TypeOK, Working
<1>2. m \in Queued(Key(m)) /\ Key(m) \in Sessions
  BY <1>1, DispatchConstants DEF HeldInv, HomeInv, HasHome, Key
<1>3. mailbox[Key(m)].owner # None
  BY <1>2, EmptyIs DEF UnownedGone, NoMailbox, Queued
<1>4. mailbox[Key(m)].owner \in Msgs
  BY <1>2, <1>3 DEF TypeOK, Mailboxes
<1> QED
  BY <1>2, <1>3, <1>4 DEF OwnerAlive, Quiescent

\* In Telegram chats nobody stops no message is dropped, whatever the other sessions of
\* the system do: once everything has come to rest each one received has its answer,
\* however many there are and whichever fails.
THEOREM CalmNothingDropped ==
  ASSUME NEW L \in SUBSET Sessions, \A s \in L : Calm(s)
  PROVE  Spec => []DroppedNoneIn(L)
<1>1. Init => ClaimPending /\ UnownedGone /\ EntryInv /\ Unstopped(L) /\ HeldInv(L)
  BY HeldInit
<1>2. TypeOK /\ PlaceInv /\ EntryInv /\ Unstopped(L) /\ [Next]_vars => Unstopped(L)'
  BY UnstoppedStep
<1>3. TypeOK /\ ClaimPending /\ PlaceInv /\ UnownedGone /\ Unstopped(L) /\ HeldInv(L) /\ [Next]_vars => HeldInv(L)'
  BY HeldStep
<1>4. TypeOK /\ OwnerAlive /\ UnownedGone /\ HeldInv(L) => DroppedNoneIn(L)
  BY HeldSettles
<1> QED
  BY <1>1, <1>2, <1>3, <1>4, PlaceInit, PlaceStep, UnownedStep, EntryStep, ClaimPendingStep, OwnerAliveCorrect,
     TypeCorrect, PTL DEF Spec

\* Where all sessions are Telegram chats and nobody stops them, no message is dropped.
THEOREM NothingDroppedCorrect ==
  ASSUME \A s \in Sessions : Calm(s)
  PROVE  Spec => []NothingDropped
<1>1. Init => ClaimPending /\ UnownedGone /\ EntryInv /\ Unstopped(Sessions) /\ HeldInv(Sessions)
  BY HeldInit
<1>2. TypeOK /\ PlaceInv /\ EntryInv /\ Unstopped(Sessions) /\ [Next]_vars => Unstopped(Sessions)'
  BY UnstoppedStep
<1>3. TypeOK /\ ClaimPending /\ PlaceInv /\ UnownedGone /\ Unstopped(Sessions) /\ HeldInv(Sessions)
      /\ [Next]_vars => HeldInv(Sessions)'
  BY HeldStep
<1>4. TypeOK /\ OwnerAlive /\ UnownedGone /\ HeldInv(Sessions) => NothingDropped
  BY HeldSettles, DispatchConstants DEF DroppedNoneIn, NothingDropped, Key
<1> QED
  BY <1>1, <1>2, <1>3, <1>4, PlaceInit, PlaceStep, UnownedStep, EntryStep, ClaimPendingStep, OwnerAliveCorrect,
     TypeCorrect, PTL DEF Spec
=============================================================================
