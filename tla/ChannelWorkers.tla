--------------------------- MODULE ChannelWorkers ---------------------------
(***************************************************************************)
(* The outbound side of the channel manager                                *)
(* (src/core/src/pkg/channels/manager.go): the dispatcher that moves       *)
(* messages from the bus to the worker of their channel, the workers that  *)
(* send them, and the reconciliation that replaces channels under them     *)
(* (StartAll, Reload, RegisterChannel, UnregisterChannel, StopAll).        *)
(*                                                                         *)
(* The main goroutine of the gateway calls StartAll, then Reload any       *)
(* number of times, then StopAll; each Reload leaves a goroutine behind    *)
(* that registers and unregisters channels with the lock taken anew for    *)
(* each.  Media messages have a dispatcher, queues and workers of their    *)
(* own of the same form; they are left out.                                *)
(***************************************************************************)
EXTENDS Integers, FiniteSets, SequencesExt

CONSTANTS Names,       \* channel names of the configuration
          LastInst,    \* bound: instances 1..LastInst are ever built, and as many workers
          LastReload,  \* bound: number of reloads
          LastMsg,     \* bound: messages 1..LastMsg are published
          QueueSize,   \* defaultChannelQueueSize
          Configs,     \* the configurations: the hash of each enabled channel, or None
          ApiFails     \* whether a send of a running channel may fail

ASSUME ChannelConstants ==
  /\ IsFiniteSet(Names)
  /\ LastInst \in Nat \ {0} /\ LastReload \in Nat /\ LastMsg \in Nat
  /\ QueueSize \in Nat \ {0} /\ ApiFails \in BOOLEAN
  /\ Configs \subseteq [Names -> Nat]
  /\ \A hs \in Configs : Cardinality({c \in Names : hs[c] # 0}) <= LastInst

Insts == 1..LastInst
Workers == Insts
Epochs == 0..LastReload      \* the dispatch contexts: of StartAll, of each Reload
Ids == 1..LastMsg
None == 0
AnyName == CHOOSE c \in Names : TRUE
Free == -1
Main == 0

VARIABLES
  hashes,     \* channelHashes: hash of each enabled channel, or None
  channels,   \* m.channels: instance of each name, or None
  workers,    \* m.workers: worker of each name, or None
  started,    \* instances whose Start succeeded and whose Stop was not called
  made,       \* number of instances built
  chanOf,     \* the instance of each worker made, or None
  task,       \* dispatchTask: the context StopAll will cancel, or -1
  cancelled,  \* contexts that are cancelled
  ctxOf,      \* the context of each worker
  lock,       \* m.mu: Free, Main, or the Reload whose goroutine holds it
  main,       \* what the main goroutine does, and the lists of its Reload
  late,       \* deferFuncs each Reload has left to its goroutine
  bus,        \* the outbound stream of the message bus
  disp,       \* the dispatchers: where each is, its message, its worker
  queue,      \* worker queues
  closed,     \* worker queues that are closed
  work,       \* where each worker is, and the message it holds
  published,  \* number of messages published
  crashed,    \* a goroutine sent on, or closed, a closed queue
  sent,       \* history: messages sent on each channel, in order
  fate,       \* history: how each message ended
  shaky       \* history: names whose registration is not in order any more

registry == <<hashes, channels, workers, started, made, chanOf>>
contexts == <<task, cancelled, ctxOf>>
traffic == <<bus, disp, queue, work, published, sent, fate>>
vars == <<registry, contexts, lock, main, late, traffic, closed, crashed, shaky>>

Idle == [pc |-> "idle", removed |-> {}, added |-> {}, at |-> AnyName, defers |-> <<>>]
Away == [pc |-> "off", msg |-> None, worker |-> None]
Ready == [pc |-> "idle", msg |-> None]

\* The place of c in a sequence of distinct names, or 0.
IndexIn(c, order) == Max({0} \cup {k \in DOMAIN order : order[k] = c})

InitFor(hs, cs, n) ==
  /\ hashes = hs /\ channels = cs /\ made = n
  /\ workers = [c \in Names |-> None] /\ started = {}
  /\ task = -1 /\ cancelled = {} /\ ctxOf = [w \in Workers |-> 0] /\ chanOf = [w \in Workers |-> None]
  /\ lock = Free /\ main = [Idle EXCEPT !.pc = "new"]
  /\ late = [r \in 1..LastReload |-> <<>>]
  /\ bus = <<>> /\ disp = [e \in Epochs |-> Away]
  /\ queue = [w \in Workers |-> <<>>] /\ closed = {}
  /\ work = [w \in Workers |-> [pc |-> "off", msg |-> None]]
  /\ published = 0 /\ crashed = FALSE
  /\ sent = [c \in Names |-> <<>>] /\ fate = [m \in Ids |-> [on |-> AnyName, is |-> "none"]]
  /\ shaky = {}

\* NewManager: an instance for every enabled channel whose factory succeeds.
Init ==
  \E hs \in Configs, unbuilt \in SUBSET Names :
    LET order == SetToSeq({c \in Names : hs[c] # None} \ unbuilt)
    IN  InitFor(hs, [c \in Names |-> IndexIn(c, order)], Len(order))

-----------------------------------------------------------------------------
\* StartAll: starts the channels, a worker for each that did, one dispatcher.
\* With channels but no worker the gateway gives up.
StartAll(failing) ==
  LET up == {c \in Names : channels[c] # None} \ failing
  IN  /\ main.pc = "new" /\ \A c \in failing : channels[c] # None
      /\ started' = {channels[c] : c \in up}
      /\ workers' = [c \in Names |-> IF c \in up THEN channels[c] ELSE None]
      /\ chanOf' = [w \in Workers |-> IF w \in started' THEN w ELSE None]
      /\ work' = [w \in Workers |-> IF w \in started' THEN Ready ELSE work[w]]
      /\ IF up = {} /\ failing # {}
           THEN main' = [Idle EXCEPT !.pc = "stopped"] /\ cancelled' = {0} /\ UNCHANGED <<task, disp>>
           ELSE main' = Idle /\ task' = 0 /\ disp' = [disp EXCEPT ![0].pc = "recv"] /\ UNCHANGED cancelled
      /\ UNCHANGED <<hashes, channels, made, ctxOf, lock, late, bus, queue, closed, published,
                     crashed, sent, fate, shaky>>

Publish(c) ==
  /\ published < LastMsg /\ main.pc \notin {"new", "stopped"}
  /\ published' = published + 1
  /\ bus' = Append(bus, published')
  /\ fate' = [fate EXCEPT ![published'] = [on |-> c, is |-> "pending"]]
  /\ UNCHANGED <<registry, contexts, lock, main, late, disp, queue, work, sent, closed, crashed, shaky>>

Ended(m, how) == fate' = [fate EXCEPT ![m].is = how]

-----------------------------------------------------------------------------
\* dispatchLoop
DispatchReceive(e) ==
  /\ disp[e].pc = "recv" /\ bus # <<>>
  /\ disp' = [disp EXCEPT ![e] = [pc |-> "look", msg |-> Head(bus), worker |-> None]]
  /\ bus' = Tail(bus)
  /\ UNCHANGED <<registry, contexts, lock, main, late, queue, work, published, sent, fate,
                 closed, crashed, shaky>>

DispatchStop(e) ==
  /\ disp[e].pc = "recv" /\ e \in cancelled
  /\ disp' = [disp EXCEPT ![e] = Away]
  /\ UNCHANGED <<registry, contexts, lock, main, late, bus, queue, work, published, sent, fate,
                 closed, crashed, shaky>>

\* The worker is looked up under the lock, and sent to without it.
DispatchLookup(e) ==
  LET m == disp[e].msg
      c == fate[m].on
  IN  /\ disp[e].pc = "look" /\ lock = Free
      /\ IF channels[c] = None \/ workers[c] = None
           THEN /\ disp' = [disp EXCEPT ![e] = [Away EXCEPT !.pc = "recv"]]
                /\ Ended(m, IF channels[c] = None THEN "unknown" ELSE "no worker")
           ELSE /\ disp' = [disp EXCEPT ![e] = [pc |-> "send", msg |-> m, worker |-> workers[c]]]
                /\ fate' = fate
      /\ UNCHANGED <<registry, contexts, lock, main, late, bus, queue, work, published, sent,
                     closed, crashed, shaky>>

DispatchEnqueue(e) ==
  LET w == disp[e].worker
  IN  /\ disp[e].pc = "send" /\ w \notin closed /\ Len(queue[w]) < QueueSize
      /\ queue' = [queue EXCEPT ![w] = Append(@, disp[e].msg)]
      /\ disp' = [disp EXCEPT ![e] = [Away EXCEPT !.pc = "recv"]]
      /\ UNCHANGED <<registry, contexts, lock, main, late, bus, work, published, sent, fate,
                     closed, crashed, shaky>>

\* The queue was closed after the lookup: the send panics, and nothing recovers.
DispatchPanic(e) ==
  /\ disp[e].pc = "send" /\ disp[e].worker \in closed
  /\ crashed' = TRUE
  /\ UNCHANGED <<registry, contexts, lock, main, late, traffic, closed, shaky>>

DispatchGiveUp(e) ==
  /\ disp[e].pc = "send" /\ e \in cancelled
  /\ Ended(disp[e].msg, "cancelled")
  /\ disp' = [disp EXCEPT ![e] = Away]
  /\ UNCHANGED <<registry, contexts, lock, main, late, bus, queue, work, published, sent,
                 closed, crashed, shaky>>

-----------------------------------------------------------------------------
\* runWorker and sendWithRetry; with a cancelled context the limiter refuses
\* every message, so that taking one is dropping it.
WorkerTake(w) ==
  /\ work[w].pc = "idle" /\ queue[w] # <<>> /\ ctxOf[w] \notin cancelled
  /\ work' = [work EXCEPT ![w] = [pc |-> "sending", msg |-> Head(queue[w])]]
  /\ queue' = [queue EXCEPT ![w] = Tail(@)]
  /\ UNCHANGED <<registry, contexts, lock, main, late, bus, disp, published, sent, fate,
                 closed, crashed, shaky>>

\* Mutant: the worker does not look whether its queue was closed.
NeverExhausted(w) == FALSE

Exhausted(w) == w \in closed /\ queue[w] = <<>>

\* The queue is closed and empty, or the context is cancelled: what is still
\* queued then is dropped.
WorkerDone(w) ==
  /\ work[w].pc = "idle"
  /\ Exhausted(w) \/ ctxOf[w] \in cancelled
  /\ work' = [work EXCEPT ![w].pc = "done"]
  /\ queue' = [queue EXCEPT ![w] = <<>>]
  /\ fate' = [m \in Ids |-> IF m \in ToSet(queue[w]) THEN [fate[m] EXCEPT !.is = "cancelled"]
                             ELSE fate[m]]
  /\ UNCHANGED <<registry, contexts, lock, main, late, bus, disp, published, sent,
                 closed, crashed, shaky>>

\* The attempts of one message; a channel that was stopped refuses it.
WorkerSend(w, ok) ==
  LET m == work[w].msg
      c == fate[m].on
  IN  /\ work[w].pc = "sending"
      /\ IF ok THEN chanOf[w] \in started ELSE ApiFails \/ chanOf[w] \notin started
      /\ sent' = IF ok THEN [sent EXCEPT ![c] = Append(@, m)] ELSE sent
      /\ Ended(m, IF ok THEN "sent" ELSE "failed")
      /\ work' = [work EXCEPT ![w] = Ready]
      /\ UNCHANGED <<registry, contexts, lock, main, late, bus, disp, queue, published,
                     closed, crashed, shaky>>

\* The wait for the limiter or between two attempts ends with the context.
WorkerAbandon(w) ==
  /\ work[w].pc = "sending" /\ ctxOf[w] \in cancelled
  /\ Ended(work[w].msg, "cancelled")
  /\ work' = [work EXCEPT ![w] = Ready]
  /\ UNCHANGED <<registry, contexts, lock, main, late, bus, disp, queue, published, sent,
                 closed, crashed, shaky>>

-----------------------------------------------------------------------------
\* compareChannels: a channel whose configuration changed is in both.
Removed(cfg) == {c \in Names : hashes[c] # None /\ cfg[c] # hashes[c]}
Added(cfg) == {c \in Names : cfg[c] # None /\ cfg[c] # hashes[c]}

Unregister(c) == [op |-> "unregister", name |-> c, inst |-> None]
Register(c, i) == [op |-> "register", name |-> c, inst |-> i]

\* Mutant: a Reload cancels the context it replaces.
CancelOld == cancelled \cup {task}
CancelledByReload == cancelled

\* Mutant: a Reload starts a dispatcher of its own.
OneMore(e) == [disp EXCEPT ![e].pc = "recv"]
DispatchersOf(e) == disp

\* Names an earlier Reload still has to register or unregister.
Entangled == UNION {{late[r][k].name : k \in DOMAIN late[r]} : r \in DOMAIN late}

\* Reload takes the lock, compares and replaces the dispatch context: the
\* earlier one is no longer cancelled by anyone.  The channels that go are
\* stopped one after the other.
ReloadBegin(cfg) ==
  /\ main.pc = "idle" /\ lock = Free /\ task < LastReload
  /\ lock' = Main
  /\ main' = [Idle EXCEPT !.pc = "remove", !.removed = Removed(cfg), !.added = Added(cfg)]
  /\ hashes' = cfg
  /\ task' = task + 1
  /\ cancelled' = CancelledByReload
  /\ disp' = DispatchersOf(task + 1)
  /\ shaky' = shaky \cup Entangled \cup {c \in Removed(cfg) \cap Added(cfg) : channels[c] = None}
  /\ UNCHANGED <<channels, workers, started, made, chanOf, ctxOf, late, bus, queue, work, published,
                 sent, fate, closed, crashed>>

\* Mutant: an instance that is replaced is unregistered later, by its name.
ReleasedLater(c) == FALSE
\* An instance that is replaced is released before its successor is built, if
\* the manager still holds it.
ReleasedNow(c) == c \in main.added

CloseQueue(w) ==
  /\ closed' = closed \cup {w}
  /\ crashed' = (crashed \/ w \in closed)

\* One channel of removed: Stop, then release or defer.  The wait for the
\* worker is a step of its own.
ReloadRemove(c) ==
  LET i == channels[c]
      w == workers[c]
  IN  /\ main.pc = "remove" /\ c \in main.removed
      /\ started' = started \ {i}
      /\ IF i # None /\ ReleasedNow(c)
           THEN IF w # None
                  THEN /\ CloseQueue(w)
                       /\ main' = [main EXCEPT !.pc = "drain", !.removed = @ \ {c}, !.at = c]
                       /\ UNCHANGED channels
                  ELSE /\ channels' = [channels EXCEPT ![c] = None]
                       /\ main' = [main EXCEPT !.removed = @ \ {c}]
                       /\ UNCHANGED <<closed, crashed>>
           ELSE /\ main' = [main EXCEPT !.removed = @ \ {c}, !.defers = Append(@, Unregister(c))]
                /\ UNCHANGED <<channels, closed, crashed>>
      /\ UNCHANGED <<hashes, workers, made, chanOf, contexts, lock, late, traffic, shaky>>

\* <-w.done of releaseChannelInstanceLocked.
ReloadReleased ==
  /\ main.pc = "drain" /\ work[workers[main.at]].pc = "done"
  /\ channels' = [channels EXCEPT ![main.at] = None]
  /\ workers' = [workers EXCEPT ![main.at] = None]
  /\ main' = [main EXCEPT !.pc = "remove", !.at = AnyName]
  /\ UNCHANGED <<hashes, started, made, chanOf, contexts, lock, late, traffic, closed, crashed, shaky>>

\* initChannels: an instance for every added channel, unless its factory fails;
\* then an instance still registered under the name stays.
ReloadBuild(failing) ==
  LET built == SetToSeq(main.added \ failing)
  IN  /\ main.pc = "remove" /\ main.removed = {} /\ failing \subseteq main.added
      /\ made + Len(built) <= LastInst
      /\ channels' = [c \in Names |-> IF c \in main.added \ failing THEN made + IndexIn(c, built) ELSE channels[c]]
      /\ made' = made + Len(built)
      /\ main' = [main EXCEPT !.pc = "start"]
      /\ UNCHANGED <<hashes, workers, started, chanOf, contexts, lock, late, traffic, closed, crashed, shaky>>

\* One channel of added: without an instance, or with a failing Start, nothing
\* is deferred; the hash stays committed.
ReloadStart(c, ok) ==
  LET i == channels[c]
      w == 1 + Max({v \in Workers : chanOf[v] # None} \cup {0})
      up == ok /\ i # None
  IN  /\ main.pc = "start" /\ c \in main.added
      /\ ok => i # None /\ w \in Workers
      /\ started' = IF up THEN started \cup {i} ELSE started
      /\ workers' = IF up THEN [workers EXCEPT ![c] = w] ELSE workers
      /\ chanOf' = IF up THEN [chanOf EXCEPT ![w] = i] ELSE chanOf
      /\ work' = IF up THEN [work EXCEPT ![w] = Ready] ELSE work
      /\ ctxOf' = IF up THEN [ctxOf EXCEPT ![w] = task] ELSE ctxOf
      /\ main' = [main EXCEPT !.added = @ \ {c},
                    !.defers = IF up THEN Append(@, Register(c, i)) ELSE @]
      /\ UNCHANGED <<hashes, channels, made, task, cancelled, lock, late, bus, disp, queue,
                     published, sent, fate, closed, crashed, shaky>>

ReloadEnd ==
  /\ main.pc = "start" /\ main.added = {}
  /\ late' = [late EXCEPT ![task] = main.defers]
  /\ main' = Idle /\ lock' = Free
  /\ UNCHANGED <<registry, contexts, traffic, closed, crashed, shaky>>

-----------------------------------------------------------------------------
\* The goroutine of Reload r.
LateRegister(r) ==
  /\ late[r] # <<>> /\ Head(late[r]).op = "register" /\ lock = Free
  /\ channels' = [channels EXCEPT ![Head(late[r]).name] = Head(late[r]).inst]
  /\ late' = [late EXCEPT ![r] = Tail(@)]
  /\ UNCHANGED <<hashes, workers, started, made, chanOf, contexts, lock, main, traffic, closed, crashed, shaky>>

\* UnregisterChannel closes the queue and waits with the lock held.  A queue
\* that StopAll has closed panics here; the goroutine recovers and ends.
LateUnregister(r) ==
  LET w == workers[Head(late[r]).name]
  IN  /\ late[r] # <<>> /\ Head(late[r]).op = "unregister" /\ lock = Free
      /\ IF w \in closed
           THEN late' = [late EXCEPT ![r] = <<>>] /\ UNCHANGED <<lock, closed>>
           ELSE /\ lock' = r /\ late' = late
                /\ closed' = IF w = None THEN closed ELSE closed \cup {w}
      /\ UNCHANGED <<registry, contexts, main, traffic, crashed, shaky>>

LateUnregistered(r) ==
  LET c == Head(late[r]).name
  IN  /\ lock = r
      /\ workers[c] # None => work[workers[c]].pc = "done"
      /\ workers' = [workers EXCEPT ![c] = None]
      /\ channels' = [channels EXCEPT ![c] = None]
      /\ late' = [late EXCEPT ![r] = Tail(@)] /\ lock' = Free
      /\ UNCHANGED <<hashes, started, made, chanOf, contexts, main, traffic, closed, crashed, shaky>>

-----------------------------------------------------------------------------
\* StopAll: cancels, closes every queue, waits for every worker, stops the
\* channels.  The workers stay registered.
Registered == {workers[c] : c \in Names} \ {None}

StopAll ==
  /\ main.pc = "idle" /\ lock = Free
  /\ lock' = Main /\ main' = [Idle EXCEPT !.pc = "stopping"]
  /\ cancelled' = cancelled \cup {task} /\ task' = -1
  /\ closed' = closed \cup Registered
  /\ UNCHANGED <<registry, ctxOf, late, traffic, crashed, shaky>>

StopAllDone ==
  /\ main.pc = "stopping"
  /\ \A w \in Registered : work[w].pc = "done"
  /\ started' = started \ {channels[c] : c \in Names}
  /\ main' = [Idle EXCEPT !.pc = "stopped"] /\ lock' = Free
  /\ UNCHANGED <<hashes, channels, workers, made, chanOf, contexts, late, traffic, closed, crashed, shaky>>

-----------------------------------------------------------------------------
Dispatch(e) ==
  \/ DispatchReceive(e) \/ DispatchStop(e) \/ DispatchLookup(e)
  \/ DispatchEnqueue(e) \/ DispatchPanic(e) \/ DispatchGiveUp(e)
Worker(w) ==
  \/ WorkerTake(w) \/ WorkerDone(w) \/ WorkerAbandon(w)
  \/ \E ok \in BOOLEAN : WorkerSend(w, ok)
Reloading ==
  \/ ReloadReleased \/ ReloadEnd
  \/ \E failing \in SUBSET Names : ReloadBuild(failing)
  \/ \E c \in Names : ReloadRemove(c) \/ \E ok \in BOOLEAN : ReloadStart(c, ok)
Late(r) == LateRegister(r) \/ LateUnregister(r) \/ LateUnregistered(r)

Next ==
  /\ ~crashed
  /\ \/ \E failing \in SUBSET Names : StartAll(failing)
     \/ \E c \in Names : Publish(c)
     \/ \E e \in Epochs : Dispatch(e)
     \/ \E w \in Workers : Worker(w)
     \/ (\E cfg \in Configs : ReloadBegin(cfg)) \/ Reloading
     \/ \E r \in 1..LastReload : Late(r)
     \/ StopAll \/ StopAllDone

Spec == Init /\ [][Next]_vars

\* Sends end (they have a time-out), and every goroutine goes on.
Fairness ==
  /\ \A e \in Epochs : WF_vars(~crashed /\ Dispatch(e))
  /\ \A w \in Workers : WF_vars(~crashed /\ Worker(w))
  /\ WF_vars(~crashed /\ (Reloading \/ StopAllDone))
  /\ \A r \in 1..LastReload : WF_vars(~crashed /\ Late(r))
FairSpec == Spec /\ Fairness

-----------------------------------------------------------------------------
TypeOK ==
  /\ hashes \in Configs
  /\ channels \in [Names -> Insts \cup {None}] /\ workers \in [Names -> Workers \cup {None}]
  /\ started \subseteq 1..made /\ made \in 0..LastInst
  /\ chanOf \in [Workers -> Insts \cup {None}]
  /\ task \in -1..LastReload /\ cancelled \subseteq Epochs /\ ctxOf \in [Workers -> Epochs]
  /\ lock \in {Free} \cup 0..LastReload
  /\ main.pc \in {"new", "idle", "remove", "drain", "start", "stopping", "stopped"}
  /\ \A r \in DOMAIN late, k \in 1..Cardinality(Names) + 1 :
       k \in DOMAIN late[r] => late[r][k].name \in Names
  /\ \A w \in Workers : Len(queue[w]) <= QueueSize
  /\ closed \subseteq Workers /\ crashed \in BOOLEAN /\ shaky \subseteq Names

\* Live: the worker takes messages and its channel sends them.
Serves(w) ==
  /\ w # None /\ w \notin closed /\ ctxOf[w] \notin cancelled
  /\ work[w].pc \in {"idle", "sending"} /\ chanOf[w] \in started

\* When no reconciliation is under way, a channel that is registered and was
\* started has a worker of its own that serves it, and one that was started is
\* registered ("leaving a channel that is configured, started and polling but
\* has no worker to send through" must not happen), unless its name was reloaded
\* while an earlier reload had work left on it, or was changed while it had no
\* instance.
StartedIsServed ==
  lock = Free /\ main.pc = "idle" =>
    /\ \A c \in Names \ shaky :
         channels[c] \in started => Serves(workers[c]) /\ chanOf[workers[c]] = channels[c]
    /\ shaky = {} => started \subseteq {channels[c] : c \in Names}

\* Each channel gets its messages in the order of the bus and none of them
\* twice, over replacements of the channel, with the same exception.
OrderedOnce ==
  \A c \in Names \ shaky : \A j, k \in DOMAIN sent[c] : j < k => sent[c][j] < sent[c][k]

\* A channel a reload does not touch keeps its worker and its dispatcher: until
\* StopAll no message is dropped because a context ended.
ReloadSparesOthers ==
  main.pc \notin {"stopping", "stopped"} =>
    /\ \A m \in Ids : fate[m].is # "cancelled"
    /\ main.pc # "new" => disp[0].pc # "off"

\* A reload and a shutdown end: the wait for the workers they have closed, with
\* the lock held, does not block them for ever, unless the process crashes.
ReconcileEnds == lock # Free ~> lock = Free \/ crashed

\* Every message on the bus comes to an end while the gateway runs.
EveryMessageEnds ==
  \A m \in Ids : fate[m].is = "pending" ~>
    fate[m].is # "pending" \/ crashed \/ main.pc \in {"stopping", "stopped"}
=============================================================================
