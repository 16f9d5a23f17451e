--------------------------- MODULE SessionHistory ---------------------------
(***************************************************************************)
(* The transcript and the rolling summary of one session, and the three    *)
(* goroutines that write them (src/core/src/pkg/agent):                    *)
(*   - the turn: newTurnState and the restore point (turn_state.go), the   *)
(*     phases of runTurn (turn_coord.go, pipeline_*.go), the emergency     *)
(*     compression it runs inline (context_legacy.go, context_recovery.go) *)
(*   - the summariser that legacyContextManager.maybeSummarize starts      *)
(*   - the dispatcher in HardAbort (steering.go), on behalf of /stop       *)
(* Each access to the session store is atomic, a sequence of them is not.  *)
(* Token budgets are the environment's choice; message counts are exact.   *)
(***************************************************************************)
EXTENDS Integers, Sequences, FiniteSets, Functions

CONSTANTS TurnMax,      \* bound: turns of the run
          PersistMax,   \* bound: messages one turn writes
          Threshold,    \* SummarizeMessageThreshold
          KeepTail,     \* messages summarizeSession leaves alone (4 in the code)
          BatchMax,     \* maxSummarizationMessages (10 in the code)
          Window,       \* TelegramRecentContextMessages, 0 for other channels
          HoldFactor,   \* uncoveredHoldFactor (2 in the code)
          Compresses,   \* where the token budget may be exceeded: "setup", "llm"
          MayStop,      \* whether the user sends /stop
          Overlaps      \* goroutines a new turn does not wait for

ASSUME HistoryConstants ==
  /\ TurnMax \in Nat /\ PersistMax \in Nat \ {0, 1} /\ Threshold \in Nat
  /\ KeepTail \in Nat /\ BatchMax \in Nat /\ Window \in Nat /\ HoldFactor \in Nat
  /\ Compresses \subseteq {"setup", "llm"}
  /\ MayStop \in BOOLEAN
  /\ Overlaps \subseteq {"summariser", "stopper"}

VARIABLES
  history, summary,             \* the session store
  turn, pc, initial, restore,   \* turnState: number, phase, initialHistoryLength, restore point
  persisted, hardAbort,         \* turnState: persistedMessages, hardAbort
  recovered, seen,              \* its inline compaction: already retried, what it read
  pendingStop,                  \* pendingStops
  zpc, zcut, zkeep, zold,       \* the summariser: what it summarises, keepCount, the summary it read
  spc, sinitial, sseen,         \* HardAbort: initialHistoryLength and the history it read
  written, outcome, stopped,    \* history variables: all messages, how turns ended, /stop accepted
  marks                         \* history variable: what compaction did under a turn (Shorten)

store == <<history, summary>>
turnVars == <<turn, pc, initial, restore, persisted, hardAbort, recovered, seen, pendingStop>>
zVars == <<zpc, zcut, zkeep, zold>>
sVars == <<spc, sinitial, sseen>>
ghosts == <<written, outcome, stopped, marks>>
vars == <<store, turnVars, zVars, sVars, ghosts>>

Roles == {"user", "call", "tool", "answer"}
Message == [turn : 1..TurnMax, n : 1..PersistMax, role : Roles]
\* What the summary text stands for: messages it was written from, and messages
\* that a note in it only mentions (dropped by forceCompression, or oversized).
Summary == [covers : SUBSET Message, drops : SUBSET Message]
EmptySummary == [covers |-> {}, drops |-> {}]
Phases == {"idle", "created", "setup", "budget", "read", "write", "shorten", "refresh",
           "root", "iterate", "inject", "llm", "tool", "handled", "handledEnd", "finalize",
           "aborting", "restoring", "done"}
Marks == {"short", "own", "back"}

TypeOK ==
  /\ history \in Seq(Message) /\ summary \in Summary
  /\ turn \in 0..TurnMax /\ pc \in Phases
  /\ initial \in Nat /\ restore \in [hist : Seq(Message), summ : Summary]
  /\ persisted \in Seq(Message)
  /\ hardAbort \in BOOLEAN /\ recovered \in BOOLEAN /\ pendingStop \in BOOLEAN
  /\ seen \in Seq(Message)
  /\ zpc \in {"idle", "start", "asking", "cutting"}
  /\ zcut \in Seq(Message) /\ zkeep \in Nat /\ zold \in Summary
  /\ spc \in {"idle", "requested", "writing"}
  /\ sinitial \in Nat /\ sseen \in Seq(Message)
  /\ written \subseteq Message
  /\ outcome \in [1..TurnMax -> {"none", "completed", "error", "aborted"}]
  /\ stopped \subseteq 1..TurnMax
  /\ marks \subseteq (1..TurnMax) \X Marks

NoTurnState ==
  /\ pc' = "idle" /\ initial' = 0
  /\ restore' = [hist |-> <<>>, summ |-> EmptySummary]
  /\ persisted' = <<>> /\ hardAbort' = FALSE /\ recovered' = FALSE /\ seen' = <<>>

Init ==
  /\ history = <<>> /\ summary = EmptySummary
  /\ turn = 0 /\ pc = "idle" /\ initial = 0
  /\ restore = [hist |-> <<>>, summ |-> EmptySummary]
  /\ persisted = <<>> /\ hardAbort = FALSE /\ recovered = FALSE /\ seen = <<>>
  /\ pendingStop = FALSE
  /\ zpc = "idle" /\ zcut = <<>> /\ zkeep = 0 /\ zold = EmptySummary
  /\ spc = "idle" /\ sinitial = 0 /\ sseen = <<>>
  /\ written = {} /\ outcome = [t \in 1..TurnMax |-> "none"] /\ stopped = {}
  /\ marks = {}

-----------------------------------------------------------------------------
(* Turn boundaries.  Indices count from 1, so the cut the code calls mid    *)
(* keeps h[mid + 1] onwards.                                                *)

Suffix(h, mid) == SubSeq(h, mid + 1, Len(h))
LastN(h, n) == IF n >= Len(h) THEN h ELSE Suffix(h, Len(h) - n)

\* parseTurnBoundaries
Boundaries(h) == {i \in 0..(Len(h) - 1) : h[i + 1].role = "user"}
Largest(S) == CHOOSE i \in S : \A j \in S : j <= i
Smallest(S) == CHOOSE i \in S : \A j \in S : i <= j

\* Mutant: the boundary found is ignored.
AnyBoundary(h, target) == IF target <= 0 THEN 0 ELSE target

\* findSafeBoundary
SafeBoundary(h, target) ==
  LET before == {b \in Boundaries(h) : b <= target /\ b > 0}
      after == {b \in Boundaries(h) : b > target}
  IN  IF target <= 0 \/ h = <<>> THEN 0
      ELSE IF target >= Len(h) THEN Len(h)
      ELSE IF Boundaries(h) = {} THEN target
      ELSE IF before # {} THEN Largest(before)
      ELSE IF after # {} THEN Smallest(after)
      ELSE 0

Conversational(h) ==
  Cardinality({i \in DOMAIN h : h[i].role \in {"user", "answer"}})

\* projectRecentHistory: how many of the oldest messages it leaves behind.
Evicted(h, limit) ==
  LET fits == {b \in Boundaries(h) : Conversational(Suffix(h, b)) <= limit}
  IN  IF h = <<>> \/ limit <= 0 \/ Conversational(h) <= limit \/ Boundaries(h) = {} THEN 0
      ELSE IF fits # {} THEN Smallest(fits)
      ELSE Largest(Boundaries(h))

\* projectRecentContext: the cut is held while the summary may catch up.
Projected(h) ==
  IF Window = 0 \/ Conversational(h) <= Window * HoldFactor THEN h
  ELSE Suffix(h, Evicted(h, Window - 1))
NeedsCoverage(h) == Window > 0 /\ Evicted(h, Window - 1) > 0

\* forceCompression: where it cuts, and what is left (mid <= 0: the last
\* user message alone).
CompressionCut(h) ==
  LET B == Boundaries(h)
      nth == CHOOSE b \in B : Cardinality({c \in B : c < b}) = Cardinality(B) \div 2
  IN  IF Cardinality(B) >= 2 THEN nth ELSE SafeBoundary(h, Len(h) \div 2)
Compressed(h) ==
  IF CompressionCut(h) > 0 THEN Suffix(h, CompressionCut(h))
  ELSE IF Boundaries(h) # {} THEN <<h[Largest(Boundaries(h)) + 1]>>
  ELSE <<>>

\* Mutant: the turn's own messages are taken for older ones.
NoTail(h, p) == 0

\* matchingTurnMessageTail
TailMatch(h, p) ==
  Largest({0} \cup {k \in 1..Len(p) : k <= Len(h) /\ LastN(h, k) = LastN(p, k)})

-----------------------------------------------------------------------------
(* Parts of the handlers                                                    *)

\* Bound: the turn can still write k messages.
Room(k) == Len(persisted) + k <= PersistMax

\* AddFullMessage followed by recordPersistedMessage
Persist(role) ==
  LET m == [turn |-> turn, n |-> Len(persisted) + 1, role |-> role]
  IN  /\ history' = Append(history, m)
      /\ persisted' = Append(persisted, m)
      /\ written' = written \cup {m}

\* maybeSummarize: one summariser at a time, the others are dropped.
StartSummariser(h, limit) ==
  zpc' = IF Len(h) > limit /\ zpc = "idle" THEN "start" ELSE zpc

\* The history variable of a compaction that leaves h: it came under a turn or
\* its stop, took messages of that turn, or came in the middle of its rollback.
Shorten(h) ==
  LET marked == (IF pc # "idle" \/ spc # "idle" THEN {"short"} ELSE {})
                \cup (IF Range(persisted) \subseteq Range(h) THEN {} ELSE {"own"})
                \cup (IF pc = "restoring" THEN {"back"} ELSE {})
  IN  marks' = marks \cup {<<turn, k>> : k \in marked}
Marked(t, k) == <<t, k>> \in marks

GoTo(phase) == pc' = phase
End(status) == /\ outcome' = [outcome EXCEPT ![turn] = status]
               /\ GoTo("done")

\* What the environment grants a new turn: no goroutine of an earlier one is
\* left, other than those in Overlaps.
Quiet == /\ zpc = "idle" \/ "summariser" \in Overlaps
         /\ spc = "idle" \/ "stopper" \in Overlaps

-----------------------------------------------------------------------------
(* The turn                                                                 *)

\* Mutant: the rollback point misses the last message.
InitialOneShort(h) == Len(h) - 1

InitialLength(h) == Len(h)

\* newTurnState
NewTurn ==
  /\ pc = "idle" /\ turn < TurnMax /\ Quiet
  /\ turn' = turn + 1
  /\ initial' = InitialLength(history)
  /\ restore' = [hist |-> history, summ |-> summary]
  /\ GoTo("created")
  /\ UNCHANGED <<store, persisted, hardAbort, recovered, seen, pendingStop, zVars, sVars, ghosts>>

\* runTurn: registerActiveTurn, then the stop that was armed before it.
Register ==
  /\ pc = "created"
  /\ hardAbort' = pendingStop
  /\ pendingStop' = FALSE
  /\ GoTo(IF pendingStop THEN "aborting" ELSE "setup")
  /\ UNCHANGED <<store, turn, initial, restore, persisted, recovered, seen, zVars, sVars, ghosts>>

\* SetupTurn: Assemble, projectRecentContext, captureRestorePoint
Assemble ==
  /\ pc = "setup"
  /\ restore' = [hist |-> Projected(history), summ |-> summary]
  /\ IF NeedsCoverage(history) THEN StartSummariser(history, Window) ELSE UNCHANGED zpc
  /\ GoTo("budget")
  /\ UNCHANGED <<store, turn, initial, persisted, hardAbort, recovered, seen, pendingStop,
                 zcut, zkeep, zold, sVars, ghosts>>

\* SetupTurn: the request fits, or is compacted first.
CheckBudget ==
  /\ pc = "budget"
  /\ \/ GoTo("root")
     \/ "setup" \in Compresses /\ GoTo("read")
  /\ UNCHANGED <<store, turn, initial, restore, persisted, hardAbort, recovered, seen,
                 pendingStop, zVars, sVars, ghosts>>

\* forceCompression reads the history ...
CompressRead ==
  /\ pc = "read"
  /\ IF Len(history) <= 2 THEN GoTo("refresh") /\ UNCHANGED seen
                           ELSE GoTo("write") /\ seen' = history
  /\ UNCHANGED <<store, turn, initial, restore, persisted, hardAbort, recovered,
                 pendingStop, zVars, sVars, ghosts>>

\* ... adds its note to the summary ...
CompressNote ==
  /\ pc = "write"
  /\ summary' = [summary EXCEPT !.drops = @ \cup (Range(seen) \ Range(Compressed(seen)))]
  /\ GoTo("shorten")
  /\ UNCHANGED <<history, turn, initial, restore, persisted, hardAbort, recovered, seen,
                 pendingStop, zVars, sVars, ghosts>>

\* ... and puts what is left in its place.
CompressWrite ==
  /\ pc = "shorten"
  /\ history' = Compressed(seen)
  /\ Shorten(history')
  /\ seen' = <<>>
  /\ GoTo("refresh")
  /\ UNCHANGED <<summary, turn, initial, restore, persisted, hardAbort, recovered,
                 pendingStop, zVars, sVars, written, outcome, stopped>>

\* refreshRestorePointFromSession, then (in SetupTurn only) the second
\* Assemble and projectRecentContext, which do not move the restore point.
Refresh ==
  /\ pc = "refresh"
  /\ restore' = [hist |-> SubSeq(history, 1, Len(history) - TailMatch(history, persisted)),
                 summ |-> summary]
  /\ IF persisted = <<>> /\ NeedsCoverage(history)
       THEN StartSummariser(history, Window)
       ELSE UNCHANGED zpc
  /\ GoTo(IF persisted = <<>> THEN "root" ELSE "llm")
  /\ UNCHANGED <<store, turn, initial, persisted, hardAbort, recovered, seen, pendingStop,
                 zcut, zkeep, zold, sVars, ghosts>>

\* SetupTurn adds the user's message.
PersistRoot ==
  /\ pc = "root"
  /\ Persist("user")
  /\ GoTo("iterate")
  /\ UNCHANGED <<summary, turn, initial, restore, hardAbort, recovered, seen, pendingStop,
                 zVars, sVars, outcome, stopped, marks>>

\* The head of runTurn's loop: the abort check ...
Iterate ==
  /\ pc = "iterate"
  /\ GoTo(IF hardAbort THEN "aborting" ELSE "inject")
  /\ UNCHANGED <<store, turn, initial, restore, persisted, hardAbort, recovered, seen,
                 pendingStop, zVars, sVars, ghosts>>

\* ... and the steering message that may have come in.
InjectSteering ==
  /\ pc = "inject"
  /\ \/ Room(2) /\ Persist("user")
     \/ UNCHANGED <<history, persisted, written>>
  /\ GoTo("llm")
  /\ UNCHANGED <<summary, turn, initial, restore, hardAbort, recovered, seen, pendingStop,
                 zVars, sVars, outcome, stopped, marks>>

\* CallLLM, a direct answer: no abort check on the way to Finalize.  Steering
\* that arrived meanwhile takes the turn back to its loop.
LLMAnswers ==
  /\ pc = "llm"
  /\ \/ GoTo("finalize")
     \/ GoTo("iterate")
  /\ UNCHANGED <<store, turn, initial, restore, persisted, hardAbort, recovered, seen,
                 pendingStop, zVars, sVars, ghosts>>

\* CallLLM, a tool call
LLMCallsTool ==
  /\ pc = "llm" /\ Room(3)
  /\ Persist("call")
  /\ GoTo("tool")
  /\ UNCHANGED <<summary, turn, initial, restore, hardAbort, recovered, seen, pendingStop,
                 zVars, sVars, outcome, stopped, marks>>

\* CallLLM fails: the turn ends with an error and restores nothing.
LLMFails ==
  /\ pc = "llm"
  /\ End("error")
  /\ UNCHANGED <<store, turn, initial, restore, persisted, hardAbort, recovered, seen,
                 pendingStop, zVars, sVars, written, stopped, marks>>

\* CallLLM is cancelled: in the request, exec.abortedByHardAbort leads to
\* abortTurn; in the back-off sleep, the flag is not set and Finalize runs.
LLMCancelled ==
  /\ pc = "llm" /\ hardAbort
  /\ \/ GoTo("aborting")
     \/ GoTo("finalize")
  /\ UNCHANGED <<store, turn, initial, restore, persisted, hardAbort, recovered, seen,
                 pendingStop, zVars, sVars, ghosts>>

\* CallLLM, the request is too large: rebuildContextWithinBudget.  The code does
\* it once per call; bound: once per turn.
LLMOverflows ==
  /\ pc = "llm" /\ "llm" \in Compresses /\ ~recovered
  /\ recovered' = TRUE
  /\ GoTo("read")
  /\ UNCHANGED <<store, turn, initial, restore, persisted, hardAbort, seen, pendingStop,
                 zVars, sVars, ghosts>>

\* ExecuteTools: an abort check before and after the tool, then its result.
ToolReturns ==
  /\ pc = "tool"
  /\ \/ /\ ~hardAbort
        /\ Persist("tool")
        /\ \/ GoTo("iterate")
           \/ GoTo("handled")
     \/ /\ hardAbort
        /\ GoTo("aborting")
        /\ UNCHANGED <<history, persisted, written>>
  /\ UNCHANGED <<summary, turn, initial, restore, hardAbort, recovered, seen, pendingStop,
                 zVars, sVars, outcome, stopped, marks>>

\* ExecuteTools, the tool has answered the user itself: handledToolResponseSummary
ToolsHandledResponse ==
  /\ pc = "handled"
  /\ Persist("answer")
  /\ StartSummariser(history', Threshold)
  /\ GoTo("handledEnd")
  /\ UNCHANGED <<summary, turn, initial, restore, hardAbort, recovered, seen, pendingStop,
                 zcut, zkeep, zold, sVars, outcome, stopped, marks>>

\* Finalize after ToolsHandledResponse
FinalizeHandled ==
  /\ pc = "handledEnd"
  /\ IF hardAbort THEN GoTo("aborting") /\ UNCHANGED outcome
                  ELSE End("completed")
  /\ UNCHANGED <<store, turn, initial, restore, persisted, hardAbort, recovered, seen,
                 pendingStop, zVars, sVars, written, stopped, marks>>

\* Finalize: the answer, then Compact(Summarize)
Finalize ==
  /\ pc = "finalize"
  /\ Persist("answer")
  /\ StartSummariser(history', Threshold)
  /\ End("completed")
  /\ UNCHANGED <<summary, turn, initial, restore, hardAbort, recovered, seen, pendingStop,
                 zcut, zkeep, zold, sVars, stopped, marks>>

\* Mutant: the restore point is added to the transcript, not put in its place.
AddedBack(r) == history \o r.hist

RestoredHistory(r) == r.hist

\* abortTurn: restoreSession puts the history back ...
AbortTurn ==
  /\ pc = "aborting"
  /\ history' = RestoredHistory(restore)
  /\ GoTo("restoring")
  /\ UNCHANGED <<summary, turn, initial, restore, persisted, hardAbort, recovered, seen,
                 pendingStop, zVars, sVars, ghosts>>

\* ... then the summary.
RestoreSummary ==
  /\ pc = "restoring"
  /\ summary' = restore.summ
  /\ End("aborted")
  /\ UNCHANGED <<history, turn, initial, restore, persisted, hardAbort, recovered, seen,
                 pendingStop, zVars, sVars, written, stopped, marks>>

\* clearActiveTurn: nothing refers to the turnState any more.
ClearTurn ==
  /\ pc = "done"
  /\ NoTurnState
  /\ UNCHANGED <<store, turn, pendingStop, zVars, sVars, ghosts>>

-----------------------------------------------------------------------------
(* The summariser: summarizeSession                                         *)

KeepCount(h, cut) == Len(h) - cut

\* Tool results are left out of the summary without a word.
Summarised(h) == {i \in DOMAIN h : h[i].role # "tool"}

SummariserReads ==
  /\ zpc = "start"
  /\ LET cut == SafeBoundary(history, Len(history) - KeepTail)
     IN  IF Len(history) <= KeepTail \/ cut <= 0 \/ Summarised(SubSeq(history, 1, cut)) = {}
           THEN zpc' = "idle" /\ UNCHANGED <<zcut, zkeep, zold>>
           ELSE /\ zpc' = "asking"
                /\ zcut' = SubSeq(history, 1, cut)
                /\ zkeep' = KeepCount(history, cut)
                /\ zold' = summary
  /\ UNCHANGED <<store, turnVars, sVars, ghosts>>

\* The LLM has answered (or its fallback).  Two batches are summarised from
\* scratch: only one batch is given the previous summary.
Carried(batch, old) ==
  IF Cardinality(Summarised(batch)) > BatchMax THEN EmptySummary ELSE old

\* An oversized message (bound: one) is only mentioned.
SummariserWrites ==
  /\ zpc = "asking"
  /\ LET valid == {zcut[i] : i \in Summarised(zcut)}
     IN  \E big \in SUBSET valid :
           /\ Cardinality(big) <= 1 /\ big # valid
           /\ summary' = [Carried(zcut, zold) EXCEPT !.covers = @ \cup (valid \ big),
                                                    !.drops = @ \cup big]
  /\ zpc' = "cutting"
  /\ UNCHANGED <<history, turnVars, zcut, zkeep, zold, sVars, ghosts>>

\* Every message is oversized, the LLM returns no text, or the goroutine panics:
\* nothing is written.
SummariserFails ==
  /\ zpc = "asking"
  /\ zpc' = "idle" /\ zcut' = <<>> /\ zkeep' = 0 /\ zold' = EmptySummary
  /\ UNCHANGED <<store, turnVars, sVars, ghosts>>

Truncated(h, n) == LastN(h, n)

SummariserTruncates ==
  /\ zpc = "cutting"
  /\ history' = Truncated(history, zkeep)
  /\ IF history' = history THEN UNCHANGED marks ELSE Shorten(history')
  /\ zpc' = "idle" /\ zcut' = <<>> /\ zkeep' = 0 /\ zold' = EmptySummary
  /\ UNCHANGED <<summary, turnVars, sVars, written, outcome, stopped>>

-----------------------------------------------------------------------------
(* /stop, at most one per turn                                              *)

\* tryHandleStopCommand meets the placeholder: markPendingStop
StopPending ==
  /\ MayStop /\ pc = "created" /\ spc = "idle" /\ turn \notin stopped
  /\ pendingStop' = TRUE
  /\ stopped' = stopped \cup {turn}
  /\ UNCHANGED <<store, turn, pc, initial, restore, persisted, hardAbort, recovered, seen,
                 zVars, sVars, written, outcome, marks>>

\* HardAbort: requestHardAbort ...
StopRequests ==
  /\ MayStop /\ pc \notin {"idle", "created"} /\ spc = "idle" /\ turn \notin stopped
  /\ hardAbort' = TRUE
  /\ stopped' = stopped \cup {turn}
  /\ spc' = "requested" /\ sinitial' = initial
  /\ UNCHANGED <<store, turn, pc, initial, restore, persisted, recovered, seen, pendingStop,
                 zVars, sseen, written, outcome, marks>>

\* ... GetHistory ..., for which the length may be too long by now (marks)
StopReads ==
  /\ spc = "requested"
  /\ sseen' = history
  /\ marks' = IF Marked(turn, "short") THEN marks \cup {<<turn, "own">>} ELSE marks
  /\ spc' = "writing"
  /\ UNCHANGED <<store, turnVars, zVars, sinitial, written, outcome, stopped>>

\* ... and SetHistory(history[:initialHistoryLength]).
StopWrites ==
  /\ spc = "writing"
  /\ history' = IF sinitial < Len(sseen) THEN SubSeq(sseen, 1, sinitial) ELSE history
  /\ spc' = "idle" /\ sseen' = <<>> /\ sinitial' = 0
  /\ UNCHANGED <<summary, turnVars, zVars, ghosts>>

-----------------------------------------------------------------------------
TurnStep ==
  \/ NewTurn \/ Register \/ Assemble \/ CheckBudget
  \/ CompressRead \/ CompressNote \/ CompressWrite \/ Refresh
  \/ PersistRoot \/ Iterate \/ InjectSteering
  \/ LLMAnswers \/ LLMCallsTool \/ LLMFails \/ LLMCancelled \/ LLMOverflows
  \/ ToolReturns \/ ToolsHandledResponse \/ FinalizeHandled \/ Finalize
  \/ AbortTurn \/ RestoreSummary \/ ClearTurn
Summarise ==
  SummariserReads \/ SummariserWrites \/ SummariserFails \/ SummariserTruncates
Stop == StopPending \/ StopRequests \/ StopReads \/ StopWrites

Next == TurnStep \/ Summarise \/ Stop

Spec == Init /\ [][Next]_vars

-----------------------------------------------------------------------------
(* Properties                                                               *)

Kept(hist, summ) == Range(hist) \cup summ.covers \cup summ.drops

\* Not an invariant of the code (README, section 5):
\* compaction never loses a message of the user or of the assistant: it is still
\* in the transcript, or the summary was written from it or mentions it.
NothingForgotten ==
  \A m \in written : m.role # "tool" => m \in Kept(history, summary)

\* A cut of the compaction never tears a tool interaction: as long as no /stop
\* came, the transcript begins with a user message and every tool result follows
\* its call.
ToolCallsWhole ==
  stopped = {} => \A i \in DOMAIN history :
    /\ i = 1 => history[i].role = "user"
    /\ history[i].role = "tool" =>
         /\ i > 1
         /\ history[i - 1] = [turn |-> history[i].turn, n |-> history[i].n - 1, role |-> "call"]

\* The transcript is in the order the messages were written, none of them
\* twice: no rollback or restore brings a message back behind a newer one.
Before(a, b) == a.turn < b.turn \/ (a.turn = b.turn /\ a.n < b.n)
HistoryOrdered ==
  \A i, j \in DOMAIN history : i < j => Before(history[i], history[j])

AtRest == pc = "idle" /\ spc = "idle"

\* A turn that ended as aborted leaves none of its messages behind, wherever the
\* transcript was compacted before or during it, unless a compression took some of
\* the turn's own messages or HardAbort used the length of a longer transcript.
AbortForgetsTurn ==
  AtRest => \A i \in DOMAIN history :
    outcome[history[i].turn] = "aborted" => Marked(history[i].turn, "own")

\* Not an invariant of the code (README, section 5):
\* a turn whose /stop was accepted leaves none of its messages behind (a turn
\* that ends with an error restores nothing, and is left out).
StopForgetsTurn ==
  AtRest => \A i \in DOMAIN history :
    history[i].turn \in stopped => outcome[history[i].turn] = "error"

Rollback == AbortTurn \/ RestoreSummary \/ StopWrites
Finished(m) == outcome[m.turn] \in {"completed", "error"} /\ m.turn \notin stopped

\* No rollback loses a message of a turn that ended without being stopped: it
\* stays in the transcript or in the summary, unless compaction took messages of
\* the stopped turn (HardAbort's length is then stale) or came in mid-rollback.
StopKeepsFinished ==
  [][Rollback => \A m \in Kept(history, summary) :
       Finished(m) /\ ~Marked(turn, "own") /\ ~Marked(turn, "back")
         => m \in Kept(history', summary')]_vars

\* Not an invariant of the code (README, section 5):
\* abortTurn puts back a transcript with every message that earlier turns had in it.
AbortKeepsTranscript ==
  [][AbortTurn => \A i \in DOMAIN history :
       history[i].turn # turn => history[i] \in Kept(history', restore.summ)]_vars

\* Not an invariant of the code (README, section 5):
\* compaction never drops a message of the turn that is running.
ActiveTurnWhole ==
  pc # "idle" => Range(persisted) \subseteq Range(history)
=============================================================================
