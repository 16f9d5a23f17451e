------------------------------- MODULE JsonlStore -------------------------------
(***************************************************************************)
(* The session store on disk (src/core/src/pkg/memory/jsonl.go): per       *)
(* session one file of lines, which is appended to or replaced as a whole, *)
(* and one of metadata, which is replaced.  Goroutines call it at once,    *)
(* a write may fail, and the process may die between any two writes.  Each *)
(* action ends with one such write.  GetHistory and GetSummary only read:  *)
(* Active and summary are what they return.  The timestamps and the        *)
(* informational line count of the metadata are left out.  Bound: no line  *)
(* is longer than maxLineSize; the store accepts such a message, and then  *)
(* fails every read of the session until its file is replaced.             *)
(***************************************************************************)
EXTENDS Integers, Sequences, FiniteSets, Functions

CONSTANTS Callers,    \* goroutines that use the store
          Keys,       \* session keys; their order is that of the strings
          Shards,     \* the mutexes: numLockShards of them
          ShardOf,    \* the hash of sessionLock
          AliasesOf,  \* legacy keys of a session, never its own
          OpsOf,      \* calls the goroutines make on each session
          Keeps,      \* values of keepLast
          MsgMax,     \* bound: messages of the run
          FaultMax,   \* bound: writes that fail
          CrashMax,   \* bound: deaths of the process
          Corrupt,    \* a line that is no valid message
          None

Message == 1..MsgMax

Ops == {"add", "truncate", "set", "compact", "summary", "promote"}

ASSUME StoreConstants ==
  /\ Keys \subseteq Nat /\ Keeps \subseteq Nat
  /\ ShardOf \in [Keys -> Shards]
  /\ AliasesOf \in [Keys -> SUBSET Keys] /\ \A k \in Keys : k \notin AliasesOf[k]
  /\ OpsOf \in [Keys -> SUBSET Ops]
  /\ MsgMax \in Nat /\ FaultMax \in Nat /\ CrashMax \in Nat
  /\ Corrupt \notin Message /\ None \notin Callers /\ None \notin Keys

VARIABLES
  lines,      \* {key}.jsonl, its non-empty lines
  ended,      \* whether the last of them has its newline
  skip,       \* meta.Skip
  summary,    \* meta.Summary: the session it was written for, None when empty
  lock,       \* JSONLStore.locks: the caller that holds each
  call,       \* what each caller is doing
  next,       \* history variable: number of the next message
  kept,       \* history variable: acknowledged messages nobody asked to drop
  swallowed,  \* history variable: acknowledged messages written behind a broken line
  forgotten,  \* history variable: messages a caller dropped
  taint,      \* history variable: why a session may show other messages
  faults, crashes

files == <<lines, ended, skip, summary>>
ghosts == <<next, kept, swallowed, forgotten, taint>>
vars == <<files, lock, call, ghosts, faults, crashes>>

Line == Message \cup {Corrupt}
Phases == {"idle", "lock", "body", "rewrite", "meta", "rollback"}
\* rewriting: the offset is gone, the skipped lines are not yet; promoting: the
\* file was copied from the alias, an older offset is in force; promotion: the
\* alias holds messages that were dropped here.
Taints == {"no", "rewriting", "promoting", "promotion"}
Raw == [lines : Seq(Line), ended : BOOLEAN, taint : Taints]
NoRaw == [lines |-> <<>>, ended |-> TRUE, taint |-> "no"]
\* key and alias: the sessions the call works on, one and the same but for
\* promote; hist: the history to write; old: the file to restore, and its taint.
Call == [pc : Phases, op : Ops \cup {None}, key : Keys \cup {None}, alias : Keys \cup {None},
         hist : Seq(Message), old : Raw]
Idle == [pc |-> "idle", op |-> None, key |-> None, alias |-> None,
         hist |-> <<>>, old |-> NoRaw]

TypeOK ==
  /\ lines \in [Keys -> Seq(Line)] /\ ended \in [Keys -> BOOLEAN]
  /\ \A k \in Keys : ended[k] \/ lines[k] # <<>>
  /\ skip \in [Keys -> Nat] /\ summary \in [Keys -> Keys \cup {None}]
  /\ lock \in [Shards -> Callers \cup {None}] /\ call \in [Callers -> Call]
  /\ next \in 1..(MsgMax + 1)
  /\ kept \in [Keys -> SUBSET Message] /\ swallowed \subseteq Message
  /\ forgotten \in [Keys -> SUBSET Message]
  /\ taint \in [Keys -> Taints]
  /\ faults \in 0..FaultMax /\ crashes \in 0..CrashMax

Init ==
  /\ lines = [k \in Keys |-> <<>>] /\ ended = [k \in Keys |-> TRUE]
  /\ skip = [k \in Keys |-> 0] /\ summary = [k \in Keys |-> None]
  /\ lock = [s \in Shards |-> None] /\ call = [c \in Callers |-> Idle]
  /\ next = 1 /\ kept = [k \in Keys |-> {}] /\ swallowed = {}
  /\ forgotten = [k \in Keys |-> {}] /\ taint = [k \in Keys |-> "no"]
  /\ faults = 0 /\ crashes = 0

-----------------------------------------------------------------------------
(* Reading                                                                  *)

\* The numbers of the valid lines behind an offset, and the n-th of them.
Retained(s, from) == {i \in DOMAIN s : i > from /\ s[i] # Corrupt}
Nth(S, n) == CHOOSE i \in S : Cardinality({j \in S : j <= i}) = n

\* readMessages
ReadMessages(s, from) ==
  [n \in 1..Cardinality(Retained(s, from)) |-> s[Nth(Retained(s, from), n)]]
Active(k) == ReadMessages(lines[k], skip[k])
Messages(k) == Range(lines[k]) \ {Corrupt}
LastN(h, n) == IF n >= Len(h) THEN h ELSE SubSeq(h, Len(h) - n + 1, Len(h))

\* sessionHasVisibleContentLocked
HasContent(k) == summary[k] # None \/ Active(k) # <<>>

\* Mutant: keepLast counts the lines, corrupt ones too.
SkipByLines(k, n) == IF n >= Len(lines[k]) THEN skip[k] ELSE Len(lines[k]) - n

\* TruncateHistory: the new offset, in raw lines (scanRetainedMessageLines).
NewSkip(k, n) ==
  LET active == Retained(lines[k], skip[k])
  IN  IF n = 0 \/ active = {} THEN Len(lines[k])
      ELSE IF n < Cardinality(active) THEN Nth(active, Cardinality(active) - n)
      ELSE skip[k]

-----------------------------------------------------------------------------
(* Locking                                                                  *)

\* Mutant: the alias is not locked.
OnlyCanonical(r) == <<ShardOf[r.key]>>

\* lockSessionPair: ordered by key; one mutex is locked once.
LockOrder(r) ==
  LET low == IF r.key <= r.alias THEN r.key ELSE r.alias
      high == IF r.key <= r.alias THEN r.alias ELSE r.key
  IN  IF ShardOf[low] = ShardOf[high] THEN <<ShardOf[low]>>
      ELSE <<ShardOf[low], ShardOf[high]>>

\* Bound: no more messages are added than there are numbers for.
Begin(c, op, k, a, h) ==
  /\ op \in OpsOf[k] /\ (op = "add" => next <= MsgMax)
  /\ call' = [call EXCEPT ![c] = [pc |-> "lock", op |-> op, key |-> k, alias |-> a,
                                  hist |-> h, old |-> NoRaw]]

\* A call of the store.  summarizeSession truncates a history it has read, and
\* the history a caller sets is the head or the tail of what it has read, when
\* nobody held the lock; other calls may come in between.
Request(c) ==
  /\ call[c].pc = "idle"
  /\ \E k \in Keys :
       \/ \E op \in {"add", "compact", "summary"} : Begin(c, op, k, k, <<>>)
       \/ /\ lock[ShardOf[k]] = None /\ Active(k) # <<>>
          /\ Begin(c, "truncate", k, k, <<>>)
       \/ /\ lock[ShardOf[k]] = None
          /\ \E i \in 0..Len(Active(k)) :
               \/ Begin(c, "set", k, k, SubSeq(Active(k), 1, i))
               \/ Begin(c, "set", k, k, LastN(Active(k), i))
       \/ \E a \in AliasesOf[k] : Begin(c, "promote", k, a, <<>>)
  /\ UNCHANGED <<files, lock, ghosts, faults, crashes>>

Acquire(c) ==
  /\ call[c].pc = "lock"
  /\ LET order == LockOrder(call[c])
         s == IF lock[order[1]] = c THEN order[Len(order)] ELSE order[1]
     IN  /\ lock[s] = None
         /\ lock' = [lock EXCEPT ![s] = c]
         /\ call' = [call EXCEPT ![c].pc = IF s = order[Len(order)] THEN "body" ELSE "lock"]
  /\ UNCHANGED <<files, ghosts, faults, crashes>>

\* Mutant: a path that returns early forgets to unlock.
StillHeld(c) == lock

Released(c) == [s \in Shards |-> IF lock[s] = c THEN None ELSE lock[s]]

Return(c) ==
  /\ lock' = Released(c)
  /\ call' = [call EXCEPT ![c] = Idle]

\* The call goes on to its next write, with the locks it has.
Advance(c, phase, h, o) ==
  /\ call' = [call EXCEPT ![c] = [pc |-> phase, op |-> @.op, key |-> @.key, alias |-> @.alias,
                                  hist |-> h, old |-> o]]
  /\ UNCHANGED lock

\* Inside(c, op, phase): caller c is at that point of that operation.
Inside(c, op, phase) == call[c].op = op /\ call[c].pc = phase

Fault == faults < FaultMax /\ faults' = faults + 1

-----------------------------------------------------------------------------
(* addMsg                                                                   *)

\* A line written behind one without a newline makes a single, invalid line.
Appended(k, line) ==
  IF ended[k] THEN Append(lines[k], line)
  ELSE [lines[k] EXCEPT ![Len(lines[k])] = Corrupt]

\* The line is appended and synced; the metadata that follows only counts.
AddMessage(c) ==
  /\ Inside(c, "add", "body") /\ next <= MsgMax
  /\ LET k == call[c].key
     IN  /\ lines' = [lines EXCEPT ![k] = Appended(k, next)]
         /\ ended' = [ended EXCEPT ![k] = TRUE]
         /\ kept' = [kept EXCEPT ![k] = @ \cup {next}]
         /\ swallowed' = IF ended[k] THEN swallowed ELSE swallowed \cup {next}
  /\ next' = next + 1
  /\ Return(c)
  /\ UNCHANGED <<skip, summary, forgotten, taint, faults, crashes>>

\* Nothing, a part of the line, or all of it but the newline is written; or all
\* of it, and a later step fails.  The caller is given an error, or dies.
AddMessageBreaks(c) ==
  /\ Inside(c, "add", "body") /\ next <= MsgMax
  /\ Fault
  /\ LET k == call[c].key
     IN  /\ \/ UNCHANGED <<lines, ended, next>>
            \/ /\ lines' = [lines EXCEPT ![k] = Appended(k, Corrupt)]
               /\ ended' = [ended EXCEPT ![k] = FALSE]
               /\ UNCHANGED next
            \/ \E newline \in BOOLEAN :
                 /\ lines' = [lines EXCEPT ![k] = Appended(k, next)]
                 /\ ended' = [ended EXCEPT ![k] = newline]
                 /\ next' = next + 1
  /\ Return(c)
  /\ UNCHANGED <<skip, summary, kept, swallowed, forgotten, taint, crashes>>

\* Bound: there is no number left for the message.
AddMessageBeyondBound(c) ==
  /\ Inside(c, "add", "body") /\ next > MsgMax
  /\ Return(c)
  /\ UNCHANGED <<files, ghosts, faults, crashes>>

-----------------------------------------------------------------------------
(* TruncateHistory, SetSummary: one atomic write of the metadata            *)

TruncateHistory(c, n) ==
  /\ Inside(c, "truncate", "body")
  /\ LET k == call[c].key
         window == Range(LastN(Active(k), n))
     IN  /\ skip' = [skip EXCEPT ![k] = NewSkip(k, n)]
         /\ kept' = [kept EXCEPT ![k] = @ \cap window]
         /\ forgotten' = [forgotten EXCEPT ![k] = (@ \cup Range(Active(k))) \ window]
         /\ taint' = [taint EXCEPT ![k] = "no"]
  /\ Return(c)
  /\ UNCHANGED <<lines, ended, summary, next, swallowed, faults, crashes>>

SetSummary(c) ==
  /\ Inside(c, "summary", "body")
  /\ \E text \in {call[c].key, None} : summary' = [summary EXCEPT ![call[c].key] = text]
  /\ Return(c)
  /\ UNCHANGED <<lines, ended, skip, ghosts, faults, crashes>>

-----------------------------------------------------------------------------
(* SetHistory, Compact: the metadata first, then the file                   *)

MetaReset(c, k, h) ==
  /\ skip' = [skip EXCEPT ![k] = 0]
  /\ taint' = IF skip[k] = 0 \/ taint[k] = "promoting" THEN taint
              ELSE [taint EXCEPT ![k] = "rewriting"]
  /\ Advance(c, "rewrite", h, NoRaw)
  /\ UNCHANGED <<lines, ended, summary, next, kept, swallowed, forgotten, faults, crashes>>

SetHistory(c) ==
  /\ Inside(c, "set", "body")
  /\ MetaReset(c, call[c].key, call[c].hist)

\* Mutant: compaction carries the skipped lines over.
WholeFile(k) == ReadMessages(lines[k], 0)

CompactedHistory(k) == Active(k)

Compact(c) ==
  /\ Inside(c, "compact", "body")
  /\ LET k == call[c].key
     IN  \/ /\ skip[k] = 0
            /\ Return(c)
            /\ UNCHANGED <<files, ghosts, faults, crashes>>
         \/ skip[k] > 0 /\ MetaReset(c, k, CompactedHistory(k))

\* Mutant: the file is not known to end in a newline again.
SameEnd(k) == ended

EndReset(k) == [ended EXCEPT ![k] = TRUE]

\* rewriteJSONL
Rewrite(c) ==
  /\ call[c].pc = "rewrite"
  /\ LET k == call[c].key
         h == call[c].hist
     IN  /\ lines' = [lines EXCEPT ![k] = h]
         /\ ended' = EndReset(k)
         /\ IF call[c].op = "set"
              THEN /\ kept' = [kept EXCEPT ![k] = Range(h)]
                   /\ forgotten' = [forgotten EXCEPT ![k] = (@ \cup Messages(k)) \ Range(h)]
              ELSE UNCHANGED <<kept, forgotten>>
         /\ taint' = IF call[c].op = "compact" /\ taint[k] = "promoting" THEN taint
                     ELSE [taint EXCEPT ![k] = "no"]
  /\ Return(c)
  /\ UNCHANGED <<skip, summary, next, swallowed, faults, crashes>>

-----------------------------------------------------------------------------
(* PromoteAliasHistory, for one alias: the file first, then the metadata    *)

\* Mutant: the session that already has a history is not left alone.
NeverSkips(k, a) == FALSE

\* The session has content already, or the alias has none.
NothingToPromote(k, a) == HasContent(k) \/ ~HasContent(a)

PromoteNothing(c) ==
  /\ Inside(c, "promote", "body") /\ NothingToPromote(call[c].key, call[c].alias)
  /\ Return(c)
  /\ UNCHANGED <<files, ghosts, faults, crashes>>

Promoted(k, h) == IF Range(h) \cap forgotten[k] = {} THEN "no" ELSE "promotion"

PromoteFile(c) ==
  /\ Inside(c, "promote", "body") /\ ~NothingToPromote(call[c].key, call[c].alias)
  /\ LET k == call[c].key
         h == Active(call[c].alias)
     IN  /\ lines' = [lines EXCEPT ![k] = h]
         /\ ended' = [ended EXCEPT ![k] = TRUE]
         /\ Advance(c, "meta", h, [lines |-> lines[k], ended |-> ended[k], taint |-> taint[k]])
         /\ taint' = [taint EXCEPT ![k] = IF skip[k] > 0 \/ @ = "promoting" THEN "promoting"
                                           ELSE Promoted(k, h)]
  /\ UNCHANGED <<skip, summary, next, kept, swallowed, forgotten, faults, crashes>>

PromoteMeta(c) ==
  /\ Inside(c, "promote", "meta")
  /\ LET k == call[c].key
         a == call[c].alias
     IN  /\ skip' = [skip EXCEPT ![k] = 0]
         /\ summary' = [summary EXCEPT ![k] = IF summary[a] # None THEN summary[a] ELSE @]
         /\ kept' = [kept EXCEPT ![k] = Range(call[c].hist)]
         /\ taint' = [taint EXCEPT ![k] = Promoted(k, call[c].hist)]
  /\ Return(c)
  /\ UNCHANGED <<lines, ended, next, swallowed, forgotten, faults, crashes>>

PromoteMetaFails(c) ==
  /\ Inside(c, "promote", "meta") /\ Fault
  /\ Advance(c, "rollback", <<>>, call[c].old)
  /\ UNCHANGED <<files, ghosts, crashes>>

\* restoreRawJSONL: the session is as it was before the promotion.
RollBack(c) ==
  /\ call[c].pc = "rollback"
  /\ LET k == call[c].key
         o == call[c].old
     IN  /\ lines' = [lines EXCEPT ![k] = o.lines]
         /\ ended' = [ended EXCEPT ![k] = o.ended]
         /\ taint' = [taint EXCEPT ![k] = o.taint]
  /\ Return(c)
  /\ UNCHANGED <<skip, summary, next, kept, swallowed, forgotten, faults, crashes>>

-----------------------------------------------------------------------------

\* WriteFileAtomic fails: the old file stays, the call returns the error.
AtomicWriteFails(c) ==
  /\ \/ call[c].pc = "body" /\ call[c].op \in {"truncate", "summary", "set"}
     \/ Inside(c, "compact", "body") /\ skip[call[c].key] > 0
     \/ Inside(c, "promote", "body") /\ ~NothingToPromote(call[c].key, call[c].alias)
     \/ call[c].pc \in {"rewrite", "rollback"}
  /\ Fault
  /\ Return(c)
  /\ UNCHANGED <<files, ghosts, crashes>>

\* The process dies and is started again.
Crash ==
  /\ crashes < CrashMax
  /\ crashes' = crashes + 1
  /\ lock' = [s \in Shards |-> None] /\ call' = [c \in Callers |-> Idle]
  /\ UNCHANGED <<files, ghosts, faults>>

\* Inside the lock
Work(c) ==
  \/ AddMessage(c) \/ AddMessageBreaks(c) \/ AddMessageBeyondBound(c)
  \/ \E n \in Keeps : TruncateHistory(c, n)
  \/ SetSummary(c) \/ SetHistory(c) \/ Compact(c) \/ Rewrite(c)
  \/ PromoteNothing(c) \/ PromoteFile(c) \/ PromoteMeta(c) \/ PromoteMetaFails(c)
  \/ RollBack(c) \/ AtomicWriteFails(c)

Next == \/ \E c \in Callers : Request(c) \/ Acquire(c) \/ Work(c)
        \/ Crash

Spec == Init /\ [][Next]_vars

-----------------------------------------------------------------------------
(* Properties                                                               *)

\* Two calls that are inside at once work on different sessions, whatever the
\* hash: a promotion owns both of its sessions.
Working(c) == call[c].pc \in {"body", "rewrite", "meta", "rollback"}
SessionsExclusive ==
  \A c, d \in Callers : c # d /\ Working(c) /\ Working(d) =>
    {call[c].key, call[c].alias} \cap {call[d].key, call[d].alias} = {}

\* At every instant, so after a crash at any instant, a reader finds every
\* message that was acknowledged and that no caller dropped: a compaction, a
\* promotion or a failed write loses none.  Excepted are messages appended
\* behind a line that a failed append left without its newline, and sessions
\* with an offset from the first write of a promotion on, until a later call
\* makes the promotion whole or a rollback has undone it.
NothingLost ==
  \A k \in Keys : taint[k] # "promoting" => kept[k] \ swallowed \subseteq Range(Active(k))

\* What a caller dropped stays dropped, unless SetHistory or Compact was
\* interrupted between its two writes, or a promotion brought it back.
NothingReturns ==
  \A k \in Keys : taint[k] = "no" => Range(Active(k)) \cap forgotten[k] = {}

\* docs/architecture/session-system.md: alias promotion happens when canonical
\* metadata is first created.  So only an interrupted rewrite may bring back
\* what the user has cleared.
ClearedStaysCleared ==
  \A k \in Keys : taint[k] # "rewriting" => Range(Active(k)) \cap forgotten[k] = {}

\* TruncateHistory leaves exactly the last keepLast messages a reader sees,
\* with corrupt and skipped lines in the file.
TruncateExact ==
  [][\A c \in Callers, k \in Keys, n \in Keeps :
       TruncateHistory(c, n) /\ call[c].key = k => Active(k)' = LastN(Active(k), n)]_vars

\* Whichever way a call ends, no mutex stays behind: one that is held belongs
\* to a call in progress on a session of that shard.
NoLockLeaked ==
  \A s \in Shards : lock[s] # None =>
    LET r == call[lock[s]]
    IN  r.pc # "idle" /\ s \in {ShardOf[r.key], ShardOf[r.alias]}

=============================================================================
