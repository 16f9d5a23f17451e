--------------------------- MODULE JsonlStoreProofs ----------------------------
(***************************************************************************)
(* The locking of JsonlStore, for any callers, sessions, aliases and hash: *)
(* a call that is inside holds the mutexes of both of its sessions, so two *)
(* calls never work on one session, and no mutex is left behind.  Then the *)
(* data: what a reader sees of a file, and that writes, failures and       *)
(* deaths in any order lose no message and bring none back.                *)
(***************************************************************************)
EXTENDS JsonlStore, SequenceTheorems, FiniteSetTheorems, WellFoundedInduction, TLAPS

Inner == {"body", "rewrite", "meta", "rollback"}

\* A call as a record, whatever its history.
Shape(r) == r = [pc |-> r.pc, op |-> r.op, key |-> r.key, alias |-> r.alias,
                 hist |-> r.hist, old |-> r.old]

CallsShaped ==
  /\ call = [c \in Callers |-> call[c]]
  /\ \A c \in Callers : /\ Shape(call[c]) /\ call[c].pc \in Phases
                        /\ call[c].pc # "idle" => call[c].key \in Keys /\ call[c].alias \in Keys
LocksOwned == lock \in [Shards -> Callers \cup {None}]
InsideHolds ==
  \A c \in Callers : call[c].pc \in Inner =>
    lock[ShardOf[call[c].key]] = c /\ lock[ShardOf[call[c].alias]] = c

LockInv == CallsShaped /\ LocksOwned /\ InsideHolds /\ NoLockLeaked

-----------------------------------------------------------------------------

LEMMA InitLocks == Init => LockInv
  BY StoreConstants, Z3
     DEF Init, LockInv, CallsShaped, LocksOwned, InsideHolds, NoLockLeaked, Shape, Idle, Phases,
         Inner

\* What every operation ends with gives back the mutexes of its caller only.
LEMMA ReturnKeeps ==
  ASSUME LockInv, NEW c \in Callers, Return(c)
  PROVE  LockInv'
<1> USE DEF LockInv
<1>1. /\ lock' = [s \in Shards |-> IF lock[s] = c THEN None ELSE lock[s]]
      /\ call' = [call EXCEPT ![c] = Idle]
  BY DEF Return, Released
<1>2. /\ call'[c] = Idle
      /\ \A d \in Callers \ {c} : call'[d] = call[d]
      /\ call' = [d \in Callers |-> call'[d]]
  BY <1>1 DEF CallsShaped
<1>3. CallsShaped'
  BY <1>2 DEF CallsShaped, Shape, Idle, Phases
<1>4. LocksOwned'
  BY <1>1 DEF LocksOwned
<1>5. InsideHolds'
  <2> SUFFICES ASSUME NEW d \in Callers, call'[d].pc \in Inner
               PROVE  lock'[ShardOf[call'[d].key]] = d /\ lock'[ShardOf[call'[d].alias]] = d
    BY DEF InsideHolds
  <2>1. d # c
    BY <1>2 DEF Idle, Inner
  <2>2. call'[d] = call[d]
    BY <1>2, <2>1
  <2>3. call[d].pc # "idle" /\ call[d].key \in Keys /\ call[d].alias \in Keys
    BY <2>2 DEF CallsShaped, Inner
  <2> QED
    BY <1>1, <2>1, <2>2, <2>3, StoreConstants DEF InsideHolds
<1>6. NoLockLeaked'
  BY <1>1, <1>2 DEF NoLockLeaked, LocksOwned
<1> QED
  BY <1>3, <1>4, <1>5, <1>6

\* Between its writes a call keeps its sessions and its mutexes.
LEMMA AdvanceKeeps ==
  ASSUME LockInv, NEW c \in Callers, call[c].pc \in Inner,
         NEW phase \in Inner, NEW h, NEW o, Advance(c, phase, h, o)
  PROVE  LockInv'
<1> USE DEF LockInv
<1> DEFINE r == [pc |-> phase, op |-> call[c].op, key |-> call[c].key, alias |-> call[c].alias,
                 hist |-> h, old |-> o]
<1>0. /\ UNCHANGED lock /\ call' = [call EXCEPT ![c] = r]
      /\ Shape(r) /\ r.pc \in Inner /\ r.key = call[c].key /\ r.alias = call[c].alias
  BY DEF Advance, Shape, CallsShaped
<1> HIDE DEF r
<1>1. /\ call'[c] = r
      /\ \A d \in Callers \ {c} : call'[d] = call[d]
      /\ call' = [d \in Callers |-> call'[d]]
  BY <1>0 DEF CallsShaped
<1>2. r.key \in Keys /\ r.alias \in Keys /\ r.pc \in Phases /\ r.pc # "idle"
  BY <1>0 DEF CallsShaped, Inner, Phases
<1>3. CallsShaped'
  BY <1>0, <1>1, <1>2 DEF CallsShaped, Shape
<1>4. LocksOwned'
  BY <1>0 DEF LocksOwned
<1>5. InsideHolds'
  BY <1>0, <1>1 DEF InsideHolds
<1>6. NoLockLeaked'
  BY <1>0, <1>1, <1>2 DEF NoLockLeaked, LocksOwned
<1> QED
  BY <1>3, <1>4, <1>5, <1>6

LEMMA RequestKeeps ==
  ASSUME LockInv, NEW c \in Callers, Request(c)
  PROVE  LockInv'
<1> USE DEF LockInv
<1>1. PICK k \in Keys, a \in Keys : \E op, h : Begin(c, op, k, a, h)
  <2>1. PICK k \in Keys :
          \/ \E op, h : Begin(c, op, k, k, h)
          \/ \E a \in AliasesOf[k] : Begin(c, "promote", k, a, <<>>)
    BY Zenon DEF Request
  <2>2. AliasesOf[k] \subseteq Keys
    BY StoreConstants
  <2> QED
    BY <2>1, <2>2, Zenon
<1>1a. PICK op, h : Begin(c, op, k, a, h)
  BY <1>1
<1> DEFINE r == [pc |-> "lock", op |-> op, key |-> k, alias |-> a, hist |-> h, old |-> NoRaw]
<1>1b. call' = [call EXCEPT ![c] = r]
  BY <1>1a DEF Begin
<1>2. r.pc = "lock" /\ r.key = k /\ r.alias = a /\ Shape(r)
  BY DEF Shape
<1>3. UNCHANGED lock /\ call[c].pc = "idle"
  BY DEF Request
<1>4. call'[c] = r
  BY <1>1b DEF CallsShaped
<1>5. \A d \in Callers \ {c} : call'[d] = call[d]
  BY <1>1b DEF CallsShaped
<1>6. call' = [d \in Callers |-> call'[d]]
  BY <1>1b DEF CallsShaped
<1> HIDE DEF r
<1>7. CallsShaped'
  BY <1>2, <1>4, <1>5, <1>6 DEF CallsShaped, Phases
<1>8. LocksOwned'
  BY <1>3 DEF LocksOwned
<1>9. InsideHolds'
  BY <1>2, <1>3, <1>4, <1>5 DEF InsideHolds, Inner
<1>10. NoLockLeaked'
  BY <1>3, <1>4, <1>5 DEF NoLockLeaked, LocksOwned
<1> QED
  BY <1>7, <1>8, <1>9, <1>10

LEMMA AcquireKeeps ==
  ASSUME LockInv, NEW c \in Callers, Acquire(c)
  PROVE  LockInv'
<1> USE DEF LockInv
<1> DEFINE k == call[c].key
           a == call[c].alias
           order == LockOrder(call[c])
           s == IF lock[order[1]] = c THEN order[Len(order)] ELSE order[1]
           phase == IF s = order[Len(order)] THEN "body" ELSE "lock"
<1>1. /\ call[c].pc = "lock" /\ lock[s] = None
      /\ lock' = [lock EXCEPT ![s] = c] /\ call' = [call EXCEPT ![c].pc = phase]
  BY DEF Acquire
<1>2. k \in Keys /\ a \in Keys
  BY <1>1 DEF CallsShaped
<1>3. \/ order = <<ShardOf[k]>> /\ ShardOf[k] = ShardOf[a]
      \/ order = <<ShardOf[k], ShardOf[a]>> /\ ShardOf[k] # ShardOf[a]
      \/ order = <<ShardOf[a], ShardOf[k]>> /\ ShardOf[k] # ShardOf[a]
  BY DEF LockOrder
<1>4. s \in {ShardOf[k], ShardOf[a]} /\ s \in Shards
  BY SMTT(30), <1>2, <1>3, StoreConstants
<1>5. phase = "body" => lock'[ShardOf[k]] = c /\ lock'[ShardOf[a]] = c
  <2>1. CASE order = <<ShardOf[k]>> /\ ShardOf[k] = ShardOf[a]
    BY <1>1, <1>4, <2>1 DEF LocksOwned
  <2>2. ASSUME NEW x \in Shards, NEW y \in Shards, order = <<x, y>>, x # y,
               phase = "body"
        PROVE  lock'[x] = c /\ lock'[y] = c
    <3>1. s = y /\ lock[x] = c
      BY <2>2
    <3> QED
      BY <1>1, <2>2, <3>1 DEF LocksOwned
  <2>3. ShardOf[k] \in Shards /\ ShardOf[a] \in Shards
    BY <1>2, StoreConstants
  <2> QED
    BY <1>3, <2>1, <2>2, <2>3
<1>6. /\ call'[c].pc = phase /\ call'[c].key = k /\ call'[c].alias = a /\ Shape(call'[c])
      /\ \A d \in Callers \ {c} : call'[d] = call[d]
      /\ call' = [d \in Callers |-> call'[d]]
  <2>1. call'[c] = [call[c] EXCEPT !.pc = phase]
    BY <1>1 DEF CallsShaped
  <2>2. Shape(call[c])
    BY DEF CallsShaped
  <2>3. call'[c] = [pc |-> phase, op |-> call[c].op, key |-> k, alias |-> a,
                    hist |-> call[c].hist, old |-> call[c].old]
    BY <2>1, <2>2 DEF Shape
  <2> QED
    BY <1>1, <2>3 DEF CallsShaped, Shape
<1> HIDE DEF s, order
<1>7. phase \in Phases
  BY DEF Phases
<1>8. CallsShaped'
  BY <1>2, <1>6, <1>7 DEF CallsShaped
<1>9. LocksOwned'
  BY <1>1 DEF LocksOwned
<1>10. InsideHolds'
  <2> SUFFICES ASSUME NEW d \in Callers, call'[d].pc \in Inner
               PROVE  lock'[ShardOf[call'[d].key]] = d /\ lock'[ShardOf[call'[d].alias]] = d
    BY DEF InsideHolds
  <2>1. CASE d = c
    BY <1>5, <1>6, <2>1 DEF Inner
  <2>2. CASE d # c
    <3>1. lock[ShardOf[call[d].key]] = d /\ lock[ShardOf[call[d].alias]] = d
      BY <1>6, <2>2 DEF InsideHolds
    <3> QED
      BY <1>1, <1>4, <1>6, <2>2, <3>1, StoreConstants DEF LocksOwned
  <2> QED
    BY <2>1, <2>2
<1>11. NoLockLeaked'
  BY <1>1, <1>4, <1>6 DEF NoLockLeaked, LocksOwned
<1> QED
  BY <1>8, <1>9, <1>10, <1>11

LEMMA WorkKeeps ==
  ASSUME LockInv, NEW c \in Callers, Work(c)
  PROVE  LockInv'
<1>1. CASE Return(c)
  BY <1>1, ReturnKeeps
<1>2. ASSUME NEW k, NEW h, MetaReset(c, k, h), call[c].pc = "body"
      PROVE  LockInv'
  BY <1>2, AdvanceKeeps DEF MetaReset, Inner
<1>3. CASE PromoteFile(c)
  <2>1. PICK h, o : Advance(c, "meta", h, o)
    BY <1>3, Zenon DEF PromoteFile
  <2> QED
    BY <1>3, <2>1, AdvanceKeeps DEF PromoteFile, Inside, Inner
<1>4. CASE PromoteMetaFails(c)
  BY <1>4, AdvanceKeeps DEF PromoteMetaFails, Inside, Inner
<1>5. \/ Return(c)
      \/ \E k, h : MetaReset(c, k, h) /\ call[c].pc = "body"
      \/ PromoteFile(c) \/ PromoteMetaFails(c)
  <2>1. CASE AddMessage(c) \/ AddMessageBreaks(c) \/ AddMessageBeyondBound(c)
    BY <2>1 DEF AddMessage, AddMessageBreaks, AddMessageBeyondBound
  <2>2. CASE (\E n \in Keeps : TruncateHistory(c, n)) \/ SetSummary(c) \/ Rewrite(c)
    BY <2>2 DEF TruncateHistory, SetSummary, Rewrite
  <2>3. CASE SetHistory(c) \/ Compact(c)
    BY <2>3 DEF SetHistory, Compact, Inside
  <2>4. CASE \/ PromoteNothing(c) \/ PromoteFile(c) \/ PromoteMeta(c)
             \/ PromoteMetaFails(c) \/ RollBack(c)
    BY <2>4 DEF PromoteNothing, PromoteMeta, RollBack
  <2>5. CASE AtomicWriteFails(c)
    BY <2>5 DEF AtomicWriteFails
  <2> QED
    BY <2>1, <2>2, <2>3, <2>4, <2>5 DEF Work
<1> QED
  BY <1>1, <1>2, <1>3, <1>4, <1>5

LEMMA NextLocks == LockInv /\ [Next]_vars => LockInv'
<1> SUFFICES ASSUME LockInv, [Next]_vars PROVE LockInv'
  OBVIOUS
<1>1. CASE Crash
  <2>1. lock' = [s \in Shards |-> None] /\ call' = [c \in Callers |-> Idle]
    BY <1>1 DEF Crash
  <2> QED
    BY <2>1, StoreConstants, Z3
       DEF LockInv, CallsShaped, LocksOwned, InsideHolds, NoLockLeaked, Shape, Idle, Phases,
           Inner
<1>2. ASSUME NEW c \in Callers, Request(c) \/ Acquire(c) \/ Work(c) PROVE LockInv'
  BY <1>2, RequestKeeps, AcquireKeeps, WorkKeeps
<1>3. CASE UNCHANGED vars
  BY <1>3 DEF vars, LockInv, CallsShaped, LocksOwned, InsideHolds, NoLockLeaked
<1> QED
  BY <1>1, <1>2, <1>3 DEF Next

LEMMA LocksCorrect == Spec => []LockInv
  BY InitLocks, NextLocks, PTL DEF Spec

-----------------------------------------------------------------------------

\* Two goroutines are never inside the store for the same session, neither as
\* the session they write nor as the alias they promote from.
THEOREM SessionsExclusiveCorrect == Spec => []SessionsExclusive
<1>1. LockInv => SessionsExclusive
  <2> SUFFICES ASSUME LockInv, NEW c \in Callers, NEW d \in Callers, c # d,
                      Working(c), Working(d), NEW k,
                      k \in {call[c].key, call[c].alias}, k \in {call[d].key, call[d].alias}
               PROVE  FALSE
    BY DEF SessionsExclusive
  <2>1. lock[ShardOf[k]] = c /\ lock[ShardOf[k]] = d
    BY DEF LockInv, InsideHolds, Working, Inner
  <2> QED
    BY <2>1
<1> QED
  BY <1>1, LocksCorrect, PTL

\* Returning, failing and dying all give the mutexes back.
THEOREM NoLockLeakedCorrect == Spec => []NoLockLeaked
<1>1. LockInv => NoLockLeaked
  BY DEF LockInv
<1> QED
  BY <1>1, LocksCorrect, PTL

-----------------------------------------------------------------------------
(* Counting the elements of a set of line numbers                           *)

\* Every non-empty set of natural numbers has a least element.
LEMMA LeastNat ==
  ASSUME NEW T, T \subseteq Nat, T # {}
  PROVE  \E x \in T : \A y \in T : x <= y
<1>1. PICK x \in T : \A y \in T : ~ (<<y, x>> \in OpToRel(<, Nat))
  BY NatLessThanWellFounded, WFMin
<1>2. \A y \in T : ~ (y < x)
  BY <1>1 DEF OpToRel
<1> QED
  BY <1>2

UpTo(S, i) == {j \in S : j <= i}

LEMMA UpToFinite ==
  ASSUME NEW N \in Nat, NEW S, S \subseteq 1..N
  PROVE  /\ IsFiniteSet(S) /\ Cardinality(S) \in Nat
         /\ \A i : IsFiniteSet(UpTo(S, i)) /\ Cardinality(UpTo(S, i)) \in Nat
                   /\ Cardinality(UpTo(S, i)) <= Cardinality(S)
<1>1. IsFiniteSet(S)
  <2>1. IsFiniteSet(1..N)
    BY FS_Interval
  <2> QED
    BY <2>1, FS_Subset
<1>2. \A i : UpTo(S, i) \subseteq S
  BY DEF UpTo
<1> QED
  BY <1>1, <1>2, FS_Subset, FS_CardinalityType

LEMMA NthIs ==
  ASSUME NEW N \in Nat, NEW S, S \subseteq 1..N, NEW n \in 1..Cardinality(S)
  PROVE  Nth(S, n) \in S /\ Cardinality(UpTo(S, Nth(S, n))) = n
<1> DEFINE T == {i \in 0..N : Cardinality(UpTo(S, i)) >= n}
<1>0. /\ IsFiniteSet(S) /\ Cardinality(S) \in Nat
      /\ \A i : IsFiniteSet(UpTo(S, i)) /\ Cardinality(UpTo(S, i)) \in Nat
  BY UpToFinite
<1>1. N \in T
  <2>1. UpTo(S, N) = S
    <3>1. \A j \in S : j \in 1..N /\ j <= N
      OBVIOUS
    <3> QED
      BY <3>1 DEF UpTo
  <2> QED
    BY <1>0, <2>1
<1>2. PICK b \in T : \A y \in T : b <= y
  <2>1. T \subseteq Nat /\ T # {}
    BY <1>1
  <2> HIDE DEF T
  <2> QED
    BY <2>1, LeastNat
<1>3. b \in 0..N /\ Cardinality(UpTo(S, b)) >= n
  BY <1>2
<1>4. b # 0
  <2>1. UpTo(S, 0) = {}
    <3>1. \A j \in S : j \in 1..N /\ ~(j <= 0)
      OBVIOUS
    <3> QED
      BY <3>1 DEF UpTo
  <2>2. Cardinality(UpTo(S, 0)) = 0
    BY <2>1, FS_EmptySet
  <2> QED
    BY <1>3, <2>2
<1>5. b - 1 \in 0..N /\ b - 1 \notin T
  <2>1. b - 1 \in 0..N /\ ~(b <= b - 1)
    BY <1>3, <1>4
  <2> HIDE DEF T
  <2> QED
    BY <1>2, <2>1
<1>6. ~(Cardinality(UpTo(S, b - 1)) >= n)
  BY <1>5
<1>7. b \in S
  <2> SUFFICES ASSUME b \notin S PROVE FALSE
    OBVIOUS
  <2>1. UpTo(S, b) = UpTo(S, b - 1)
    <3>1. \A j \in S : j \in Nat /\ j # b
      OBVIOUS
    <3>2. \A j \in S : j <= b <=> j <= b - 1
      BY <1>3, <3>1
    <3> QED
      BY <3>2 DEF UpTo
  <2> QED
    BY <1>3, <1>6, <2>1
<1>8. Cardinality(UpTo(S, b)) = Cardinality(UpTo(S, b - 1)) + 1
  <2>1. UpTo(S, b) = UpTo(S, b - 1) \cup {b} /\ b \notin UpTo(S, b - 1)
    <3>1. \A j \in S : j \in Nat
      OBVIOUS
    <3>2. \A j \in S : j <= b <=> (j <= b - 1 \/ j = b)
      BY <1>3, <3>1
    <3>3. ~(b <= b - 1)
      BY <1>3
    <3> QED
      BY <1>7, <3>2, <3>3 DEF UpTo
  <2> QED
    BY <1>0, <2>1, FS_AddElement
<1>9. Cardinality(UpTo(S, b)) = n
  BY <1>0, <1>3, <1>6, <1>8
<1>10. \E i \in S : Cardinality({j \in S : j <= i}) = n
  BY <1>7, <1>9 DEF UpTo
<1> QED
  BY <1>10 DEF Nth, UpTo

LEMMA UpToGrows ==
  ASSUME NEW N \in Nat, NEW S, S \subseteq 1..N, NEW i \in S, NEW j \in S, i < j
  PROVE  Cardinality(UpTo(S, i)) < Cardinality(UpTo(S, j))
<1>0. /\ IsFiniteSet(UpTo(S, j)) /\ Cardinality(UpTo(S, j)) \in Nat
      /\ Cardinality(UpTo(S, i)) \in Nat
  BY UpToFinite
<1>1. /\ UpTo(S, i) \subseteq UpTo(S, j) \ {j} /\ j \in UpTo(S, j)
  <2>1. \A x \in S : x \in 1..N /\ x \in Nat
    OBVIOUS
  <2>2. i \in Nat /\ j \in Nat
    BY <2>1
  <2>3. \A x \in S : x <= i => x <= j /\ x # j
    BY <2>1, <2>2
  <2>4. j <= j
    BY <2>2
  <2> QED
    BY <2>3, <2>4 DEF UpTo
<1>2. /\ IsFiniteSet(UpTo(S, j) \ {j})
      /\ Cardinality(UpTo(S, j) \ {j}) = Cardinality(UpTo(S, j)) - 1
  BY <1>0, <1>1, FS_RemoveElement
<1>3. Cardinality(UpTo(S, i)) <= Cardinality(UpTo(S, j) \ {j})
  BY <1>1, <1>2, FS_Subset
<1> QED
  BY <1>0, <1>2, <1>3

LEMMA NthUnique ==
  ASSUME NEW N \in Nat, NEW S, S \subseteq 1..N, NEW i \in S
  PROVE  /\ Cardinality(UpTo(S, i)) \in 1..Cardinality(S)
         /\ Nth(S, Cardinality(UpTo(S, i))) = i
<1> DEFINE n == Cardinality(UpTo(S, i))
<1>1. /\ n \in Nat /\ n <= Cardinality(S) /\ Cardinality(S) \in Nat
      /\ IsFiniteSet(UpTo(S, i))
  BY UpToFinite
<1>2. n # 0
  <2>1. i \in UpTo(S, i)
    BY DEF UpTo
  <2> QED
    BY <1>1, <2>1, FS_EmptySet
<1>3. n \in 1..Cardinality(S)
  BY <1>1, <1>2
<1> HIDE DEF n
<1>4. Nth(S, n) \in S /\ Cardinality(UpTo(S, Nth(S, n))) = n
  BY <1>3, NthIs
<1>5. ASSUME Nth(S, n) # i PROVE FALSE
  <2>1. Nth(S, n) \in Nat /\ i \in Nat
    <3>1. \A x \in S : x \in 1..N /\ x \in Nat
      OBVIOUS
    <3> QED
      BY <1>4, <3>1
  <2>2. Nth(S, n) < i \/ i < Nth(S, n)
    BY <1>5, <2>1
  <2>3. n < n
    <3>1. CASE Nth(S, n) < i
      BY <1>4, <3>1, UpToGrows DEF n
    <3>2. CASE i < Nth(S, n)
      BY <1>4, <3>2, UpToGrows DEF n
    <3> QED
      BY <2>2, <3>1, <3>2
  <2> QED
    BY <1>1, <2>3
<1> QED
  BY <1>3, <1>5 DEF n

-----------------------------------------------------------------------------
(* What a reader sees                                                       *)

LEMMA RetainedIn ==
  ASSUME NEW s \in Seq(Line), NEW from \in Nat
  PROVE  /\ Retained(s, from) \subseteq 1..Len(s) /\ Len(s) \in Nat
         /\ \A i \in Retained(s, from) : s[i] \in Message /\ i > from
         /\ Cardinality(Retained(s, from)) \in Nat
<1>1. /\ Retained(s, from) \subseteq 1..Len(s) /\ Len(s) \in Nat
      /\ \A i \in Retained(s, from) : s[i] \in Message /\ i > from
  BY DEF Retained, Line
<1> QED
  BY <1>1, UpToFinite

LEMMA ReadIs ==
  ASSUME NEW s \in Seq(Line), NEW from \in Nat
  PROVE  /\ ReadMessages(s, from) \in Seq(Message)
         /\ Len(ReadMessages(s, from)) = Cardinality(Retained(s, from))
         /\ \A n \in 1..Cardinality(Retained(s, from)) :
              /\ Nth(Retained(s, from), n) \in Retained(s, from)
              /\ ReadMessages(s, from)[n] = s[Nth(Retained(s, from), n)]
<1> DEFINE R == Retained(s, from)
           C == Cardinality(R)
<1>1. R \subseteq 1..Len(s) /\ Len(s) \in Nat /\ C \in Nat /\ \A i \in R : s[i] \in Message
  BY RetainedIn
<1>2. ReadMessages(s, from) = [n \in 1..C |-> s[Nth(R, n)]]
  BY DEF ReadMessages
<1> HIDE DEF R
<1>3. \A n \in 1..C : Nth(R, n) \in R
  BY <1>1, NthIs
<1>4. [n \in 1..C |-> s[Nth(R, n)]] \in [1..C -> Message]
  BY <1>1, <1>3
<1>5. [n \in 1..C |-> s[Nth(R, n)]] \in Seq(Message) /\ Len([n \in 1..C |-> s[Nth(R, n)]]) = C
  BY <1>1, <1>4, IsASeq, LenProperties
<1> QED
  BY <1>2, <1>3, <1>5 DEF R

\* The messages a reader sees.
Seen(s, from) == {s[i] : i \in Retained(s, from)}

LEMMA SeenIs ==
  ASSUME NEW s \in Seq(Line), NEW from \in Nat
  PROVE  /\ Range(ReadMessages(s, from)) = Seen(s, from)
         /\ ReadMessages(s, from) = <<>> <=> Retained(s, from) = {}
<1> DEFINE R == Retained(s, from)
           h == ReadMessages(s, from)
<1>1. /\ R \subseteq 1..Len(s) /\ Len(s) \in Nat /\ Cardinality(R) \in Nat
      /\ h \in Seq(Message) /\ Len(h) = Cardinality(R)
      /\ \A n \in 1..Cardinality(R) : Nth(R, n) \in R /\ h[n] = s[Nth(R, n)]
  BY RetainedIn, ReadIs
<1> HIDE DEF R, h
<1>2. \A x : x \in Range(h) <=> \E n \in 1..Cardinality(R) : x = h[n]
  BY <1>1 DEF Range
<1>3. \A i \in R : \E n \in 1..Cardinality(R) : s[i] = h[n]
  <2> SUFFICES ASSUME NEW i \in R PROVE \E n \in 1..Cardinality(R) : s[i] = h[n]
    OBVIOUS
  <2>1. Cardinality(UpTo(R, i)) \in 1..Cardinality(R) /\ Nth(R, Cardinality(UpTo(R, i))) = i
    BY <1>1, NthUnique
  <2> QED
    BY <1>1, <2>1
<1>4. Range(h) = {s[i] : i \in R}
  <2>1. \A x \in Range(h) : \E i \in R : x = s[i]
    BY ZenonT(40), <1>1, <1>2
  <2>2. \A i \in R : s[i] \in Range(h)
    BY <1>2, <1>3
  <2> QED
    BY <2>1, <2>2
<1>5. h = <<>> <=> R = {}
  <2>1. R = {} => Cardinality(R) = 0
    BY FS_EmptySet
  <2>2. h = <<>> => R = {}
    BY <1>1, <1>3
  <2> QED
    BY <1>1, <2>1, <2>2
<1> QED
  BY <1>4, <1>5 DEF R, h, Seen

LEMMA LineIs == Message \subseteq Line /\ Corrupt \in Line /\ Corrupt \notin Message
  BY StoreConstants DEF Line

\* Appending shows the new line, if the offset lies inside the file.
LEMMA SeenAppend ==
  ASSUME NEW s \in Seq(Line), NEW from \in Nat, NEW l \in Line
  PROVE  /\ Append(s, l) \in Seq(Line)
         /\ Seen(s, from) \subseteq Seen(Append(s, l), from)
         /\ Seen(Append(s, l), from) \subseteq Seen(s, from) \cup ({l} \ {Corrupt})
         /\ l # Corrupt /\ from <= Len(s) => l \in Seen(Append(s, l), from)
<1> DEFINE t == Append(s, l)
<1>1. /\ t \in Seq(Line) /\ Len(t) = Len(s) + 1 /\ Len(s) \in Nat
      /\ \A i \in 1..Len(s) : t[i] = s[i]
      /\ t[Len(s) + 1] = l
  BY AppendProperties
<1> HIDE DEF t
<1>2. /\ Retained(s, from) = {i \in 1..Len(s) : i > from /\ s[i] # Corrupt}
      /\ Retained(t, from) = {i \in 1..Len(t) : i > from /\ t[i] # Corrupt}
  BY <1>1 DEF Retained
<1>3. \A i \in 1..Len(t) : i \in 1..Len(s) \/ i = Len(s) + 1
  BY <1>1
<1>4. \A i \in Retained(s, from) : i \in Retained(t, from) /\ t[i] = s[i]
  BY <1>1, <1>2
<1>5. \A i \in Retained(t, from) : (i \in Retained(s, from) /\ t[i] = s[i]) \/ (t[i] = l /\ l # Corrupt)
  BY <1>1, <1>2, <1>3
<1>6. l # Corrupt /\ from <= Len(s) => Len(s) + 1 \in Retained(t, from)
  BY <1>1, <1>2
<1> QED
  BY <1>1, <1>4, <1>5, <1>6 DEF Seen, t

\* A last line that is spoilt takes at most itself away.
LEMMA SeenBroken ==
  ASSUME NEW s \in Seq(Line), s # <<>>, NEW from \in Nat
  PROVE  LET t == [s EXCEPT ![Len(s)] = Corrupt]
         IN  /\ t \in Seq(Line) /\ Len(t) = Len(s) /\ t[Len(s)] = Corrupt
             /\ Seen(t, from) \subseteq Seen(s, from)
             /\ Seen(s, from) \subseteq Seen(t, from) \cup {s[Len(s)]}
<1> DEFINE t == [s EXCEPT ![Len(s)] = Corrupt]
<1>1. /\ t \in Seq(Line) /\ Len(t) = Len(s) /\ Len(s) \in 1..Len(s)
      /\ t[Len(s)] = Corrupt /\ \A i \in 1..Len(s) : i # Len(s) => t[i] = s[i]
  <2>1. Len(s) \in 1..Len(s) /\ Corrupt \in Line
    BY LineIs
  <2>2. t \in Seq(Line) /\ Len(t) = Len(s)
    BY <2>1, ExceptSeq
  <2>3. /\ s \in [1..Len(s) -> Line] /\ Len(s) \in 1..Len(s)
        /\ t = [s EXCEPT ![Len(s)] = Corrupt]
    BY <2>1
  <2>4. t[Len(s)] = Corrupt /\ \A i \in 1..Len(s) : i # Len(s) => t[i] = s[i]
    <3> HIDE DEF t
    <3> QED
      BY <2>3, Zenon
  <2> QED
    BY <2>1, <2>2, <2>4
<1> HIDE DEF t
<1>2. /\ Retained(s, from) = {i \in 1..Len(s) : i > from /\ s[i] # Corrupt}
      /\ Retained(t, from) = {i \in 1..Len(s) : i > from /\ t[i] # Corrupt}
  BY <1>1 DEF Retained
<1>3. \A i \in Retained(t, from) : i \in Retained(s, from) /\ t[i] = s[i]
  BY <1>1, <1>2
<1>4. \A i \in Retained(s, from) : (i \in Retained(t, from) /\ t[i] = s[i]) \/ i = Len(s)
  BY <1>1, <1>2
<1> QED
  BY <1>1, <1>3, <1>4 DEF Seen, t

LEMMA SeenAll ==
  ASSUME NEW s \in Seq(Line), NEW from \in Nat
  PROVE  Seen(s, from) \subseteq Seen(s, 0)
<1>1. Retained(s, from) \subseteq Retained(s, 0)
  BY DEF Retained
<1> QED
  BY <1>1 DEF Seen

\* A file that was just written is read as it was written.
LEMMA SeenHistory ==
  ASSUME NEW h \in Seq(Message)
  PROVE  h \in Seq(Line) /\ Seen(h, 0) = Range(h)
<1>1. h \in Seq(Line)
  BY LineIs, SeqMonotonic
<1>2. Retained(h, 0) = 1..Len(h)
  <2>1. \A i \in 1..Len(h) : h[i] \in Message /\ i > 0
    OBVIOUS
  <2> QED
    BY <2>1, LineIs DEF Retained
<1>3. DOMAIN h = 1..Len(h)
  OBVIOUS
<1> QED
  BY <1>1, <1>2, <1>3 DEF Seen, Range

\* The offset that TruncateHistory computes leaves the last n messages.
LEMMA CutExact ==
  ASSUME NEW s \in Seq(Line), NEW from \in Nat, NEW n \in Nat,
         NEW R, R = Retained(s, from), n # 0, n < Cardinality(R),
         NEW p, p = Nth(R, Cardinality(R) - n)
  PROVE  p \in R /\ ReadMessages(s, p) = LastN(ReadMessages(s, from), n)
<1> DEFINE C == Cardinality(R)
           Q == Retained(s, p)
           h == ReadMessages(s, from)
           g == ReadMessages(s, p)
<1>0. /\ R \subseteq 1..Len(s) /\ Len(s) \in Nat /\ C \in Nat
      /\ \A i \in R : i \in Nat /\ i > from
  <2>1. /\ R \subseteq 1..Len(s) /\ Len(s) \in Nat /\ C \in Nat
        /\ \A i \in R : i > from
    BY RetainedIn
  <2>2. \A i \in R : i \in 1..Len(s)
    BY <2>1
  <2> QED
    BY <2>1, <2>2
<1>1. p \in R /\ Cardinality(UpTo(R, p)) = C - n /\ p \in Nat
  <2>1. C - n \in 1..C
    BY <1>0
  <2> QED
    BY <1>0, <2>1, NthIs
<1>2. Q = R \ UpTo(R, p) /\ Q \subseteq 1..Len(s)
  <2>1. /\ R = {i \in 1..Len(s) : i > from /\ s[i] # Corrupt}
        /\ Q = {i \in 1..Len(s) : i > p /\ s[i] # Corrupt}
    BY DEF Retained
  <2>2. p > from /\ p \in Nat
    BY <1>0, <1>1
  <2>3. \A i \in 1..Len(s) : (i > p => i > from) /\ (i > p <=> ~(i <= p))
    BY <2>2
  <2> QED
    BY <2>1, <2>3 DEF UpTo
<1>3. /\ IsFiniteSet(R) /\ \A i : IsFiniteSet(UpTo(R, i)) /\ UpTo(R, i) \subseteq R
  BY <1>0, UpToFinite DEF UpTo
<1>4. Cardinality(Q) = n
  <2>1. Cardinality(R \ UpTo(R, p)) = Cardinality(R) - Cardinality(R \cap UpTo(R, p))
    BY <1>3, FS_Difference
  <2>2. R \cap UpTo(R, p) = UpTo(R, p)
    BY <1>3
  <2>3. Cardinality(Q) = C - (C - n) /\ C \in Nat
    BY <1>0, <1>1, <1>2, <2>1, <2>2
  <2> HIDE DEF C, Q
  <2> QED
    BY <2>3
<1>5. /\ h \in Seq(Message) /\ Len(h) = C /\ g \in Seq(Message) /\ Len(g) = n
      /\ \A m \in 1..C : h[m] = s[Nth(R, m)]
      /\ \A m \in 1..n : g[m] = s[Nth(Q, m)]
  BY ZenonT(40), <1>0, <1>1, <1>4, ReadIs
<1> HIDE DEF C, Q, g, h
<1>6. ASSUME NEW m \in 1..n PROVE Nth(Q, m) = Nth(R, (C - n) + m)
  <2> DEFINE i == Nth(R, (C - n) + m)
  <2>1. (C - n) + m \in 1..C
    BY <1>0 DEF C
  <2>2. i \in R /\ Cardinality(UpTo(R, i)) = (C - n) + m
    BY <1>0, <2>1, NthIs DEF C
  <2> HIDE DEF i
  <2>3. p < i
    <3>1. i \in Nat
      BY <1>0, <2>2
    <3>2. ASSUME i <= p PROVE FALSE
      <4>1. i = p => (C - n) + m = C - n
        BY <1>1, <2>2
      <4>2. i < p => (C - n) + m < C - n
        BY <1>0, <1>1, <2>2, UpToGrows
      <4>3. i = p \/ i < p
        BY <1>1, <3>1, <3>2
      <4> QED
        BY <1>0, <2>1, <4>1, <4>2, <4>3 DEF C
    <3> QED
      BY <1>1, <3>1, <3>2
  <2>4. i \in Q /\ UpTo(Q, i) = UpTo(R, i) \ UpTo(R, p) /\ UpTo(R, p) \subseteq UpTo(R, i)
    <3>1. i \in Nat /\ \A j \in R : j \in Nat
      BY <1>0, <2>2
    <3>2. \A j \in R : j <= p => j <= i
      BY <1>1, <2>3, <3>1
    <3>3. ~(i <= p)
      BY <1>1, <2>3, <3>1
    <3> QED
      BY <1>2, <2>2, <3>2, <3>3 DEF UpTo
  <2>5. Cardinality(UpTo(Q, i)) = m
    <3>1. Cardinality(UpTo(R, i) \ UpTo(R, p))
            = Cardinality(UpTo(R, i)) - Cardinality(UpTo(R, i) \cap UpTo(R, p))
      BY <1>3, FS_Difference
    <3>2. UpTo(R, i) \cap UpTo(R, p) = UpTo(R, p)
      BY <2>4
    <3>3. Cardinality(UpTo(Q, i)) = ((C - n) + m) - (C - n)
      BY <1>1, <2>2, <2>4, <3>1, <3>2
    <3> QED
      BY <1>0, <3>3 DEF C
  <2>6. Nth(Q, Cardinality(UpTo(Q, i))) = i
    BY ZenonT(40), <1>0, <1>2, <2>4, NthUnique
  <2> QED
    BY <2>5, <2>6 DEF i
<1>7. LastN(h, n) = SubSeq(h, (C - n) + 1, C)
  <2>1. ~(n >= Len(h)) /\ Len(h) - n + 1 = (C - n) + 1
    BY <1>0, <1>5 DEF C
  <2> QED
    BY <1>5, <2>1 DEF LastN
<1>8. /\ SubSeq(h, (C - n) + 1, C) \in Seq(Message) /\ Len(SubSeq(h, (C - n) + 1, C)) = n
      /\ \A m \in 1..n : SubSeq(h, (C - n) + 1, C)[m] = h[(C - n) + m]
  <2> DEFINE a == (C - n) + 1
  <2>1. a \in Int /\ C \in Int /\ a <= C /\ a \in 1..C /\ (C - a) + 1 = n
    BY <1>0 DEF C
  <2>2. \A i \in a..C : i \in 1..Len(h) /\ h[i] \in Message
    BY <1>5, <2>1
  <2>3. \A m \in 1..n : (a + m) - 1 = (C - n) + m
    BY <2>1
  <2> HIDE DEF a
  <2>4. /\ SubSeq(h, a, C) \in Seq(Message) /\ Len(SubSeq(h, a, C)) = (C - a) + 1
        /\ \A m \in 1..((C - a) + 1) : SubSeq(h, a, C)[m] = h[(a + m) - 1]
    BY <1>5, <2>1, <2>2, SubSeqProperties
  <2> QED
    BY <2>1, <2>3, <2>4 DEF a
<1>9. \A m \in 1..n : g[m] = SubSeq(h, (C - n) + 1, C)[m]
  <2> SUFFICES ASSUME NEW m \in 1..n PROVE g[m] = SubSeq(h, (C - n) + 1, C)[m]
    OBVIOUS
  <2>1. (C - n) + m \in 1..C
    BY <1>0 DEF C
  <2> QED
    BY ZenonT(40), <1>5, <1>6, <1>8, <2>1
<1>10. g = SubSeq(h, (C - n) + 1, C)
  BY <1>5, <1>8, <1>9, SeqEqual
<1> QED
  BY <1>1, <1>7, <1>10 DEF g, h

\* What TruncateHistory leaves for a reader, whatever the offset was.
LEMMA TruncatedIs ==
  ASSUME NEW s \in Seq(Line), NEW from \in Nat, NEW n \in Nat,
         NEW R, R = Retained(s, from),
         NEW p, p = IF n = 0 \/ R = {} THEN Len(s)
                    ELSE IF n < Cardinality(R) THEN Nth(R, Cardinality(R) - n)
                    ELSE from
  PROVE  /\ p \in Nat /\ p <= Len(s)
         /\ ReadMessages(s, p) = LastN(ReadMessages(s, from), n)
<1> DEFINE C == Cardinality(R)
           h == ReadMessages(s, from)
<1>0. /\ R \subseteq 1..Len(s) /\ Len(s) \in Nat /\ C \in Nat
      /\ \A i \in R : i \in Nat /\ i > from /\ i <= Len(s)
  <2>1. /\ R \subseteq 1..Len(s) /\ Len(s) \in Nat /\ C \in Nat
        /\ \A i \in R : i > from
    BY RetainedIn
  <2>2. \A i \in R : i \in 1..Len(s)
    BY <2>1
  <2> QED
    BY <2>1, <2>2
<1>1. h \in Seq(Message) /\ Len(h) = C
  BY ReadIs
<1>2. CASE n = 0 \/ R = {}
  <2>1. p = Len(s) /\ p \in Nat /\ p <= Len(s)
    BY <1>0, <1>2
  <2>2. Retained(s, p) = {}
    <3>1. \A i \in 1..Len(s) : ~(i > p)
      BY <1>0, <2>1
    <3>2. Retained(s, p) \subseteq 1..Len(s) /\ \A i \in Retained(s, p) : i > p
      BY <2>1, RetainedIn
    <3> QED
      BY <3>1, <3>2
  <2>3. ReadMessages(s, p) = <<>>
    BY <2>1, <2>2, SeenIs
  <2>4. LastN(h, n) = <<>>
    <3>1. CASE R = {}
      <4>1. C = 0 /\ h = <<>>
        BY <3>1, SeenIs, FS_EmptySet
      <4>2. n >= Len(h)
        BY <4>1
      <4> QED
        BY <4>1, <4>2 DEF LastN
    <3>2. CASE R # {}
      <4>1. n = 0 /\ h # <<>>
        BY <1>2, <3>2, SeenIs
      <4> HIDE DEF h, C
      <4>2. Len(h) \in Nat /\ Len(h) # 0
        BY <1>1, <4>1
      <4>3. ~(n >= Len(h)) /\ Len(h) - n + 1 = Len(h) + 1
        BY <4>1, <4>2
      <4>4. LastN(h, n) = SubSeq(h, Len(h) + 1, Len(h))
        BY <4>3 DEF LastN
      <4> QED
        BY <1>1, <4>2, <4>4
    <3> QED
      BY <3>1, <3>2
  <2> QED
    BY <2>1, <2>3, <2>4
<1>3. CASE n # 0 /\ n < C
  <2>0. R # {}
    <3>1. R = {} => C = 0
      BY FS_EmptySet
    <3> HIDE DEF C
    <3> QED
      BY <1>0, <1>3, <3>1
  <2>1. p = Nth(R, C - n)
    BY <1>3, <2>0
  <2>2. p \in R /\ ReadMessages(s, p) = LastN(h, n)
    BY <1>3, <2>1, CutExact
  <2> QED
    BY <1>0, <2>2
<1>4. CASE n # 0 /\ R # {} /\ ~(n < C)
  <2>1. p = from
    BY <1>4
  <2>2. LastN(h, n) = h
    BY <1>0, <1>1, <1>4 DEF LastN
  <2>3. PICK i \in R : TRUE
    BY <1>4
  <2>4. from <= Len(s)
    BY <1>0, <2>3
  <2> QED
    BY <2>1, <2>2, <2>4
<1> QED
  BY <1>0, <1>2, <1>3, <1>4

-----------------------------------------------------------------------------
(* Types                                                                    *)

FilesTyped ==
  /\ lines \in [Keys -> Seq(Line)] /\ ended \in [Keys -> BOOLEAN]
  /\ \A k \in Keys : ended[k] \/ lines[k] # <<>>
  /\ skip \in [Keys -> Nat] /\ summary \in [Keys -> Keys \cup {None}]
GhostsTyped ==
  /\ next \in 1..(MsgMax + 1)
  /\ kept \in [Keys -> SUBSET Message] /\ swallowed \subseteq Message
  /\ forgotten \in [Keys -> SUBSET Message]
  /\ taint \in [Keys -> Taints]
BoundsTyped == faults \in 0..FaultMax /\ crashes \in 0..CrashMax
\* A file to restore ends in a newline or has a line without one.
Restorable(o) == o \in Raw /\ (o.ended \/ o.lines # <<>>)
CallsTyped ==
  /\ lock \in [Shards -> Callers \cup {None}] /\ call \in [Callers -> Call]
  /\ \A c \in Callers : Restorable(call[c].old)

TypeInv == FilesTyped /\ GhostsTyped /\ BoundsTyped /\ CallsTyped

LEMMA NoRawIs == Restorable(NoRaw) /\ <<>> \in Seq(Message)
  BY DEF Restorable, NoRaw, Raw, Taints

LEMMA IdleIs == Idle \in Call /\ Idle.old = NoRaw
  BY NoRawIs DEF Idle, Call, Phases, Restorable

LEMMA InitTyped == Init => TypeInv
<1> SUFFICES ASSUME Init PROVE TypeInv
  OBVIOUS
<1>1. FilesTyped /\ GhostsTyped
  BY StoreConstants DEF Init, FilesTyped, GhostsTyped, Taints
<1>2. BoundsTyped
  BY StoreConstants DEF Init, BoundsTyped
<1>3. CallsTyped
  BY NoRawIs, IdleIs DEF Init, CallsTyped
<1> QED
  BY <1>1, <1>2, <1>3 DEF TypeInv

LEMMA ActiveIs ==
  ASSUME FilesTyped, NEW k \in Keys
  PROVE  /\ lines[k] \in Seq(Line) /\ skip[k] \in Nat
         /\ Active(k) \in Seq(Message)
         /\ Range(Active(k)) = Seen(lines[k], skip[k])
         /\ Active(k) = <<>> <=> Retained(lines[k], skip[k]) = {}
<1>1. lines[k] \in Seq(Line) /\ skip[k] \in Nat
  BY DEF FilesTyped
<1> QED
  BY <1>1, ReadIs, SeenIs DEF Active

\* What a reader sees are messages of the file.
LEMMA SeenIn ==
  ASSUME NEW s \in Seq(Line), NEW from \in Nat
  PROVE  Seen(s, from) \subseteq Message \cap (Range(s) \ {Corrupt})
<1>1. \A i \in Retained(s, from) : s[i] \in Message /\ s[i] \in Range(s)
  <2>1. \A i \in Retained(s, from) : i \in DOMAIN s /\ s[i] # Corrupt /\ s[i] \in Message
    BY RetainedIn DEF Retained
  <2> QED
    BY <2>1 DEF Range
<1> QED
  BY <1>1, LineIs DEF Seen

\* The head and the tail of a history.
LEMMA HeadIs ==
  ASSUME NEW h \in Seq(Message), NEW i \in 0..Len(h)
  PROVE  SubSeq(h, 1, i) \in Seq(Message) /\ Range(SubSeq(h, 1, i)) \subseteq Range(h)
<1>1. \A j \in 1..i : j \in 1..Len(h) /\ h[j] \in Message
  OBVIOUS
<1>2. /\ SubSeq(h, 1, i) \in Seq(Message) /\ Len(SubSeq(h, 1, i)) = i
      /\ \A j \in 1..i : SubSeq(h, 1, i)[j] = h[j]
  BY <1>1
<1> QED
  BY <1>1, <1>2 DEF Range

LEMMA TailIs ==
  ASSUME NEW h \in Seq(Message), NEW n \in Nat
  PROVE  LastN(h, n) \in Seq(Message) /\ Range(LastN(h, n)) \subseteq Range(h)
<1>1. CASE n >= Len(h)
  BY <1>1 DEF LastN
<1>2. CASE ~(n >= Len(h))
  <2> DEFINE a == Len(h) - n + 1
             t == SubSeq(h, a, Len(h))
  <2>1. a \in 1..(Len(h) + 1) /\ Len(h) \in Nat
    BY <1>2
  <2>2. \A j \in a..Len(h) : j \in 1..Len(h) /\ h[j] \in Message
    BY <2>1
  <2> HIDE DEF a
  <2>3. /\ t \in Seq(Message) /\ Len(t) = (Len(h) - a) + 1
        /\ \A j \in 1..Len(t) : t[j] = h[(a + j) - 1] /\ (a + j) - 1 \in 1..Len(h)
    BY <2>1, <2>2
  <2>4. LastN(h, n) = t
    BY <1>2 DEF LastN, a
  <2> QED
    BY <2>3, <2>4 DEF Range
<1> QED
  BY <1>1, <1>2

\* Appending to a file: what it holds, where it ends, what a reader sees.
Extends(t, k, l) ==
  /\ t \in Seq(Line) /\ t # <<>>
  /\ Len(lines[k]) <= Len(t)
  /\ t[Len(t)] = IF ended[k] THEN l ELSE Corrupt
  /\ Range(t) \subseteq Range(lines[k]) \cup {l, Corrupt}
  /\ ended[k] => /\ Seen(lines[k], skip[k]) \subseteq Seen(t, skip[k])
                 /\ Seen(t, skip[k]) \subseteq Seen(lines[k], skip[k]) \cup ({l} \ {Corrupt})
                 /\ l # Corrupt /\ skip[k] <= Len(lines[k]) => l \in Seen(t, skip[k])
  /\ ~ended[k] =>
       /\ lines[k] # <<>>
       /\ Seen(t, skip[k]) \subseteq Seen(lines[k], skip[k])
       /\ Seen(lines[k], skip[k]) \subseteq Seen(t, skip[k]) \cup {lines[k][Len(lines[k])]}

LEMMA AppendedIs ==
  ASSUME FilesTyped, NEW k \in Keys, NEW l \in Line, NEW t, t = Appended(k, l)
  PROVE  Extends(t, k, l)
<1> DEFINE s == lines[k]
<1>0. s \in Seq(Line) /\ skip[k] \in Nat /\ (ended[k] \/ s # <<>>)
  BY DEF FilesTyped
<1> HIDE DEF s
<1>1. CASE ended[k]
  <2>1. t = Append(s, l)
    BY <1>1 DEF Appended, s
  <2>2. /\ t \in Seq(Line) /\ t # <<>> /\ Len(t) = Len(s) + 1 /\ t[Len(t)] = l
        /\ Len(s) <= Len(t) /\ \A i \in 1..Len(t) : t[i] = l \/ (i \in 1..Len(s) /\ t[i] = s[i])
    BY <1>0, <2>1
  <2>3. Range(t) \subseteq Range(s) \cup {l, Corrupt}
    BY <1>0, <2>2 DEF Range
  <2> QED
    BY <1>0, <1>1, <2>1, <2>2, <2>3, SeenAppend DEF s, Extends
<1>2. CASE ~ended[k]
  <2>1. t = [s EXCEPT ![Len(s)] = Corrupt] /\ s # <<>>
    BY <1>0, <1>2 DEF Appended, s
  <2>2. /\ t \in Seq(Line) /\ Len(t) = Len(s) /\ t[Len(s)] = Corrupt
        /\ Seen(t, skip[k]) \subseteq Seen(s, skip[k])
        /\ Seen(s, skip[k]) \subseteq Seen(t, skip[k]) \cup {s[Len(s)]}
    BY <1>0, <2>1, SeenBroken
  <2>3. \A i \in 1..Len(s) : t[i] = Corrupt \/ t[i] = s[i]
    <3>1. s \in [1..Len(s) -> Line]
      BY <1>0
    <3> QED
      BY <2>1, <3>1, Zenon
  <2>4. Range(t) \subseteq Range(s) \cup {l, Corrupt}
    BY <1>0, <2>2, <2>3 DEF Range
  <2>5. t # <<>> /\ Len(s) <= Len(t)
    BY <1>0, <2>1, <2>2
  <2> QED
    BY <1>2, <2>1, <2>2, <2>4, <2>5 DEF s, Extends
<1> QED
  BY <1>1, <1>2

LEMMA ReturnTyped ==
  ASSUME CallsTyped, NEW c \in Callers, Return(c)
  PROVE  CallsTyped'
<1>1. /\ lock' = [s \in Shards |-> IF lock[s] = c THEN None ELSE lock[s]]
      /\ call' = [call EXCEPT ![c] = Idle]
  BY DEF Return, Released
<1>2. lock' \in [Shards -> Callers \cup {None}]
  BY <1>1 DEF CallsTyped
<1>3. call' \in [Callers -> Call]
  BY <1>1, IdleIs DEF CallsTyped
<1>4. \A d \in Callers : call'[d] = IF d = c THEN Idle ELSE call[d]
  BY <1>1 DEF CallsTyped
<1> QED
  BY <1>2, <1>3, <1>4, IdleIs, NoRawIs DEF CallsTyped

\* A call moves on, with the sessions it works on.
LEMMA ProceedsTyped ==
  ASSUME CallsTyped, NEW c \in Callers, NEW r \in Call, Restorable(r.old),
         call' = [call EXCEPT ![c] = r], lock' \in [Shards -> Callers \cup {None}]
  PROVE  CallsTyped'
<1>1. call' \in [Callers -> Call]
  BY DEF CallsTyped
<1>2. \A d \in Callers : call'[d] = IF d = c THEN r ELSE call[d]
  BY DEF CallsTyped
<1> QED
  BY <1>1, <1>2 DEF CallsTyped

LEMMA AdvanceTyped ==
  ASSUME CallsTyped, NEW c \in Callers, NEW phase \in Phases, NEW h \in Seq(Message),
         NEW o, Restorable(o), Advance(c, phase, h, o)
  PROVE  CallsTyped'
<1> DEFINE r == [pc |-> phase, op |-> call[c].op, key |-> call[c].key,
                 alias |-> call[c].alias, hist |-> h, old |-> o]
<1>1. call' = [call EXCEPT ![c] = r] /\ lock' = lock
  BY DEF Advance
<1>2. r \in Call /\ r.old = o
  BY DEF CallsTyped, Call, Restorable
<1> HIDE DEF r
<1>3. lock' \in [Shards -> Callers \cup {None}]
  BY <1>1 DEF CallsTyped
<1> QED
  BY <1>1, <1>2, <1>3, ProceedsTyped

LEMMA RequestTyped ==
  ASSUME TypeInv, NEW c \in Callers, Request(c)
  PROVE  TypeInv'
<1>1. UNCHANGED <<files, lock, ghosts, faults, crashes>>
  BY DEF Request
<1>2. FilesTyped' /\ GhostsTyped' /\ BoundsTyped'
  BY <1>1 DEF TypeInv, FilesTyped, GhostsTyped, BoundsTyped, files, ghosts
<1>3. PICK k \in Keys :
        \/ \E op \in {"add", "compact", "summary"} : Begin(c, op, k, k, <<>>)
        \/ Begin(c, "truncate", k, k, <<>>)
        \/ \E i \in 0..Len(Active(k)) :
             \/ Begin(c, "set", k, k, SubSeq(Active(k), 1, i))
             \/ Begin(c, "set", k, k, LastN(Active(k), i))
        \/ \E a \in AliasesOf[k] : Begin(c, "promote", k, a, <<>>)
  BY Zenon DEF Request
<1>4. Active(k) \in Seq(Message)
  BY ActiveIs DEF TypeInv
<1>5. \E op \in Ops, a \in Keys, h \in Seq(Message) : Begin(c, op, k, a, h)
  <2>1. \A i \in 0..Len(Active(k)) :
          SubSeq(Active(k), 1, i) \in Seq(Message) /\ LastN(Active(k), i) \in Seq(Message)
    <3>1. ASSUME NEW i \in 0..Len(Active(k))
          PROVE  SubSeq(Active(k), 1, i) \in Seq(Message) /\ LastN(Active(k), i) \in Seq(Message)
      <4>1. i \in Nat
        OBVIOUS
      <4>2. SubSeq(Active(k), 1, i) \in Seq(Message)
        BY <1>4, HeadIs
      <4>3. LastN(Active(k), i) \in Seq(Message)
        BY <1>4, <4>1, TailIs
      <4> QED
        BY <4>2, <4>3
    <3> QED
      BY <3>1
  <2>2. \A a \in AliasesOf[k] : a \in Keys
    BY StoreConstants
  <2>3. {"add", "compact", "summary", "truncate", "set", "promote"} \subseteq Ops
    BY DEF Ops
  <2>4. <<>> \in Seq(Message)
    OBVIOUS
  <2> QED
    BY <1>3, <2>1, <2>2, <2>3, <2>4, Zenon
<1>6. PICK op \in Ops, a \in Keys, h \in Seq(Message) : Begin(c, op, k, a, h)
  BY <1>5
<1> DEFINE r == [pc |-> "lock", op |-> op, key |-> k, alias |-> a, hist |-> h, old |-> NoRaw]
<1>7. call' = [call EXCEPT ![c] = r]
  BY <1>6 DEF Begin
<1>8. r \in Call /\ Restorable(r.old)
  BY NoRawIs DEF Call, Phases, Restorable
<1> HIDE DEF r
<1>9. lock' \in [Shards -> Callers \cup {None}]
  BY <1>1 DEF TypeInv, CallsTyped
<1>10. CallsTyped'
  BY <1>7, <1>8, <1>9, ProceedsTyped DEF TypeInv
<1> QED
  BY <1>2, <1>10 DEF TypeInv

LEMMA AcquireTyped ==
  ASSUME TypeInv, NEW c \in Callers, Acquire(c)
  PROVE  TypeInv'
<1>0. PICK p \in Phases :
        /\ \E s : lock' = [lock EXCEPT ![s] = c]
        /\ call' = [call EXCEPT ![c].pc = p]
  <2>1. {"body", "lock"} \subseteq Phases
    BY DEF Phases
  <2> QED
    BY <2>1 DEF Acquire
<1>1. PICK s : lock' = [lock EXCEPT ![s] = c] /\ call' = [call EXCEPT ![c].pc = p]
  BY <1>0
<1>2. UNCHANGED <<files, ghosts, faults, crashes>>
  BY DEF Acquire
<1>3. FilesTyped' /\ GhostsTyped' /\ BoundsTyped'
  BY <1>2 DEF TypeInv, FilesTyped, GhostsTyped, BoundsTyped, files, ghosts
<1>4. lock' \in [Shards -> Callers \cup {None}]
  BY <1>1 DEF TypeInv, CallsTyped
<1> DEFINE r == [call[c] EXCEPT !.pc = p]
<1>5. call' = [call EXCEPT ![c] = r]
  BY <1>1 DEF TypeInv, CallsTyped
<1>6. r \in Call /\ r.old = call[c].old
  BY DEF TypeInv, CallsTyped, Call
<1> HIDE DEF r
<1>7. Restorable(r.old)
  BY <1>6 DEF TypeInv, CallsTyped
<1>8. CallsTyped'
  BY <1>4, <1>5, <1>6, <1>7, ProceedsTyped DEF TypeInv
<1> QED
  BY <1>3, <1>8 DEF TypeInv

LEMMA FaultTyped == ASSUME BoundsTyped, Fault, UNCHANGED crashes PROVE BoundsTyped'
  BY StoreConstants DEF BoundsTyped, Fault

\* The session a call works on.
LEMMA KeyIs ==
  ASSUME LockInv, NEW c \in Callers, call[c].pc # "idle"
  PROVE  call[c].key \in Keys /\ call[c].alias \in Keys
  BY DEF LockInv, CallsShaped

LEMMA AddsTyped ==
  ASSUME TypeInv, LockInv, NEW c \in Callers,
         AddMessage(c) \/ AddMessageBreaks(c) \/ AddMessageBeyondBound(c)
  PROVE  TypeInv'
<1> USE DEF TypeInv
<1> DEFINE k == call[c].key
<1>1. k \in Keys /\ Return(c)
  BY KeyIs DEF AddMessage, AddMessageBreaks, AddMessageBeyondBound, Inside
<1>2. CallsTyped'
  BY <1>1, ReturnTyped
<1>3. CASE AddMessageBeyondBound(c)
  BY <1>2, <1>3
     DEF AddMessageBeyondBound, FilesTyped, GhostsTyped, BoundsTyped, files, ghosts
<1>4. CASE AddMessage(c) \/ AddMessageBreaks(c)
  <2>1. next <= MsgMax /\ next \in Message /\ next \in Line
    <3>1. next <= MsgMax
      BY <1>4 DEF AddMessage, AddMessageBreaks
    <3> QED
      BY <3>1, StoreConstants DEF GhostsTyped, Message, Line
  <2>2. \A l \in Line : Appended(k, l) \in Seq(Line) /\ Appended(k, l) # <<>>
    BY <1>1, AppendedIs DEF Extends
  <2>3. /\ \/ lines' = lines /\ ended' = ended
           \/ \E l \in Line, b \in BOOLEAN : /\ lines' = [lines EXCEPT ![k] = Appended(k, l)]
                                            /\ ended' = [ended EXCEPT ![k] = b]
        /\ UNCHANGED <<skip, summary>>
    <3>1. CASE AddMessage(c)
      BY <2>1, <3>1, Zenon DEF AddMessage
    <3>2. CASE AddMessageBreaks(c)
      <4>1. UNCHANGED <<skip, summary>>
        BY <3>2 DEF AddMessageBreaks
      <4>2. \/ lines' = lines /\ ended' = ended
            \/ \E l \in {next, Corrupt}, b \in BOOLEAN :
                 lines' = [lines EXCEPT ![k] = Appended(k, l)] /\ ended' = [ended EXCEPT ![k] = b]
        BY <3>2, Zenon DEF AddMessageBreaks
      <4>3. {next, Corrupt} \subseteq Line
        BY <2>1, LineIs
      <4> QED
        BY <4>1, <4>2, <4>3
    <3> QED
      BY <1>4, <3>1, <3>2
  <2>4. FilesTyped'
    <3>1. CASE lines' = lines /\ ended' = ended
      BY <2>3, <3>1 DEF FilesTyped
    <3>2. ASSUME NEW l \in Line, NEW b \in BOOLEAN, NEW x, x = Appended(k, l),
                 lines' = [lines EXCEPT ![k] = x], ended' = [ended EXCEPT ![k] = b]
          PROVE  FilesTyped'
      <4>1. x \in Seq(Line) /\ x # <<>>
        BY <2>2, <3>2
      <4>2. lines' \in [Keys -> Seq(Line)] /\ ended' \in [Keys -> BOOLEAN]
        BY <3>2, <4>1 DEF FilesTyped
      <4>3. \A j \in Keys : /\ lines'[j] = IF j = k THEN x ELSE lines[j]
                            /\ j # k => ended'[j] = ended[j]
        BY <3>2 DEF FilesTyped
      <4> QED
        BY <2>3, <4>1, <4>2, <4>3 DEF FilesTyped
    <3> QED
      BY <2>3, <3>1, <3>2
  <2>5. GhostsTyped'
    <3>1. UNCHANGED <<forgotten, taint>>
      BY <1>4 DEF AddMessage, AddMessageBreaks
    <3>2. next' \in 1..(MsgMax + 1)
      <4>1. next' \in {next, next + 1}
        BY <1>4 DEF AddMessage, AddMessageBreaks
      <4> QED
        BY <2>1, <4>1, StoreConstants DEF GhostsTyped
    <3>3. kept' \in [Keys -> SUBSET Message] /\ swallowed' \subseteq Message
      <4>1. CASE AddMessage(c)
        <5>1. kept' = [kept EXCEPT ![k] = @ \cup {next}] /\ swallowed' \subseteq swallowed \cup {next}
          BY <4>1 DEF AddMessage
        <5>2. kept[k] \cup {next} \subseteq Message
          BY <1>1, <2>1 DEF GhostsTyped
        <5> QED
          BY <1>1, <2>1, <5>1, <5>2 DEF GhostsTyped
      <4>2. CASE AddMessageBreaks(c)
        BY <4>2 DEF AddMessageBreaks, GhostsTyped
      <4> QED
        BY <1>4, <4>1, <4>2
    <3> QED
      BY <3>1, <3>2, <3>3 DEF GhostsTyped
  <2>6. BoundsTyped'
    <3>1. CASE AddMessage(c)
      BY <3>1 DEF AddMessage, BoundsTyped
    <3>2. CASE AddMessageBreaks(c)
      BY <3>2, FaultTyped DEF AddMessageBreaks
    <3> QED
      BY <1>4, <3>1, <3>2
  <2> QED
    BY <1>2, <2>4, <2>5, <2>6
<1> QED
  BY <1>3, <1>4

\* The numbers that count calls and failures.
LEMMA ReturnsTyped ==
  ASSUME TypeInv, NEW c \in Callers, Return(c), FilesTyped', GhostsTyped',
         UNCHANGED crashes, Fault \/ UNCHANGED faults
  PROVE  TypeInv'
<1>1. CallsTyped'
  BY ReturnTyped DEF TypeInv
<1>2. BoundsTyped'
  <2>1. CASE Fault
    BY <2>1, FaultTyped DEF TypeInv
  <2>2. CASE UNCHANGED faults
    BY <2>2 DEF TypeInv, BoundsTyped
  <2> QED
    BY <2>1, <2>2
<1> QED
  BY <1>1, <1>2 DEF TypeInv

LEMMA TruncateTyped ==
  ASSUME TypeInv, LockInv, NEW c \in Callers, NEW n \in Keeps, TruncateHistory(c, n)
  PROVE  TypeInv'
<1> USE DEF TypeInv
<1> DEFINE k == call[c].key
           window == Range(LastN(Active(k), n))
<1>1. k \in Keys /\ Return(c) /\ n \in Nat
  BY KeyIs, StoreConstants DEF TruncateHistory, Inside
<1>2. /\ Active(k) \in Seq(Message) /\ Range(Active(k)) \subseteq Message
      /\ lines[k] \in Seq(Line) /\ skip[k] \in Nat
  BY <1>1, ActiveIs, SeenIn
<1>3. NewSkip(k, n) \in Nat
  BY <1>1, <1>2, TruncatedIs DEF NewSkip
<1>4. FilesTyped'
  <2>1. /\ skip' = [skip EXCEPT ![k] = NewSkip(k, n)]
        /\ UNCHANGED <<lines, ended, summary>>
    BY DEF TruncateHistory
  <2>2. skip' \in [Keys -> Nat]
    BY <1>3, <2>1 DEF FilesTyped
  <2> QED
    BY <2>1, <2>2 DEF FilesTyped
<1>5. GhostsTyped'
  <2>1. /\ kept' = [kept EXCEPT ![k] = @ \cap window]
        /\ forgotten' = [forgotten EXCEPT ![k] = (@ \cup Range(Active(k))) \ window]
        /\ taint' = [taint EXCEPT ![k] = "no"] /\ UNCHANGED <<next, swallowed>>
    BY DEF TruncateHistory
  <2> HIDE DEF k, window
  <2>2. kept' \in [Keys -> SUBSET Message]
    BY <1>1, <2>1 DEF GhostsTyped
  <2>3. forgotten' \in [Keys -> SUBSET Message]
    BY <1>1, <1>2, <2>1 DEF GhostsTyped
  <2>4. taint' \in [Keys -> Taints]
    BY <2>1 DEF GhostsTyped, Taints
  <2> QED
    BY <2>1, <2>2, <2>3, <2>4 DEF GhostsTyped
<1> QED
  BY <1>1, <1>4, <1>5, ReturnsTyped DEF TruncateHistory

LEMMA SummaryTyped ==
  ASSUME TypeInv, LockInv, NEW c \in Callers, SetSummary(c)
  PROVE  TypeInv'
<1>1. call[c].key \in Keys
  BY KeyIs DEF SetSummary, Inside
<1>2. PICK text \in Keys \cup {None} : summary' = [summary EXCEPT ![call[c].key] = text]
  BY <1>1 DEF SetSummary
<1>3. summary' \in [Keys -> Keys \cup {None}]
  BY <1>2 DEF TypeInv, FilesTyped
<1>4. FilesTyped'
  BY <1>3 DEF SetSummary, TypeInv, FilesTyped
<1>5. GhostsTyped'
  BY DEF SetSummary, TypeInv, GhostsTyped, ghosts
<1> QED
  BY <1>4, <1>5, ReturnsTyped DEF SetSummary

LEMMA MetaTyped ==
  ASSUME TypeInv, NEW c \in Callers, NEW k \in Keys, NEW h \in Seq(Message),
         MetaReset(c, k, h)
  PROVE  TypeInv'
<1> USE DEF TypeInv
<1>1. skip' \in [Keys -> Nat]
  BY DEF MetaReset, FilesTyped
<1>2. taint' \in [Keys -> Taints]
  BY DEF MetaReset, GhostsTyped, Taints
<1>3. FilesTyped' /\ GhostsTyped' /\ BoundsTyped'
  BY <1>1, <1>2 DEF MetaReset, FilesTyped, GhostsTyped, BoundsTyped
<1>4. "rewrite" \in Phases /\ Advance(c, "rewrite", h, NoRaw)
  BY DEF Phases, MetaReset
<1>5. CallsTyped'
  BY <1>4, NoRawIs, AdvanceTyped
<1> QED
  BY <1>3, <1>5

LEMMA ResetsTyped ==
  ASSUME TypeInv, LockInv, NEW c \in Callers, SetHistory(c) \/ Compact(c)
  PROVE  TypeInv'
<1>1. call[c].key \in Keys
  BY KeyIs DEF SetHistory, Compact, Inside
<1>2. CASE SetHistory(c)
  <2>1. call[c].hist \in Seq(Message)
    BY DEF TypeInv, CallsTyped, Call
  <2> QED
    BY <1>1, <1>2, <2>1, MetaTyped DEF SetHistory
<1>3. CASE Compact(c)
  <2>1. CASE Return(c) /\ UNCHANGED <<files, ghosts, faults, crashes>>
    <3>1. FilesTyped' /\ GhostsTyped'
      BY <2>1 DEF TypeInv, FilesTyped, GhostsTyped, files, ghosts
    <3> QED
      BY <2>1, <3>1, ReturnsTyped
  <2>2. CASE MetaReset(c, call[c].key, CompactedHistory(call[c].key))
    <3>1. CompactedHistory(call[c].key) \in Seq(Message)
      BY <1>1, ActiveIs DEF CompactedHistory, TypeInv
    <3> QED
      BY <1>1, <2>2, <3>1, MetaTyped
  <2> QED
    BY <1>3, <2>1, <2>2 DEF Compact
<1> QED
  BY <1>2, <1>3

LEMMA RewriteTyped ==
  ASSUME TypeInv, LockInv, NEW c \in Callers, Rewrite(c)
  PROVE  TypeInv'
<1> USE DEF TypeInv
<1> DEFINE k == call[c].key
           h == call[c].hist
<1>1. k \in Keys /\ Return(c)
  BY KeyIs DEF Rewrite
<1>2. h \in Seq(Message) /\ h \in Seq(Line) /\ Range(h) \subseteq Message
  <2>1. h \in Seq(Message)
    BY DEF CallsTyped, Call
  <2>2. Range(h) \subseteq Message
    BY <2>1 DEF Range
  <2> QED
    BY <2>1, <2>2, SeenHistory
<1>3. Messages(k) \subseteq Message
  <2>1. \A i \in DOMAIN lines[k] : lines[k][i] \in Line
    BY <1>1 DEF FilesTyped
  <2> QED
    BY <2>1 DEF Messages, Range, Line
<1>4. FilesTyped'
  <2>1. /\ lines' = [lines EXCEPT ![k] = h] /\ ended' = [ended EXCEPT ![k] = TRUE]
        /\ UNCHANGED <<skip, summary>>
    BY DEF Rewrite, EndReset
  <2> HIDE DEF k, h
  <2>2. lines' \in [Keys -> Seq(Line)] /\ ended' \in [Keys -> BOOLEAN]
    BY <1>2, <2>1 DEF FilesTyped
  <2>3. \A j \in Keys : ended'[j] \/ lines'[j] # <<>>
    BY <2>1 DEF FilesTyped
  <2> QED
    BY <2>1, <2>2, <2>3 DEF FilesTyped
<1>5. GhostsTyped'
  <2>1. UNCHANGED <<next, swallowed>>
    BY DEF Rewrite
  <2>2. taint' \in [Keys -> Taints]
    <3>1. taint' = taint \/ taint' = [taint EXCEPT ![k] = "no"]
      BY DEF Rewrite
    <3> HIDE DEF k
    <3> QED
      BY <3>1 DEF GhostsTyped, Taints
  <2>3. \/ kept' = kept /\ forgotten' = forgotten
        \/ /\ kept' = [kept EXCEPT ![k] = Range(h)]
           /\ forgotten' = [forgotten EXCEPT ![k] = (@ \cup Messages(k)) \ Range(h)]
    BY DEF Rewrite
  <2> HIDE DEF k, h
  <2>4. kept' \in [Keys -> SUBSET Message] /\ forgotten' \in [Keys -> SUBSET Message]
    BY <1>1, <1>2, <1>3, <2>3 DEF GhostsTyped
  <2> QED
    BY <2>1, <2>2, <2>4 DEF GhostsTyped
<1> QED
  BY <1>1, <1>4, <1>5, ReturnsTyped DEF Rewrite

LEMMA PromoteFileTyped ==
  ASSUME TypeInv, LockInv, NEW c \in Callers, PromoteFile(c)
  PROVE  TypeInv'
<1> USE DEF TypeInv
<1> DEFINE k == call[c].key
           h == Active(call[c].alias)
           o == [lines |-> lines[k], ended |-> ended[k], taint |-> taint[k]]
<1>1. k \in Keys /\ call[c].alias \in Keys
  BY KeyIs DEF PromoteFile, Inside
<1>2. h \in Seq(Message) /\ h \in Seq(Line)
  BY <1>1, ActiveIs, SeenHistory
<1>3. Restorable(o)
  BY <1>1 DEF FilesTyped, GhostsTyped, Restorable, Raw
<1>4. FilesTyped'
  <2>1. /\ lines' = [lines EXCEPT ![k] = h] /\ ended' = [ended EXCEPT ![k] = TRUE]
        /\ UNCHANGED <<skip, summary>>
    BY DEF PromoteFile
  <2> HIDE DEF k, h
  <2>2. lines' \in [Keys -> Seq(Line)] /\ ended' \in [Keys -> BOOLEAN]
    BY <1>2, <2>1 DEF FilesTyped
  <2>3. \A j \in Keys : ended'[j] \/ lines'[j] # <<>>
    BY <2>1 DEF FilesTyped
  <2> QED
    BY <2>1, <2>2, <2>3 DEF FilesTyped
<1>5. GhostsTyped' /\ BoundsTyped'
  <2>1. taint' \in [Keys -> Taints]
    BY DEF PromoteFile, GhostsTyped, Taints, Promoted
  <2> QED
    BY <2>1 DEF PromoteFile, GhostsTyped, BoundsTyped
<1>6. CallsTyped'
  <2>1. "meta" \in Phases /\ Advance(c, "meta", h, o)
    BY DEF Phases, PromoteFile
  <2> HIDE DEF h, o
  <2> QED
    BY <1>2, <1>3, <2>1, AdvanceTyped
<1> QED
  BY <1>4, <1>5, <1>6

LEMMA PromoteMetaTyped ==
  ASSUME TypeInv, LockInv, NEW c \in Callers, PromoteMeta(c)
  PROVE  TypeInv'
<1> USE DEF TypeInv
<1> DEFINE k == call[c].key
           a == call[c].alias
<1>1. k \in Keys /\ a \in Keys /\ Return(c)
  BY KeyIs DEF PromoteMeta, Inside
<1>2. Range(call[c].hist) \subseteq Message
  <2>1. call[c].hist \in Seq(Message)
    BY DEF CallsTyped, Call
  <2> QED
    BY <2>1 DEF Range
<1>3. FilesTyped'
  <2>1. /\ skip' = [skip EXCEPT ![k] = 0] /\ UNCHANGED <<lines, ended>>
        /\ \E x \in {summary[a], summary[k]} : summary' = [summary EXCEPT ![k] = x]
    BY DEF PromoteMeta
  <2>2. \A x \in {summary[a], summary[k]} : x \in Keys \cup {None}
    BY <1>1 DEF FilesTyped
  <2> HIDE DEF k, a
  <2>3. skip' \in [Keys -> Nat] /\ summary' \in [Keys -> Keys \cup {None}]
    BY <2>1, <2>2 DEF FilesTyped
  <2> QED
    BY <2>1, <2>3 DEF FilesTyped
<1>4. GhostsTyped'
  <2>1. taint' \in [Keys -> Taints]
    BY DEF PromoteMeta, GhostsTyped, Taints, Promoted
  <2>2. kept' \in [Keys -> SUBSET Message]
    BY <1>2 DEF PromoteMeta, GhostsTyped
  <2> QED
    BY <2>1, <2>2 DEF PromoteMeta, GhostsTyped
<1> QED
  BY <1>1, <1>3, <1>4, ReturnsTyped DEF PromoteMeta

LEMMA MetaFailsTyped ==
  ASSUME TypeInv, LockInv, NEW c \in Callers, PromoteMetaFails(c)
  PROVE  TypeInv'
<1> USE DEF TypeInv
<1>1. FilesTyped' /\ GhostsTyped'
  BY DEF PromoteMetaFails, FilesTyped, GhostsTyped, files, ghosts
<1>2. BoundsTyped'
  BY FaultTyped DEF PromoteMetaFails
<1>3. CallsTyped'
  <2>1. /\ "rollback" \in Phases /\ <<>> \in Seq(Message) /\ Restorable(call[c].old)
        /\ Advance(c, "rollback", <<>>, call[c].old)
    BY DEF Phases, PromoteMetaFails, CallsTyped
  <2> QED
    BY <2>1, AdvanceTyped
<1> QED
  BY <1>1, <1>2, <1>3

LEMMA RollBackTyped ==
  ASSUME TypeInv, LockInv, NEW c \in Callers, RollBack(c)
  PROVE  TypeInv'
<1> DEFINE k == call[c].key
           o == call[c].old
<1>1. /\ k \in Keys /\ Return(c)
      /\ UNCHANGED <<skip, summary, next, kept, swallowed, forgotten, faults, crashes>>
  BY KeyIs DEF RollBack
<1>2. /\ o.lines \in Seq(Line) /\ o.ended \in BOOLEAN /\ (o.ended \/ o.lines # <<>>)
      /\ o.taint \in Taints
  BY DEF TypeInv, CallsTyped, Restorable, Raw
<1>3. /\ lines' = [lines EXCEPT ![k] = o.lines] /\ ended' = [ended EXCEPT ![k] = o.ended]
      /\ taint' = [taint EXCEPT ![k] = o.taint]
  BY DEF RollBack
<1> HIDE DEF k, o
<1>4. lines' \in [Keys -> Seq(Line)] /\ ended' \in [Keys -> BOOLEAN]
  BY <1>2, <1>3 DEF TypeInv, FilesTyped
<1>5. \A j \in Keys : ended'[j] \/ lines'[j] # <<>>
  BY <1>2, <1>3 DEF TypeInv, FilesTyped
<1>6. FilesTyped' /\ GhostsTyped'
  BY <1>1, <1>2, <1>3, <1>4, <1>5 DEF TypeInv, FilesTyped, GhostsTyped
<1> QED
  BY <1>1, <1>6, ReturnsTyped

LEMMA WorkTyped ==
  ASSUME TypeInv, LockInv, NEW c \in Callers, Work(c)
  PROVE  TypeInv'
<1>1. CASE PromoteNothing(c) \/ AtomicWriteFails(c)
  <2>1. FilesTyped' /\ GhostsTyped'
    BY <1>1 DEF PromoteNothing, AtomicWriteFails, TypeInv, FilesTyped, GhostsTyped, files, ghosts
  <2> QED
    BY <1>1, <2>1, ReturnsTyped DEF PromoteNothing, AtomicWriteFails
<1>2. CASE AddMessage(c) \/ AddMessageBreaks(c) \/ AddMessageBeyondBound(c)
  BY <1>2, AddsTyped
<1>3. CASE (\E n \in Keeps : TruncateHistory(c, n)) \/ SetSummary(c)
  BY <1>3, TruncateTyped, SummaryTyped
<1>4. CASE SetHistory(c) \/ Compact(c) \/ Rewrite(c)
  BY <1>4, ResetsTyped, RewriteTyped
<1>5. CASE PromoteFile(c) \/ PromoteMeta(c) \/ PromoteMetaFails(c) \/ RollBack(c)
  BY <1>5, PromoteFileTyped, PromoteMetaTyped, MetaFailsTyped, RollBackTyped
<1> QED
  BY <1>1, <1>2, <1>3, <1>4, <1>5 DEF Work

LEMMA NextTyped == TypeInv /\ LockInv /\ [Next]_vars => TypeInv'
<1> SUFFICES ASSUME TypeInv, LockInv, [Next]_vars PROVE TypeInv'
  OBVIOUS
<1>1. CASE Crash
  <2>1. /\ lock' = [s \in Shards |-> None] /\ call' = [c \in Callers |-> Idle]
        /\ UNCHANGED <<files, ghosts, faults>> /\ crashes < CrashMax /\ crashes' = crashes + 1
    BY <1>1 DEF Crash
  <2>2. CallsTyped'
    BY <2>1, IdleIs, NoRawIs DEF CallsTyped
  <2>3. BoundsTyped'
    BY <2>1, StoreConstants DEF TypeInv, BoundsTyped
  <2>4. FilesTyped' /\ GhostsTyped'
    BY <2>1 DEF TypeInv, FilesTyped, GhostsTyped, files, ghosts
  <2> QED
    BY <2>2, <2>3, <2>4 DEF TypeInv
<1>2. ASSUME NEW c \in Callers, Request(c) \/ Acquire(c) \/ Work(c) PROVE TypeInv'
  BY <1>2, RequestTyped, AcquireTyped, WorkTyped
<1>3. CASE UNCHANGED vars
  BY <1>3 DEF vars, files, ghosts, TypeInv, FilesTyped, GhostsTyped, BoundsTyped, CallsTyped
<1> QED
  BY <1>1, <1>2, <1>3 DEF Next

LEMMA TypesCorrect == Spec => []TypeInv
  BY InitTyped, NextTyped, LocksCorrect, PTL DEF Spec

\* The state of the store has the type TypeOK declares; a file without lines is
\* one that ends where it should, so a broken append always finds a last line.
THEOREM TypeCorrect == Spec => []TypeOK
<1>1. TypeInv => TypeOK
  BY DEF TypeInv, FilesTyped, GhostsTyped, BoundsTyped, CallsTyped, TypeOK
<1> QED
  BY <1>1, TypesCorrect, PTL

\* Whatever stands in the file, and wherever the offset is, a truncation leaves
\* a reader the last keepLast messages it saw, no more and no fewer.
THEOREM TruncateExactCorrect == Spec => TruncateExact
<1>1. TypeInv /\ LockInv /\ [Next]_vars =>
        [\A c \in Callers, k \in Keys, n \in Keeps :
           TruncateHistory(c, n) /\ call[c].key = k => Active(k)' = LastN(Active(k), n)]_vars
  <2> SUFFICES ASSUME TypeInv, NEW c \in Callers, NEW k \in Keys, NEW n \in Keeps,
                      TruncateHistory(c, n), call[c].key = k
               PROVE  Active(k)' = LastN(Active(k), n)
    BY Zenon
  <2>1. lines[k] \in Seq(Line) /\ skip[k] \in Nat /\ n \in Nat
    BY ActiveIs, StoreConstants DEF TypeInv
  <2>2. lines'[k] = lines[k] /\ skip'[k] = NewSkip(k, n)
    BY DEF TruncateHistory, TypeInv, FilesTyped
  <2>3. Active(k)' = ReadMessages(lines[k], NewSkip(k, n))
    BY <2>2 DEF Active
  <2> QED
    BY <2>1, <2>3, TruncatedIs DEF NewSkip, Active
<1> QED
  BY <1>1, TypesCorrect, LocksCorrect, PTL DEF Spec, TruncateExact

-----------------------------------------------------------------------------
(* The files under writes, failures and deaths                              *)

\* The messages a reader of k must find.
Awaited(k) == kept[k] \ swallowed

Numbered(S) == \A m \in S : m < next

\* What a file and its offset promise at every instant.
FileInv(k) ==
  /\ Numbered(kept[k]) /\ Numbered(forgotten[k]) /\ Numbered(Messages(k))
  /\ ~ended[k] => lines[k][Len(lines[k])] \notin Awaited(k)
  /\ skip[k] > 0 => taint[k] \in {"no", "promoting"}
  /\ taint[k] # "promoting" =>
       skip[k] <= Len(lines[k]) /\ Awaited(k) \subseteq Seen(lines[k], skip[k])
  /\ taint[k] = "no" => Seen(lines[k], skip[k]) \cap forgotten[k] = {}

\* Between the two writes of a rewrite the offset is gone, and the history of a
\* compaction is all a reader must find.
RewriteInv(r, k) ==
  /\ skip[k] = 0 /\ r.op \in {"set", "compact"}
  /\ r.op = "compact" /\ taint[k] # "promoting" =>
       Awaited(k) \subseteq Range(r.hist) /\ Range(r.hist) \cap forgotten[k] = {}

\* After the first write of a promotion the file to go back to shows nothing and
\* nothing is awaited, unless the session was tainted before.
RestoreInv(o, k) ==
  /\ Numbered(Range(o.lines) \ {Corrupt})
  /\ ~o.ended => o.lines[Len(o.lines)] \notin Awaited(k)
  /\ skip[k] > 0 => o.taint \in {"no", "promoting"}
  /\ o.taint # "promoting" =>
       skip[k] <= Len(o.lines) /\ Awaited(k) = {} /\ Seen(o.lines, skip[k]) = {}

CallInv(c) ==
  /\ Numbered(Range(call[c].hist))
  /\ call[c].pc = "rewrite" => RewriteInv(call[c], call[c].key)
  /\ call[c].pc = "meta" => lines[call[c].key] = call[c].hist /\ ended[call[c].key]
  /\ call[c].pc \in {"meta", "rollback"} => RestoreInv(call[c].old, call[c].key)

DataInv == (\A k \in Keys : FileInv(k)) /\ \A c \in Callers : CallInv(c)

StoreInv == TypeInv /\ LockInv /\ DataInv

LEMMA InitData == Init => DataInv
<1> SUFFICES ASSUME Init PROVE DataInv
  OBVIOUS
<1>1. ASSUME NEW k \in Keys PROVE FileInv(k)
  <2>1. /\ lines[k] = <<>> /\ ended[k] /\ skip[k] = 0 /\ taint[k] = "no"
        /\ kept[k] = {} /\ forgotten[k] = {}
    BY DEF Init
  <2> QED
    BY <2>1 DEF FileInv, Numbered, Awaited, Messages, Range
<1>2. ASSUME NEW c \in Callers PROVE CallInv(c)
  <2>1. call[c].hist = <<>> /\ call[c].pc = "idle"
    BY DEF Init, Idle
  <2> QED
    BY <2>1 DEF CallInv, Numbered, Range
<1> QED
  BY <1>1, <1>2 DEF DataInv

\* A step of c leaves every session but its own, and every other call, alone.
Elsewhere(c) ==
  /\ \A j \in Keys : j # call[c].key =>
       /\ lines'[j] = lines[j] /\ ended'[j] = ended[j] /\ skip'[j] = skip[j]
       /\ kept'[j] = kept[j] /\ forgotten'[j] = forgotten[j] /\ taint'[j] = taint[j]
  /\ \A d \in Callers : d # c => call'[d] = call[d]
  /\ next' >= next /\ swallowed \subseteq swallowed'

\* Time passes for a session: messages are numbered, others are swallowed.
LEMMA FileStays ==
  ASSUME TypeInv, NEW k \in Keys, FileInv(k),
         lines'[k] = lines[k], ended'[k] = ended[k], skip'[k] = skip[k],
         kept'[k] = kept[k], forgotten'[k] = forgotten[k], taint'[k] = taint[k],
         next' \in Nat, next' >= next, swallowed \subseteq swallowed'
  PROVE  FileInv(k)'
<1>1. Awaited(k)' \subseteq Awaited(k) /\ Messages(k)' = Messages(k)
  BY DEF Awaited, Messages
<1>2. ASSUME NEW S, S \subseteq Message, Numbered(S) PROVE \A m \in S : m < next'
  <2>1. \A m \in S : m \in Nat /\ m < next
    BY <1>2 DEF Numbered, Message
  <2>2. next \in Nat
    BY DEF TypeInv, GhostsTyped
  <2> QED
    BY <2>1, <2>2
<1>3. kept[k] \subseteq Message /\ forgotten[k] \subseteq Message /\ Messages(k) \subseteq Message
  <2>1. lines[k] \in Seq(Line) /\ kept[k] \subseteq Message /\ forgotten[k] \subseteq Message
    BY DEF TypeInv, FilesTyped, GhostsTyped
  <2> QED
    BY <2>1 DEF Messages, Range, Line
<1>4. Numbered(kept[k])' /\ Numbered(forgotten[k])' /\ Numbered(Messages(k))'
  BY <1>1, <1>2, <1>3 DEF FileInv, Numbered
<1> QED
  BY <1>1, <1>4 DEF FileInv

LEMMA CallStays ==
  ASSUME TypeInv, NEW c \in Callers, CallInv(c), call'[c] = call[c],
         next' \in Nat, next' >= next, swallowed \subseteq swallowed',
         Working(c) =>
           LET k == call[c].key
           IN  /\ lines'[k] = lines[k] /\ ended'[k] = ended[k] /\ skip'[k] = skip[k]
               /\ kept'[k] = kept[k] /\ forgotten'[k] = forgotten[k] /\ taint'[k] = taint[k]
  PROVE  CallInv(c)'
<1> DEFINE r == call[c]
           k == call[c].key
<1>1. ASSUME NEW S, S \subseteq Message, Numbered(S) PROVE \A m \in S : m < next'
  <2>1. \A m \in S : m \in Nat /\ m < next
    BY <1>1 DEF Numbered, Message
  <2>2. next \in Nat
    BY DEF TypeInv, GhostsTyped
  <2> QED
    BY <2>1, <2>2
<1>2. r.hist \in Seq(Message) /\ r.old.lines \in Seq(Line)
  BY DEF TypeInv, CallsTyped, Call, Restorable, Raw
<1>3. Range(r.hist) \subseteq Message /\ Range(r.old.lines) \ {Corrupt} \subseteq Message
  BY <1>2 DEF Range, Line
<1>4. Numbered(Range(r.hist))'
  BY <1>1, <1>3 DEF CallInv, Numbered
<1>5. CASE ~Working(c)
  BY <1>4, <1>5 DEF CallInv, Working
<1>6. CASE Working(c)
  <2>1. /\ lines'[k] = lines[k] /\ ended'[k] = ended[k] /\ skip'[k] = skip[k]
        /\ kept'[k] = kept[k] /\ forgotten'[k] = forgotten[k] /\ taint'[k] = taint[k]
    BY <1>6
  <2>2. kept'[k] \ swallowed' \subseteq kept[k] \ swallowed
    BY <2>1
  <2>3. r.pc = "rewrite" => RewriteInv(call[c], call[c].key)'
    BY <2>1, <2>2 DEF CallInv, RewriteInv, Awaited
  <2>4. r.pc \in {"meta", "rollback"} => RestoreInv(call[c].old, call[c].key)'
    <3> SUFFICES ASSUME r.pc \in {"meta", "rollback"}, RestoreInv(call[c].old, call[c].key)
                 PROVE  RestoreInv(call[c].old, call[c].key)'
      BY DEF CallInv
    <3>1. Numbered(Range(call[c].old.lines) \ {Corrupt})'
      BY <1>1, <1>3 DEF RestoreInv, Numbered
    <3>2. Seen(call[c].old.lines, skip[k])' = Seen(call[c].old.lines, skip[k])
      BY <2>1
    <3> QED
      BY <2>1, <2>2, <3>1, <3>2 DEF RestoreInv, Awaited
  <2>5. r.pc = "meta" => lines'[k] = r.hist /\ ended'[k]
    BY <2>1 DEF CallInv
  <2> QED
    BY <1>4, <2>3, <2>4, <2>5 DEF CallInv
<1> QED
  BY <1>5, <1>6

\* So a step of a call that is inside has only its own session and its own next
\* point to answer for: no other call is inside on that session.
LEMMA OwnSession ==
  ASSUME StoreInv, TypeInv', NEW c \in Callers, Working(c), Elsewhere(c),
         NEW k \in Keys, k = call[c].key, FileInv(k)', CallInv(c)'
  PROVE  DataInv'
<1>1. next' \in Nat
  BY DEF TypeInv, GhostsTyped
<1>2. ASSUME NEW j \in Keys PROVE FileInv(j)'
  <2>1. CASE j = k
    BY <2>1
  <2>2. CASE j # k
    BY <1>1, <2>2, FileStays DEF StoreInv, DataInv, Elsewhere
  <2> QED
    BY <2>1, <2>2
<1>3. ASSUME NEW d \in Callers PROVE CallInv(d)'
  <2>1. CASE d = c
    BY <2>1
  <2>2. CASE d # c
    <3>1. Working(d) => call[d].key \in Keys /\ call[d].key # call[c].key
      <4> SUFFICES ASSUME Working(d) PROVE call[d].key \in Keys /\ call[d].key # call[c].key
        OBVIOUS
      <4>1. call[d].pc \in Inner /\ call[c].pc \in Inner
        BY DEF Working, Inner
      <4>2. lock[ShardOf[call[d].key]] = d /\ lock[ShardOf[call[c].key]] = c
        BY <4>1 DEF StoreInv, LockInv, InsideHolds
      <4>3. call[d].key \in Keys
        BY <4>1, KeyIs DEF StoreInv, Inner
      <4> QED
        BY <2>2, <4>2, <4>3
    <3>2. call'[d] = call[d] /\ CallInv(d) /\ next' >= next /\ swallowed \subseteq swallowed'
      BY <2>2 DEF Elsewhere, StoreInv, DataInv
    <3> QED
      BY <1>1, <2>2, <3>1, <3>2, CallStays DEF Elsewhere, StoreInv
  <2> QED
    BY <2>1, <2>2
<1> QED
  BY <1>2, <1>3 DEF DataInv

LEMMA Returned ==
  ASSUME CallsTyped, NEW c \in Callers, Return(c)
  PROVE  CallInv(c)' /\ \A d \in Callers : d # c => call'[d] = call[d]
<1>1. call'[c] = Idle /\ \A d \in Callers : d # c => call'[d] = call[d]
  BY DEF Return, CallsTyped
<1>2. CallInv(c)'
  BY <1>1 DEF CallInv, Idle, Numbered, Range
<1> QED
  BY <1>1, <1>2

\* A call that changes no file leaves nothing behind.
LEMMA ReturnData ==
  ASSUME StoreInv, TypeInv', NEW c \in Callers, Working(c), Return(c),
         UNCHANGED <<lines, ended, skip, ghosts>>
  PROVE  DataInv'
<1>1. PICK k \in Keys : k = call[c].key
  BY KeyIs DEF StoreInv, Working
<1>2. /\ next' \in Nat /\ next' >= next /\ swallowed \subseteq swallowed'
      /\ UNCHANGED <<lines, ended, skip, kept, forgotten, taint>>
  BY DEF ghosts, StoreInv, TypeInv, GhostsTyped
<1>3. FileInv(k)'
  BY <1>1, <1>2, FileStays DEF StoreInv, DataInv
<1>4. CallInv(c)' /\ \A d \in Callers : d # c => call'[d] = call[d]
  BY Returned DEF StoreInv, TypeInv
<1>5. Elsewhere(c)
  BY <1>2, <1>4 DEF Elsewhere
<1> QED
  BY <1>1, <1>3, <1>4, <1>5, OwnSession

LEMMA NumberedIs ==
  ASSUME TypeInv, TypeInv', NEW S, NEW T, S \subseteq Message, Numbered(S),
         T \subseteq S, next' >= next
  PROVE  Numbered(T)'
<1>1. \A m \in S : m \in Nat /\ m < next
  BY DEF Numbered, Message
<1>2. next \in Nat /\ next' \in Nat
  BY DEF TypeInv, GhostsTyped
<1> QED
  BY <1>1, <1>2 DEF Numbered

\* What stands in the file of a session, and the record of it, are messages.
LEMMA AllMessages ==
  ASSUME TypeInv, NEW k \in Keys
  PROVE  /\ kept[k] \subseteq Message /\ forgotten[k] \subseteq Message
         /\ Messages(k) \subseteq Message /\ Range(Active(k)) \subseteq Messages(k)
         /\ lines[k] \in Seq(Line) /\ skip[k] \in Nat
         /\ Range(Active(k)) = Seen(lines[k], skip[k])
<1>1. lines[k] \in Seq(Line) /\ kept[k] \subseteq Message /\ forgotten[k] \subseteq Message
  BY DEF TypeInv, FilesTyped, GhostsTyped
<1>2. Messages(k) \subseteq Message
  BY <1>1 DEF Messages, Range, Line
<1>3. skip[k] \in Nat /\ Range(Active(k)) = Seen(lines[k], skip[k])
  BY ActiveIs DEF TypeInv
<1>4. Range(Active(k)) \subseteq Messages(k)
  BY <1>1, <1>3, SeenIn DEF Messages
<1> QED
  BY <1>1, <1>2, <1>3, <1>4

\* A line is appended, or a part of it.  The message is awaited only when the
\* whole line was written, and not behind a broken one.
LEMMA AppendData ==
  ASSUME TypeInv, TypeInv', NEW k \in Keys, FileInv(k), NEW l \in {next, Corrupt},
         next \in Message,
         lines'[k] = Appended(k, l), skip'[k] = skip[k], taint'[k] = taint[k],
         forgotten'[k] = forgotten[k], swallowed \subseteq swallowed',
         next' = IF l = next THEN next + 1 ELSE next,
         kept'[k] \subseteq kept[k] \cup {next},
         next \in kept'[k] => ended'[k] /\ l = next,
         ~ended[k] => Awaited(k)' \subseteq Awaited(k)
  PROVE  FileInv(k)'
<1> DEFINE s == lines[k]
           u == lines'[k]
<1>1. next \in Nat /\ next' \in Nat /\ next' >= next /\ (l = next => next < next')
  BY DEF Message
<1>2. /\ kept[k] \subseteq Message /\ forgotten[k] \subseteq Message /\ Messages(k) \subseteq Message
      /\ s \in Seq(Line) /\ skip[k] \in Nat
  BY AllMessages
<1>3. l \in Line /\ Corrupt \notin Message
  BY LineIs
<1>4. next \notin kept[k] /\ next \notin forgotten[k]
  BY <1>1 DEF FileInv, Numbered
<1>5. /\ u \in Seq(Line) /\ u # <<>> /\ Len(s) <= Len(u)
      /\ u[Len(u)] = IF ended[k] THEN l ELSE Corrupt
      /\ Range(u) \subseteq Range(s) \cup {l, Corrupt}
      /\ ended[k] => /\ Seen(s, skip[k]) \subseteq Seen(u, skip[k])
                     /\ Seen(u, skip[k]) \subseteq Seen(s, skip[k]) \cup ({l} \ {Corrupt})
                     /\ l # Corrupt /\ skip[k] <= Len(s) => l \in Seen(u, skip[k])
      /\ ~ended[k] => /\ Seen(u, skip[k]) \subseteq Seen(s, skip[k])
                      /\ Seen(s, skip[k]) \subseteq Seen(u, skip[k]) \cup {s[Len(s)]}
  <2>1. PICK t : t = Appended(k, l)
    OBVIOUS
  <2>2. FilesTyped /\ u = t
    BY <2>1 DEF TypeInv
  <2>3. Extends(t, k, l)
    BY <1>3, <2>1, <2>2, AppendedIs
  <2> HIDE DEF u
  <2> QED
    BY <2>2, <2>3 DEF Extends
<1>6. Len(s) \in Nat /\ Len(u) \in Nat
  BY <1>2, <1>5
<1> HIDE DEF s, u
<1>7. Awaited(k)' \subseteq Awaited(k) \cup (IF next \in kept'[k] THEN {next} ELSE {})
  BY DEF Awaited
<1>8. Numbered(forgotten[k])'
  BY <1>1, <1>2, NumberedIs DEF FileInv
<1>9. Numbered(kept[k])'
  <2>1. \A m \in kept[k] : m \in Nat /\ m < next
    BY <1>2 DEF FileInv, Numbered, Message
  <2>2. \A m \in kept'[k] : m \in kept[k] \/ (m = next /\ l = next)
    OBVIOUS
  <2> QED
    BY <1>1, <2>1, <2>2 DEF Numbered
<1>10. Numbered(Messages(k))'
  <2>1. \A m \in Messages(k) : m \in Nat /\ m < next
    BY <1>2 DEF FileInv, Numbered, Message
  <2>2. \A m \in Range(u) \ {Corrupt} : m \in Range(s) \ {Corrupt} \/ (m = next /\ l = next)
    BY <1>5
  <2>3. Messages(k) = Range(s) \ {Corrupt} /\ Messages(k)' = Range(u) \ {Corrupt}
    BY DEF Messages, s, u
  <2> QED
    BY <1>1, <2>1, <2>2, <2>3 DEF Numbered
<1>11. ~ended'[k] => u[Len(u)] \notin Awaited(k)'
  <2>1. Awaited(k) \subseteq kept[k]
    BY DEF Awaited
  <2> QED
    BY <1>2, <1>3, <1>4, <1>5, <1>7, <2>1
<1>12. taint'[k] # "promoting" =>
         skip'[k] <= Len(u) /\ Awaited(k)' \subseteq Seen(u, skip'[k])
  <2> SUFFICES ASSUME taint'[k] # "promoting"
               PROVE  skip'[k] <= Len(u) /\ Awaited(k)' \subseteq Seen(u, skip'[k])
    OBVIOUS
  <2>1. skip[k] <= Len(s) /\ Awaited(k) \subseteq Seen(s, skip[k])
    BY DEF FileInv, s
  <2>2. skip[k] <= Len(u)
    BY <1>2, <1>5, <1>6, <2>1
  <2>3. CASE ended[k]
    <3>1. next \in kept'[k] => next \in Seen(u, skip[k])
      BY <1>3, <1>5, <2>1, <2>3
    <3> QED
      BY <1>5, <1>7, <2>1, <2>2, <2>3, <3>1
  <2>4. CASE ~ended[k]
    <3>1. s[Len(s)] \notin Awaited(k)
      BY <2>4 DEF FileInv, s
    <3> QED
      BY <1>5, <2>1, <2>2, <2>4, <3>1
  <2> QED
    BY <2>3, <2>4
<1>13. taint'[k] = "no" => Seen(u, skip'[k]) \cap forgotten'[k] = {}
  <2>1. Seen(u, skip[k]) \subseteq Seen(s, skip[k]) \cup {next}
    BY <1>5
  <2>2. taint[k] = "no" => Seen(s, skip[k]) \cap forgotten[k] = {}
    BY DEF FileInv, s
  <2> QED
    BY <1>4, <2>1, <2>2
<1>14. skip'[k] > 0 => taint'[k] \in {"no", "promoting"}
  BY DEF FileInv
<1> QED
  BY <1>8, <1>9, <1>10, <1>11, <1>12, <1>13, <1>14 DEF FileInv, u

LEMMA AddsData ==
  ASSUME StoreInv, TypeInv', NEW c \in Callers, AddMessage(c) \/ AddMessageBreaks(c)
  PROVE  DataInv'
<1>0. TypeInv /\ LockInv /\ CallsTyped
  BY DEF StoreInv, TypeInv
<1>1. Return(c) /\ Working(c)
  BY DEF AddMessage, AddMessageBreaks, Inside, Working
<1>1a. PICK k \in Keys : k = call[c].key
  BY <1>0, <1>1, KeyIs DEF Working
<1>2. CallInv(c)' /\ \A d \in Callers : d # c => call'[d] = call[d]
  BY <1>0, <1>1, Returned
<1>3. FileInv(k)
  BY <1>1a DEF StoreInv, DataInv
<1>4. next \in Message
  <2>1. next <= MsgMax
    BY DEF AddMessage, AddMessageBreaks
  <2> QED
    BY <1>0, <2>1, StoreConstants DEF TypeInv, GhostsTyped, Message
<1>4a. next # Corrupt /\ next \in Nat
  BY <1>4, LineIs DEF Message
<1>5. UNCHANGED <<skip, forgotten, taint>>
  BY DEF AddMessage, AddMessageBreaks
<1>6. CASE AddMessage(c)
  <2>1. /\ lines' = [lines EXCEPT ![k] = Appended(k, next)]
        /\ ended' = [ended EXCEPT ![k] = TRUE]
        /\ kept' = [kept EXCEPT ![k] = @ \cup {next}]
        /\ swallowed' = IF ended[k] THEN swallowed ELSE swallowed \cup {next}
        /\ next' = next + 1
    BY <1>1a, <1>6 DEF AddMessage
  <2>2. lines'[k] = Appended(k, next) /\ ended'[k] = TRUE /\ kept'[k] = kept[k] \cup {next}
    BY <1>0, <2>1 DEF TypeInv, FilesTyped, GhostsTyped
  <2>3. ~ended[k] => Awaited(k)' \subseteq Awaited(k)
    BY <2>1, <2>2 DEF Awaited
  <2>4. swallowed \subseteq swallowed' /\ next' >= next
    BY <1>4a, <2>1
  <2>5. FileInv(k)'
    BY <1>0, <1>1, <1>3, <1>4, <1>5, <2>1, <2>2, <2>3, <2>4, AppendData
  <2>6. Elsewhere(c)
    BY <1>0, <1>1a, <1>2, <1>5, <2>1, <2>4 DEF Elsewhere, TypeInv, FilesTyped, GhostsTyped
  <2> QED
    BY <1>1, <1>1a, <1>2, <2>5, <2>6, OwnSession
<1>7. CASE AddMessageBreaks(c)
  <2>0. UNCHANGED <<kept, swallowed>>
    BY <1>7 DEF AddMessageBreaks
  <2>1. CASE UNCHANGED <<lines, ended, next>>
    BY <1>1, <1>5, <2>0, <2>1, ReturnData DEF ghosts
  <2>2. ASSUME NEW l \in {next, Corrupt}, NEW b \in BOOLEAN,
               lines' = [lines EXCEPT ![k] = Appended(k, l)], ended' = [ended EXCEPT ![k] = b],
               next' = IF l = next THEN next + 1 ELSE next
        PROVE  DataInv'
    <3>1. lines'[k] = Appended(k, l) /\ kept'[k] \subseteq kept[k] \cup {next}
      BY <1>0, <2>0, <2>2 DEF TypeInv, FilesTyped
    <3>2. next \notin kept'[k] /\ Awaited(k)' \subseteq Awaited(k) /\ swallowed \subseteq swallowed'
      BY <1>3, <1>4a, <2>0 DEF FileInv, Numbered, Awaited
    <3>3. FileInv(k)'
      BY <1>0, <1>1, <1>3, <1>4, <1>5, <2>2, <3>1, <3>2, AppendData
    <3>4. next' >= next
      BY <1>4a, <2>2
    <3>5. Elsewhere(c)
      BY <1>0, <1>1a, <1>2, <1>5, <2>0, <2>2, <3>2, <3>4
         DEF Elsewhere, TypeInv, FilesTyped, GhostsTyped
    <3> QED
      BY <1>1, <1>1a, <1>2, <3>3, <3>5, OwnSession
  <2>3. \/ UNCHANGED <<lines, ended, next>>
        \/ /\ lines' = [lines EXCEPT ![k] = Appended(k, Corrupt)]
           /\ ended' = [ended EXCEPT ![k] = FALSE] /\ next' = next
        \/ \E b \in BOOLEAN : /\ lines' = [lines EXCEPT ![k] = Appended(k, next)]
                             /\ ended' = [ended EXCEPT ![k] = b] /\ next' = next + 1
    BY <1>1a, <1>7, Zenon DEF AddMessageBreaks
  <2> QED
    BY <1>4a, <2>1, <2>2, <2>3
<1> QED
  BY <1>6, <1>7

LEMMA TruncateData ==
  ASSUME StoreInv, TypeInv', NEW c \in Callers, NEW n \in Keeps, TruncateHistory(c, n)
  PROVE  DataInv'
<1>0. TypeInv /\ LockInv /\ CallsTyped /\ n \in Nat
  BY StoreConstants DEF StoreInv, TypeInv
<1>1. Return(c) /\ Working(c)
  BY DEF TruncateHistory, Inside, Working
<1>2. PICK k \in Keys : k = call[c].key
  BY <1>0, <1>1, KeyIs DEF Working
<1>3. CallInv(c)' /\ \A d \in Callers : d # c => call'[d] = call[d]
  BY <1>0, <1>1, Returned
<1>4. PICK window : window = Range(LastN(Active(k), n))
  OBVIOUS
<1>5. PICK p : p = NewSkip(k, n)
  OBVIOUS
<1>6. /\ skip' = [skip EXCEPT ![k] = p]
      /\ kept' = [kept EXCEPT ![k] = @ \cap window]
      /\ forgotten' = [forgotten EXCEPT ![k] = (@ \cup Range(Active(k))) \ window]
      /\ taint' = [taint EXCEPT ![k] = "no"]
      /\ UNCHANGED <<lines, ended, next, swallowed>>
  BY <1>2, <1>4, <1>5 DEF TruncateHistory
<1>7. /\ skip'[k] = p /\ kept'[k] = kept[k] \cap window /\ taint'[k] = "no"
      /\ forgotten'[k] = (forgotten[k] \cup Range(Active(k))) \ window
  BY <1>0, <1>6 DEF TypeInv, FilesTyped, GhostsTyped
<1>8. /\ lines[k] \in Seq(Line) /\ skip[k] \in Nat /\ kept[k] \subseteq Message
      /\ forgotten[k] \subseteq Message /\ Messages(k) \subseteq Message
      /\ Range(Active(k)) \subseteq Messages(k)
  BY <1>0, AllMessages
<1>9. /\ p \in Nat /\ p <= Len(lines[k])
      /\ ReadMessages(lines[k], p) = LastN(Active(k), n)
  BY <1>0, <1>5, <1>8, TruncatedIs DEF NewSkip, Active
<1>10. window = Seen(lines[k], p)
  BY <1>4, <1>8, <1>9, SeenIs
<1>11. FileInv(k) /\ next' >= next
  BY <1>0, <1>6 DEF StoreInv, DataInv, TypeInv, GhostsTyped
<1>12. FileInv(k)'
  <2>1. Awaited(k)' \subseteq Awaited(k) /\ Awaited(k)' \subseteq window
    BY <1>6, <1>7 DEF Awaited
  <2>2. Numbered(kept[k])' /\ Numbered(Messages(k))'
    <3>1. kept'[k] \subseteq kept[k] /\ Messages(k)' = Messages(k)
      BY <1>6, <1>7 DEF Messages
    <3>2. Numbered(kept[k]) /\ Numbered(Messages(k))
      BY <1>11 DEF FileInv
    <3> QED
      BY <1>0, <1>8, <1>11, <3>1, <3>2, NumberedIs
  <2>3. Numbered(forgotten[k])'
    <3>1. \A m \in forgotten'[k] : m \in forgotten[k] \/ m \in Messages(k)
      BY <1>7, <1>8
    <3> QED
      BY <1>6, <1>11, <3>1 DEF FileInv, Numbered
  <2> QED
    BY <1>6, <1>7, <1>9, <1>10, <1>11, <2>1, <2>2, <2>3 DEF FileInv
<1>13. Elsewhere(c)
  BY <1>0, <1>2, <1>3, <1>6, <1>11 DEF Elsewhere, TypeInv, FilesTyped, GhostsTyped
<1> QED
  BY <1>1, <1>2, <1>3, <1>12, <1>13, OwnSession

\* A file that was written whole, read from its start.
LEMMA WrittenData ==
  ASSUME TypeInv, TypeInv', NEW k \in Keys, NEW h \in Seq(Message), FileInv(k),
         Numbered(Range(h)), lines'[k] = h, ended'[k] = TRUE,
         kept'[k] \subseteq kept[k] \cup Range(h),
         forgotten'[k] \subseteq forgotten[k] \cup Messages(k), next' = next,
         skip'[k] > 0 => taint'[k] = "promoting",
         taint'[k] # "promoting" => Awaited(k)' \subseteq Range(h),
         taint'[k] = "no" => Range(h) \cap forgotten'[k] = {}
  PROVE  FileInv(k)'
<1>1. Numbered(kept[k])' /\ Numbered(forgotten[k])'
  BY DEF FileInv, Numbered
<1>2. Numbered(Messages(k))'
  BY DEF Messages, Numbered
<1>3. skip'[k] \in Nat /\ Len(h) \in Nat
  BY DEF TypeInv, FilesTyped
<1>4. Seen(h, 0) = Range(h)
  BY SeenHistory
<1>5. taint'[k] # "promoting" => skip'[k] = 0
  BY <1>3
<1> QED
  BY <1>1, <1>2, <1>3, <1>4, <1>5 DEF FileInv

LEMMA Advanced ==
  ASSUME CallsTyped, NEW c \in Callers, NEW phase, NEW h, NEW o, Advance(c, phase, h, o)
  PROVE  /\ call'[c].pc = phase /\ call'[c].op = call[c].op /\ call'[c].key = call[c].key
         /\ call'[c].hist = h /\ call'[c].old = o
         /\ \A d \in Callers : d # c => call'[d] = call[d]
  BY DEF Advance, CallsTyped

LEMMA MetaData ==
  ASSUME StoreInv, TypeInv', NEW c \in Callers, Working(c),
         NEW k \in Keys, k = call[c].key, NEW h \in Seq(Message), MetaReset(c, k, h),
         Numbered(Range(h)),
         \/ call[c].op = "set"
         \/ call[c].op = "compact" /\ h = Active(k) /\ skip[k] > 0
  PROVE  DataInv'
<1>0. TypeInv /\ CallsTyped /\ FileInv(k)
  BY DEF StoreInv, TypeInv, DataInv
<1>1. /\ call'[c].pc = "rewrite" /\ call'[c].op = call[c].op /\ call'[c].key = k
      /\ call'[c].hist = h /\ \A d \in Callers : d # c => call'[d] = call[d]
  BY <1>0, Advanced DEF MetaReset
<1>2. /\ skip' = [skip EXCEPT ![k] = 0]
      /\ taint' = IF skip[k] = 0 \/ taint[k] = "promoting" THEN taint
                  ELSE [taint EXCEPT ![k] = "rewriting"]
      /\ UNCHANGED <<lines, ended, next, kept, swallowed, forgotten>>
  BY DEF MetaReset
<1>3. /\ skip'[k] = 0
      /\ taint'[k] = IF skip[k] = 0 \/ taint[k] = "promoting" THEN taint[k] ELSE "rewriting"
  BY <1>0, <1>2 DEF TypeInv, FilesTyped, GhostsTyped
<1>4. /\ lines[k] \in Seq(Line) /\ skip[k] \in Nat
      /\ Range(Active(k)) = Seen(lines[k], skip[k])
  BY <1>0, AllMessages
<1>5. FileInv(k)'
  <2>1. Awaited(k)' = Awaited(k) /\ Messages(k)' = Messages(k)
    BY <1>2 DEF Awaited, Messages
  <2>2. Numbered(kept[k])' /\ Numbered(forgotten[k])' /\ Numbered(Messages(k))'
    BY <1>0, <1>2, <2>1 DEF FileInv, Numbered
  <2>3. taint'[k] # "promoting" => Awaited(k) \subseteq Seen(lines[k], 0)
    <3>1. Seen(lines[k], skip[k]) \subseteq Seen(lines[k], 0)
      BY <1>4, SeenAll
    <3> QED
      BY <1>0, <1>3, <3>1 DEF FileInv
  <2>4. taint'[k] = "no" => Seen(lines[k], 0) \cap forgotten[k] = {}
    BY <1>0, <1>3 DEF FileInv
  <2>5. 0 <= Len(lines[k])
    BY <1>4
  <2> QED
    BY <1>0, <1>2, <1>3, <2>1, <2>2, <2>3, <2>4, <2>5 DEF FileInv
<1>6. CallInv(c)'
  <2>1. call[c].op = "compact" /\ taint'[k] # "promoting" =>
          Awaited(k) \subseteq Range(h) /\ Range(h) \cap forgotten[k] = {}
    <3> SUFFICES ASSUME call[c].op = "compact", taint'[k] # "promoting"
                 PROVE  Awaited(k) \subseteq Range(h) /\ Range(h) \cap forgotten[k] = {}
      OBVIOUS
    <3>1. Range(h) = Seen(lines[k], skip[k]) /\ skip[k] > 0
      BY <1>4
    <3>2. taint[k] # "promoting" /\ taint[k] = "no"
      BY <1>0, <1>3, <3>1 DEF FileInv
    <3> QED
      BY <1>0, <3>1, <3>2 DEF FileInv
  <2>2. RewriteInv(call[c], call[c].key)'
    BY <1>1, <1>2, <1>3, <2>1 DEF RewriteInv, Awaited
  <2>3. Numbered(Range(call[c].hist))'
    BY <1>1, <1>2 DEF Numbered
  <2> QED
    BY <1>1, <2>2, <2>3 DEF CallInv
<1>7. Elsewhere(c)
  <2>1. next' >= next
    BY <1>0, <1>2 DEF TypeInv, GhostsTyped
  <2> QED
    BY <1>0, <1>1, <1>2, <2>1 DEF Elsewhere, TypeInv, FilesTyped, GhostsTyped
<1> QED
  BY <1>5, <1>6, <1>7, OwnSession

LEMMA ResetsData ==
  ASSUME StoreInv, TypeInv', NEW c \in Callers, SetHistory(c) \/ Compact(c)
  PROVE  DataInv'
<1>0. TypeInv /\ LockInv /\ CallInv(c)
  BY DEF StoreInv, DataInv
<1>1. Working(c)
  BY DEF SetHistory, Compact, Inside, Working
<1>2. PICK k \in Keys : k = call[c].key
  BY <1>0, <1>1, KeyIs DEF Working
<1>3. CASE SetHistory(c)
  <2>1. call[c].hist \in Seq(Message) /\ Numbered(Range(call[c].hist))
    BY <1>0 DEF TypeInv, CallsTyped, Call, CallInv
  <2>2. call[c].op = "set" /\ MetaReset(c, k, call[c].hist)
    BY <1>2, <1>3 DEF SetHistory, Inside
  <2> QED
    BY <1>1, <1>2, <2>1, <2>2, MetaData
<1>4. CASE Compact(c)
  <2>1. CASE Return(c) /\ UNCHANGED <<files, ghosts>>
    BY <1>1, <2>1, ReturnData DEF files
  <2>2. CASE skip[k] > 0 /\ MetaReset(c, k, Active(k))
    <3>1. Active(k) \in Seq(Message)
      BY <1>0, ActiveIs DEF TypeInv
    <3>2. Numbered(Range(Active(k)))
      BY <1>0, AllMessages DEF StoreInv, DataInv, FileInv, Numbered
    <3>3. call[c].op = "compact"
      BY <1>4 DEF Compact, Inside
    <3> QED
      BY <1>1, <1>2, <2>2, <3>1, <3>2, <3>3, MetaData
  <2> QED
    BY <1>2, <1>4, <2>1, <2>2 DEF Compact, CompactedHistory
<1> QED
  BY <1>3, <1>4

LEMMA RewriteData ==
  ASSUME StoreInv, TypeInv', NEW c \in Callers, Rewrite(c)
  PROVE  DataInv'
<1>0. TypeInv /\ LockInv /\ CallInv(c) /\ CallsTyped
  BY DEF StoreInv, DataInv, TypeInv
<1>1. Return(c) /\ Working(c) /\ call[c].pc = "rewrite"
  BY DEF Rewrite, Working
<1>2. PICK k \in Keys : k = call[c].key
  BY <1>0, <1>1, KeyIs DEF Working
<1>3. CallInv(c)' /\ \A d \in Callers : d # c => call'[d] = call[d]
  BY <1>0, <1>1, Returned
<1>4. PICK h \in Seq(Message) : h = call[c].hist
  BY <1>0 DEF CallsTyped, Call
<1>5. Numbered(Range(h)) /\ RewriteInv(call[c], k) /\ FileInv(k)
  BY <1>0, <1>1, <1>2, <1>4 DEF CallInv, StoreInv, DataInv
<1>6. /\ lines' = [lines EXCEPT ![k] = h] /\ ended' = [ended EXCEPT ![k] = TRUE]
      /\ UNCHANGED <<skip, next, swallowed>>
      /\ IF call[c].op = "set"
           THEN /\ kept' = [kept EXCEPT ![k] = Range(h)]
                /\ forgotten' = [forgotten EXCEPT ![k] = (@ \cup Messages(k)) \ Range(h)]
           ELSE UNCHANGED <<kept, forgotten>>
      /\ taint' = IF call[c].op = "compact" /\ taint[k] = "promoting" THEN taint
                  ELSE [taint EXCEPT ![k] = "no"]
  BY <1>2, <1>4 DEF Rewrite, EndReset
<1>7. lines'[k] = h /\ ended'[k] = TRUE /\ skip'[k] = 0
  BY <1>0, <1>5, <1>6 DEF TypeInv, FilesTyped, RewriteInv
<1>7a. next' = next /\ ~(skip'[k] > 0)
  BY <1>6, <1>7
<1>8. FileInv(k)'
  <2>1. CASE call[c].op = "set"
    <3>1. /\ kept'[k] = Range(h) /\ forgotten'[k] = (forgotten[k] \cup Messages(k)) \ Range(h)
          /\ Awaited(k)' \subseteq Range(h)
      BY <1>0, <1>6, <2>1 DEF TypeInv, GhostsTyped, Awaited
    <3>2. /\ kept'[k] \subseteq kept[k] \cup Range(h)
          /\ forgotten'[k] \subseteq forgotten[k] \cup Messages(k)
          /\ Range(h) \cap forgotten'[k] = {}
      BY <3>1
    <3> QED
      BY <1>0, <1>5, <1>7, <1>7a, <3>1, <3>2, WrittenData
  <2>2. CASE call[c].op # "set"
    <3>1. /\ call[c].op = "compact" /\ kept'[k] = kept[k] /\ forgotten'[k] = forgotten[k]
          /\ Awaited(k)' = Awaited(k)
      BY <1>5, <1>6, <2>2 DEF RewriteInv, Awaited
    <3>2. taint'[k] = IF taint[k] = "promoting" THEN "promoting" ELSE "no"
      BY <1>0, <1>6, <3>1 DEF TypeInv, GhostsTyped
    <3>3. taint[k] # "promoting" => Awaited(k) \subseteq Range(h) /\ Range(h) \cap forgotten[k] = {}
      BY <1>4, <1>5, <3>1 DEF RewriteInv
    <3>4. /\ kept'[k] \subseteq kept[k] \cup Range(h)
          /\ forgotten'[k] \subseteq forgotten[k] \cup Messages(k)
      BY <3>1
    <3> QED
      BY <1>0, <1>5, <1>7, <1>7a, <3>1, <3>2, <3>3, <3>4, WrittenData
  <2> QED
    BY <2>1, <2>2
<1>9. Elsewhere(c)
  <2>1. next' >= next
    BY <1>0, <1>6 DEF TypeInv, GhostsTyped
  <2> QED
    BY <1>0, <1>2, <1>3, <1>6, <2>1 DEF Elsewhere, TypeInv, FilesTyped, GhostsTyped
<1> QED
  BY <1>1, <1>2, <1>3, <1>8, <1>9, OwnSession

LEMMA PromoteFileData ==
  ASSUME StoreInv, TypeInv', NEW c \in Callers, PromoteFile(c)
  PROVE  DataInv'
<1>0. TypeInv /\ LockInv /\ CallsTyped
  BY DEF StoreInv, TypeInv
<1>1. Working(c)
  BY DEF PromoteFile, Inside, Working
<1>2. PICK k \in Keys, a \in Keys : k = call[c].key /\ a = call[c].alias
  BY <1>0, <1>1, KeyIs DEF Working
<1>3. PICK h \in Seq(Message) : h = Active(a)
  BY <1>0, ActiveIs DEF TypeInv
<1>4. PICK o : o = [lines |-> lines[k], ended |-> ended[k], taint |-> taint[k]]
  OBVIOUS
<1>5. o.lines = lines[k] /\ o.ended = ended[k] /\ o.taint = taint[k]
  BY <1>4
<1>6. /\ lines' = [lines EXCEPT ![k] = h] /\ ended' = [ended EXCEPT ![k] = TRUE]
      /\ Advance(c, "meta", h, o)
      /\ taint' = [taint EXCEPT ![k] = IF skip[k] > 0 \/ @ = "promoting" THEN "promoting"
                                       ELSE Promoted(k, h)]
      /\ UNCHANGED <<skip, next, kept, swallowed, forgotten>>
  BY <1>2, <1>3, <1>4 DEF PromoteFile
<1>7. /\ lines'[k] = h /\ ended'[k] = TRUE /\ skip'[k] = skip[k] /\ kept'[k] = kept[k]
      /\ taint'[k] = IF skip[k] > 0 \/ taint[k] = "promoting" THEN "promoting"
                     ELSE Promoted(k, h)
      /\ next' = next /\ Awaited(k)' = Awaited(k)
  BY <1>0, <1>6 DEF TypeInv, FilesTyped, GhostsTyped, Awaited
<1>8. /\ call'[c].pc = "meta" /\ call'[c].key = k /\ call'[c].hist = h /\ call'[c].old = o
      /\ \A d \in Callers : d # c => call'[d] = call[d]
  BY <1>0, <1>2, <1>6, Advanced
<1>9. /\ FileInv(k) /\ lines[k] \in Seq(Line) /\ skip[k] \in Nat
      /\ Range(Active(k)) = Seen(lines[k], skip[k])
  BY <1>0, AllMessages DEF StoreInv, DataInv
<1>10. Numbered(Range(h))
  BY <1>0, <1>3, AllMessages DEF StoreInv, DataInv, FileInv, Numbered
\* The session shows nothing, so nothing is awaited.
<1>11. taint[k] # "promoting" =>
         skip[k] <= Len(lines[k]) /\ Awaited(k) = {} /\ Seen(lines[k], skip[k]) = {}
  <2>1. Active(k) = <<>>
    BY <1>2 DEF PromoteFile, NothingToPromote, HasContent
  <2>2. Seen(lines[k], skip[k]) = {}
    BY <1>9, <2>1 DEF Range
  <2> QED
    BY <1>9, <2>2 DEF FileInv
<1>12. FileInv(k)'
  <2>1. skip'[k] > 0 => taint'[k] = "promoting"
    BY <1>7
  <2>2. taint'[k] # "promoting" => Awaited(k)' \subseteq Range(h)
    BY <1>7, <1>9, <1>11
  <2>3. forgotten'[k] = forgotten[k]
    BY <1>6
  <2>4. taint'[k] = "no" => Range(h) \cap forgotten'[k] = {}
    BY <1>7, <2>3 DEF Promoted
  <2>5. kept'[k] \subseteq kept[k] \cup Range(h) /\ forgotten'[k] \subseteq forgotten[k] \cup Messages(k)
    BY <1>7, <2>3
  <2> QED
    BY <1>0, <1>7, <1>9, <1>10, <2>1, <2>2, <2>4, <2>5, WrittenData
<1>13. CallInv(c)'
  <2>1. Numbered(Range(call[c].hist))'
    BY <1>7, <1>8, <1>10 DEF Numbered
  <2>2. Numbered(Range(o.lines) \ {Corrupt})
    BY <1>5, <1>9 DEF FileInv, Messages
  <2>3. ~o.ended => o.lines[Len(o.lines)] \notin Awaited(k)
    BY <1>5, <1>9 DEF FileInv
  <2>4. skip[k] > 0 => o.taint \in {"no", "promoting"}
    BY <1>5, <1>9 DEF FileInv
  <2>5. Numbered(Range(o.lines) \ {Corrupt})'
    BY <1>7, <2>2 DEF Numbered
  <2>6. skip'[k] > 0 => o.taint \in {"no", "promoting"}
    BY <1>7, <2>4
  <2>7. o.taint # "promoting" =>
          skip'[k] <= Len(o.lines) /\ Awaited(k)' = {} /\ Seen(o.lines, skip'[k]) = {}
    BY <1>5, <1>7, <1>11
  <2>8. ~o.ended => o.lines[Len(o.lines)] \notin Awaited(k)'
    BY <1>7, <2>3
  <2>9. RestoreInv(o, k)'
    BY <2>5, <2>6, <2>7, <2>8 DEF RestoreInv
  <2>10. RestoreInv(call[c].old, call[c].key)'
    BY <1>8, <2>9
  <2> QED
    BY <1>7, <1>8, <2>1, <2>10 DEF CallInv
<1>14. Elsewhere(c)
  <2>1. next' >= next
    BY <1>0, <1>7 DEF TypeInv, GhostsTyped
  <2> QED
    BY <1>0, <1>2, <1>6, <1>8, <2>1 DEF Elsewhere, TypeInv, FilesTyped, GhostsTyped
<1> QED
  BY <1>1, <1>2, <1>12, <1>13, <1>14, OwnSession

LEMMA PromoteMetaData ==
  ASSUME StoreInv, TypeInv', NEW c \in Callers, PromoteMeta(c)
  PROVE  DataInv'
<1>0. TypeInv /\ LockInv /\ CallInv(c) /\ CallsTyped
  BY DEF StoreInv, DataInv, TypeInv
<1>1. Return(c) /\ Working(c) /\ call[c].pc = "meta"
  BY DEF PromoteMeta, Inside, Working
<1>2. PICK k \in Keys : k = call[c].key
  BY <1>0, <1>1, KeyIs DEF Working
<1>3. CallInv(c)' /\ \A d \in Callers : d # c => call'[d] = call[d]
  BY <1>0, <1>1, Returned
<1>4. PICK h \in Seq(Message) : h = call[c].hist
  BY <1>0 DEF CallsTyped, Call
<1>5. Numbered(Range(h)) /\ lines[k] = h /\ ended[k] /\ FileInv(k)
  BY <1>0, <1>1, <1>2, <1>4 DEF CallInv, StoreInv, DataInv
<1>6. /\ skip' = [skip EXCEPT ![k] = 0] /\ kept' = [kept EXCEPT ![k] = Range(h)]
      /\ taint' = [taint EXCEPT ![k] = Promoted(k, h)]
      /\ UNCHANGED <<lines, ended, next, swallowed, forgotten>>
  BY <1>2, <1>4 DEF PromoteMeta
<1>7. /\ skip'[k] = 0 /\ kept'[k] = Range(h) /\ taint'[k] = Promoted(k, h)
      /\ lines'[k] = h /\ ended'[k] = TRUE /\ forgotten'[k] = forgotten[k] /\ next' = next
      /\ Awaited(k)' \subseteq Range(h)
  BY <1>0, <1>5, <1>6 DEF TypeInv, FilesTyped, GhostsTyped, Awaited
<1>8. FileInv(k)'
  <2>1. taint'[k] = "no" => Range(h) \cap forgotten'[k] = {}
    BY <1>7 DEF Promoted
  <2>2. /\ ~(skip'[k] > 0) /\ kept'[k] \subseteq kept[k] \cup Range(h)
        /\ forgotten'[k] \subseteq forgotten[k] \cup Messages(k)
    BY <1>7
  <2> QED
    BY <1>0, <1>5, <1>7, <2>1, <2>2, WrittenData
<1>9. Elsewhere(c)
  <2>1. next' >= next
    BY <1>0, <1>6 DEF TypeInv, GhostsTyped
  <2> QED
    BY <1>0, <1>2, <1>3, <1>6, <2>1 DEF Elsewhere, TypeInv, FilesTyped, GhostsTyped
<1> QED
  BY <1>1, <1>2, <1>3, <1>8, <1>9, OwnSession

LEMMA MetaFailsData ==
  ASSUME StoreInv, TypeInv', NEW c \in Callers, PromoteMetaFails(c)
  PROVE  DataInv'
<1>0. TypeInv /\ LockInv /\ CallInv(c) /\ CallsTyped
  BY DEF StoreInv, DataInv, TypeInv
<1>1. Working(c) /\ call[c].pc = "meta" /\ Advance(c, "rollback", <<>>, call[c].old)
      /\ UNCHANGED <<files, ghosts>>
  BY DEF PromoteMetaFails, Inside, Working
<1>2. PICK k \in Keys : k = call[c].key
  BY <1>0, <1>1, KeyIs DEF Working
<1>3. /\ call'[c].pc = "rollback" /\ call'[c].key = k /\ call'[c].hist = <<>>
      /\ call'[c].old = call[c].old /\ \A d \in Callers : d # c => call'[d] = call[d]
  BY <1>0, <1>1, <1>2, Advanced
<1>4. RestoreInv(call[c].old, k) /\ FileInv(k)
  BY <1>0, <1>1, <1>2 DEF CallInv, StoreInv, DataInv
<1>5. /\ next' \in Nat /\ next' >= next /\ swallowed \subseteq swallowed'
      /\ UNCHANGED <<lines, ended, skip, kept, swallowed, forgotten, taint, next>>
  BY <1>0, <1>1 DEF ghosts, files, TypeInv, GhostsTyped
<1>6. FileInv(k)'
  BY <1>0, <1>4, <1>5, FileStays
<1>7. CallInv(c)'
  <2>1. RestoreInv(call[c].old, call[c].key)'
    BY <1>3, <1>4, <1>5 DEF RestoreInv, Awaited, Numbered, Seen, Retained
  <2>2. Numbered(Range(call[c].hist))'
    BY <1>3 DEF Numbered, Range
  <2> QED
    BY <1>3, <2>1, <2>2 DEF CallInv
<1>8. Elsewhere(c)
  BY <1>3, <1>5 DEF Elsewhere
<1> QED
  BY <1>1, <1>2, <1>6, <1>7, <1>8, OwnSession

\* The file is as it was before the promotion: it shows nothing, or was tainted.
LEMMA RollBackData ==
  ASSUME StoreInv, TypeInv', NEW c \in Callers, RollBack(c)
  PROVE  DataInv'
<1>0. TypeInv /\ LockInv /\ CallInv(c) /\ CallsTyped
  BY DEF StoreInv, DataInv, TypeInv
<1>1. Return(c) /\ Working(c) /\ call[c].pc = "rollback"
  BY DEF RollBack, Working
<1>2. PICK k \in Keys : k = call[c].key
  BY <1>0, <1>1, KeyIs DEF Working
<1>3. CallInv(c)' /\ \A d \in Callers : d # c => call'[d] = call[d]
  BY <1>0, <1>1, Returned
<1>4. PICK o : o = call[c].old
  OBVIOUS
<1>5. RestoreInv(o, k) /\ FileInv(k) /\ o.lines \in Seq(Line)
  BY <1>0, <1>1, <1>2, <1>4
     DEF CallInv, StoreInv, DataInv, CallsTyped, Restorable, Raw
<1>6. /\ lines' = [lines EXCEPT ![k] = o.lines] /\ ended' = [ended EXCEPT ![k] = o.ended]
      /\ taint' = [taint EXCEPT ![k] = o.taint]
      /\ UNCHANGED <<skip, next, kept, swallowed, forgotten>>
  BY <1>2, <1>4 DEF RollBack
<1>7. /\ lines'[k] = o.lines /\ ended'[k] = o.ended /\ taint'[k] = o.taint
      /\ Awaited(k)' = Awaited(k)
  BY <1>0, <1>6 DEF TypeInv, FilesTyped, GhostsTyped, Awaited
<1>8. FileInv(k)'
  <2>1. Messages(k)' = Range(o.lines) \ {Corrupt}
    BY <1>7 DEF Messages
  <2>2. Numbered(kept[k])' /\ Numbered(forgotten[k])' /\ Numbered(Messages(k))'
    BY <1>5, <1>6, <2>1 DEF FileInv, RestoreInv, Numbered
  <2>3. o.taint # "promoting" =>
          skip[k] <= Len(o.lines) /\ Awaited(k) = {} /\ Seen(o.lines, skip[k]) = {}
    BY <1>5 DEF RestoreInv
  <2>4. ~ended'[k] => lines'[k][Len(lines'[k])] \notin Awaited(k)'
    BY <1>5, <1>7 DEF RestoreInv
  <2>5. skip'[k] > 0 => taint'[k] \in {"no", "promoting"}
    BY <1>5, <1>6, <1>7 DEF RestoreInv
  <2>6. taint'[k] # "promoting" =>
          skip'[k] <= Len(lines'[k]) /\ Awaited(k)' \subseteq Seen(lines'[k], skip'[k])
    BY <1>6, <1>7, <2>3
  <2>7. taint'[k] = "no" => Seen(lines'[k], skip'[k]) \cap forgotten'[k] = {}
    BY <1>6, <1>7, <2>3
  <2> QED
    BY <2>2, <2>4, <2>5, <2>6, <2>7 DEF FileInv
<1>9. Elsewhere(c)
  <2>1. next' >= next
    BY <1>0, <1>6 DEF TypeInv, GhostsTyped
  <2> QED
    BY <1>0, <1>2, <1>3, <1>6, <2>1 DEF Elsewhere, TypeInv, FilesTyped, GhostsTyped
<1> QED
  BY <1>1, <1>2, <1>3, <1>8, <1>9, OwnSession

LEMMA WorkData ==
  ASSUME StoreInv, TypeInv', NEW c \in Callers, Work(c)
  PROVE  DataInv'
<1>1. CASE PromoteNothing(c) \/ AtomicWriteFails(c) \/ AddMessageBeyondBound(c) \/ SetSummary(c)
  <2>1. Working(c) /\ Return(c)
    BY <1>1
       DEF PromoteNothing, AtomicWriteFails, AddMessageBeyondBound, SetSummary, Inside, Working
  <2>2. UNCHANGED <<lines, ended, skip, ghosts>>
    BY <1>1
       DEF PromoteNothing, AtomicWriteFails, AddMessageBeyondBound, SetSummary, files
  <2> QED
    BY <2>1, <2>2, ReturnData
<1>2. CASE AddMessage(c) \/ AddMessageBreaks(c)
  BY <1>2, AddsData
<1>3. CASE (\E n \in Keeps : TruncateHistory(c, n)) \/ SetHistory(c) \/ Compact(c) \/ Rewrite(c)
  BY <1>3, TruncateData, ResetsData, RewriteData
<1>4. CASE PromoteFile(c) \/ PromoteMeta(c) \/ PromoteMetaFails(c) \/ RollBack(c)
  BY <1>4, PromoteFileData, PromoteMetaData, MetaFailsData, RollBackData
<1> QED
  BY <1>1, <1>2, <1>3, <1>4 DEF Work

\* Outside the lock a call only remembers what it has read.
LEMMA OutsideData ==
  ASSUME StoreInv, TypeInv', NEW c \in Callers, UNCHANGED <<files, ghosts>>,
         \A d \in Callers : d # c => call'[d] = call[d],
         call'[c].pc \in {"idle", "lock", "body"}, Numbered(Range(call[c].hist))'
  PROVE  DataInv'
<1>1. /\ next' \in Nat /\ next' >= next /\ swallowed \subseteq swallowed'
      /\ UNCHANGED <<lines, ended, skip, kept, forgotten, taint>>
  BY DEF ghosts, files, StoreInv, TypeInv, GhostsTyped
<1>2. \A k \in Keys : FileInv(k)'
  BY <1>1, FileStays DEF StoreInv, DataInv
<1>3. CallInv(c)'
  BY DEF CallInv
<1>4. ASSUME NEW d \in Callers, d # c PROVE CallInv(d)'
  BY <1>1, <1>4, CallStays DEF StoreInv, DataInv
<1> QED
  BY <1>2, <1>3, <1>4 DEF DataInv

LEMMA RequestData ==
  ASSUME StoreInv, TypeInv', NEW c \in Callers, Request(c)
  PROVE  DataInv'
<1>0. TypeInv
  BY DEF StoreInv
<1>1. UNCHANGED <<files, ghosts>>
  BY DEF Request
<1>2. PICK k \in Keys :
        \/ \E op \in {"add", "compact", "summary"} : Begin(c, op, k, k, <<>>)
        \/ Begin(c, "truncate", k, k, <<>>)
        \/ \E i \in 0..Len(Active(k)) :
             \/ Begin(c, "set", k, k, SubSeq(Active(k), 1, i))
             \/ Begin(c, "set", k, k, LastN(Active(k), i))
        \/ \E a \in AliasesOf[k] : Begin(c, "promote", k, a, <<>>)
  BY Zenon DEF Request
<1>3. Active(k) \in Seq(Message) /\ Numbered(Range(Active(k)))
  <2>1. Active(k) \in Seq(Message)
    BY <1>0, ActiveIs DEF TypeInv
  <2>2. Numbered(Range(Active(k)))
    BY <1>0, AllMessages DEF StoreInv, DataInv, FileInv, Numbered
  <2> QED
    BY <2>1, <2>2
<1>4. \E op, a, h : Begin(c, op, k, a, h) /\ Range(h) \subseteq Range(Active(k))
  <2>1. ASSUME NEW i \in 0..Len(Active(k))
        PROVE  /\ Range(SubSeq(Active(k), 1, i)) \subseteq Range(Active(k))
               /\ Range(LastN(Active(k), i)) \subseteq Range(Active(k))
    <3>1. i \in Nat
      OBVIOUS
    <3>2. Range(SubSeq(Active(k), 1, i)) \subseteq Range(Active(k))
      BY <1>3, HeadIs
    <3>3. Range(LastN(Active(k), i)) \subseteq Range(Active(k))
      BY <1>3, <3>1, TailIs
    <3> QED
      BY <3>2, <3>3
  <2>2. Range(<<>>) \subseteq Range(Active(k))
    BY DEF Range
  <2> QED
    BY <1>2, <2>1, <2>2, Zenon
<1>5. PICK op, a, h : Begin(c, op, k, a, h) /\ Range(h) \subseteq Range(Active(k))
  BY <1>4
<1>6. /\ call'[c].pc = "lock" /\ call'[c].hist = h
      /\ \A d \in Callers : d # c => call'[d] = call[d]
  BY <1>0, <1>5 DEF Begin, TypeInv, CallsTyped
<1>7. Numbered(Range(call[c].hist))'
  BY <1>1, <1>3, <1>5, <1>6 DEF Numbered, ghosts
<1> QED
  BY <1>1, <1>6, <1>7, OutsideData

LEMMA AcquireData ==
  ASSUME StoreInv, TypeInv', NEW c \in Callers, Acquire(c)
  PROVE  DataInv'
<1>1. UNCHANGED <<files, ghosts>>
  BY DEF Acquire
<1>2. PICK p \in {"body", "lock"} : call' = [call EXCEPT ![c].pc = p]
  BY DEF Acquire
<1>3. /\ call'[c].pc = p /\ call'[c].hist = call[c].hist
      /\ \A d \in Callers : d # c => call'[d] = call[d]
  BY <1>2 DEF StoreInv, TypeInv, CallsTyped, Call
<1>4. Numbered(Range(call[c].hist))'
  BY <1>1, <1>3 DEF StoreInv, DataInv, CallInv, Numbered, ghosts
<1> QED
  BY <1>1, <1>3, <1>4, OutsideData

LEMMA NextData == StoreInv /\ [Next]_vars => StoreInv'
<1> SUFFICES ASSUME StoreInv, [Next]_vars PROVE StoreInv'
  OBVIOUS
<1>1. TypeInv' /\ LockInv'
  BY NextTyped, NextLocks DEF StoreInv
<1>2. CASE Crash
  <2>1. UNCHANGED <<files, ghosts>> /\ \A c \in Callers : call'[c] = Idle
    BY <1>2 DEF Crash
  <2>2. /\ next' \in Nat /\ next' >= next /\ swallowed \subseteq swallowed'
        /\ UNCHANGED <<lines, ended, skip, kept, forgotten, taint>>
    BY <2>1 DEF ghosts, files, StoreInv, TypeInv, GhostsTyped
  <2>3. \A k \in Keys : FileInv(k)'
    BY <2>2, FileStays DEF StoreInv, DataInv
  <2>4. \A c \in Callers : CallInv(c)'
    BY <2>1 DEF CallInv, Idle, Numbered, Range
  <2> QED
    BY <1>1, <2>3, <2>4 DEF StoreInv, DataInv
<1>3. ASSUME NEW c \in Callers, Request(c) \/ Acquire(c) \/ Work(c) PROVE DataInv'
  BY <1>1, <1>3, RequestData, AcquireData, WorkData
<1>4. CASE UNCHANGED vars
  <2>1. /\ next' \in Nat /\ next' >= next /\ swallowed \subseteq swallowed'
        /\ UNCHANGED <<lines, ended, skip, kept, forgotten, taint, call>>
    BY <1>4 DEF vars, ghosts, files, StoreInv, TypeInv, GhostsTyped
  <2>2. \A k \in Keys : FileInv(k)'
    BY <2>1, FileStays DEF StoreInv, DataInv
  <2>3. \A c \in Callers : CallInv(c)'
    BY <2>1, CallStays DEF StoreInv, DataInv
  <2> QED
    BY <1>1, <2>2, <2>3 DEF StoreInv, DataInv
<1> QED
  BY <1>1, <1>2, <1>3, <1>4 DEF Next, StoreInv

LEMMA StoreCorrect == Spec => []StoreInv
<1>1. Init => StoreInv
  BY InitTyped, InitLocks, InitData DEF StoreInv
<1> QED
  BY <1>1, NextData, PTL DEF Spec

-----------------------------------------------------------------------------

\* Whatever calls run at once, whatever writes fail and whenever the process
\* dies: a reader finds every acknowledged message that nobody dropped, except
\* one appended behind a broken line, or in a session into which a promotion was
\* interrupted while an offset was in force.
THEOREM NothingLostCorrect == Spec => []NothingLost
<1>1. StoreInv => NothingLost
  <2> SUFFICES ASSUME StoreInv, NEW k \in Keys, taint[k] # "promoting"
               PROVE  kept[k] \ swallowed \subseteq Range(Active(k))
    BY DEF NothingLost
  <2> QED
    BY AllMessages DEF StoreInv, DataInv, FileInv, Awaited
<1> QED
  BY <1>1, StoreCorrect, PTL

\* What a caller dropped is not shown again, but by an interrupted rewrite or a
\* promotion.
THEOREM NothingReturnsCorrect == Spec => []NothingReturns
<1>1. StoreInv => NothingReturns
  <2> SUFFICES ASSUME StoreInv, NEW k \in Keys, taint[k] = "no"
               PROVE  Range(Active(k)) \cap forgotten[k] = {}
    BY DEF NothingReturns
  <2> QED
    BY AllMessages DEF StoreInv, DataInv, FileInv
<1> QED
  BY <1>1, StoreCorrect, PTL
=============================================================================
