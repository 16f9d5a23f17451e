----------------------- MODULE SessionHistoryProofs ------------------------
(***************************************************************************)
(* Theorems about SessionHistory for every number of turns and messages,   *)
(* and every threshold and window of the compaction.                       *)
(***************************************************************************)
EXTENDS SessionHistory, SequenceTheorems, FiniteSetTheorems, WellFoundedInduction, TLAPS

-----------------------------------------------------------------------------
(* Least and greatest elements of sets of numbers                           *)

\* Every non-empty set of natural numbers has a least element.
LEMMA LeastNat ==
  ASSUME NEW T, T \subseteq Nat, T # {}
  PROVE  \E x \in T : \A y \in T : x <= y
<1>1. PICK x \in T : \A y \in T : ~ (<<y, x>> \in OpToRel(<, Nat))
  BY NatLessThanWellFounded, WFMin
<1>2. \A y \in T : ~ (y < x)
  BY <1>1 DEF OpToRel
<1> QED
  BY <1>2

LEMMA SmallestIn ==
  ASSUME NEW S, S \subseteq Nat, S # {}
  PROVE  Smallest(S) \in S /\ \A j \in S : Smallest(S) <= j
BY LeastNat DEF Smallest

LEMMA GreatestUpTo ==
  ASSUME NEW N \in Nat, NEW S, S \subseteq 0..N, S # {}
  PROVE  \E i \in S : \A j \in S : j <= i
<1> DEFINE T == {N - i : i \in S}
<1>1. T \subseteq Nat /\ T # {}
  <2>1. \A i \in S : i \in 0..N /\ N - i \in Nat
    OBVIOUS
  <2>2. PICK i \in S : TRUE
    OBVIOUS
  <2>3. N - i \in T
    BY <2>2
  <2> QED
    BY <2>1, <2>3
<1>2. PICK x \in T : \A y \in T : x <= y
  BY <1>1, LeastNat
<1>3. PICK i \in S : x = N - i
  BY <1>2
<1>4. \A j \in S : N - i <= N - j
  BY <1>2, <1>3
<1> QED
  BY <1>4

LEMMA LargestIn ==
  ASSUME NEW N \in Nat, NEW S, S \subseteq 0..N, S # {}
  PROVE  Largest(S) \in S /\ \A j \in S : j <= Largest(S)
BY GreatestUpTo DEF Largest

Below(B, b) == {c \in B : c < b}

\* In a finite set of numbers there is one with just k others below it.
LEMMA NthExists ==
  ASSUME NEW N \in Nat, NEW B, B \subseteq 0..N, NEW k \in Nat, k < Cardinality(B)
  PROVE  \E b \in B : Cardinality(Below(B, b)) = k
<1> DEFINE below(b) == Below(B, b)
           T == {b \in B : Cardinality(below(b)) >= k}
<1>1. IsFiniteSet(B) /\ \A b : IsFiniteSet(below(b))
  <2>1. IsFiniteSet(0..N) /\ \A b : below(b) \subseteq B
    BY FS_Interval DEF Below
  <2>2. IsFiniteSet(B)
    BY <2>1, FS_Subset
  <2> QED
    BY <2>1, <2>2, FS_Subset
<1>2. /\ Cardinality(B) \in Nat
      /\ \A b : Cardinality(below(b)) \in Nat
  BY <1>1, FS_CardinalityType
<1>3. T # {}
  <2>1. B # {}
    BY <1>2, FS_EmptySet
  <2>2. PICK b \in B : \A j \in B : j <= b
    BY <2>1, GreatestUpTo
  <2>3. below(b) = B \ {b}
    <3>1. \A c \in B : c \in Nat /\ (c < b <=> c # b)
      BY <2>2
    <3> QED
      BY <3>1 DEF Below
  <2>4. Cardinality(B \ {b}) = Cardinality(B) - 1
    BY <1>1, FS_RemoveElement
  <2> QED
    BY <1>2, <2>3, <2>4
<1>4. PICK b \in T : \A j \in T : b <= j
  <2>1. T \subseteq B /\ 0..N \subseteq Nat
    OBVIOUS
  <2> HIDE DEF T
  <2> QED
    BY <1>3, <2>1, LeastNat
<1>5. ASSUME Cardinality(below(b)) > k PROVE FALSE
  <2>1. below(b) # {}
    BY <1>5, <1>2, FS_EmptySet
  <2>2. PICK c \in below(b) : \A j \in below(b) : j <= c
    <3>1. below(b) \subseteq 0..N
      BY DEF Below
    <3> QED
      BY <2>1, <3>1, GreatestUpTo
  <2>3. below(c) = below(b) \ {c}
    <3>1. c \in Nat /\ b \in Nat /\ c < b
      BY <2>2 DEF Below
    <3>2. \A d \in B : d \in Nat
      OBVIOUS
    <3>3. \A d \in B : d < c <=> d < b /\ d # c
      BY <2>2, <3>1, <3>2 DEF Below
    <3> QED
      BY <3>3 DEF Below
  <2>4. Cardinality(below(b) \ {c}) = Cardinality(below(b)) - 1
    <3> HIDE DEF below
    <3> QED
      BY <1>1, <2>2, FS_RemoveElement
  <2>5. c \in T
    BY <1>2, <1>5, <2>2, <2>3, <2>4 DEF Below
  <2> QED
    BY <1>4, <2>2, <2>5 DEF Below
<1> QED
  BY <1>2, <1>4, <1>5

-----------------------------------------------------------------------------
(* What the cuts return                                                     *)

LEMMA SuffixIs ==
  ASSUME NEW S, NEW h \in Seq(S), NEW m \in 0..Len(h)
  PROVE  /\ Suffix(h, m) \in Seq(S)
         /\ Len(Suffix(h, m)) = Len(h) - m
         /\ \A i \in 1..(Len(h) - m) : Suffix(h, m)[i] = h[m + i]
<1>1. \A i \in (m + 1)..Len(h) : h[i] \in S
  OBVIOUS
<1> QED
  BY <1>1, SubSeqProperties DEF Suffix

LEMMA PrefixIs ==
  ASSUME NEW S, NEW h \in Seq(S), NEW k \in 0..Len(h)
  PROVE  /\ SubSeq(h, 1, k) \in Seq(S)
         /\ Len(SubSeq(h, 1, k)) = k
         /\ \A i \in 1..k : SubSeq(h, 1, k)[i] = h[i]
<1>1. \A i \in 1..k : h[i] \in S
  OBVIOUS
<1> QED
  BY <1>1, SubSeqProperties

LEMMA SuffixOfAll ==
  ASSUME NEW S, NEW h \in Seq(S)
  PROVE  Suffix(h, 0) = h
BY SubSeqFull DEF Suffix

LEMMA LastNIs ==
  ASSUME NEW S, NEW h \in Seq(S), NEW n \in Nat
  PROVE  LET m == IF n >= Len(h) THEN 0 ELSE Len(h) - n
         IN  m \in 0..Len(h) /\ LastN(h, n) = Suffix(h, m)
BY SuffixOfAll DEF LastN

LEMMA BoundariesIn ==
  ASSUME NEW S, NEW h \in Seq(S)
  PROVE  Boundaries(h) \subseteq 0..Len(h)
BY DEF Boundaries

\* findSafeBoundary cuts nothing, cuts all, or cuts where a turn begins, unless
\* no turn begins anywhere.
LEMMA SafeBoundaryIs ==
  ASSUME NEW S, NEW h \in Seq(S), NEW t \in Int
  PROVE  /\ SafeBoundary(h, t) \in 0..Len(h)
         /\ \/ SafeBoundary(h, t) = 0
            \/ SafeBoundary(h, t) = Len(h) /\ t >= Len(h)
            \/ SafeBoundary(h, t) \in Boundaries(h)
            \/ Boundaries(h) = {}
<1> DEFINE before == {b \in Boundaries(h) : b <= t /\ b > 0}
           after == {b \in Boundaries(h) : b > t}
<1>1. before \subseteq 0..Len(h) /\ after \subseteq 0..Len(h) /\ Len(h) \in Nat
  BY BoundariesIn
<1>2. before # {} => Largest(before) \in Boundaries(h) /\ Largest(before) \in 0..Len(h)
  BY <1>1, LargestIn
<1>3. after # {} => Smallest(after) \in Boundaries(h) /\ Smallest(after) \in 0..Len(h)
  BY <1>1, SmallestIn
<1> QED
  BY <1>1, <1>2, <1>3 DEF SafeBoundary

\* forceCompression cuts nothing or where a turn begins, unless none does.
LEMMA CompressionCutIs ==
  ASSUME NEW S, NEW h \in Seq(S)
  PROVE  /\ CompressionCut(h) \in 0..Len(h)
         /\ \/ CompressionCut(h) = 0
            \/ CompressionCut(h) \in Boundaries(h)
            \/ Boundaries(h) = {}
<1> DEFINE B == Boundaries(h)
           k == Cardinality(B) \div 2
           nth == CHOOSE b \in B : Cardinality({c \in B : c < b}) = k
<1>1. B \subseteq 0..Len(h) /\ Len(h) \in Nat
  BY BoundariesIn
<1>2. CASE Cardinality(B) >= 2
  <2>1. IsFiniteSet(B) /\ Cardinality(B) \in Nat
    <3> HIDE DEF B
    <3>1. IsFiniteSet(0..Len(h))
      BY <1>1, FS_Interval
    <3> QED
      BY <1>1, <3>1, FS_Subset, FS_CardinalityType
  <2>2. k \in Nat /\ k < Cardinality(B)
    <3> HIDE DEF B
    <3> QED
      BY <1>2, <2>1, Z3
  <2>3. \E b \in B : Cardinality(Below(B, b)) = k
    <3> HIDE DEF B, k
    <3> QED
      BY <1>1, <2>2, NthExists
  <2>4. nth \in B
    BY <2>3, Zenon DEF Below
  <2> QED
    BY <1>1, <1>2, <2>4 DEF CompressionCut
<1>3. CASE ~(Cardinality(B) >= 2)
  <2>1. CompressionCut(h) = SafeBoundary(h, Len(h) \div 2)
    BY <1>3 DEF CompressionCut
  <2>2. Len(h) \div 2 \in Int /\ (Len(h) \div 2 >= Len(h) => Len(h) = 0)
    OBVIOUS
  <2> QED
    BY <2>1, <2>2, SafeBoundaryIs
<1> QED
  BY <1>2, <1>3

\* What it leaves: a suffix, the last user message, or nothing.
LEMMA CompressedIs ==
  ASSUME NEW S, NEW h \in Seq(S)
  PROVE  \/ /\ Compressed(h) = Suffix(h, CompressionCut(h)) /\ CompressionCut(h) \in 0..Len(h)
            /\ CompressionCut(h) \in Boundaries(h) \/ Boundaries(h) = {}
         \/ \E b \in Boundaries(h) : b + 1 \in 1..Len(h) /\ Compressed(h) = <<h[b + 1]>>
         \/ Compressed(h) = <<>> /\ Boundaries(h) = {}
<1>1. CASE CompressionCut(h) > 0
  <2>1. Compressed(h) = Suffix(h, CompressionCut(h))
    BY <1>1 DEF Compressed
  <2>2. /\ CompressionCut(h) \in 0..Len(h) /\ CompressionCut(h) # 0
        /\ CompressionCut(h) \in Boundaries(h) \/ Boundaries(h) = {}
    BY <1>1, CompressionCutIs
  <2> QED
    BY <2>1, <2>2
<1>2. CASE ~(CompressionCut(h) > 0) /\ Boundaries(h) # {}
  <2>1. Largest(Boundaries(h)) \in Boundaries(h)
    BY <1>2, BoundariesIn, LargestIn
  <2>2. Largest(Boundaries(h)) + 1 \in 1..Len(h)
    BY <2>1 DEF Boundaries
  <2>3. Compressed(h) = <<h[Largest(Boundaries(h)) + 1]>>
    BY <1>2 DEF Compressed
  <2> QED
    BY <2>1, <2>2, <2>3, Zenon
<1>3. CASE ~(CompressionCut(h) > 0) /\ Boundaries(h) = {}
  BY <1>3 DEF Compressed
<1> QED
  BY <1>1, <1>2, <1>3

LEMMA ProjectedIs ==
  ASSUME NEW S, NEW h \in Seq(S)
  PROVE  \E m \in 0..Len(h) : Projected(h) = Suffix(h, m)
<1>1. Evicted(h, Window - 1) \in 0..Len(h)
  <2> DEFINE fits == {b \in Boundaries(h) : Conversational(Suffix(h, b)) <= Window - 1}
  <2>1. fits \subseteq 0..Len(h) /\ Boundaries(h) \subseteq 0..Len(h) /\ Len(h) \in Nat
    BY BoundariesIn
  <2>2. fits # {} => Smallest(fits) \in 0..Len(h)
    <3> HIDE DEF fits
    <3>1. fits \subseteq Nat
      BY <2>1
    <3> QED
      BY <2>1, <3>1, SmallestIn
  <2>3. Boundaries(h) # {} => Largest(Boundaries(h)) \in 0..Len(h)
    BY <2>1, LargestIn
  <2> QED
    BY <2>1, <2>2, <2>3 DEF Evicted
<1> QED
  BY <1>1, SuffixOfAll DEF Projected

LEMMA TailMatchIs ==
  ASSUME NEW S, NEW h \in Seq(S), NEW p \in Seq(S)
  PROVE  TailMatch(h, p) \in 0..Len(h)
<1> DEFINE T == {0} \cup {k \in 1..Len(p) : k <= Len(h) /\ LastN(h, k) = LastN(p, k)}
<1>1. T \subseteq 0..Len(h) /\ T # {} /\ Len(h) \in Nat
  OBVIOUS
<1> HIDE DEF T
<1>2. Largest(T) \in T
  BY <1>1, LargestIn
<1> QED
  BY <1>1, <1>2 DEF TailMatch, T

-----------------------------------------------------------------------------
(* Types                                                                    *)

\* Where the turn is limits what it has written: nothing before its root
\* message, and later it has room for the answer, or for a result and the answer.
Early == {"idle", "created", "setup", "budget", "root"}
Middle == {"read", "write", "shorten", "refresh", "iterate", "inject", "llm", "handled", "finalize"}
RoomInv ==
  /\ Len(persisted) <= PersistMax
  /\ pc # "idle" \/ spc # "idle" => turn \in 1..TurnMax
  /\ pc \in Early => persisted = <<>>
  /\ pc \in Middle => Len(persisted) < PersistMax
  /\ pc = "tool" => Len(persisted) + 1 < PersistMax

TypeInv == TypeOK /\ RoomInv

LEMMA InitTypes == Init => TypeInv
<1> SUFFICES ASSUME Init PROVE TypeInv
  OBVIOUS
<1>1. <<>> \in Seq(Message) /\ EmptySummary \in Summary /\ Len(<<>>) = 0
  BY DEF EmptySummary, Summary
<1>2. /\ restore \in [hist : Seq(Message), summ : Summary]
      /\ outcome \in [1..TurnMax -> {"none", "completed", "error", "aborted"}]
  BY <1>1 DEF Init
<1>3. RoomInv
  BY <1>1, HistoryConstants DEF Init, RoomInv, Middle
<1>4. 0 \in 0..TurnMax /\ 0 \in Nat
  BY HistoryConstants
<1>5. TypeOK
  BY <1>1, <1>2, <1>4 DEF Init, TypeOK, Phases
<1> QED
  BY <1>3, <1>5 DEF TypeInv

\* The message a turn writes next.
NextMessage(role) == [turn |-> turn, n |-> Len(persisted) + 1, role |-> role]

LEMMA PersistTyped ==
  ASSUME TypeInv, pc # "idle", Len(persisted) < PersistMax,
         NEW role \in Roles, Persist(role)
  PROVE  /\ NextMessage(role) \in Message
         /\ history' = Append(history, NextMessage(role)) /\ history' \in Seq(Message)
         /\ persisted' = Append(persisted, NextMessage(role)) /\ persisted' \in Seq(Message)
         /\ Len(persisted') = Len(persisted) + 1
         /\ written' = written \cup {NextMessage(role)} /\ written' \subseteq Message
<1> DEFINE m == NextMessage(role)
<1>1. m \in Message
  <2>1. turn \in 1..TurnMax /\ Len(persisted) \in Nat
    BY DEF TypeInv, TypeOK, RoomInv
  <2>2. Len(persisted) + 1 \in 1..PersistMax
    BY <2>1, HistoryConstants
  <2> QED
    BY <2>1, <2>2 DEF Message, NextMessage
<1>2. history \in Seq(Message) /\ persisted \in Seq(Message) /\ written \subseteq Message
  BY DEF TypeInv, TypeOK
<1>3. /\ history' = Append(history, m) /\ persisted' = Append(persisted, m)
      /\ written' = written \cup {m}
  BY DEF Persist, NextMessage
<1> HIDE DEF m
<1> QED
  BY <1>1, <1>2, <1>3, AppendProperties DEF m

LEMMA CompressedTyped ==
  ASSUME NEW h \in Seq(Message)
  PROVE  Compressed(h) \in Seq(Message)
<1>1. CASE Compressed(h) = Suffix(h, CompressionCut(h)) /\ CompressionCut(h) \in 0..Len(h)
  BY <1>1, SuffixIs
<1>2. ASSUME NEW b, b + 1 \in 1..Len(h), Compressed(h) = <<h[b + 1]>>
      PROVE  Compressed(h) \in Seq(Message)
  <2>1. h[b + 1] \in Message
    BY <1>2
  <2> QED
    BY <1>2, <2>1
<1>3. CASE Compressed(h) = <<>>
  BY <1>3
<1> QED
  BY <1>1, <1>2, <1>3, CompressedIs

LEMMA ShortenTyped ==
  ASSUME TypeInv, NEW h, Shorten(h)
  PROVE  marks' \subseteq (1..TurnMax) \X Marks
<1>1. CASE turn \in 1..TurnMax
  BY <1>1 DEF Shorten, Marks, TypeInv, TypeOK
<1>2. CASE turn \notin 1..TurnMax
  <2>1. pc = "idle" /\ spc = "idle" /\ persisted = <<>>
    BY <1>2 DEF TypeInv, RoomInv, Early
  <2>2. Range(persisted) \subseteq Range(h)
    BY <2>1 DEF Range
  <2>3. marks' = marks
    BY <2>1, <2>2 DEF Shorten
  <2> QED
    BY <2>3 DEF TypeInv, TypeOK
<1> QED
  BY <1>1, <1>2

LEMMA SummariserTyped ==
  ASSUME TypeInv, Summarise
  PROVE  TypeInv'
<1> USE DEF TypeInv
<1>0. history \in Seq(Message) /\ Len(history) \in Nat
  BY DEF TypeOK
<1>1. CASE SummariserReads
  <2> DEFINE cut == SafeBoundary(history, Len(history) - KeepTail)
  <2>1. cut \in 0..Len(history)
    <3>1. Len(history) - KeepTail \in Int
      BY <1>0, HistoryConstants
    <3> QED
      BY <1>0, <3>1, SafeBoundaryIs
  <2>2. /\ SubSeq(history, 1, cut) \in Seq(Message)
        /\ KeepCount(history, cut) \in Nat
    BY <1>0, <2>1, PrefixIs DEF KeepCount
  <2>3. /\ zpc' \in {"idle", "asking"} /\ zcut' \in Seq(Message)
        /\ zkeep' \in Nat /\ zold' \in Summary
    <3> HIDE DEF cut
    <3>1. \/ zpc' = "idle" /\ UNCHANGED <<zcut, zkeep, zold>>
          \/ /\ zpc' = "asking" /\ zcut' = SubSeq(history, 1, cut)
             /\ zkeep' = KeepCount(history, cut) /\ zold' = summary
      BY <1>1 DEF SummariserReads, cut
    <3> QED
      BY <2>2, <3>1 DEF TypeOK
  <2> QED
    BY <1>1, <2>3
    DEF SummariserReads, TypeOK, RoomInv, store, turnVars, sVars, ghosts
<1>2. CASE SummariserWrites
  <2> DEFINE valid == {zcut[i] : i \in Summarised(zcut)}
  <2>1. valid \subseteq Message
    BY DEF TypeOK, Summarised
  <2>2. Carried(zcut, zold) \in Summary
    BY DEF Carried, TypeOK, EmptySummary, Summary
  <2>3. summary' \in Summary
    <3>1. PICK big \in SUBSET valid :
            summary' = [Carried(zcut, zold) EXCEPT !.covers = @ \cup (valid \ big),
                                                  !.drops = @ \cup big]
      BY <1>2 DEF SummariserWrites
    <3> HIDE DEF valid
    <3> QED
      BY <2>1, <2>2, <3>1 DEF Summary
  <2> QED
    BY <1>2, <2>3 DEF SummariserWrites, TypeOK, RoomInv, turnVars, sVars, ghosts
<1>4. CASE SummariserFails
  BY <1>0, <1>4 DEF SummariserFails, TypeOK, RoomInv, EmptySummary, Summary,
                    store, turnVars, sVars, ghosts
<1>3. CASE SummariserTruncates
  <2>1. history' \in Seq(Message)
    <3>1. zkeep \in Nat
      BY DEF TypeOK
    <3> QED
      BY ZenonT(40), <1>0, <1>3, <3>1, LastNIs, SuffixIs DEF SummariserTruncates, Truncated
  <2>2. <<>> \in Seq(Message) /\ EmptySummary \in Summary
    BY DEF EmptySummary, Summary
  <2>3. marks' \subseteq (1..TurnMax) \X Marks
    <3>1. CASE Shorten(history')
      BY <3>1, ShortenTyped
    <3> QED
      BY <1>3, <3>1 DEF SummariserTruncates, TypeOK
  <2> QED
    BY <1>3, <2>1, <2>2, <2>3 DEF SummariserTruncates, TypeOK, RoomInv, turnVars, sVars
<1> QED
  BY <1>1, <1>2, <1>3, <1>4 DEF Summarise

LEMMA StopTyped ==
  ASSUME TypeInv, Stop
  PROVE  TypeInv'
<1> USE DEF TypeInv
<1>1. CASE StopPending
  BY <1>1 DEF StopPending, TypeOK, RoomInv, store, zVars, sVars
<1>2. CASE StopRequests
  BY <1>2 DEF StopRequests, TypeOK, RoomInv, store, zVars
<1>3. CASE StopReads
  <2>1. marks' \subseteq (1..TurnMax) \X Marks
    BY <1>3 DEF StopReads, TypeOK, RoomInv, Marks
  <2> QED
    BY <1>3, <2>1 DEF StopReads, TypeOK, RoomInv, store, turnVars, zVars
<1>4. CASE StopWrites
  <2>1. sinitial < Len(sseen) => SubSeq(sseen, 1, sinitial) \in Seq(Message)
    <3>1. sseen \in Seq(Message) /\ sinitial \in Nat
      BY DEF TypeOK
    <3> QED
      BY <3>1, PrefixIs
  <2>2. history' \in Seq(Message) /\ <<>> \in Seq(Message)
    BY <1>4, <2>1 DEF StopWrites, TypeOK
  <2> QED
    BY <1>4, <2>2 DEF StopWrites, TypeOK, RoomInv, turnVars, zVars, ghosts
<1> QED
  BY <1>1, <1>2, <1>3, <1>4 DEF Stop

\* The steps of a turn that write no message.
LEMMA QuietTurnTyped ==
  ASSUME TypeInv,
         \/ NewTurn \/ Register \/ CheckBudget \/ CompressRead \/ Iterate
         \/ LLMAnswers \/ LLMFails \/ LLMCancelled \/ LLMOverflows \/ FinalizeHandled \/ ClearTurn
  PROVE  TypeInv'
<1> USE DEF TypeInv, TypeOK, RoomInv, GoTo, Phases, Early, Middle
<1>0. <<>> \in Seq(Message) /\ Len(<<>>) = 0 /\ PersistMax \in Nat \ {0, 1}
  BY HistoryConstants
<1>1. CASE NewTurn
  BY <1>0, <1>1, HistoryConstants DEF NewTurn, InitialLength, store, zVars, sVars, ghosts
<1>2. CASE Register
  BY <1>0, <1>2 DEF Register, store, zVars, sVars, ghosts
<1>3. CASE CheckBudget
  BY <1>0, <1>3 DEF CheckBudget, store, zVars, sVars, ghosts
<1>4. CASE CompressRead
  BY <1>0, <1>4 DEF CompressRead, store, zVars, sVars, ghosts
<1>5. CASE Iterate
  BY <1>0, <1>5 DEF Iterate, store, zVars, sVars, ghosts
<1>6. CASE LLMAnswers
  BY <1>0, <1>6 DEF LLMAnswers, store, zVars, sVars, ghosts
<1>7. CASE LLMFails
  BY <1>0, <1>7 DEF LLMFails, End, store, zVars, sVars
<1>8. CASE LLMCancelled
  BY <1>0, <1>8 DEF LLMCancelled, store, zVars, sVars, ghosts
<1>9. CASE LLMOverflows
  BY <1>0, <1>9 DEF LLMOverflows, store, zVars, sVars, ghosts
<1>10. CASE FinalizeHandled
  BY <1>0, <1>10 DEF FinalizeHandled, End, store, zVars, sVars
<1>11. CASE ClearTurn
  <2>1. [hist |-> <<>>, summ |-> EmptySummary] \in [hist : Seq(Message), summ : Summary]
    BY <1>0 DEF EmptySummary, Summary
  <2>2. RoomInv'
    BY <1>0, <1>11 DEF ClearTurn, NoTurnState
  <2>3. TypeOK'
    BY <1>0, <1>11, <2>1 DEF ClearTurn, NoTurnState, store, zVars, sVars, ghosts
  <2> QED
    BY <2>2, <2>3
<1> QED
  BY <1>1, <1>2, <1>3, <1>4, <1>5, <1>6, <1>7, <1>8, <1>9, <1>10, <1>11

\* The steps that move the restore point or replace the transcript.
LEMMA RestoringTyped ==
  ASSUME TypeInv,
         \/ Assemble \/ CompressNote \/ CompressWrite \/ Refresh
         \/ AbortTurn \/ RestoreSummary
  PROVE  TypeInv'
<1> USE DEF TypeInv, TypeOK, RoomInv, GoTo, Phases, Early, Middle
<1>0. /\ <<>> \in Seq(Message) /\ Len(<<>>) = 0 /\ PersistMax \in Nat \ {0, 1}
      /\ history \in Seq(Message) /\ persisted \in Seq(Message) /\ seen \in Seq(Message)
  BY HistoryConstants
<1>1. CASE Assemble
  <2>1. Projected(history) \in Seq(Message)
    <3>1. PICK m \in 0..Len(history) : Projected(history) = Suffix(history, m)
      BY <1>0, ProjectedIs
    <3> QED
      BY <1>0, <3>1, SuffixIs
  <2>2. zpc' \in {"idle", "start", "asking", "cutting"}
    BY <1>1 DEF Assemble, StartSummariser
  <2> QED
    BY <1>0, <1>1, <2>1, <2>2 DEF Assemble, store, sVars, ghosts
<1>2. CASE CompressWrite
  <2>1. Compressed(seen) \in Seq(Message)
    BY <1>0, CompressedTyped
  <2>2. marks' \subseteq (1..TurnMax) \X Marks
    BY <1>2, ShortenTyped DEF CompressWrite
  <2> QED
    BY <1>0, <1>2, <2>1, <2>2 DEF CompressWrite, zVars, sVars
<1>3. CASE Refresh
  <2>1. SubSeq(history, 1, Len(history) - TailMatch(history, persisted)) \in Seq(Message)
    <3>1. TailMatch(history, persisted) \in 0..Len(history)
      BY <1>0, TailMatchIs
    <3>2. Len(history) - TailMatch(history, persisted) \in 0..Len(history)
      BY <1>0, <3>1
    <3> QED
      BY <1>0, <3>2, PrefixIs
  <2>2. zpc' \in {"idle", "start", "asking", "cutting"}
    BY <1>3 DEF Refresh, StartSummariser
  <2> QED
    BY <1>0, <1>3, <2>1, <2>2 DEF Refresh, store, sVars, ghosts
<1>4. CASE AbortTurn
  BY <1>0, <1>4 DEF AbortTurn, RestoredHistory, zVars, sVars, ghosts
<1>5. CASE CompressNote
  <2>1. Range(seen) \subseteq Message
    BY <1>0 DEF Range
  <2>2. summary' \in Summary
    BY <1>5, <2>1 DEF CompressNote, Summary
  <2> QED
    BY <1>0, <1>5, <2>2 DEF CompressNote, zVars, sVars, ghosts
<1>6. CASE RestoreSummary
  BY <1>0, <1>6 DEF RestoreSummary, End, zVars, sVars
<1> QED
  BY <1>1, <1>2, <1>3, <1>4, <1>5, <1>6

\* The steps that write a message.
LEMMA WritingTyped ==
  ASSUME TypeInv,
         \/ PersistRoot \/ InjectSteering \/ LLMCallsTool \/ ToolReturns
         \/ ToolsHandledResponse \/ Finalize
  PROVE  TypeInv'
<1>0. /\ Len(persisted) \in Nat /\ PersistMax \in Nat \ {0, 1}
      /\ persisted = <<>> => Len(persisted) = 0
  BY HistoryConstants DEF TypeInv, TypeOK
<1>1. CASE PersistRoot
  <2>1. pc # "idle" /\ Len(persisted) < PersistMax /\ Persist("user") /\ Len(persisted) = 0
    BY <1>0, <1>1 DEF PersistRoot, TypeInv, RoomInv, Early
  <2>2. /\ history' \in Seq(Message) /\ persisted' \in Seq(Message) /\ written' \subseteq Message
        /\ Len(persisted') = 1
    BY <2>1, PersistTyped DEF Roles
  <2> QED
    BY <1>0, <1>1, <2>2
    DEF PersistRoot, GoTo, TypeInv, TypeOK, RoomInv, Phases, Early, Middle, zVars, sVars
<1>2. CASE InjectSteering
  <2>1. CASE Room(2) /\ Persist("user")
    <3>1. pc # "idle" /\ Len(persisted) + 2 <= PersistMax
      BY <1>2, <2>1 DEF InjectSteering, Room
    <3>2. /\ history' \in Seq(Message) /\ persisted' \in Seq(Message)
          /\ written' \subseteq Message /\ Len(persisted') = Len(persisted) + 1
      BY <1>0, <2>1, <3>1, PersistTyped DEF Roles
    <3> QED
      BY SMTT(30), <1>0, <1>2, <3>1, <3>2
      DEF InjectSteering, GoTo, TypeInv, TypeOK, RoomInv, Phases, Early, Middle, zVars, sVars
  <2>2. CASE UNCHANGED <<history, persisted, written>>
    BY <1>2, <2>2
    DEF InjectSteering, GoTo, TypeInv, TypeOK, RoomInv, Phases, Early, Middle, zVars, sVars
  <2> QED
    BY <1>2, <2>1, <2>2 DEF InjectSteering
<1>3. CASE LLMCallsTool
  <2>1. pc # "idle" /\ Len(persisted) + 3 <= PersistMax /\ Persist("call")
    BY <1>3 DEF LLMCallsTool, Room
  <2>2. /\ history' \in Seq(Message) /\ persisted' \in Seq(Message) /\ written' \subseteq Message
        /\ Len(persisted') = Len(persisted) + 1
    BY <1>0, <2>1, PersistTyped DEF Roles
  <2> QED
    BY SMTT(30), <1>0, <1>3, <2>1, <2>2
    DEF LLMCallsTool, GoTo, TypeInv, TypeOK, RoomInv, Phases, Early, Middle, zVars, sVars
<1>4. CASE ToolReturns
  <2>1. CASE ~hardAbort
    <3>1. pc # "idle" /\ Len(persisted) + 1 < PersistMax /\ Persist("tool")
      BY <1>4, <2>1 DEF ToolReturns, TypeInv, RoomInv
    <3>2. /\ history' \in Seq(Message) /\ persisted' \in Seq(Message)
          /\ written' \subseteq Message /\ Len(persisted') = Len(persisted) + 1
      BY <1>0, <3>1, PersistTyped DEF Roles
    <3> QED
      BY SMTT(30), <1>0, <1>4, <2>1, <3>1, <3>2
      DEF ToolReturns, GoTo, TypeInv, TypeOK, RoomInv, Phases, Early, Middle, zVars, sVars
  <2>2. CASE hardAbort
    BY <1>4, <2>2
    DEF ToolReturns, GoTo, TypeInv, TypeOK, RoomInv, Phases, Early, Middle, zVars, sVars
  <2> QED
    BY <2>1, <2>2
<1>5. CASE ToolsHandledResponse \/ Finalize
  <2>1. pc # "idle" /\ Len(persisted) < PersistMax /\ Persist("answer")
    BY <1>5 DEF ToolsHandledResponse, Finalize, TypeInv, RoomInv, Middle
  <2>2. /\ history' \in Seq(Message) /\ persisted' \in Seq(Message) /\ written' \subseteq Message
        /\ Len(persisted') = Len(persisted) + 1
    BY <1>0, <2>1, PersistTyped DEF Roles
  <2>3. zpc' \in {"idle", "start", "asking", "cutting"}
    BY <1>5 DEF ToolsHandledResponse, Finalize, StartSummariser, TypeInv, TypeOK
  <2>4. pc' \in {"handledEnd", "done"} /\ turn' = turn /\ turn \in 1..TurnMax
    BY <1>5, <2>1 DEF ToolsHandledResponse, Finalize, End, GoTo, TypeInv, RoomInv
  <2>5. RoomInv'
    BY <1>0, <2>1, <2>2, <2>4 DEF RoomInv, Early, Middle
  <2>6. TypeOK'
    BY <1>5, <2>2, <2>3, <2>4
    DEF ToolsHandledResponse, Finalize, End, GoTo, TypeInv, TypeOK, Phases, sVars
  <2> QED
    BY <2>5, <2>6 DEF TypeInv
<1> QED
  BY <1>1, <1>2, <1>3, <1>4, <1>5

LEMMA NextTypes == TypeInv /\ [Next]_vars => TypeInv'
<1> SUFFICES ASSUME TypeInv, [Next]_vars PROVE TypeInv'
  OBVIOUS
<1>1. CASE UNCHANGED vars
  BY <1>1 DEF vars, store, turnVars, zVars, sVars, ghosts, TypeInv, TypeOK, RoomInv
<1> QED
  BY <1>1, QuietTurnTyped, RestoringTyped, WritingTyped, SummariserTyped, StopTyped
  DEF Next, TurnStep

LEMMA TypesCorrect == Spec => []TypeInv
  BY InitTypes, NextTypes, PTL DEF Spec

\* The transcript, the restore point and every copy a goroutine has made are
\* sequences of messages, and no turn writes more than it has room for.
THEOREM TypeCorrect == Spec => []TypeOK
<1>1. TypeInv => TypeOK
  BY DEF TypeInv
<1> QED
  BY <1>1, TypesCorrect, PTL

-----------------------------------------------------------------------------
(* Order.  Whatever a goroutine puts back is a piece of something that was  *)
(* the transcript, and all of it was written before the next message.       *)

\* g is a piece of h.
Piece(g, h) ==
  \E a \in 0..Len(h) : Len(g) + a <= Len(h) /\ \A i \in 1..Len(g) : g[i] = h[a + i]

LEMMA PieceSelf ==
  ASSUME NEW S, NEW h \in Seq(S)
  PROVE  Piece(h, h)
<1>1. 0 \in 0..Len(h) /\ Len(h) + 0 <= Len(h) /\ \A i \in 1..Len(h) : h[i] = h[0 + i]
  OBVIOUS
<1> QED
  BY <1>1 DEF Piece

LEMMA PieceEmpty ==
  ASSUME NEW S, NEW h \in Seq(S)
  PROVE  Piece(<<>>, h)
BY DEF Piece

LEMMA PieceSuffix ==
  ASSUME NEW S, NEW h \in Seq(S), NEW m \in 0..Len(h)
  PROVE  Piece(Suffix(h, m), h)
<1>1. /\ Len(Suffix(h, m)) + m <= Len(h)
      /\ \A i \in 1..Len(Suffix(h, m)) : Suffix(h, m)[i] = h[m + i]
  BY SuffixIs
<1> QED
  BY <1>1 DEF Piece

LEMMA PiecePrefix ==
  ASSUME NEW S, NEW h \in Seq(S), NEW k \in 0..Len(h)
  PROVE  Piece(SubSeq(h, 1, k), h)
<1>1. /\ Len(SubSeq(h, 1, k)) + 0 <= Len(h)
      /\ \A i \in 1..Len(SubSeq(h, 1, k)) : SubSeq(h, 1, k)[i] = h[0 + i]
  BY PrefixIs
<1> QED
  BY <1>1 DEF Piece

LEMMA PieceOne ==
  ASSUME NEW S, NEW h \in Seq(S), NEW b \in Nat, b + 1 \in 1..Len(h)
  PROVE  Piece(<<h[b + 1]>>, h)
<1>1. /\ b \in 0..Len(h) /\ Len(<<h[b + 1]>>) + b <= Len(h)
      /\ \A i \in 1..Len(<<h[b + 1]>>) : <<h[b + 1]>>[i] = h[b + i]
  OBVIOUS
<1> QED
  BY <1>1 DEF Piece

LEMMA PieceCompressed ==
  ASSUME NEW h \in Seq(Message)
  PROVE  Piece(Compressed(h), h)
<1>1. Boundaries(h) \subseteq Nat
  BY BoundariesIn
<1> QED
  BY <1>1, CompressedIs, PieceSuffix, PieceOne, PieceEmpty

Ordered(h) == \A i, j \in 1..Len(h) : i < j => Before(h[i], h[j])
Past(m, t, n) == m.turn < t \/ (m.turn = t /\ m.n <= n)
\* h is ordered and holds messages up to the n-th of turn t.
Fine(h, t, n) == Ordered(h) /\ \A i \in 1..Len(h) : Past(h[i], t, n)

LEMMA FinePiece ==
  ASSUME NEW g \in Seq(Message), NEW h \in Seq(Message), NEW t \in Nat, NEW n \in Nat,
         Piece(g, h), Fine(h, t, n)
  PROVE  Fine(g, t, n)
<1>1. PICK a \in 0..Len(h) :
        Len(g) + a <= Len(h) /\ \A i \in 1..Len(g) : g[i] = h[a + i]
  BY DEF Piece
<1>2. \A i \in 1..Len(g) : a + i \in 1..Len(h) /\ g[i] = h[a + i]
  BY <1>1
<1>3. \A i \in 1..Len(g) : Past(g[i], t, n)
  BY <1>2 DEF Fine
<1>4. \A i, j \in 1..Len(g) : i < j => Before(g[i], g[j])
  <2> SUFFICES ASSUME NEW i \in 1..Len(g), NEW j \in 1..Len(g), i < j
               PROVE  Before(g[i], g[j])
    OBVIOUS
  <2>1. a + i < a + j /\ a + i \in 1..Len(h) /\ a + j \in 1..Len(h)
    BY <1>2
  <2>2. Before(h[a + i], h[a + j])
    BY <2>1 DEF Fine, Ordered
  <2> QED
    BY <1>2, <2>2
<1> QED
  BY <1>3, <1>4 DEF Fine, Ordered

LEMMA NumbersOf ==
  ASSUME NEW h \in Seq(Message), NEW i \in 1..Len(h)
  PROVE  h[i] \in Message /\ h[i].turn \in Nat /\ h[i].n \in Nat
<1>1. h[i] \in Message
  OBVIOUS
<1> QED
  BY <1>1, HistoryConstants DEF Message

LEMMA FineLater ==
  ASSUME NEW h \in Seq(Message), NEW t \in Nat, NEW n \in Nat, NEW u \in Nat, NEW k \in Nat,
         t < u \/ (t = u /\ n <= k), Fine(h, t, n)
  PROVE  Fine(h, u, k)
<1>1. \A i \in 1..Len(h) : h[i].turn \in Nat /\ h[i].n \in Nat
  BY NumbersOf
<1> QED
  BY <1>1 DEF Fine, Past

LEMMA FineAppend ==
  ASSUME NEW h \in Seq(Message), NEW m \in Message, NEW t \in Nat, NEW n \in Nat,
         Fine(h, t, n), m.turn = t, m.n = n + 1
  PROVE  Fine(Append(h, m), t, n + 1)
<1> DEFINE g == Append(h, m)
<1>1. /\ Len(g) = Len(h) + 1 /\ Len(h) \in Nat
      /\ \A i \in 1..Len(h) : g[i] = h[i] /\ h[i].turn \in Nat /\ h[i].n \in Nat
      /\ g[Len(h) + 1] = m
  BY AppendProperties, NumbersOf
<1> HIDE DEF g
<1>2. \A i \in 1..Len(g) : Past(g[i], t, n + 1)
  BY <1>1 DEF Fine, Past
<1>3. \A i, j \in 1..Len(g) : i < j => Before(g[i], g[j])
  <2> SUFFICES ASSUME NEW i \in 1..Len(g), NEW j \in 1..Len(g), i < j
               PROVE  Before(g[i], g[j])
    OBVIOUS
  <2>1. i \in 1..Len(h) /\ g[i] = h[i] /\ Past(h[i], t, n)
    BY <1>1 DEF Fine
  <2>2. ASSUME j \in 1..Len(h) PROVE Before(g[i], g[j])
    BY <1>1, <2>1, <2>2 DEF Fine, Ordered
  <2>3. ASSUME j = Len(h) + 1 PROVE Before(g[i], g[j])
    BY <1>1, <2>1, <2>3 DEF Past, Before
  <2>4. j \in 1..Len(h) \/ j = Len(h) + 1
    BY <1>1
  <2> QED
    BY ONLY <2>2, <2>3, <2>4
<1> QED
  BY <1>2, <1>3 DEF Fine, Ordered, g

\* The transcript and the copies of it that may be put back.
Copies == {history, restore.hist, seen, sseen}
\* How far the present turn has written; what an ended turn wrote has no
\* number of its own any more.
Reach == IF pc = "idle" THEN PersistMax ELSE Len(persisted)
OrderInv == \A h \in Copies : Fine(h, turn, Reach)
FromCopies(g) == \E h \in Copies : Piece(g, h)

LEMMA CopiesTyped ==
  ASSUME TypeInv
  PROVE  /\ Copies \subseteq Seq(Message)
         /\ turn \in Nat /\ Reach \in Nat /\ Len(persisted) \in Nat
         /\ Len(persisted) <= Reach \/ pc # "idle"
BY HistoryConstants DEF TypeInv, TypeOK, Copies, Reach, RoomInv, Early

\* The steps of a turn but for its begin and its end.
TurnGoesOn ==
  \/ Register \/ Assemble \/ CheckBudget
  \/ CompressRead \/ CompressNote \/ CompressWrite \/ Refresh
  \/ PersistRoot \/ Iterate \/ InjectSteering
  \/ LLMAnswers \/ LLMCallsTool \/ LLMFails \/ LLMCancelled \/ LLMOverflows
  \/ ToolReturns \/ ToolsHandledResponse \/ FinalizeHandled \/ Finalize
  \/ AbortTurn \/ RestoreSummary

\* Within a turn messages are only written through Persist.
LEMMA TurnKeepsCount ==
  ASSUME TurnGoesOn
  PROVE  /\ turn' = turn /\ pc # "idle" /\ pc' # "idle"
         /\ \/ UNCHANGED persisted
            \/ \E role \in Roles : Persist(role)
<1>1. CASE Register \/ Assemble \/ CheckBudget \/ CompressRead \/ CompressWrite \/ Refresh
  BY <1>1 DEF Register, Assemble, CheckBudget, CompressRead, CompressWrite, Refresh, GoTo
<1>2. CASE Iterate \/ LLMAnswers \/ LLMFails \/ LLMCancelled \/ LLMOverflows
  BY <1>2 DEF Iterate, LLMAnswers, LLMFails, LLMCancelled, LLMOverflows, End, GoTo
<1>3. CASE FinalizeHandled \/ AbortTurn \/ RestoreSummary \/ CompressNote
  BY <1>3 DEF FinalizeHandled, AbortTurn, RestoreSummary, CompressNote, End, GoTo
<1>4. CASE PersistRoot \/ InjectSteering \/ LLMCallsTool
  BY <1>4 DEF PersistRoot, InjectSteering, LLMCallsTool, GoTo, Roles
<1>5. CASE ToolReturns \/ ToolsHandledResponse \/ Finalize
  BY <1>5 DEF ToolReturns, ToolsHandledResponse, Finalize, End, GoTo, Roles
<1> QED
  BY <1>1, <1>2, <1>3, <1>4, <1>5 DEF TurnGoesOn

\* Turn and number only grow.
LEMMA ReachGrows ==
  ASSUME TypeInv, TypeInv', Next
  PROVE  turn < turn' \/ (turn = turn' /\ Reach <= Reach')
<1>0. /\ turn \in Nat /\ Len(persisted) \in Nat /\ Len(persisted) <= PersistMax
      /\ PersistMax \in Nat
  BY HistoryConstants DEF TypeInv, TypeOK, RoomInv
<1>1. CASE NewTurn
  BY <1>0, <1>1 DEF NewTurn
<1>2. CASE ClearTurn
  BY <1>0, <1>2 DEF ClearTurn, NoTurnState, Reach
<1>3. CASE TurnGoesOn
  <2>1. CASE UNCHANGED persisted
    BY <1>0, <1>3, <2>1, TurnKeepsCount DEF Reach
  <2>2. ASSUME NEW role \in Roles, Persist(role) PROVE Len(persisted') = Len(persisted) + 1
    <3>1. persisted' = Append(persisted, [turn |-> turn, n |-> Len(persisted) + 1, role |-> role])
      BY <2>2 DEF Persist
    <3>2. persisted \in Seq(Message)
      BY DEF TypeInv, TypeOK
    <3> QED
      BY <3>1, <3>2
  <2> QED
    BY <1>0, <1>3, <2>1, <2>2, TurnKeepsCount DEF Reach
<1>4. CASE Summarise \/ Stop
  <2>1. UNCHANGED <<turn, pc, persisted>>
    BY <1>4
    DEF Summarise, Stop, SummariserReads, SummariserWrites, SummariserFails, SummariserTruncates,
        StopPending, StopRequests, StopReads, StopWrites, turnVars
  <2> QED
    BY <1>0, <2>1 DEF Reach
<1> QED
  BY <1>1, <1>2, <1>3, <1>4 DEF Next, TurnStep, TurnGoesOn

\* Where the copies come from.
LEMMA CopySources ==
  ASSUME TypeInv, Next
  PROVE  \A g \in {restore'.hist, seen', sseen'} : FromCopies(g)
<1>0. /\ history \in Seq(Message) /\ restore.hist \in Seq(Message) /\ persisted \in Seq(Message)
      /\ seen \in Seq(Message) /\ sseen \in Seq(Message)
  BY DEF TypeInv, TypeOK
<1>1. FromCopies(<<>>) /\ FromCopies(history) /\ FromCopies(restore.hist) /\ FromCopies(seen) /\ FromCopies(sseen)
  BY <1>0, PieceSelf, PieceEmpty DEF Copies, FromCopies
<1>2. FromCopies(Projected(history))
  BY <1>0, ProjectedIs, PieceSuffix DEF Copies, FromCopies
<1>3. FromCopies(SubSeq(history, 1, Len(history) - TailMatch(history, persisted)))
  <2>1. TailMatch(history, persisted) \in 0..Len(history)
    BY <1>0, TailMatchIs
  <2>2. Len(history) - TailMatch(history, persisted) \in 0..Len(history)
    BY <1>0, <2>1
  <2> QED
    BY <1>0, <2>2, PiecePrefix DEF Copies, FromCopies
<1>4. CASE NewTurn \/ ClearTurn
  BY <1>1, <1>4 DEF NewTurn, ClearTurn, NoTurnState, sVars
<1>5. CASE Assemble \/ Refresh
  <2>1. CASE Assemble
    <3>1. restore'.hist = Projected(history) /\ UNCHANGED <<seen, sseen>>
      BY <2>1 DEF Assemble, sVars
    <3> QED
      BY <1>1, <1>2, <3>1
  <2>2. CASE Refresh
    <3>1. /\ restore'.hist = SubSeq(history, 1, Len(history) - TailMatch(history, persisted))
          /\ UNCHANGED <<seen, sseen>>
      BY <2>2 DEF Refresh, sVars
    <3> QED
      BY <1>1, <1>3, <3>1
  <2> QED
    BY <1>5, <2>1, <2>2
<1>6. CASE CompressRead \/ CompressNote \/ CompressWrite \/ AbortTurn \/ RestoreSummary
  BY <1>1, <1>6
  DEF CompressRead, CompressNote, CompressWrite, AbortTurn, RestoreSummary, sVars
<1>7. CASE UNCHANGED <<restore, seen, sseen>>
  BY <1>1, <1>7
<1>8. Register \/ CheckBudget \/ Iterate \/ LLMAnswers \/ LLMFails \/ LLMCancelled \/ LLMOverflows
        => UNCHANGED <<restore, seen, sseen>>
  BY DEF Register, CheckBudget, Iterate, LLMAnswers, LLMFails, LLMCancelled, LLMOverflows, sVars
<1>9. FinalizeHandled \/ PersistRoot \/ InjectSteering \/ LLMCallsTool
        => UNCHANGED <<restore, seen, sseen>>
  BY DEF FinalizeHandled, PersistRoot, InjectSteering, LLMCallsTool, sVars
<1>10. ToolReturns \/ ToolsHandledResponse \/ Finalize => UNCHANGED <<restore, seen, sseen>>
  BY DEF ToolReturns, ToolsHandledResponse, Finalize, sVars
<1>11. Summarise => UNCHANGED <<restore, seen, sseen>>
  BY DEF Summarise, SummariserReads, SummariserWrites, SummariserFails, SummariserTruncates,
         turnVars, sVars
<1>12. StopPending \/ StopRequests => UNCHANGED <<restore, seen, sseen>>
  BY DEF StopPending, StopRequests, sVars
<1>13. CASE StopReads \/ StopWrites
  <2>1. UNCHANGED <<restore, seen>> /\ sseen' \in {history, <<>>}
    BY <1>13 DEF StopReads, StopWrites, turnVars
  <2> QED
    BY <1>1, <2>1
<1> QED
  BY <1>4, <1>5, <1>6, <1>7, <1>8, <1>9, <1>10, <1>11, <1>12, <1>13 DEF Next, TurnStep, Stop

\* The transcript is a piece of what was there, or has one message more.
LEMMA HistorySource ==
  ASSUME TypeInv, Next
  PROVE  \/ FromCopies(history')
         \/ /\ pc # "idle" /\ pc' # "idle" /\ turn' = turn /\ Len(persisted) < PersistMax
            /\ \E role \in Roles : Persist(role)
<1>0. /\ history \in Seq(Message) /\ restore.hist \in Seq(Message) /\ zkeep \in Nat
      /\ seen \in Seq(Message) /\ sseen \in Seq(Message) /\ sinitial \in Nat
  BY DEF TypeInv, TypeOK
<1>1. FromCopies(history) /\ FromCopies(restore.hist) /\ FromCopies(Compressed(seen))
  BY <1>0, PieceSelf, PieceCompressed DEF Copies, FromCopies
<1>2. FromCopies(LastN(history, zkeep))
  BY <1>0, LastNIs, PieceSuffix DEF Copies, FromCopies
<1>3. sinitial < Len(sseen) => FromCopies(SubSeq(sseen, 1, sinitial))
  BY <1>0, PiecePrefix DEF Copies, FromCopies
<1>a. /\ Len(persisted) \in Nat /\ PersistMax \in Nat \ {0, 1}
      /\ persisted = <<>> => Len(persisted) = 0
  BY HistoryConstants DEF TypeInv, TypeOK
<1>4. CASE NewTurn \/ ClearTurn \/ Register \/ Assemble \/ CheckBudget \/ CompressRead \/ Refresh
  BY <1>1, <1>4
  DEF NewTurn, ClearTurn, Register, Assemble, CheckBudget, CompressRead, Refresh, store
<1>5. CASE Iterate \/ LLMAnswers \/ LLMFails \/ LLMCancelled \/ LLMOverflows \/ FinalizeHandled
  BY <1>1, <1>5
  DEF Iterate, LLMAnswers, LLMFails, LLMCancelled, LLMOverflows, FinalizeHandled, store
<1>6. CASE CompressNote \/ CompressWrite \/ AbortTurn \/ RestoreSummary
  BY <1>1, <1>6 DEF CompressNote, CompressWrite, AbortTurn, RestoreSummary, RestoredHistory
<1>7. CASE PersistRoot
  <2>1. Persist("user") /\ Len(persisted) < PersistMax
    BY <1>7, <1>a DEF PersistRoot, TypeInv, RoomInv, Early
  <2> QED
    BY <1>7, <2>1, TurnKeepsCount DEF TurnGoesOn, Roles
<1>8. CASE InjectSteering
  <2>1. CASE Room(2) /\ Persist("user")
    BY <1>8, <1>a, <2>1, TurnKeepsCount DEF Room, TurnGoesOn, Roles
  <2>2. CASE UNCHANGED <<history, persisted, written>>
    BY <1>1, <2>2
  <2> QED
    BY <1>8, <2>1, <2>2 DEF InjectSteering
<1>9. CASE LLMCallsTool
  <2>1. Persist("call") /\ Len(persisted) < PersistMax
    BY <1>9, <1>a DEF LLMCallsTool, Room
  <2> QED
    BY <1>9, <2>1, TurnKeepsCount DEF TurnGoesOn, Roles
<1>10. CASE ToolReturns
  <2>1. CASE Persist("tool")
    <3>1. Len(persisted) < PersistMax
      BY <1>10, <1>a DEF ToolReturns, TypeInv, RoomInv
    <3> QED
      BY <1>10, <2>1, <3>1, TurnKeepsCount DEF TurnGoesOn, Roles
  <2>2. CASE UNCHANGED <<history, persisted, written>>
    BY <1>1, <2>2
  <2> QED
    BY <1>10, <2>1, <2>2 DEF ToolReturns
<1>11. CASE ToolsHandledResponse \/ Finalize
  <2>1. Persist("answer") /\ Len(persisted) < PersistMax
    BY <1>11 DEF ToolsHandledResponse, Finalize, TypeInv, RoomInv, Middle
  <2> QED
    BY <1>11, <2>1, TurnKeepsCount DEF TurnGoesOn, Roles
<1>12. CASE Summarise
  BY <1>1, <1>2, <1>12
  DEF Summarise, SummariserReads, SummariserWrites, SummariserFails, SummariserTruncates,
      Truncated, store
<1>13. CASE Stop
  BY <1>1, <1>3, <1>13 DEF Stop, StopPending, StopRequests, StopReads, StopWrites, store
<1> QED
  BY <1>4, <1>5, <1>6, <1>7, <1>8, <1>9, <1>10, <1>11, <1>12, <1>13 DEF Next, TurnStep

LEMMA InitOrdered == Init => OrderInv
  BY DEF Init, OrderInv, Copies, Fine, Ordered

LEMMA NextOrdered == TypeInv /\ TypeInv' /\ OrderInv /\ [Next]_vars => OrderInv'
<1> SUFFICES ASSUME TypeInv, TypeInv', OrderInv, [Next]_vars PROVE OrderInv'
  OBVIOUS
<1>1. CASE UNCHANGED vars
  BY <1>1 DEF vars, store, turnVars, sVars, OrderInv, Copies, Reach
<1>2. CASE Next
  <2>0. /\ Copies \subseteq Seq(Message) /\ turn \in Nat /\ Reach \in Nat
        /\ turn' \in Nat /\ Reach' \in Nat
        /\ history' \in Seq(Message) /\ restore'.hist \in Seq(Message)
        /\ seen' \in Seq(Message) /\ sseen' \in Seq(Message)
    <3>1. Copies \subseteq Seq(Message) /\ turn \in Nat /\ Reach \in Nat
      BY CopiesTyped
    <3>2. /\ turn' \in Nat /\ persisted' \in Seq(Message) /\ restore'.hist \in Seq(Message)
          /\ history' \in Seq(Message) /\ seen' \in Seq(Message) /\ sseen' \in Seq(Message)
      BY HistoryConstants DEF TypeInv, TypeOK
    <3>3. Reach' \in Nat
      BY <3>2, HistoryConstants DEF Reach
    <3> QED
      BY <3>1, <3>2, <3>3
  <2>1. ASSUME NEW g \in Seq(Message), NEW h \in Copies, Piece(g, h)
        PROVE  Fine(g, turn', Reach')
    <3>1. Fine(g, turn, Reach)
      BY <2>0, <2>1, FinePiece DEF OrderInv
    <3> QED
      BY <1>2, <2>0, <3>1, FineLater, ReachGrows
  <2>2. \A g \in {restore'.hist, seen', sseen'} : Fine(g, turn', Reach')
    BY <1>2, <2>0, <2>1, CopySources DEF FromCopies
  <2>3. Fine(history', turn', Reach')
    <3>1. CASE FromCopies(history')
      BY <2>0, <2>1, <3>1 DEF FromCopies
    <3>2. ASSUME pc # "idle", pc' # "idle", turn' = turn, Len(persisted) < PersistMax,
                 NEW role \in Roles, Persist(role)
          PROVE  Fine(history', turn', Reach')
      <4>1. /\ NextMessage(role) \in Message
            /\ history' = Append(history, NextMessage(role))
            /\ Len(persisted') = Len(persisted) + 1
        BY <3>2, PersistTyped
      <4>2. NextMessage(role).turn = turn /\ NextMessage(role).n = Len(persisted) + 1
        BY DEF NextMessage
      <4>3. /\ Fine(history, turn, Len(persisted)) /\ Reach' = Len(persisted) + 1
            /\ history \in Seq(Message) /\ Len(persisted) \in Nat
        BY <2>0, <3>2, <4>1 DEF OrderInv, Copies, Reach
      <4> QED
        BY <2>0, <3>2, <4>1, <4>2, <4>3, FineAppend
    <3> QED
      BY <1>2, <3>1, <3>2, HistorySource
  <2> QED
    BY <2>2, <2>3 DEF OrderInv, Copies
<1> QED
  BY <1>1, <1>2

LEMMA OrderCorrect == Spec => []OrderInv
  BY InitOrdered, NextOrdered, TypesCorrect, PTL DEF Spec

\* The transcript is in the order in which its messages were written, each of
\* them once, whatever compactions, stops and rollbacks overlap: no restriction
\* on the constants.
THEOREM HistoryOrderedCorrect == Spec => []HistoryOrdered
<1>1. TypeInv /\ OrderInv => HistoryOrdered
  <2> SUFFICES ASSUME TypeInv, OrderInv PROVE HistoryOrdered
    OBVIOUS
  <2>1. Ordered(history) /\ DOMAIN history = 1..Len(history)
    BY DEF TypeInv, TypeOK, OrderInv, Copies, Fine
  <2> QED
    BY <2>1 DEF Ordered, HistoryOrdered
<1> QED
  BY <1>1, TypesCorrect, OrderCorrect, PTL

-----------------------------------------------------------------------------
(* One writer at a time: the channel has no window, a turn waits for the    *)
(* summariser of the one before it, and no /stop has come so far.           *)

OneWriter == Window = 0 /\ Overlaps = {}

\* The summariser runs between the last message of a turn and the next turn.
QuietInv ==
  /\ ~hardAbort /\ ~pendingStop /\ pc \notin {"aborting", "restoring"} /\ spc = "idle"
  /\ zpc # "idle" => pc \in {"handledEnd", "done", "idle"}
  /\ pc \in {"write", "shorten"} => seen = history

\* The steps of a turn that leave transcript and summary alone.
Silent ==
  \/ NewTurn \/ Register \/ Assemble \/ CheckBudget \/ CompressRead \/ Refresh \/ Iterate
  \/ LLMAnswers \/ LLMFails \/ LLMCancelled \/ LLMOverflows \/ FinalizeHandled \/ ClearTurn

\* The steps that write a message, or may.
Writing ==
  \/ PersistRoot \/ InjectSteering \/ LLMCallsTool \/ ToolReturns
  \/ ToolsHandledResponse \/ Finalize

LEMMA SilentLeaves ==
  ASSUME Window = 0, Silent
  PROVE  UNCHANGED <<store, written, zVars>>
<1>1. ~NeedsCoverage(history)
  BY DEF NeedsCoverage
<1>2. CASE NewTurn \/ Register \/ Assemble \/ CheckBudget \/ CompressRead \/ Refresh
  BY <1>1, <1>2
  DEF NewTurn, Register, Assemble, CheckBudget, CompressRead, Refresh, ghosts, zVars, store
<1>3. CASE Iterate \/ LLMAnswers \/ LLMFails \/ LLMCancelled \/ LLMOverflows
  BY <1>3 DEF Iterate, LLMAnswers, LLMFails, LLMCancelled, LLMOverflows, ghosts, zVars, store
<1>4. CASE FinalizeHandled \/ ClearTurn
  BY <1>4 DEF FinalizeHandled, ClearTurn, ghosts, zVars, store
<1> QED
  BY <1>2, <1>3, <1>4 DEF Silent

LEMMA WritingWrites ==
  ASSUME TypeInv, Writing
  PROVE  /\ pc \in {"root", "inject", "llm", "tool", "handled", "finalize"}
         /\ UNCHANGED <<summary, zcut, zkeep, zold, turn>>
         /\ \/ UNCHANGED <<history, persisted, written, zpc>>
            \/ \E role \in Roles :
                 /\ Persist(role) /\ Len(persisted) < PersistMax
                 /\ role = "tool" => pc = "tool"
                 /\ role \in {"call", "answer"} => pc \in {"llm", "handled", "finalize"}
<1>0. /\ Len(persisted) \in Nat /\ PersistMax \in Nat \ {0, 1}
      /\ persisted = <<>> => Len(persisted) = 0
  BY HistoryConstants DEF TypeInv, TypeOK
<1>1. CASE PersistRoot
  <2>1. Persist("user") /\ Len(persisted) < PersistMax
    BY <1>0, <1>1 DEF PersistRoot, TypeInv, RoomInv, Early
  <2> QED
    BY <1>1, <2>1 DEF PersistRoot, zVars, Roles
<1>2. CASE InjectSteering
  BY <1>0, <1>2 DEF InjectSteering, Room, zVars, Roles
<1>3. CASE LLMCallsTool
  BY <1>0, <1>3 DEF LLMCallsTool, Room, zVars, Roles
<1>4. CASE ToolReturns
  <2>1. pc = "tool" /\ Len(persisted) < PersistMax
    BY <1>0, <1>4 DEF ToolReturns, TypeInv, RoomInv
  <2> QED
    BY <1>4, <2>1 DEF ToolReturns, zVars, Roles
<1>5. CASE ToolsHandledResponse \/ Finalize
  <2>1. pc \in {"handled", "finalize"} /\ Len(persisted) < PersistMax
    BY <1>0, <1>5 DEF ToolsHandledResponse, Finalize, TypeInv, RoomInv, Middle
  <2> QED
    BY <1>5, <2>1 DEF ToolsHandledResponse, Finalize, zVars, Roles
<1> QED
  BY <1>1, <1>2, <1>3, <1>4, <1>5 DEF Writing

LEMMA NextSplit ==
  Next => \/ Silent \/ Writing \/ CompressNote \/ CompressWrite \/ AbortTurn \/ RestoreSummary
          \/ Summarise \/ Stop
BY DEF Next, TurnStep, Silent, Writing

\* Who has been stopped is never forgotten.
LEMMA StoppedGrows == [Next]_vars /\ stopped' = {} => stopped = {}
<1> SUFFICES ASSUME [Next]_vars, stopped' = {} PROVE stopped = {}
  OBVIOUS
<1>1. CASE Silent \/ Writing
  BY <1>1
  DEF Silent, Writing, NewTurn, Register, Assemble, CheckBudget, CompressRead, Refresh, Iterate,
      LLMAnswers, LLMFails, LLMCancelled, LLMOverflows, FinalizeHandled, ClearTurn, ghosts,
      PersistRoot, InjectSteering, LLMCallsTool, ToolReturns, ToolsHandledResponse, Finalize
<1>2. CASE CompressNote \/ CompressWrite \/ AbortTurn \/ RestoreSummary \/ Summarise
  BY <1>2
  DEF CompressNote, CompressWrite, AbortTurn, RestoreSummary, Summarise, SummariserReads,
      SummariserWrites, SummariserFails, SummariserTruncates, ghosts
<1>3. CASE Stop \/ UNCHANGED vars
  BY <1>3 DEF Stop, StopPending, StopRequests, StopReads, StopWrites, ghosts, vars
<1> QED
  BY <1>1, <1>2, <1>3, NextSplit

LEMMA InitQuiet == Init => QuietInv
  BY DEF Init, QuietInv

LEMMA NextQuiet ==
  ASSUME OneWriter, TypeInv, QuietInv, [Next]_vars, stopped' = {}
  PROVE  QuietInv'
<1> USE DEF QuietInv, GoTo
<1>1. CASE UNCHANGED vars
  BY <1>1 DEF vars, store, turnVars, zVars, sVars
<1>2. CASE NewTurn
  BY <1>2 DEF NewTurn, Quiet, OneWriter, zVars, sVars, store
<1>3. CASE Register \/ CheckBudget \/ Iterate \/ LLMAnswers \/ LLMFails
  BY <1>3 DEF Register, CheckBudget, Iterate, LLMAnswers, LLMFails, End, zVars, sVars, store
<1>4. CASE Assemble \/ Refresh
  <2>1. UNCHANGED zVars
    BY <1>4, SilentLeaves DEF Silent, OneWriter
  <2> QED
    BY <1>4, <2>1 DEF Assemble, Refresh, zVars, sVars, store
<1>5. CASE CompressRead
  BY <1>5 DEF CompressRead, zVars, sVars, store
<1>6. CASE LLMCancelled \/ LLMOverflows \/ FinalizeHandled \/ AbortTurn \/ RestoreSummary
  BY <1>6 DEF LLMCancelled, LLMOverflows, FinalizeHandled, AbortTurn, RestoreSummary, End,
              zVars, sVars, store
<1>7. CASE ClearTurn
  BY <1>7 DEF ClearTurn, NoTurnState, zVars, sVars, store
<1>8. CASE CompressNote \/ CompressWrite
  BY <1>8 DEF CompressNote, CompressWrite, zVars, sVars
<1>9. CASE PersistRoot \/ InjectSteering \/ LLMCallsTool
  BY <1>9 DEF PersistRoot, InjectSteering, LLMCallsTool, zVars, sVars
<1>10. CASE ToolReturns
  BY <1>10 DEF ToolReturns, zVars, sVars
<1>11. CASE ToolsHandledResponse \/ Finalize
  BY <1>11 DEF ToolsHandledResponse, Finalize, End, sVars
<1>12. CASE Summarise
  <2>1. zpc # "idle" /\ UNCHANGED <<turnVars, sVars>>
    BY <1>12
    DEF Summarise, SummariserReads, SummariserWrites, SummariserFails, SummariserTruncates
  <2> QED
    BY <2>1 DEF turnVars, sVars
<1>13. CASE Stop
  <2>1. \E t : t \in stopped'
    BY <1>13 DEF Stop, StopPending, StopRequests, StopReads, StopWrites
  <2> QED
    BY <2>1
<1> QED
  BY <1>1, <1>2, <1>3, <1>4, <1>5, <1>6, <1>7, <1>8, <1>9, <1>10, <1>11, <1>12, <1>13
  DEF Next, TurnStep

LEMMA QuietCorrect ==
  ASSUME OneWriter
  PROVE  Spec => [](stopped = {} => QuietInv)
<1>1. TypeInv /\ (stopped = {} => QuietInv) /\ [Next]_vars => (stopped = {} => QuietInv)'
  BY NextQuiet, StoppedGrows
<1> QED
  BY <1>1, InitQuiet, TypesCorrect, PTL DEF Spec

-----------------------------------------------------------------------------
(* Tool calls.  With one writer every cut falls where a turn begins.        *)

Whole(h) ==
  \A i \in 1..Len(h) :
    /\ i = 1 => h[i].role = "user"
    /\ h[i].role = "tool" =>
         i > 1 /\ h[i - 1] = [turn |-> h[i].turn, n |-> h[i].n - 1, role |-> "call"]

\* The phases of the turn after its root message is written, but for the end.
Looping == {"iterate", "inject", "llm", "tool", "handled", "finalize"}
Compacting == {"read", "write", "shorten", "refresh"}

\* The summariser is about to cut the transcript as it read it.
CutInv ==
  zpc \in {"asking", "cutting"} =>
    /\ Len(zcut) \in 1..Len(history) /\ zcut = SubSeq(history, 1, Len(zcut))
    /\ zkeep = Len(history) - Len(zcut)
    /\ Len(zcut) \in Boundaries(history) \/ Len(zcut) = Len(history)

WholeInv ==
  /\ Whole(history)
  /\ pc \in Looping => persisted # <<>>
  /\ pc \in Looping \cup Compacting /\ persisted # <<>> => history # <<>>
  /\ pc = "tool" =>
       history[Len(history)] = [turn |-> turn, n |-> Len(persisted), role |-> "call"]
  /\ CutInv

LEMMA WholeSuffix ==
  ASSUME NEW h \in Seq(Message), Whole(h), NEW k \in Boundaries(h) \cup {Len(h)}
  PROVE  Whole(Suffix(h, k))
<1>1. k \in 0..Len(h)
  BY DEF Boundaries
<1>2. Len(Suffix(h, k)) = Len(h) - k /\ \A i \in 1..(Len(h) - k) : Suffix(h, k)[i] = h[k + i]
  BY <1>1, SuffixIs
<1>3. 1 \in 1..(Len(h) - k) => Suffix(h, k)[1].role = "user"
  BY <1>1, <1>2 DEF Boundaries
<1>4. ASSUME NEW i \in 1..(Len(h) - k), Suffix(h, k)[i].role = "tool"
      PROVE  /\ i > 1
             /\ Suffix(h, k)[i - 1] = [turn |-> Suffix(h, k)[i].turn,
                                       n |-> Suffix(h, k)[i].n - 1, role |-> "call"]
  <2>1. i > 1
    BY <1>3, <1>4
  <2>2. k + i \in 1..Len(h) /\ (k + i) - 1 = k + (i - 1) /\ i - 1 \in 1..(Len(h) - k)
    BY <1>1, <2>1
  <2> QED
    BY <1>2, <1>4, <2>1, <2>2 DEF Whole
<1> QED
  BY <1>2, <1>3, <1>4 DEF Whole

LEMMA WholeAppend ==
  ASSUME NEW h \in Seq(Message), NEW m \in Message, Whole(h),
         m.role \in {"call", "answer"} => h # <<>>,
         m.role = "tool" =>
           h # <<>> /\ h[Len(h)] = [turn |-> m.turn, n |-> m.n - 1, role |-> "call"]
  PROVE  Whole(Append(h, m))
<1>1. /\ Append(h, m) \in Seq(Message) /\ Len(Append(h, m)) = Len(h) + 1
      /\ \A i \in 1..Len(h) : Append(h, m)[i] = h[i]
      /\ Append(h, m)[Len(h) + 1] = m /\ Len(h) \in Nat
  BY AppendProperties
<1>2. m.role \in Roles /\ (h # <<>> => Len(h) \in 1..Len(h))
  BY DEF Message
<1>3. ASSUME NEW i \in 1..Len(h)
      PROVE  /\ i = 1 => Append(h, m)[i].role = "user"
             /\ Append(h, m)[i].role = "tool" =>
                  /\ i > 1
                  /\ Append(h, m)[i - 1] = [turn |-> Append(h, m)[i].turn,
                                            n |-> Append(h, m)[i].n - 1, role |-> "call"]
  <2>1. i > 1 => i - 1 \in 1..Len(h)
    OBVIOUS
  <2> QED
    BY <1>1, <2>1 DEF Whole
<1>4. /\ Len(h) + 1 = 1 => m.role = "user"
      /\ m.role = "tool" =>
           /\ Len(h) + 1 > 1
           /\ Append(h, m)[(Len(h) + 1) - 1] =
                [turn |-> m.turn, n |-> m.n - 1, role |-> "call"]
  BY <1>1, <1>2 DEF Roles
<1> QED
  BY <1>1, <1>3, <1>4 DEF Whole

\* A transcript that is whole begins with a turn, so something of it is left.
LEMMA WholeCompressed ==
  ASSUME NEW h \in Seq(Message), Whole(h)
  PROVE  Whole(Compressed(h)) /\ (h # <<>> => Compressed(h) # <<>>)
<1>1. h # <<>> => Boundaries(h) # {}
  <2>1. h # <<>> => 1 \in 1..Len(h) /\ 0 \in 0..(Len(h) - 1) /\ 0 + 1 = 1
    OBVIOUS
  <2>2. h # <<>> => h[0 + 1].role = "user"
    BY <2>1 DEF Whole
  <2>3. h # <<>> => 0 \in Boundaries(h)
    BY <2>1, <2>2 DEF Boundaries
  <2> QED
    BY <2>3
<1>2. CASE /\ Compressed(h) = Suffix(h, CompressionCut(h)) /\ CompressionCut(h) \in 0..Len(h)
           /\ CompressionCut(h) \in Boundaries(h) \/ Boundaries(h) = {}
  <2>1. CASE CompressionCut(h) \in Boundaries(h)
    <3>1. CompressionCut(h) < Len(h)
      BY <2>1 DEF Boundaries
    <3>2. Len(Compressed(h)) = Len(h) - CompressionCut(h)
      BY <1>2, SuffixIs
    <3>3. Compressed(h) # <<>>
      BY <1>2, <3>1, <3>2
    <3> QED
      BY <1>2, <2>1, <3>3, WholeSuffix
  <2>2. CASE Boundaries(h) = {}
    <3>1. h = <<>> /\ CompressionCut(h) = Len(h)
      BY <1>1, <1>2, <2>2
    <3> QED
      BY <1>2, <3>1, WholeSuffix
  <2> QED
    BY <1>2, <2>1, <2>2
<1>3. ASSUME NEW b \in Boundaries(h), b + 1 \in 1..Len(h), Compressed(h) = <<h[b + 1]>>
      PROVE  Whole(Compressed(h)) /\ Compressed(h) # <<>>
  <2>1. h[b + 1].role = "user"
    BY <1>3 DEF Boundaries
  <2> QED
    BY <1>3, <2>1 DEF Whole
<1>4. CASE Compressed(h) = <<>> /\ Boundaries(h) = {}
  BY <1>1, <1>4 DEF Whole
<1> QED
  BY <1>2, <1>3, <1>4, CompressedIs

LEMMA InitWhole == Init => WholeInv
  BY DEF Init, WholeInv, Whole, Looping, Compacting, CutInv

LEMMA WholeSilent ==
  ASSUME OneWriter, TypeInv, QuietInv, WholeInv, Silent
  PROVE  WholeInv'
<1>1. UNCHANGED <<history, zVars>>
  BY SilentLeaves DEF OneWriter, store
<1>2. Whole(history)' /\ CutInv'
  BY <1>1 DEF WholeInv, CutInv, zVars
<1>3. CASE NewTurn \/ Register \/ Assemble \/ CheckBudget \/ CompressRead \/ Refresh
  <2>1. persisted' = persisted /\ turn' \in {turn, turn + 1} /\ pc' # "tool"
    BY <1>3 DEF NewTurn, Register, Assemble, CheckBudget, CompressRead, Refresh, GoTo
  <2>2. /\ pc' \in Looping => persisted' # <<>>
        /\ pc' \in Looping \cup Compacting /\ persisted' # <<>> => pc \in Compacting
    BY <1>3, <2>1
    DEF NewTurn, Register, Assemble, CheckBudget, CompressRead, Refresh, GoTo,
        TypeInv, RoomInv, Early, Looping, Compacting
  <2> QED
    BY <1>1, <1>2, <2>1, <2>2 DEF WholeInv
<1>4. CASE Iterate \/ LLMAnswers \/ LLMFails \/ LLMCancelled \/ LLMOverflows
  <2>1. persisted' = persisted /\ pc' # "tool" /\ pc \in Looping
    BY <1>4 DEF Iterate, LLMAnswers, LLMFails, LLMCancelled, LLMOverflows, GoTo, End, Looping
  <2> QED
    BY <1>1, <1>2, <2>1 DEF WholeInv
<1>5. CASE FinalizeHandled \/ ClearTurn
  <2>1. pc' \notin Looping \cup Compacting
    BY <1>5 DEF FinalizeHandled, ClearTurn, NoTurnState, GoTo, End, Looping, Compacting
  <2> QED
    BY <1>2, <2>1 DEF WholeInv, Looping
<1> QED
  BY <1>3, <1>4, <1>5 DEF Silent

LEMMA WholeWriting ==
  ASSUME OneWriter, TypeInv, QuietInv, WholeInv, Writing
  PROVE  WholeInv'
<1>0. /\ history \in Seq(Message) /\ persisted \in Seq(Message)
      /\ pc \in {"root", "inject", "llm", "tool", "handled", "finalize"}
      /\ (zpc = "idle" /\ pc \in Looping) \/ pc = "root"
  BY WritingWrites DEF TypeInv, TypeOK, QuietInv, Looping
<1>1. CutInv'
  <2>1. zpc' \in {"idle", "start"}
    BY <1>0
    DEF Writing, PersistRoot, InjectSteering, LLMCallsTool, ToolReturns,
        ToolsHandledResponse, Finalize, StartSummariser, zVars, QuietInv
  <2> QED
    BY <2>1 DEF CutInv
<1>2. CASE UNCHANGED <<history, persisted, written, zpc>>
  <2>1. pc \in {"inject", "tool"} /\ pc' # "tool"
    <3>1. \A role \in Roles : ~Persist(role)
      <4>1. Len(persisted') = Len(persisted)
        BY <1>2
      <4>2. \A m : Len(Append(persisted, m)) = Len(persisted) + 1 /\ Len(persisted) \in Nat
        BY <1>0, AppendProperties
      <4> QED
        BY <4>1, <4>2 DEF Persist
    <3> QED
      BY <3>1
      DEF Writing, PersistRoot, InjectSteering, LLMCallsTool, ToolReturns,
          ToolsHandledResponse, Finalize, GoTo, Roles
  <2> QED
    BY <1>1, <1>2, <2>1 DEF WholeInv, Looping
<1>3. ASSUME NEW role \in Roles, Persist(role), Len(persisted) < PersistMax,
             role = "tool" => pc = "tool",
             role \in {"call", "answer"} => pc \in {"llm", "handled", "finalize"},
             UNCHANGED turn
      PROVE  WholeInv'
  <2> DEFINE m == NextMessage(role)
  <2>1. /\ m \in Message /\ history' = Append(history, m) /\ history' \in Seq(Message)
        /\ persisted' = Append(persisted, m) /\ Len(persisted') = Len(persisted) + 1
    BY <1>0, <1>3, PersistTyped
  <2>2. /\ m.role = role /\ m.turn = turn /\ m.n = Len(persisted) + 1
        /\ Len(persisted) \in Nat
    BY <1>0 DEF NextMessage
  <2>3. m.role \in {"call", "answer", "tool"} => history # <<>>
    BY <1>3, <2>2 DEF WholeInv, Looping
  <2>4. m.role = "tool" =>
          history[Len(history)] = [turn |-> m.turn, n |-> m.n - 1, role |-> "call"]
    BY <1>3, <2>2 DEF WholeInv
  <2>5. Whole(history)'
    <3> HIDE DEF m
    <3> QED
      BY <1>0, <2>1, <2>3, <2>4, WholeAppend DEF WholeInv
  <2>6. history' # <<>> /\ persisted' # <<>> /\ history'[Len(history')] = m
    <3> HIDE DEF m
    <3>1. Len(Append(history, m)) = Len(history) + 1 /\ Append(history, m)[Len(history) + 1] = m
      BY <1>0, <2>1, AppendProperties
    <3> QED
      BY <1>0, <2>1, <3>1, AppendProperties
  <2>7. pc' = "tool" => m = [turn |-> turn', n |-> Len(persisted'), role |-> "call"]
    <3>1. pc' = "tool" => role = "call"
      <4>1. \A r \in Roles : Persist(r) => r = role
        <5>1. ASSUME NEW r \in Roles, Persist(r) PROVE r = role
          <6>1. Append(persisted, NextMessage(r)) = Append(persisted, NextMessage(role))
            BY <1>3, <5>1 DEF Persist, NextMessage
          <6>2. /\ Append(persisted, NextMessage(r))[Len(persisted) + 1] = NextMessage(r)
                /\ Append(persisted, NextMessage(role))[Len(persisted) + 1] = NextMessage(role)
            <7>1. NextMessage(r) \in Message /\ NextMessage(role) \in Message
              BY <1>0, <1>3, <5>1, PersistTyped
            <7> QED
              BY <1>0, <7>1, AppendProperties
          <6>3. NextMessage(r).role = NextMessage(role).role
            BY <6>1, <6>2
          <6> QED
            BY <6>3 DEF NextMessage
        <5> QED
          BY <5>1
      <4>2. pc' = "tool" => Persist("call")
        BY DEF Writing, PersistRoot, InjectSteering, LLMCallsTool, ToolReturns,
               ToolsHandledResponse, Finalize, GoTo, End
      <4> QED
        BY <4>1, <4>2 DEF Roles
    <3> QED
      BY <1>3, <2>1, <2>2, <3>1 DEF NextMessage
  <2> QED
    BY <1>1, <2>5, <2>6, <2>7 DEF WholeInv
<1> QED
  BY <1>2, <1>3, WritingWrites

LEMMA WholeSummarise ==
  ASSUME OneWriter, TypeInv, QuietInv, WholeInv, Summarise
  PROVE  WholeInv'
<1>0. /\ history \in Seq(Message) /\ zcut \in Seq(Message) /\ Len(history) \in Nat
      /\ zpc # "idle" /\ pc \notin Looping \cup Compacting /\ UNCHANGED <<pc, persisted, turn>>
  <2>1. zpc # "idle" /\ UNCHANGED <<pc, persisted, turn>>
    BY DEF Summarise, SummariserReads, SummariserWrites, SummariserFails, SummariserTruncates, turnVars
  <2> QED
    BY <2>1 DEF TypeInv, TypeOK, QuietInv, Looping, Compacting
<1>1. CASE SummariserReads
  <2> DEFINE cut == SafeBoundary(history, Len(history) - KeepTail)
  <2>1. /\ cut \in 0..Len(history)
        /\ cut = 0 \/ cut = Len(history) \/ cut \in Boundaries(history) \/ Boundaries(history) = {}
    <3>1. Len(history) - KeepTail \in Int
      BY <1>0, HistoryConstants
    <3> QED
      BY <1>0, <3>1, SafeBoundaryIs
  <2>2. history # <<>> => Boundaries(history) # {}
    <3>1. history # <<>> => 1 \in 1..Len(history) /\ 0 \in 0..(Len(history) - 1) /\ 0 + 1 = 1
      BY <1>0
    <3>2. history # <<>> => history[0 + 1].role = "user"
      BY <3>1 DEF WholeInv, Whole
    <3>3. history # <<>> => 0 \in Boundaries(history)
      BY <3>1, <3>2 DEF Boundaries
    <3> QED
      BY <3>3
  <2>3. cut = 0 \/ cut = Len(history) \/ cut \in Boundaries(history)
    BY <1>0, <2>1, <2>2
  <2>4. CASE zpc' = "asking"
    <3>1. cut > 0 /\ zcut' = SubSeq(history, 1, cut) /\ zkeep' = Len(history) - cut
      <4>1. ~(Len(history) <= KeepTail \/ cut <= 0)
        BY <1>1, <2>4 DEF SummariserReads
      <4>2. cut > 0
        <5> HIDE DEF cut
        <5> QED
          BY <1>0, <2>1, <4>1
      <4>3. zcut' = SubSeq(history, 1, cut) /\ zkeep' = KeepCount(history, cut)
        BY <1>1, <2>4 DEF SummariserReads
      <4> QED
        BY <4>2, <4>3 DEF KeepCount
    <3>2. Len(SubSeq(history, 1, cut)) = cut
      BY <1>0, <2>1, PrefixIs
    <3> HIDE DEF cut
    <3>3. Len(zcut') = cut /\ cut \in 1..Len(history) /\ history' = history
      BY <1>0, <1>1, <2>1, <3>1, <3>2 DEF SummariserReads, store
    <3>4. CutInv'
      BY <2>3, <3>1, <3>3 DEF CutInv
    <3> QED
      BY <1>0, <3>3, <3>4 DEF WholeInv, Looping
  <2>5. CASE zpc' # "asking"
    <3>1. zpc' = "idle" /\ history' = history
      BY <1>1, <2>5 DEF SummariserReads, store
    <3> QED
      BY <1>0, <3>1 DEF WholeInv, CutInv, Looping
  <2> QED
    BY <2>4, <2>5
<1>2. CASE SummariserWrites \/ SummariserFails
  BY <1>0, <1>2 DEF SummariserWrites, SummariserFails, WholeInv, CutInv, Looping, store
<1>3. CASE SummariserTruncates
  <2>1. CutInv' /\ zpc = "cutting"
    BY <1>3 DEF SummariserTruncates, CutInv
  <2>2. /\ Len(zcut) \in 1..Len(history) /\ zkeep = Len(history) - Len(zcut)
        /\ Len(zcut) \in Boundaries(history) \cup {Len(history)}
    BY <2>1 DEF WholeInv, CutInv
  <2>3. history' = Suffix(history, Len(zcut))
    <3>1. zkeep \in Nat /\ ~(zkeep >= Len(history)) /\ Len(history) - zkeep = Len(zcut)
      BY <1>0, <2>2
    <3> QED
      BY <1>3, <3>1 DEF SummariserTruncates, Truncated, LastN
  <2>4. Whole(history')
    BY <1>0, <2>2, <2>3, WholeSuffix DEF WholeInv
  <2> QED
    BY <1>0, <2>1, <2>4 DEF WholeInv, Looping
<1> QED
  BY <1>1, <1>2, <1>3 DEF Summarise

LEMMA NextWhole ==
  ASSUME OneWriter, TypeInv, QuietInv, WholeInv, [Next]_vars, stopped' = {}
  PROVE  WholeInv'
<1>1. CASE UNCHANGED vars
  BY <1>1 DEF vars, store, turnVars, zVars, WholeInv, CutInv
<1>2. CASE CompressWrite
  <2>1. seen = history /\ history \in Seq(Message) /\ zpc = "idle" /\ pc \in Compacting
    BY <1>2 DEF CompressWrite, TypeInv, TypeOK, QuietInv, Compacting
  <2>2. Whole(history') /\ (history # <<>> => history' # <<>>)
    BY <1>2, <2>1, WholeCompressed DEF CompressWrite, WholeInv
  <2>3. pc' = "refresh" /\ persisted' = persisted /\ zpc' = "idle"
    BY <1>2, <2>1 DEF CompressWrite, GoTo, zVars
  <2> QED
    BY <2>1, <2>2, <2>3 DEF WholeInv, CutInv, Looping
<1>3. CASE CompressNote
  BY <1>3 DEF CompressNote, GoTo, WholeInv, CutInv, Looping, Compacting, zVars
<1>4. ~AbortTurn /\ ~RestoreSummary /\ ~Stop
  <2>1. Stop => spc # "idle" \/ \E t : t \in stopped'
    BY DEF Stop, StopPending, StopRequests, StopReads, StopWrites
  <2> QED
    BY <2>1 DEF QuietInv, AbortTurn, RestoreSummary
<1> QED
  BY <1>1, <1>2, <1>3, <1>4, NextSplit, WholeSilent, WholeWriting, WholeSummarise

\* On every channel without a window, and when the summariser ends before the next
\* turn begins, no cut tears a tool interaction as long as no /stop has come: for
\* any thresholds, wherever the turns compress.
THEOREM ToolCallsWholeCorrect ==
  ASSUME OneWriter
  PROVE  Spec => []ToolCallsWhole
<1>1. /\ TypeInv /\ (stopped = {} => QuietInv) /\ (stopped = {} => WholeInv) /\ [Next]_vars
      => (stopped = {} => WholeInv)'
  BY NextWhole, StoppedGrows
<1>2. TypeInv /\ (stopped = {} => WholeInv) => ToolCallsWhole
  BY DEF TypeInv, TypeOK, WholeInv, Whole, ToolCallsWhole
<1> QED
  BY <1>1, <1>2, InitWhole, QuietCorrect, TypesCorrect, PTL DEF Spec

-----------------------------------------------------------------------------
(* Rollback.  Whatever compaction does to the transcript, the messages of   *)
(* the turn under way stand at its end, so that abortTurn and HardAbort     *)
(* find and remove them, unless compaction took some of them (Marked).      *)

Intact == ~Marked(turn, "own")
Grown == ~Marked(turn, "short")
After == {"idle", "restoring", "done"}

\* h holds nothing of the present turn; nothing of it up to position k.
NoOwn(h) == \A i \in 1..Len(h) : h[i].turn # turn
Behind(h, k) == \A i \in 1..Len(h) : h[i].turn = turn => i > k
\* A copy that has a message of the turn has the one the turn wrote.
Mine(h) == \A i \in 1..Len(h) : h[i].turn = turn => h[i] = persisted[h[i].n]
\* The turn's messages are the last of h, and the last it wrote.
AtEnd(h) ==
  \A i \in 1..Len(h) : h[i].turn = turn => h[i].n = Len(persisted) - (Len(h) - i)
\* Turns that ended before have left nothing in h.
Clean(h) ==
  \A i \in 1..Len(h) :
    h[i].turn < turn /\ outcome[h[i].turn] = "aborted" => Marked(h[i].turn, "own")

MineInv ==
  /\ \A i \in 1..Len(persisted) : persisted[i].turn = turn /\ persisted[i].n = i
  /\ pc # "idle" => \A c \in Copies : Mine(c)

OldInv == \A c \in Copies : Clean(c)

\* What is in use when.
EmptyInv ==
  /\ pc \notin {"write", "shorten"} => seen = <<>>
  /\ pc = "idle" => restore.hist = <<>>
  /\ spc # "writing" => sseen = <<>>
  /\ spc # "idle" /\ pc # "idle" => sinitial = initial

MarksInv ==
  /\ \A t \in 1..TurnMax, k \in Marks : Marked(t, k) => t <= turn
  /\ ~Intact => ~Grown

OutcomeInv ==
  /\ \A t \in 1..TurnMax : t > turn => outcome[t] = "none"
  /\ pc \notin {"idle", "done"} => outcome[turn] = "none"

GivenUp == pc = "restoring" \/ (turn > 0 /\ outcome[turn] = "aborted")
TailInv ==
  Intact => /\ pc # "idle" => AtEnd(history) /\ AtEnd(seen)
            /\ NoOwn(restore.hist)
            /\ GivenUp => NoOwn(history)

\* HardAbort's length falls before the turn's first message.
LengthInv ==
  /\ Grown /\ pc # "idle" => Behind(history, initial)
  /\ Grown /\ spc # "idle" => Behind(history, sinitial)
  /\ Grown /\ pc \notin After => Len(history) >= initial
  /\ Intact /\ spc = "writing" => Behind(sseen, sinitial)

AbortInv ==
  MineInv /\ OldInv /\ EmptyInv /\ MarksInv /\ OutcomeInv /\ TailInv /\ LengthInv

LEMMA InitAbort == Init => AbortInv
BY DEF Init, AbortInv, MineInv, OldInv, EmptyInv, MarksInv, OutcomeInv, GivenUp, TailInv,
       LengthInv, Copies, Mine, AtEnd, Clean, Behind, NoOwn, Marked, Intact, Grown, After

\* Pieces of a copy inherit what is said of single messages.
LEMMA PieceMine ==
  ASSUME NEW g, NEW h, Piece(g, h), Len(g) \in Nat, Len(h) \in Nat
  PROVE  (Mine(h) => Mine(g)) /\ (Clean(h) => Clean(g))
<1>1. PICK a \in 0..Len(h) : Len(g) + a <= Len(h) /\ \A i \in 1..Len(g) : g[i] = h[a + i]
  BY DEF Piece
<1>2. \A i \in 1..Len(g) : a + i \in 1..Len(h) /\ g[i] = h[a + i]
  BY <1>1
<1>3. ASSUME Mine(h) PROVE Mine(g)
  BY <1>2, <1>3 DEF Mine
<1>4. ASSUME Clean(h) PROVE Clean(g)
  BY <1>2, <1>4 DEF Clean
<1> QED
  BY <1>3, <1>4

LEMMA SuffixAtEnd ==
  ASSUME NEW h \in Seq(Message), NEW m \in 0..Len(h), Len(persisted) \in Nat
  PROVE  /\ AtEnd(h) => AtEnd(Suffix(h, m))
         /\ NoOwn(h) => NoOwn(Suffix(h, m))
<1>1. /\ Suffix(h, m) \in Seq(Message) /\ Len(Suffix(h, m)) = Len(h) - m
      /\ \A i \in 1..(Len(h) - m) : Suffix(h, m)[i] = h[m + i]
  BY SuffixIs
<1>2. PICK g : g = Suffix(h, m)
  OBVIOUS
<1>3. /\ g \in Seq(Message) /\ Len(g) = Len(h) - m
      /\ \A i \in 1..(Len(h) - m) : g[i] = h[m + i]
  BY <1>1, <1>2
<1>4. Len(h) \in Nat
  OBVIOUS
<1>5. \A i \in 1..Len(g) : m + i \in 1..Len(h) /\ Len(h) - (m + i) = Len(g) - i /\ g[i] = h[m + i]
  BY <1>3, <1>4
<1>6. AtEnd(h) => AtEnd(g)
  BY <1>5 DEF AtEnd
<1>7. NoOwn(h) => NoOwn(g)
  BY <1>5 DEF NoOwn
<1> QED
  BY <1>2, <1>6, <1>7

LEMMA PrefixOwn ==
  ASSUME NEW h \in Seq(Message), NEW k \in 0..Len(h)
  PROVE  (NoOwn(h) \/ Behind(h, k)) => NoOwn(SubSeq(h, 1, k))
<1>1. /\ Len(SubSeq(h, 1, k)) = k /\ Len(h) \in Nat
      /\ \A i \in 1..k : i \in 1..Len(h) /\ SubSeq(h, 1, k)[i] = h[i]
  BY PrefixIs
<1> QED
  BY <1>1 DEF NoOwn, Behind

\* Steps that leave transcript, copies and lengths alone.
LEMMA AbortStill ==
  ASSUME TypeInv, AbortInv,
         UNCHANGED <<history, restore, seen, sseen, persisted, marks, turn, initial, sinitial, spc>>,
         pc = "idle" <=> pc' = "idle",
         pc' = "restoring" => pc = "restoring",
         pc \in After => pc' \in After,
         pc \in {"write", "shorten"} => pc' \in {"write", "shorten"},
         \/ outcome' = outcome /\ (pc = "done" <=> pc' = "done")
         \/ \E st : /\ outcome' = [outcome EXCEPT ![turn] = st]
                    /\ pc' = "done" /\ pc \notin {"idle", "done"}
                    /\ st = "aborted" => pc = "restoring"
  PROVE  AbortInv'
<1>0. /\ outcome \in [1..TurnMax -> {"none", "completed", "error", "aborted"}]
      /\ turn \in Nat /\ (pc # "idle" => turn \in 1..TurnMax)
      /\ Copies \subseteq Seq(Message)
  BY CopiesTyped DEF TypeInv, TypeOK, RoomInv
<1>1. \A t \in 1..TurnMax : t # turn => outcome'[t] = outcome[t]
  BY <1>0
<1>2. MineInv'
  BY DEF AbortInv, MineInv, Copies, Mine
<1>3. OldInv'
  <2> SUFFICES ASSUME NEW c \in Copies, NEW i \in 1..Len(c),
                      c[i].turn < turn, outcome'[c[i].turn] = "aborted"
               PROVE  Marked(c[i].turn, "own")
    BY DEF OldInv, Clean, Copies, Marked
  <2>1. c \in Seq(Message) /\ c[i] \in Message
    BY <1>0
  <2>2. c[i].turn \in 1..TurnMax /\ c[i].turn # turn
    BY <1>0, <2>1 DEF Message
  <2>3. outcome[c[i].turn] = "aborted"
    BY <1>1, <2>2
  <2> QED
    BY <2>3 DEF AbortInv, OldInv, Clean
<1>4. EmptyInv'
  BY DEF AbortInv, EmptyInv
<1>5. MarksInv'
  BY DEF AbortInv, MarksInv, Intact, Grown, Marked
<1>6. OutcomeInv'
  <2>1. \A t \in 1..TurnMax : t > turn => outcome'[t] = "none"
    BY <1>0, <1>1 DEF AbortInv, OutcomeInv
  <2>2. pc' \notin {"idle", "done"} => outcome'[turn] = "none"
    BY DEF AbortInv, OutcomeInv
  <2> QED
    BY <2>1, <2>2 DEF OutcomeInv
<1>7. GivenUp' => GivenUp
  BY <1>0 DEF GivenUp
<1>8. TailInv'
  BY <1>7 DEF AbortInv, TailInv, AtEnd, NoOwn, Intact, Marked
<1>9. LengthInv'
  BY DEF AbortInv, LengthInv, Behind, Intact, Grown, Marked
<1> QED
  BY <1>2, <1>3, <1>4, <1>5, <1>6, <1>8, <1>9 DEF AbortInv

\* The turn writes a message.
LEMMA AbortPersist ==
  ASSUME TypeInv, OrderInv, AbortInv, NEW role \in Roles, Persist(role),
         Len(persisted) < PersistMax, pc \notin {"write", "shorten"} \cup After,
         UNCHANGED <<restore, seen, sseen, marks, turn, initial, sinitial, spc>>,
         pc' \notin {"write", "shorten", "idle", "restoring"},
         \/ outcome' = outcome /\ pc' # "done"
         \/ outcome' = [outcome EXCEPT ![turn] = "completed"] /\ pc' = "done"
  PROVE  AbortInv'
<1> DEFINE m == NextMessage(role)
<1>0. /\ outcome \in [1..TurnMax -> {"none", "completed", "error", "aborted"}]
      /\ turn \in 1..TurnMax /\ turn \in Nat /\ pc # "idle" /\ initial \in Nat /\ sinitial \in Nat
      /\ history \in Seq(Message) /\ persisted \in Seq(Message) /\ sseen \in Seq(Message)
      /\ restore.hist \in Seq(Message) /\ seen = <<>>
      /\ Len(history) \in Nat /\ Len(persisted) \in Nat
  BY DEF TypeInv, TypeOK, RoomInv, AbortInv, EmptyInv, After
<1>1. /\ m \in Message /\ history' = Append(history, m) /\ persisted' = Append(persisted, m)
      /\ m.turn = turn /\ m.n = Len(persisted) + 1
  BY <1>0, PersistTyped DEF NextMessage, After
<1> HIDE DEF m
<1>2. /\ Len(history') = Len(history) + 1 /\ Len(persisted') = Len(persisted) + 1
      /\ history'[Len(history) + 1] = m /\ persisted'[Len(persisted) + 1] = m
      /\ \A i \in 1..Len(history) : history'[i] = history[i]
      /\ \A i \in 1..Len(persisted) : persisted'[i] = persisted[i]
  BY <1>0, <1>1, AppendProperties
<1>3. \A i \in 1..Len(history') : i \in 1..Len(history) \/ i = Len(history) + 1
  BY <1>0, <1>2
<1>4. \A t \in 1..TurnMax : t # turn => outcome'[t] = outcome[t]
  BY <1>0
<1>5. outcome'[turn] # "aborted"
  BY <1>0 DEF AbortInv, OutcomeInv, After
<1>6. MineInv'
  <2>1. \A i \in 1..Len(persisted') : persisted'[i].turn = turn /\ persisted'[i].n = i
    BY <1>0, <1>1, <1>2 DEF AbortInv, MineInv
  <2>2. \A c \in Copies : \A i \in 1..Len(c) :
          c[i].turn = turn => c[i].n \in 1..Len(persisted)
    <3> SUFFICES ASSUME NEW c \in Copies, NEW i \in 1..Len(c), c[i].turn = turn
                 PROVE  c[i].n \in 1..Len(persisted)
      OBVIOUS
    <3>1. Past(c[i], turn, Len(persisted)) /\ c \in Seq(Message)
      BY <1>0, CopiesTyped DEF OrderInv, Fine, Reach
    <3>2. c[i].n \in Nat \ {0}
      <4>1. c[i] \in Message
        BY <3>1
      <4> QED
        BY <4>1, HistoryConstants DEF Message
    <3> QED
      BY <1>0, <3>1, <3>2 DEF Past
  <2>3. \A c \in Copies : \A i \in 1..Len(c) : c[i].turn = turn => c[i] = persisted'[c[i].n]
    BY <1>0, <1>2, <2>2 DEF AbortInv, MineInv, Mine
  <2>4. Mine(restore.hist)' /\ Mine(seen)' /\ Mine(sseen)'
    BY <2>3 DEF Mine, Copies
  <2>5. Mine(history)'
    <3>1. \A i \in 1..Len(history) : history[i].turn = turn => history[i] = persisted'[history[i].n]
      BY <2>3 DEF Copies
    <3>2. history'[Len(history) + 1] = persisted'[m.n]
      BY <1>1, <1>2
    <3>3. \A i \in 1..Len(history') :
            history'[i].turn = turn => history'[i] = persisted'[history'[i].n]
      <4> SUFFICES ASSUME NEW i \in 1..Len(history'), history'[i].turn = turn
                   PROVE  history'[i] = persisted'[history'[i].n]
        OBVIOUS
      <4>1. CASE i \in 1..Len(history)
        BY <1>2, <3>1, <4>1
      <4>2. CASE i = Len(history) + 1
        BY <1>2, <3>2, <4>2
      <4> QED
        BY <1>3, <4>1, <4>2
    <3> QED
      BY <3>3 DEF Mine
  <2> QED
    BY <2>1, <2>4, <2>5 DEF MineInv, Copies
<1>7. OldInv'
  <2>1. \A c \in Copies : Clean(c)'
    <3> SUFFICES ASSUME NEW c \in Copies, NEW i \in 1..Len(c),
                        c[i].turn < turn, outcome'[c[i].turn] = "aborted"
                 PROVE  Marked(c[i].turn, "own")
      BY DEF Clean, Marked
    <3>1. c[i] \in Message
      BY CopiesTyped
    <3>2. c[i].turn \in 1..TurnMax /\ c[i].turn # turn
      BY <1>0, <3>1 DEF Message
    <3>3. outcome[c[i].turn] = "aborted"
      BY <1>4, <3>2
    <3> QED
      BY <3>3 DEF AbortInv, OldInv, Clean
  <2>2. Clean(restore.hist)' /\ Clean(seen)' /\ Clean(sseen)'
    BY <2>1 DEF Clean, Copies, Marked
  <2>3. Clean(history)'
    BY <1>0, <1>1, <1>2, <1>3, <2>1 DEF Clean, Copies, Marked
  <2> QED
    BY <2>2, <2>3 DEF OldInv, Copies
<1>8. EmptyInv'
  BY <1>0 DEF AbortInv, EmptyInv
<1>9. MarksInv'
  BY DEF AbortInv, MarksInv, Intact, Grown, Marked
<1>10. OutcomeInv'
  <2>1. \A t \in 1..TurnMax : t > turn => outcome'[t] = "none"
    BY <1>0, <1>4 DEF AbortInv, OutcomeInv
  <2>2. pc' \notin {"idle", "done"} => outcome'[turn] = "none"
    BY DEF AbortInv, OutcomeInv, After
  <2> QED
    BY <2>1, <2>2 DEF OutcomeInv
<1>11. TailInv'
  <2>1. ~GivenUp'
    BY <1>5 DEF GivenUp
  <2>2. ASSUME Intact PROVE AtEnd(history)'
    <3>1. \A i \in 1..Len(history) :
            history[i].turn = turn => history[i].n = Len(persisted) - (Len(history) - i)
      BY <1>0, <2>2 DEF AbortInv, TailInv, AtEnd
    <3>2. \A i \in 1..Len(history) :
            history'[i].turn = turn => history'[i].n = Len(persisted') - (Len(history') - i)
      BY <1>0, <1>2, <3>1
    <3>3. history'[Len(history) + 1].n = Len(persisted') - (Len(history') - (Len(history) + 1))
      BY <1>0, <1>1, <1>2
    <3>4. \A i \in 1..Len(history') :
            history'[i].turn = turn => history'[i].n = Len(persisted') - (Len(history') - i)
      BY <1>3, <3>2, <3>3
    <3> QED
      BY <3>4 DEF AtEnd
  <2>3. AtEnd(seen)'
    BY <1>0 DEF AtEnd
  <2>4. Intact => NoOwn(restore.hist)'
    BY DEF AbortInv, TailInv, NoOwn
  <2> QED
    BY <2>1, <2>2, <2>3, <2>4 DEF TailInv, Intact, Marked
<1>12. LengthInv'
  <2>1. Grown => Len(history') >= initial /\ Behind(history, initial)'
    BY <1>0, <1>1, <1>2, <1>3 DEF AbortInv, LengthInv, Behind, After
  <2>2. spc # "idle" => sinitial = initial
    BY <1>0 DEF AbortInv, EmptyInv
  <2>3. Intact /\ spc = "writing" => Behind(sseen, sinitial)'
    BY <1>0 DEF AbortInv, LengthInv, Behind
  <2> QED
    BY <2>1, <2>2, <2>3 DEF LengthInv, Behind, Intact, Grown, Marked
<1> QED
  BY <1>6, <1>7, <1>8, <1>9, <1>10, <1>11, <1>12 DEF AbortInv

LEMMA LastPart ==
  ASSUME NEW S, NEW h \in Seq(S), NEW k \in 0..Len(h)
  PROVE  /\ Suffix(h, Len(h) - k) \in Seq(S) /\ Len(Suffix(h, Len(h) - k)) = k
         /\ \A j \in 1..k : Suffix(h, Len(h) - k)[j] = h[(Len(h) - k) + j]
<1>1. PICK m \in 0..Len(h) : m = Len(h) - k /\ Len(h) - m = k
  OBVIOUS
<1> QED
  BY <1>1, SuffixIs

\* The turn's messages at the end of the transcript are those that match.
LEMMA TailTakesOwn ==
  ASSUME TypeInv, OrderInv, MineInv, pc # "idle", AtEnd(history)
  PROVE  NoOwn(SubSeq(history, 1, Len(history) - TailMatch(history, persisted)))
<1> DEFINE h == history
           p == persisted
           tail == TailMatch(h, p)
<1>0. h \in Seq(Message) /\ p \in Seq(Message) /\ Len(h) \in Nat /\ Len(p) \in Nat /\ turn \in Nat
  BY DEF TypeInv, TypeOK
<1>1. tail \in 0..Len(h)
  BY <1>0, TailMatchIs
<1>2. ASSUME NEW i \in 1..Len(h), h[i].turn = turn
      PROVE  tail >= Len(h) - i + 1
  <2> DEFINE k == Len(h) - i + 1
  <2>1. h[i].n \in Nat \ {0} /\ h[i].n = Len(p) - (Len(h) - i)
    <3>1. h[i] \in Message
      BY <1>0
    <3> QED
      BY <1>2, <3>1, HistoryConstants DEF Message, AtEnd
  <2>2. k \in 1..Len(p) /\ k \in 1..Len(h)
    BY <1>0, <2>1
  <2>3. \A j \in 1..Len(h) : j >= i => h[j] = p[Len(p) - (Len(h) - j)]
    <3> SUFFICES ASSUME NEW j \in 1..Len(h), j >= i PROVE h[j] = p[Len(p) - (Len(h) - j)]
      OBVIOUS
    <3>1. h[j].turn \in Nat /\ h[j].n \in Nat /\ h[i].n \in Nat
      BY <1>0, NumbersOf
    <3>2. j # i => Before(h[i], h[j])
      BY DEF OrderInv, Fine, Ordered, Copies
    <3>3. Past(h[j], turn, Reach)
      BY DEF OrderInv, Fine, Copies
    <3>4. h[j].turn = turn
      BY <1>0, <1>2, <3>1, <3>2, <3>3 DEF Before, Past
    <3> QED
      BY <3>4 DEF AtEnd, MineInv, Mine, Copies
  <2>4. LastN(h, k) = LastN(p, k)
    <3>1. /\ LastN(h, k) = Suffix(h, Len(h) - k) /\ LastN(p, k) = Suffix(p, Len(p) - k)
      <4>1. k >= Len(h) => Len(h) - k = 0 /\ h = Suffix(h, 0)
        BY <1>0, <2>2, SuffixOfAll
      <4>2. k >= Len(p) => Len(p) - k = 0 /\ p = Suffix(p, 0)
        BY <1>0, <2>2, SuffixOfAll
      <4> QED
        BY <4>1, <4>2 DEF LastN
    <3> HIDE DEF k
    <3>3. /\ Suffix(h, Len(h) - k) \in Seq(Message) /\ Len(Suffix(h, Len(h) - k)) = k
          /\ \A j \in 1..k : Suffix(h, Len(h) - k)[j] = h[(Len(h) - k) + j]
      BY <1>0, <2>2, LastPart
    <3>4. /\ Suffix(p, Len(p) - k) \in Seq(Message) /\ Len(Suffix(p, Len(p) - k)) = k
          /\ \A j \in 1..k : Suffix(p, Len(p) - k)[j] = p[(Len(p) - k) + j]
      BY <1>0, <2>2, LastPart
    <3>5. \A j \in 1..k : h[(Len(h) - k) + j] = p[(Len(p) - k) + j]
      <4> SUFFICES ASSUME NEW j \in 1..k PROVE h[(Len(h) - k) + j] = p[(Len(p) - k) + j]
        OBVIOUS
      <4>1. /\ (Len(h) - k) + j \in 1..Len(h) /\ (Len(h) - k) + j >= i
            /\ Len(p) - (Len(h) - ((Len(h) - k) + j)) = (Len(p) - k) + j
        BY <1>0, <2>2 DEF k
      <4> QED
        BY <2>3, <4>1
    <3> QED
      BY <3>1, <3>3, <3>4, <3>5, SeqEqual
  <2> HIDE DEF k
  <2>5. k \in {0} \cup {q \in 1..Len(p) : q <= Len(h) /\ LastN(h, q) = LastN(p, q)}
    BY <2>2, <2>4
  <2>6. {0} \cup {q \in 1..Len(p) : q <= Len(h) /\ LastN(h, q) = LastN(p, q)} \subseteq 0..Len(p)
    BY <1>0
  <2>7. tail >= k
    BY <1>0, <2>5, <2>6, LargestIn DEF TailMatch
  <2> QED
    BY <2>7 DEF k
<1>3. Len(h) - tail \in 0..Len(h)
  BY <1>0, <1>1
<1>4. Behind(h, Len(h) - tail)
  BY <1>0, <1>1, <1>2 DEF Behind
<1> QED
  BY <1>0, <1>3, <1>4, PrefixOwn

\* Assemble and Refresh move the restore point to a piece without the turn.
LEMMA AbortRestorePoint ==
  ASSUME TypeInv, OrderInv, AbortInv, Assemble \/ Refresh
  PROVE  AbortInv'
<1>0. /\ history \in Seq(Message) /\ persisted \in Seq(Message) /\ turn \in Nat /\ turn \in 1..TurnMax
      /\ Len(history) \in Nat /\ Len(persisted) \in Nat
      /\ TailMatch(history, persisted) \in 0..Len(history)
  <2>1. history \in Seq(Message) /\ persisted \in Seq(Message) /\ turn \in Nat /\ turn \in 1..TurnMax
    BY DEF TypeInv, TypeOK, RoomInv, Assemble, Refresh
  <2> QED
    BY <2>1, TailMatchIs
<1>1. /\ pc \in {"setup", "refresh"} /\ pc' \in {"budget", "root", "llm"}
      /\ UNCHANGED <<history, seen, sseen, persisted, marks, turn, initial, sinitial, spc, outcome>>
  BY DEF Assemble, Refresh, GoTo, store, sVars, ghosts
<1>2. Piece(restore'.hist, history) /\ restore'.hist \in Seq(Message)
  <2>1. CASE Assemble
    <3>1. PICK k \in 0..Len(history) : Projected(history) = Suffix(history, k)
      BY <1>0, ProjectedIs
    <3> QED
      BY <1>0, <2>1, <3>1, PieceSuffix, SuffixIs DEF Assemble
  <2>2. CASE Refresh
    <3>1. Len(history) - TailMatch(history, persisted) \in 0..Len(history)
      BY <1>0
    <3> QED
      BY <1>0, <2>2, <3>1, PiecePrefix, PrefixIs DEF Refresh
  <2> QED
    BY <2>1, <2>2
<1>3. Mine(restore'.hist) /\ Clean(restore'.hist)
  <2>1. Mine(history) /\ Clean(history)
    BY <1>1 DEF AbortInv, MineInv, OldInv, Copies
  <2>2. Len(restore'.hist) \in Nat
    BY <1>2
  <2> QED
    BY <1>0, <1>2, <2>1, <2>2, PieceMine
<1>4. Intact => NoOwn(restore'.hist)
  <2>1. CASE Assemble
    <3>1. persisted = <<>> /\ Reach = 0
      BY <2>1 DEF Assemble, TypeInv, RoomInv, Early, Reach
    <3>2. Fine(restore'.hist, turn, 0)
      BY <1>0, <1>2, <3>1, FinePiece DEF OrderInv, Copies
    <3>3. \A i \in 1..Len(restore'.hist) : restore'.hist[i].turn # turn
      <4> SUFFICES ASSUME NEW i \in 1..Len(restore'.hist) PROVE restore'.hist[i].turn # turn
        OBVIOUS
      <4>1. restore'.hist[i] \in Message
        BY <1>2
      <4>2. restore'.hist[i].turn \in Nat /\ restore'.hist[i].n \in Nat \ {0}
        BY <4>1, HistoryConstants DEF Message
      <4> QED
        BY <1>0, <3>2, <4>2 DEF Fine, Past
    <3> QED
      BY <3>3 DEF NoOwn
  <2>2. CASE Refresh
    <3>1. Intact => AtEnd(history)
      BY <1>1 DEF AbortInv, TailInv
    <3>2. Intact => NoOwn(SubSeq(history, 1, Len(history) - TailMatch(history, persisted)))
      BY <1>1, <3>1, TailTakesOwn DEF AbortInv
    <3> QED
      BY <2>2, <3>2 DEF Refresh
  <2> QED
    BY <2>1, <2>2
<1>5. MineInv'
  BY <1>1, <1>3 DEF AbortInv, MineInv, Mine, Copies
<1>6. OldInv'
  BY <1>1, <1>3 DEF AbortInv, OldInv, Clean, Copies, Marked
<1>7. EmptyInv' /\ MarksInv' /\ OutcomeInv'
  BY <1>1 DEF AbortInv, EmptyInv, MarksInv, OutcomeInv, Intact, Grown, Marked
<1>8. TailInv'
  <2>1. ~GivenUp'
    BY <1>1 DEF AbortInv, OutcomeInv, GivenUp
  <2>2. Intact => AtEnd(history)' /\ AtEnd(seen)'
    BY <1>1 DEF AbortInv, TailInv, AtEnd
  <2> QED
    BY <1>1, <1>4, <2>1, <2>2 DEF TailInv, NoOwn, Intact, Marked
<1>9. LengthInv'
  BY <1>1 DEF AbortInv, LengthInv, Behind, Intact, Grown, Marked, After
<1> QED
  BY <1>5, <1>6, <1>7, <1>8, <1>9 DEF AbortInv

LEMMA AbortCompressRead ==
  ASSUME TypeInv, AbortInv, CompressRead
  PROVE  AbortInv'
<1>1. CASE seen' = seen
  BY <1>1, AbortStill DEF CompressRead, GoTo, After, store, zVars, sVars, ghosts
<1>2. CASE seen' = history /\ pc' = "write"
  <2>1. /\ pc = "read"
        /\ UNCHANGED <<history, restore, sseen, persisted, marks, turn, initial, sinitial, spc, outcome>>
    BY <1>2 DEF CompressRead, store, sVars, ghosts
  <2>2. MineInv' /\ OldInv'
    BY <1>2, <2>1 DEF AbortInv, MineInv, Mine, OldInv, Clean, Copies, Marked
  <2>3. EmptyInv' /\ MarksInv' /\ OutcomeInv'
    BY <1>2, <2>1 DEF AbortInv, EmptyInv, MarksInv, OutcomeInv, Intact, Grown, Marked
  <2>4. ~GivenUp'
    BY <1>2, <2>1 DEF AbortInv, OutcomeInv, GivenUp
  <2>5. TailInv'
    BY <1>2, <2>1, <2>4 DEF AbortInv, TailInv, AtEnd, NoOwn, Intact, Marked
  <2>6. LengthInv'
    BY <1>2, <2>1 DEF AbortInv, LengthInv, Behind, Intact, Grown, Marked, After
  <2> QED
    BY <2>2, <2>3, <2>5, <2>6 DEF AbortInv
<1> QED
  BY <1>1, <1>2 DEF CompressRead, GoTo

\* What Shorten marks.
LEMMA ShortenMarks ==
  ASSUME TypeInv, NEW h, Shorten(h)
  PROVE  /\ \A t, k : Marked(t, k) => <<t, k>> \in marks'
         /\ \A t, k : <<t, k>> \in marks' /\ t # turn => Marked(t, k)
         /\ pc # "idle" \/ spc # "idle" => <<turn, "short">> \in marks'
         /\ pc = "idle" /\ spc = "idle" => marks' = marks
         /\ <<turn, "own">> \notin marks' => Intact /\ Range(persisted) \subseteq Range(h)
<1>1. pc = "idle" => Range(persisted) = {}
  <2>1. pc = "idle" => persisted = <<>>
    BY DEF TypeInv, RoomInv, Early
  <2> QED
    BY <2>1 DEF Range
<1>2. pc = "idle" /\ spc = "idle" => marks' = marks
  BY <1>1 DEF Shorten
<1> QED
  BY <1>2 DEF Shorten, Marked, Intact

LEMMA AbortCompressWrite ==
  ASSUME TypeInv, OrderInv, AbortInv, CompressWrite
  PROVE  AbortInv'
<1>0. /\ seen \in Seq(Message) /\ persisted \in Seq(Message) /\ turn \in Nat
      /\ Len(seen) \in Nat /\ Len(persisted) \in Nat
      /\ Compressed(seen) \in Seq(Message) /\ Len(Compressed(seen)) \in Nat
  <2>1. seen \in Seq(Message) /\ persisted \in Seq(Message) /\ turn \in Nat
    BY DEF TypeInv, TypeOK
  <2>2. Compressed(seen) \in Seq(Message)
    BY <2>1, CompressedTyped
  <2> QED
    BY <2>1, <2>2
<1>1. /\ pc = "shorten" /\ pc' = "refresh" /\ seen' = <<>> /\ history' = Compressed(seen)
      /\ Shorten(Compressed(seen))
      /\ UNCHANGED <<restore, sseen, persisted, turn, initial, sinitial, spc, outcome>>
  BY DEF CompressWrite, GoTo, sVars
<1>2. /\ \A t, k : Marked(t, k) => Marked(t, k)'
      /\ \A t, k : Marked(t, k)' /\ t # turn => Marked(t, k)
      /\ ~Grown'
      /\ Intact' => Intact /\ Range(persisted) \subseteq Range(Compressed(seen))
  BY <1>1, ShortenMarks DEF Marked, Grown, Intact
<1>3. Mine(Compressed(seen)) /\ Clean(Compressed(seen))
  <2>1. Mine(seen) /\ Clean(seen)
    BY <1>1 DEF AbortInv, MineInv, OldInv, Copies
  <2> QED
    BY <1>0, <2>1, PieceCompressed, PieceMine
<1>4. Intact' => AtEnd(Compressed(seen))
  <2>1. Intact' => AtEnd(seen)
    BY <1>1, <1>2 DEF AbortInv, TailInv
  <2>2. CASE Compressed(seen) = Suffix(seen, CompressionCut(seen)) /\ CompressionCut(seen) \in 0..Len(seen)
    BY <1>0, <2>1, <2>2, SuffixAtEnd
  <2>3. ASSUME NEW m \in Message, Compressed(seen) = <<m>>, Intact'
        PROVE  AtEnd(Compressed(seen))
    <3>1. ASSUME m.turn = turn PROVE m.n = Len(persisted)
      <4>1. \A i \in 1..Len(persisted) : persisted[i] = m
        <5>1. Range(<<m>>) = {m}
          BY DEF Range
        <5> QED
          BY <1>0, <1>2, <2>3, <5>1 DEF Range
      <4>2. \A i \in 1..Len(persisted) : persisted[i].n = i
        BY DEF AbortInv, MineInv
      <4>3. Past(m, turn, Len(persisted)) /\ m.n \in Nat \ {0}
        <5>1. Fine(Compressed(seen), turn, Reach)
          <6>1. Fine(seen, turn, Reach) /\ Reach = Len(persisted)
            BY <1>1 DEF OrderInv, Copies, Reach
          <6> QED
            BY <1>0, <6>1, PieceCompressed, FinePiece
        <5>2. 1 \in 1..Len(Compressed(seen)) /\ Compressed(seen)[1] = m
          BY <2>3
        <5>3. Past(m, turn, Reach) /\ Reach = Len(persisted)
          BY <1>1, <5>1, <5>2 DEF Fine, Reach
        <5> QED
          BY <5>3, HistoryConstants DEF Message
      <4>4. m.n \in 1..Len(persisted)
        BY <1>0, <3>1, <4>3 DEF Past
      <4>5. Len(persisted) \in 1..Len(persisted)
        BY <1>0, <4>4
      <4> QED
        BY <4>1, <4>2, <4>5
    <3> QED
      BY <1>0, <2>3, <3>1 DEF AtEnd
  <2>4. CASE Compressed(seen) = <<>>
    BY <2>4 DEF AtEnd
  <2>5. \A b : b + 1 \in 1..Len(seen) => seen[b + 1] \in Message
    BY <1>0
  <2> QED
    BY <1>0, <2>2, <2>3, <2>4, <2>5, CompressedIs
<1>5. MineInv'
  BY <1>1, <1>3 DEF AbortInv, MineInv, Mine, Copies
<1>6. OldInv'
  BY <1>1, <1>2, <1>3 DEF AbortInv, OldInv, Clean, Copies
<1>7. EmptyInv' /\ OutcomeInv'
  BY <1>1 DEF AbortInv, EmptyInv, OutcomeInv
<1>8. MarksInv'
  BY <1>0, <1>1, <1>2 DEF AbortInv, MarksInv
<1>9. TailInv'
  <2>1. ~GivenUp'
    BY <1>1 DEF AbortInv, OutcomeInv, GivenUp
  <2>2. Intact' => AtEnd(history)' /\ AtEnd(seen)' /\ NoOwn(restore.hist)'
    BY <1>1, <1>2, <1>4 DEF AbortInv, TailInv, AtEnd, NoOwn
  <2> QED
    BY <2>1, <2>2 DEF TailInv
<1>10. LengthInv'
  BY <1>1, <1>2 DEF AbortInv, LengthInv, Behind
<1> QED
  BY <1>5, <1>6, <1>7, <1>8, <1>9, <1>10 DEF AbortInv

LEMMA AbortTruncate ==
  ASSUME TypeInv, OrderInv, AbortInv, SummariserTruncates
  PROVE  AbortInv'
<1>0. /\ history \in Seq(Message) /\ persisted \in Seq(Message) /\ turn \in Nat /\ zkeep \in Nat
      /\ Len(history) \in Nat /\ Len(persisted) \in Nat
  BY DEF TypeInv, TypeOK
<1>1. UNCHANGED <<pc, restore, seen, sseen, persisted, turn, initial, sinitial, spc, outcome>>
  BY DEF SummariserTruncates, turnVars, sVars
<1>2. CASE UNCHANGED <<history, marks>>
  BY <1>1, <1>2, AbortStill
<1>3. CASE Shorten(history')
  <2>1. PICK m \in 0..Len(history) : history' = Suffix(history, m)
    <3>1. history' = LastN(history, zkeep)
      BY DEF SummariserTruncates, Truncated
    <3> QED
      BY <1>0, <3>1, LastNIs
  <2>2. /\ \A t, k : Marked(t, k) => Marked(t, k)'
        /\ \A t, k : Marked(t, k)' /\ t # turn => Marked(t, k)
        /\ pc # "idle" \/ spc # "idle" => ~Grown'
        /\ pc = "idle" /\ spc = "idle" => marks' = marks
        /\ Intact' => Intact
    BY <1>1, <1>3, ShortenMarks DEF Marked, Grown, Intact
  <2>3. Mine(history) => Mine(history')
    BY <1>0, <2>1, PieceSuffix, PieceMine, SuffixIs
  <2>4. Clean(history) => Clean(history')
    BY <1>0, <2>1, PieceSuffix, PieceMine, SuffixIs
  <2>5. /\ AtEnd(history) => AtEnd(history')
        /\ NoOwn(history) => NoOwn(history')
    BY <1>0, <2>1, SuffixAtEnd
  <2>6. MineInv'
    BY <1>1, <2>3 DEF AbortInv, MineInv, Mine, Copies
  <2>7. OldInv'
    BY <1>1, <2>2, <2>4 DEF AbortInv, OldInv, Clean, Copies
  <2>8. EmptyInv' /\ OutcomeInv'
    BY <1>1 DEF AbortInv, EmptyInv, OutcomeInv
  <2>9. MarksInv'
    <3>1. CASE pc = "idle" /\ spc = "idle"
      BY <1>1, <2>2, <3>1 DEF AbortInv, MarksInv, Intact, Grown, Marked
    <3>2. CASE ~(pc = "idle" /\ spc = "idle")
      BY <1>0, <1>1, <2>2, <3>2 DEF AbortInv, MarksInv
    <3> QED
      BY <3>1, <3>2
  <2>10. TailInv'
    <3>1. Intact' => TailInv /\ Intact /\ (GivenUp' => GivenUp)
      BY <1>1, <2>2 DEF AbortInv, GivenUp
    <3>2. Intact' /\ pc # "idle" => AtEnd(history)' /\ AtEnd(seen)'
      BY <1>1, <2>5, <3>1 DEF TailInv, AtEnd
    <3>3. Intact' => NoOwn(restore.hist)'
      BY <1>1, <3>1 DEF TailInv, NoOwn
    <3>4. Intact' /\ GivenUp' => NoOwn(history)'
      BY <1>1, <2>5, <3>1 DEF TailInv, NoOwn
    <3> QED
      BY <1>1, <3>2, <3>3, <3>4 DEF TailInv
  <2>11. LengthInv'
    <3>1. Intact' /\ spc = "writing" => Behind(sseen, sinitial)'
      BY <1>1, <2>2 DEF AbortInv, LengthInv, Behind
    <3> QED
      BY <1>1, <2>2, <3>1 DEF LengthInv, After
  <2> QED
    BY <2>6, <2>7, <2>8, <2>9, <2>10, <2>11 DEF AbortInv
<1> QED
  BY <1>2, <1>3 DEF SummariserTruncates

\* abortTurn puts back a transcript without the turn.
LEMMA AbortAborts ==
  ASSUME TypeInv, AbortInv, AbortTurn
  PROVE  AbortInv'
<1>1. /\ pc = "aborting" /\ pc' = "restoring" /\ history' = restore.hist
      /\ UNCHANGED <<restore, seen, sseen, persisted, marks, turn, initial, sinitial, spc, outcome>>
  BY DEF AbortTurn, RestoredHistory, GoTo, sVars, ghosts
<1>2. Intact => NoOwn(history')
  BY <1>1 DEF AbortInv, TailInv
<1>3. Grown => Intact
  BY DEF AbortInv, MarksInv
<1>4. MineInv'
  BY <1>1 DEF AbortInv, MineInv, Mine, Copies
<1>5. OldInv'
  BY <1>1 DEF AbortInv, OldInv, Clean, Copies, Marked
<1>6. EmptyInv' /\ MarksInv' /\ OutcomeInv'
  BY <1>1 DEF AbortInv, EmptyInv, MarksInv, OutcomeInv, Intact, Grown, Marked
<1>7. TailInv'
  BY <1>1, <1>2 DEF AbortInv, TailInv, AtEnd, NoOwn, Intact, Marked
<1>8. LengthInv'
  BY <1>1, <1>2, <1>3 DEF AbortInv, LengthInv, Behind, NoOwn, Intact, Grown, Marked, After
<1> QED
  BY <1>4, <1>5, <1>6, <1>7, <1>8 DEF AbortInv

\* A turn begins when HardAbort is done with the one before it.
LEMMA AbortNewTurn ==
  ASSUME "stopper" \notin Overlaps, TypeInv, OrderInv, AbortInv, NewTurn
  PROVE  AbortInv'
<1>0. /\ history \in Seq(Message) /\ turn \in Nat /\ turn + 1 \in 1..TurnMax
      /\ Len(history) \in Nat /\ persisted = <<>> /\ Len(persisted) = 0
  BY HistoryConstants DEF TypeInv, TypeOK, RoomInv, Early, NewTurn
<1>1. /\ pc = "idle" /\ pc' = "created" /\ turn' = turn + 1 /\ spc = "idle"
      /\ seen = <<>> /\ sseen = <<>> /\ restore'.hist = history /\ initial' = Len(history)
      /\ UNCHANGED <<history, seen, sseen, persisted, marks, sinitial, spc, outcome>>
  BY DEF NewTurn, Quiet, InitialLength, GoTo, AbortInv, EmptyInv, store, sVars, ghosts
<1>2. \A i \in 1..Len(history) :
        /\ history[i].turn \in 1..TurnMax /\ history[i].turn <= turn
  <2> SUFFICES ASSUME NEW i \in 1..Len(history)
               PROVE  history[i].turn \in 1..TurnMax /\ history[i].turn <= turn
    OBVIOUS
  <2>1. history[i] \in Message
    BY <1>0
  <2>2. Past(history[i], turn, Reach)
    BY DEF OrderInv, Copies, Fine
  <2> QED
    BY <1>0, <2>1, <2>2 DEF Past, Message
<1>3. NoOwn(history)'
  BY <1>0, <1>1, <1>2 DEF NoOwn
<1>4. \A k \in Marks : ~Marked(turn + 1, k)
  BY <1>0 DEF AbortInv, MarksInv
<1>5. MineInv'
  BY <1>0, <1>1, <1>3 DEF MineInv, Mine, NoOwn, Copies
<1>6. OldInv'
  <2>1. \A i \in 1..Len(history) :
          outcome[history[i].turn] = "aborted" => Marked(history[i].turn, "own")
    <3> SUFFICES ASSUME NEW i \in 1..Len(history), outcome[history[i].turn] = "aborted"
                 PROVE  Marked(history[i].turn, "own")
      OBVIOUS
    <3>1. CASE history[i].turn < turn
      BY <3>1 DEF AbortInv, OldInv, Copies, Clean
    <3>2. CASE history[i].turn = turn
      <4>1. GivenUp
        BY <1>2, <3>2 DEF GivenUp
      <4> QED
        BY <3>2, <4>1 DEF AbortInv, TailInv, NoOwn, Intact
    <3> QED
      BY <1>0, <1>2, <3>1, <3>2
  <2> QED
    BY <1>1, <2>1 DEF OldInv, Clean, Copies, Marked
<1>7. EmptyInv'
  BY <1>1 DEF EmptyInv
<1>8. MarksInv'
  <2>1. \A t \in 1..TurnMax, k \in Marks : Marked(t, k)' => t <= turn'
    BY <1>0, <1>1 DEF AbortInv, MarksInv, Marked
  <2>2. Intact'
    BY <1>1, <1>4 DEF Intact, Marked, Marks
  <2> QED
    BY <2>1, <2>2 DEF MarksInv
<1>9. OutcomeInv'
  BY <1>0, <1>1 DEF AbortInv, OutcomeInv
<1>10. TailInv'
  <2>1. ~GivenUp'
    BY <1>0, <1>1 DEF AbortInv, OutcomeInv, GivenUp
  <2> QED
    BY <1>1, <1>3, <2>1 DEF TailInv, AtEnd, NoOwn
<1>11. LengthInv'
  BY <1>0, <1>1, <1>3 DEF LengthInv, Behind, NoOwn
<1> QED
  BY <1>5, <1>6, <1>7, <1>8, <1>9, <1>10, <1>11 DEF AbortInv

LEMMA AbortClear ==
  ASSUME TypeInv, AbortInv, ClearTurn
  PROVE  AbortInv'
<1>1. /\ pc = "done" /\ pc' = "idle" /\ restore'.hist = <<>> /\ persisted' = <<>> /\ seen' = <<>>
      /\ UNCHANGED <<history, sseen, marks, turn, sinitial, spc, outcome>>
  BY DEF ClearTurn, NoTurnState, store, sVars, ghosts
<1>2. MineInv'
  BY <1>1 DEF MineInv
<1>3. OldInv'
  BY <1>1 DEF AbortInv, OldInv, Clean, Copies, Marked
<1>4. EmptyInv' /\ MarksInv' /\ OutcomeInv'
  BY <1>1 DEF AbortInv, EmptyInv, MarksInv, OutcomeInv, Intact, Grown, Marked
<1>5. TailInv'
  BY <1>1 DEF AbortInv, TailInv, GivenUp, NoOwn, Intact, Marked
<1>6. LengthInv'
  BY <1>1 DEF AbortInv, LengthInv, Behind, Intact, Grown, Marked, After
<1> QED
  BY <1>2, <1>3, <1>4, <1>5, <1>6 DEF AbortInv

LEMMA AbortStop ==
  ASSUME TypeInv, AbortInv, Stop
  PROVE  AbortInv'
<1>0. /\ sseen \in Seq(Message) /\ sinitial \in Nat /\ turn \in Nat /\ Len(sseen) \in Nat
      /\ (spc # "idle" => turn \in 1..TurnMax)
  BY DEF TypeInv, TypeOK, RoomInv
<1>1. CASE StopPending
  BY <1>1, AbortStill DEF StopPending, zVars, sVars, store
<1>2. CASE StopRequests
  <2>1. /\ pc # "idle" /\ spc = "idle" /\ spc' = "requested" /\ sinitial' = initial
        /\ UNCHANGED <<history, restore, seen, sseen, persisted, marks, turn, pc, initial, outcome>>
    BY <1>2 DEF StopRequests, store
  <2>2. MineInv' /\ OldInv'
    BY <2>1 DEF AbortInv, MineInv, Mine, OldInv, Clean, Copies, Marked
  <2>3. EmptyInv' /\ MarksInv' /\ OutcomeInv'
    BY <2>1 DEF AbortInv, EmptyInv, MarksInv, OutcomeInv, Intact, Grown, Marked
  <2>4. TailInv'
    BY <2>1 DEF AbortInv, TailInv, GivenUp, AtEnd, NoOwn, Intact, Marked
  <2>5. LengthInv'
    BY <2>1 DEF AbortInv, LengthInv, Behind, Intact, Grown, Marked, After
  <2> QED
    BY <2>2, <2>3, <2>4, <2>5 DEF AbortInv
<1>3. CASE StopReads
  <2>1. /\ spc = "requested" /\ spc' = "writing" /\ sseen' = history
        /\ UNCHANGED <<history, restore, seen, persisted, turn, pc, initial, sinitial, outcome>>
    BY <1>3 DEF StopReads, store, turnVars
  <2>2. /\ \A t, k : Marked(t, k) => Marked(t, k)'
        /\ \A t, k : Marked(t, k)' => Marked(t, k) \/ t = turn
        /\ Intact' => Intact /\ Grown
        /\ ~Grown => ~Grown'
        /\ Grown => marks' = marks
    <3>1. CASE Grown
      <4>1. marks' = marks
        BY <1>3, <3>1 DEF StopReads, Grown
      <4> QED
        BY <2>1, <3>1, <4>1 DEF Marked, Intact, Grown
    <3>2. CASE ~Grown
      <4>1. marks' = marks \cup {<<turn, "own">>}
        BY <1>3, <3>2 DEF StopReads, Grown
      <4> QED
        BY <2>1, <3>2, <4>1 DEF Marked, Intact, Grown
    <3> QED
      BY <3>1, <3>2
  <2>3. MineInv'
    BY <2>1 DEF AbortInv, MineInv, Mine, Copies
  <2>4. OldInv'
    BY <2>1, <2>2 DEF AbortInv, OldInv, Clean, Copies
  <2>5. EmptyInv' /\ OutcomeInv'
    BY <2>1 DEF AbortInv, EmptyInv, OutcomeInv
  <2>6. MarksInv'
    <3>1. \A t \in 1..TurnMax, k \in Marks : Marked(t, k)' => t <= turn
      BY <1>0, <2>1, <2>2 DEF AbortInv, MarksInv
    <3>2. ~Intact' => ~Grown'
      BY <2>1, <2>2 DEF AbortInv, MarksInv, Intact, Grown, Marked
    <3> QED
      BY <2>1, <3>1, <3>2 DEF MarksInv
  <2>7. TailInv'
    BY <2>1, <2>2 DEF AbortInv, TailInv, GivenUp, AtEnd, NoOwn
  <2>8. LengthInv'
    <3>1. Grown' => Grown
      BY <2>2
    <3>2. Intact' => Behind(sseen, sinitial)'
      BY <2>1, <2>2 DEF AbortInv, LengthInv, Behind
    <3> QED
      BY <2>1, <3>1, <3>2 DEF AbortInv, LengthInv, Behind
  <2> QED
    BY <2>3, <2>4, <2>5, <2>6, <2>7, <2>8 DEF AbortInv
<1>4. CASE StopWrites
  <2>1. /\ spc = "writing" /\ spc' = "idle" /\ sseen' = <<>>
        /\ UNCHANGED <<restore, seen, persisted, marks, turn, pc, initial, outcome>>
    BY <1>4 DEF StopWrites, turnVars, ghosts
  <2>2. CASE history' = history
    <3>1. MineInv' /\ OldInv'
      BY <2>1, <2>2 DEF AbortInv, MineInv, Mine, OldInv, Clean, Copies, Marked
    <3>2. EmptyInv' /\ MarksInv' /\ OutcomeInv'
      BY <2>1 DEF AbortInv, EmptyInv, MarksInv, OutcomeInv, Intact, Grown, Marked
    <3>3. TailInv'
      BY <2>1, <2>2 DEF AbortInv, TailInv, GivenUp, AtEnd, NoOwn, Intact, Marked
    <3>4. LengthInv'
      BY <2>1, <2>2 DEF AbortInv, LengthInv, Behind, Intact, Grown, Marked, After
    <3> QED
      BY <3>1, <3>2, <3>3, <3>4 DEF AbortInv
  <2>3. CASE sinitial < Len(sseen) /\ history' = SubSeq(sseen, 1, sinitial)
    <3>0. sinitial \in 0..Len(sseen)
      BY <1>0, <2>3
    <3>1. Len(history') = sinitial /\ history' \in Seq(Message)
      BY <1>0, <2>3, <3>0, PrefixIs
    <3>2. Mine(sseen) => Mine(history')
      BY <1>0, <2>3, <3>0, <3>1, PiecePrefix, PieceMine
    <3>3. Clean(sseen) => Clean(history')
      BY <1>0, <2>3, <3>0, <3>1, PiecePrefix, PieceMine
    <3>4. Intact => NoOwn(history')
      BY <1>0, <2>1, <2>3, <3>0, PrefixOwn DEF AbortInv, LengthInv
    <3>5. Grown => Intact
      BY DEF AbortInv, MarksInv
    <3>6. MineInv'
      BY <2>1, <3>2 DEF AbortInv, MineInv, Mine, Copies
    <3>7. OldInv'
      BY <2>1, <3>3 DEF AbortInv, OldInv, Clean, Copies, Marked
    <3>8. EmptyInv' /\ MarksInv' /\ OutcomeInv'
      BY <2>1 DEF AbortInv, EmptyInv, MarksInv, OutcomeInv, Intact, Grown, Marked
    <3>9. TailInv'
      BY <2>1, <3>4 DEF AbortInv, TailInv, GivenUp, AtEnd, NoOwn, Intact, Marked
    <3>10. LengthInv'
      <4>1. pc # "idle" => sinitial = initial
        BY <2>1 DEF AbortInv, EmptyInv
      <4>2. Grown => NoOwn(history')
        BY <3>4, <3>5
      <4>3. pc # "idle" => Len(history') >= initial
        BY <1>0, <3>1, <4>1
      <4> QED
        BY <2>1, <4>2, <4>3 DEF LengthInv, Behind, NoOwn, Grown, Marked, After
    <3> QED
      BY <3>6, <3>7, <3>8, <3>9, <3>10 DEF AbortInv
  <2> QED
    BY <1>4, <2>2, <2>3 DEF StopWrites
<1> QED
  BY <1>1, <1>2, <1>3, <1>4 DEF Stop

LEMMA AbortSilent ==
  ASSUME TypeInv, AbortInv,
         \/ Register \/ CheckBudget \/ Iterate \/ LLMAnswers \/ LLMFails \/ LLMCancelled
         \/ LLMOverflows \/ FinalizeHandled \/ CompressNote \/ RestoreSummary
  PROVE  AbortInv'
<1>1. UNCHANGED <<history, restore, seen, sseen, persisted, marks, turn, initial, sinitial, spc>>
  BY DEF Register, CheckBudget, Iterate, LLMAnswers, LLMFails, LLMCancelled, LLMOverflows,
         FinalizeHandled, CompressNote, RestoreSummary, store, sVars, ghosts
<1>2. CASE Register \/ CheckBudget \/ Iterate \/ LLMAnswers \/ LLMCancelled \/ LLMOverflows \/ CompressNote
  <2>1. UNCHANGED outcome
    BY <1>2 DEF Register, CheckBudget, Iterate, LLMAnswers, LLMCancelled, LLMOverflows,
                CompressNote, ghosts
  <2>2. /\ pc' \notin {"idle", "restoring", "done"} /\ pc \notin After
        /\ pc \in {"write", "shorten"} => pc' \in {"write", "shorten"}
    BY <1>2 DEF Register, CheckBudget, Iterate, LLMAnswers, LLMCancelled, LLMOverflows,
                CompressNote, GoTo, After
  <2>3. (pc = "idle" <=> pc' = "idle") /\ (pc = "done" <=> pc' = "done")
    BY <2>2 DEF After
  <2>4. (pc' = "restoring" => pc = "restoring") /\ (pc \in After => pc' \in After)
    BY <2>2
  <2>5. \/ outcome' = outcome /\ (pc = "done" <=> pc' = "done")
        \/ \E st : /\ outcome' = [outcome EXCEPT ![turn] = st]
                   /\ pc' = "done" /\ pc \notin {"idle", "done"}
                   /\ st = "aborted" => pc = "restoring"
    BY <2>1, <2>3
  <2> QED
    BY <1>1, <2>2, <2>3, <2>4, <2>5, AbortStill
<1>3. ASSUME NEW st, End(st), pc \notin After \/ pc = "restoring", st = "aborted" => pc = "restoring",
             pc \notin {"write", "shorten"}
      PROVE  AbortInv'
  <2>1. outcome' = [outcome EXCEPT ![turn] = st] /\ pc' = "done" /\ pc \notin {"idle", "done"}
    BY <1>3 DEF End, GoTo, After
  <2> QED
    BY <1>1, <1>3, <2>1, AbortStill DEF After
<1>4. CASE LLMFails \/ RestoreSummary
  BY <1>3, <1>4 DEF LLMFails, RestoreSummary, After
<1>5. CASE FinalizeHandled
  <2>1. CASE hardAbort
    <3>1. pc = "handledEnd" /\ pc' = "aborting" /\ UNCHANGED outcome
      BY <1>5, <2>1 DEF FinalizeHandled, GoTo
    <3> QED
      BY <1>1, <3>1, AbortStill DEF After
  <2>2. CASE ~hardAbort
    BY <1>3, <1>5, <2>2 DEF FinalizeHandled, After
  <2> QED
    BY <2>1, <2>2
<1> QED
  BY <1>2, <1>3, <1>4, <1>5

LEMMA AbortWriting ==
  ASSUME TypeInv, OrderInv, AbortInv, Writing
  PROVE  AbortInv'
<1>1. /\ pc \in {"root", "inject", "llm", "tool", "handled", "finalize"}
      /\ UNCHANGED <<restore, seen, sseen, marks, turn, initial, sinitial, spc>>
  BY DEF Writing, PersistRoot, InjectSteering, LLMCallsTool, ToolReturns, ToolsHandledResponse,
         Finalize, sVars
<1>2. /\ pc' \in {"iterate", "llm", "tool", "handled", "handledEnd", "aborting", "done"}
      /\ \/ outcome' = outcome /\ pc' # "done"
         \/ outcome' = [outcome EXCEPT ![turn] = "completed"] /\ pc' = "done"
  BY DEF Writing, PersistRoot, InjectSteering, LLMCallsTool, ToolReturns, ToolsHandledResponse,
         Finalize, GoTo, End
<1>3. CASE \E role \in Roles : Persist(role) /\ Len(persisted) < PersistMax
  BY <1>1, <1>2, <1>3, AbortPersist DEF After
<1>4. CASE UNCHANGED <<history, persisted, written>>
  <2>1. ~Finalize
    <3>1. \A m : Append(persisted, m) # persisted
      <4>1. persisted \in Seq(Message)
        BY DEF TypeInv, TypeOK
      <4>2. \A m : Len(Append(persisted, m)) = Len(persisted) + 1 /\ Len(persisted) \in Nat
        BY <4>1
      <4> QED
        BY <4>2
    <3> QED
      BY <1>4, <3>1 DEF Finalize, Persist
  <2>2. pc' # "done" /\ outcome' = outcome
    BY <2>1 DEF Writing, PersistRoot, InjectSteering, LLMCallsTool, ToolReturns,
                ToolsHandledResponse, GoTo
  <2> QED
    BY <1>1, <1>2, <1>4, <2>2, AbortStill DEF After
<1> QED
  BY <1>3, <1>4, WritingWrites

LEMMA NextAbort ==
  ASSUME "stopper" \notin Overlaps, TypeInv, OrderInv, AbortInv, [Next]_vars
  PROVE  AbortInv'
<1>1. CASE UNCHANGED vars
  BY <1>1, AbortStill DEF vars, store, turnVars, sVars, ghosts
<1>2. CASE SummariserReads \/ SummariserWrites \/ SummariserFails
  <2>1. UNCHANGED <<history, turnVars, sVars, ghosts>>
    BY <1>2 DEF SummariserReads, SummariserWrites, SummariserFails, store
  <2> QED
    BY <2>1, AbortStill DEF turnVars, sVars, ghosts
<1> QED
  BY <1>1, <1>2, AbortSilent, AbortRestorePoint, AbortCompressRead, AbortCompressWrite,
     AbortWriting, AbortAborts, AbortNewTurn, AbortClear, AbortTruncate, AbortStop
  DEF Next, TurnStep, Summarise, Writing

\* A turn that ended as aborted leaves none of its messages behind, for any turns,
\* thresholds, windows and compressions and with summaries under way, as long as a
\* new turn waits for the HardAbort of the one before it; up to the turns whose own
\* messages a compression took (Marked).
THEOREM AbortForgetsTurnCorrect ==
  ASSUME "stopper" \notin Overlaps
  PROVE  Spec => []AbortForgetsTurn
<1>1. TypeInv /\ OrderInv /\ AbortInv /\ [Next]_vars => AbortInv'
  BY NextAbort
<1>2. TypeInv /\ OrderInv /\ AbortInv => AbortForgetsTurn
  <2> SUFFICES ASSUME TypeInv, OrderInv, AbortInv, AtRest,
                      NEW i \in DOMAIN history, outcome[history[i].turn] = "aborted"
               PROVE  Marked(history[i].turn, "own")
    BY DEF AbortForgetsTurn
  <2>1. i \in 1..Len(history) /\ history[i] \in Message /\ turn \in Nat
    BY DEF TypeInv, TypeOK
  <2>2. history[i].turn \in 1..TurnMax /\ history[i].turn <= turn
    <3>1. Past(history[i], turn, Reach)
      BY <2>1 DEF OrderInv, Copies, Fine
    <3> QED
      BY <2>1, <3>1 DEF Past, Message
  <2>3. CASE history[i].turn < turn
    BY <2>1, <2>3 DEF AbortInv, OldInv, Copies, Clean
  <2>4. CASE history[i].turn = turn
    <3>1. GivenUp
      BY <2>2, <2>4 DEF GivenUp
    <3> QED
      BY <2>1, <2>4, <3>1 DEF AbortInv, TailInv, NoOwn, Intact
  <2> QED
    BY <2>1, <2>2, <2>3, <2>4
<1> QED
  BY <1>1, <1>2, InitAbort, TypesCorrect, OrderCorrect, PTL DEF Spec

=============================================================================
