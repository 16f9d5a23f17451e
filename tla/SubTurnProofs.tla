---------------------------- MODULE SubTurnProofs ----------------------------
(***************************************************************************)
(* Proofs about SubTurn, for every number of turns, slots and places.      *)
(*                                                                         *)
(* TypeOK bounds the depth of a turn by the limit that spawnSubTurn looks  *)
(* at, so it is not inductive: TreeInv adds that a turn is one level below *)
(* its parent and that only turns within the limit run.  SlotInv adds to   *)
(* the accounting of the slots what the local flag semAcquired of each     *)
(* sub-turn says, on which both releases depend.                           *)
(***************************************************************************)
EXTENDS SubTurn, FiniteSetTheorems, TLAPS

\* Exactly the turns generateSubTurnID has not named yet are unused.
Unnamed ==
  /\ \A c \in Children : phase[c] = "unused" <=> c > spawned
  /\ phase[Root] # "unused"

\* A named sub-turn is one level below a turn that was named before it.
Levels ==
  \A c \in Children :
    c <= spawned => parent[c] < c /\ depth[c] = depth[parent[c]] + 1

\* Only a turn within the depth limit gets to run.
RunnersWithinLimit == \A t \in Turns : phase[t] = "running" => depth[t] <= MaxDepth

TreeInv == TypeOK /\ Unnamed /\ Levels /\ RunnersWithinLimit

Holders(p) == {c \in Children : parent[c] = p /\ Occupies(c)}

\* The flag is set exactly while the sub-turn occupies a slot.
FlagsRight == \A c \in Children : c \in acquired <=> HasSlots(parent[c]) /\ Occupies(c)

\* A sub-turn that panicked is past its runTurn.
PanickedLeave == \A c \in panicked : phase[c] \in {"sending", "returning", "gone"}

SlotInv == SlotsReturned /\ FlagsRight /\ PanickedLeave

-----------------------------------------------------------------------------
LEMMA TurnsAndChildren == Root \in Turns /\ Children \subseteq Turns
  BY SubTurnConstants DEF Root, Turns, Children

LEMMA SlotTypes ==
  ASSUME TypeOK, NEW c \in Children,
         GiveBack(c) \/ (SlotFree(parent[c]) /\ TakeSlot(c)) \/ UNCHANGED slots
  PROVE  sem' \in [Turns -> 0..MaxConcurrent] /\ acquired' \subseteq Children
<1>1. sem \in [Turns -> 0..MaxConcurrent] /\ acquired \subseteq Children /\ parent[c] \in Turns
  BY DEF TypeOK
<1>2. CASE GiveBack(c) /\ c \in acquired
  <2>1. sem[parent[c]] > 0 /\ sem' = [sem EXCEPT ![parent[c]] = sem[parent[c]] - 1] /\ acquired' = acquired \ {c}
    BY <1>2 DEF GiveBack
  <2>2. sem[parent[c]] - 1 \in 0..MaxConcurrent
    BY <1>1, <2>1, SubTurnConstants
  <2> QED
    BY <1>1, <2>1, <2>2
<1>3. CASE SlotFree(parent[c]) /\ TakeSlot(c) /\ HasSlots(parent[c])
  <2>1. /\ sem[parent[c]] < MaxConcurrent /\ sem' = [sem EXCEPT ![parent[c]] = sem[parent[c]] + 1]
        /\ acquired' = acquired \cup {c}
    BY <1>3 DEF SlotFree, TakeSlot
  <2>2. sem[parent[c]] + 1 \in 0..MaxConcurrent
    BY <1>1, <2>1, SubTurnConstants
  <2> QED
    BY <1>1, <2>1, <2>2
<1>4. CASE UNCHANGED slots
  BY <1>1, <1>4 DEF slots
<1> QED
  BY <1>2, <1>3, <1>4 DEF GiveBack, TakeSlot

LEMMA TreeInit == Init => TreeInv
  BY SubTurnConstants
     DEF Init, TreeInv, TypeOK, Unnamed, Levels, RunnersWithinLimit,
         Turns, Children, Root, Modes, Phases

\* An action that leaves the tree alone and takes no turn out of "unused" or
\* into "running" preserves everything but TypeOK.
LEMMA TreeFrame ==
  ASSUME TreeInv, TypeOK', UNCHANGED tree,
         \A t \in Turns : phase'[t] = "unused" <=> phase[t] = "unused",
         \A t \in Turns : phase'[t] = "running" => phase[t] = "running"
  PROVE  TreeInv'
<1>1. Unnamed'
  BY SubTurnConstants DEF TreeInv, Unnamed, tree, Turns, Children, Root
<1>2. Levels'
  BY DEF TreeInv, Levels, tree
<1>3. RunnersWithinLimit'
  BY DEF TreeInv, RunnersWithinLimit, tree
<1> QED
  BY <1>1, <1>2, <1>3 DEF TreeInv

LEMMA TreeSpawn ==
  ASSUME TreeInv, NEW p \in Turns, NEW m \in Modes, Spawn(p, m)
  PROVE  TreeInv'
<1> USE SubTurnConstants DEF TypeOK, Turns, Children, Root, Goto
<1> DEFINE c == spawned + 1
<1>1. /\ spawned < LastTurn /\ spawned' = c
      /\ phase[p] = "running"
      /\ phase' = [phase EXCEPT ![c] = "waiting"]
      /\ parent' = [parent EXCEPT ![c] = p]
      /\ depth' = [depth EXCEPT ![c] = depth[p] + 1]
  BY DEF Spawn, Active
<1>2. spawned \in Nat /\ c \in Nat /\ c \in Children /\ c \in Turns
  BY <1>1 DEF TreeInv
<1>a. phase[c] = "unused"
  BY <1>2 DEF TreeInv, Unnamed
<1>b. p <= spawned
  <2>1. CASE p = 0
    BY <1>2, <2>1
  <2>2. CASE p # 0
    <3>1. p \in Children
      BY <2>2
    <3> QED
      BY <1>1, <1>2, <3>1 DEF TreeInv, Unnamed
  <2> QED
    BY <2>1, <2>2
<1>c. depth[p] \in 0..MaxDepth
  BY <1>1 DEF TreeInv, RunnersWithinLimit
<1>3. TypeOK'
  <2>1. depth' \in [Turns -> 0..(MaxDepth + 1)]
    <3>1. depth \in [Turns -> 0..(MaxDepth + 1)]
      BY DEF TreeInv
    <3>2. depth[p] + 1 \in 0..(MaxDepth + 1)
      BY <1>c
    <3> HIDE DEF Turns, c
    <3> QED
      BY <1>1, <1>2, <3>1, <3>2
  <2>2. phase' \in [Turns -> Phases] /\ parent' \in [Children -> Turns] /\ mode' \in [Children -> Modes]
    <3>1. /\ phase \in [Turns -> Phases] /\ parent \in [Children -> Turns] /\ mode \in [Children -> Modes]
          /\ "waiting" \in Phases
      BY DEF TreeInv, Phases
    <3>2. mode' = [mode EXCEPT ![c] = m]
      BY DEF Spawn
    <3> HIDE DEF Turns, Children, c
    <3> QED
      BY <1>1, <1>2, <3>1, <3>2
  <2>3. blockedOn' \in [Turns -> Turns]
    <3>1. blockedOn \in [Turns -> Turns]
      BY DEF TreeInv
    <3>2. blockedOn' \in {blockedOn, [blockedOn EXCEPT ![p] = c]}
      BY DEF Spawn
    <3> HIDE DEF Turns, c
    <3> QED
      BY <1>2, <3>1, <3>2
  <2> QED
    BY <1>1, <1>2, <2>1, <2>2, <2>3 DEF TreeInv, Spawn, slots
<1>4. Unnamed'
  <2>1. \A t \in Turns : phase'[t] = IF t = c THEN "waiting" ELSE phase[t]
    BY <1>1, <1>2 DEF TreeInv
  <2>2. c # Root /\ \A d \in Children : d \in Turns /\ (d > spawned + 1 <=> d > spawned /\ d # c)
    BY <1>2
  <2> HIDE DEF Turns, Children
  <2> QED
    BY <1>1, <1>2, <2>1, <2>2 DEF TreeInv, Unnamed
<1>5. Levels'
  <2> SUFFICES ASSUME NEW d \in Children, d <= spawned'
               PROVE  parent'[d] < d /\ depth'[d] = depth'[parent'[d]] + 1
    BY DEF Levels
  <2>1. CASE d = c
    <3>1. parent'[c] = p /\ depth'[c] = depth[p] + 1 /\ depth'[p] = depth[p]
      BY <1>1, <1>2, <1>b DEF TreeInv
    <3> QED
      BY <1>2, <1>b, <2>1, <3>1
  <2>2. CASE d # c
    <3>0. d <= spawned
      BY <1>1, <1>2, <2>2
    <3>1. parent[d] \in Turns /\ parent[d] < d /\ depth[d] = depth[parent[d]] + 1
      BY <3>0 DEF TreeInv, Levels
    <3>2. parent'[d] = parent[d] /\ depth'[d] = depth[d] /\ depth'[parent[d]] = depth[parent[d]]
      BY <1>1, <1>2, <2>2, <3>0, <3>1 DEF TreeInv
    <3> QED
      BY <3>1, <3>2
  <2> QED
    BY <2>1, <2>2
<1>6. RunnersWithinLimit'
  BY <1>1, <1>2 DEF TreeInv, RunnersWithinLimit
<1> QED
  BY <1>3, <1>4, <1>5, <1>6 DEF TreeInv

LEMMA TreeAcquire ==
  ASSUME TreeInv, NEW c \in Children, Acquire(c)
  PROVE  TreeInv'
<1> USE SubTurnConstants DEF TypeOK, Turns, Children, Root, Goto
<1>1. TypeOK'
  <2>1. phase' \in [Turns -> Phases]
    BY DEF TreeInv, Acquire, Phases
  <2>2. sem' \in [Turns -> 0..MaxConcurrent] /\ acquired' \subseteq Children
    BY SlotTypes DEF TreeInv, Acquire
  <2> QED
    BY <2>1, <2>2 DEF TreeInv, Acquire, tree
<1>a. /\ phase[c] = "waiting" /\ UNCHANGED <<spawned, parent, depth>>
      /\ phase' \in {[phase EXCEPT ![c] = "refused"], [phase EXCEPT ![c] = "running"]}
      /\ phase'[c] = "running" => ~TooDeep(parent[c])
  BY DEF TreeInv, Acquire, tree
<1>2. Unnamed'
  <2>1. \A t \in Turns : phase'[t] = "unused" <=> phase[t] = "unused"
    BY <1>a DEF TreeInv
  <2>2. Root \in Turns /\ Children \subseteq Turns
    OBVIOUS
  <2> HIDE DEF Turns, Children, Root
  <2> QED
    BY <1>a, <2>1, <2>2 DEF TreeInv, Unnamed
<1>3. Levels'
  BY <1>a DEF TreeInv, Levels
<1>4. RunnersWithinLimit'
  <2>1. c \in Turns /\ c <= spawned
    BY <1>a DEF TreeInv, Unnamed
  <2>2. parent[c] \in Turns /\ depth[parent[c]] \in Nat /\ depth[c] = depth[parent[c]] + 1
    BY SMTT(30), <2>1 DEF TreeInv, Levels
  <2>3. phase'[c] = "running" => depth[c] <= MaxDepth
    BY <1>a, <2>2 DEF TooDeep
  <2>4. \A t \in Turns : t # c => phase'[t] = phase[t]
    BY <1>a DEF TreeInv
  <2> QED
    BY <1>a, <2>3, <2>4 DEF TreeInv, RunnersWithinLimit
<1> QED
  BY <1>1, <1>2, <1>3, <1>4 DEF TreeInv

LEMMA TreeStep == TreeInv /\ [Next]_vars => TreeInv'
<1> SUFFICES ASSUME TreeInv, [Next]_vars PROVE TreeInv'
  OBVIOUS
<1> USE SubTurnConstants DEF TypeOK, Turns, Children, Root, Goto
<1>1. ASSUME NEW t \in Turns, EndTurn(t) PROVE TreeInv'
  <2>1. TypeOK'
    BY <1>1 DEF TreeInv, EndTurn, tree, slots, Phases
  <2> QED
    BY <1>1, <2>1, TreeFrame DEF TreeInv, EndTurn, Active
<1>2. ASSUME NEW p \in Turns, Poll(p) PROVE TreeInv'
  <2>0. pending[p] \in 0..ChanCap /\ pending[p] > 0 /\ ChanCap \in Nat
    BY <1>2 DEF TreeInv, Poll
  <2>1. pending[p] - 1 \in 0..ChanCap
    <3> HIDE DEF TypeOK, Turns
    <3> QED
      BY <2>0
  <2>2. pending' \in [Turns -> 0..ChanCap]
    BY <1>2, <2>1 DEF TreeInv, Poll
  <2>3. TypeOK'
    BY <1>2, <2>2 DEF TreeInv, Poll, tree, slots
  <2> QED
    BY <1>2, <2>3, TreeFrame DEF TreeInv, Poll
<1>3. ASSUME NEW p \in Turns, NEW m \in Modes, Spawn(p, m) PROVE TreeInv'
  BY <1>3, TreeSpawn
<1>4. ASSUME NEW c \in Children, Acquire(c) PROVE TreeInv'
  BY <1>4, TreeAcquire
<1>5. ASSUME NEW c \in Children, SlotTimeout(c) \/ SlotCancelled(c) PROVE TreeInv'
  <2>1. TypeOK'
    BY <1>5 DEF TreeInv, SlotTimeout, SlotCancelled, tree, slots, Phases
  <2> QED
    BY <1>5, <2>1, TreeFrame DEF TreeInv, SlotTimeout, SlotCancelled
<1>6. ASSUME NEW c \in Children, Panic(c) PROVE TreeInv'
  <2>1. phase' \in [Turns -> Phases] /\ panicked' \subseteq Children
    BY <1>6 DEF TreeInv, Panic, Phases
  <2>2. sem' \in [Turns -> 0..MaxConcurrent] /\ acquired' \subseteq Children
    BY <1>6, SlotTypes DEF TreeInv, Panic, DeferredRelease
  <2>3. TypeOK'
    BY <1>6, <2>1, <2>2 DEF TreeInv, Panic, tree
  <2> QED
    BY <1>6, <2>3, TreeFrame DEF TreeInv, Panic, Active
<1>7. ASSUME NEW c \in Children, Refuse(c) \/ ReleaseSlot(c) \/ Orphan(c) PROVE TreeInv'
  <2>1. phase' \in [Turns -> Phases]
    BY <1>7 DEF TreeInv, Refuse, ReleaseSlot, Orphan, Phases
  <2>2. sem' \in [Turns -> 0..MaxConcurrent] /\ acquired' \subseteq Children
    BY <1>7, SlotTypes DEF TreeInv, Refuse, ReleaseSlot, Orphan, EarlyRelease, DeferredRelease
  <2>3. TypeOK'
    BY <1>7, <2>1, <2>2 DEF TreeInv, Refuse, ReleaseSlot, Orphan, tree
  <2> QED
    BY <1>7, <2>3, TreeFrame DEF TreeInv, Refuse, ReleaseSlot, Orphan
<1>8. ASSUME NEW c \in Children, Return(c) PROVE TreeInv'
  <2>1. blockedOn' \in [Turns -> Turns]
    <3>1. blockedOn \in [Turns -> Turns] /\ Root \in Turns
      BY TurnsAndChildren DEF TreeInv
    <3>2. blockedOn' \in {blockedOn, [blockedOn EXCEPT ![parent[c]] = Root]}
      BY <1>8 DEF Return
    <3> HIDE DEF Turns, Root
    <3> QED
      BY <3>1, <3>2
  <2>2. TypeOK'
    BY <1>8, <2>1 DEF TreeInv, Return, tree, slots, Phases
  <2> QED
    BY <1>8, <2>2, TreeFrame DEF TreeInv, Return
<1>9. ASSUME NEW c \in Children, Send(c) PROVE TreeInv'
  <2>1. phase' \in [Turns -> Phases]
    BY <1>9 DEF TreeInv, Send, Phases
  <2>2. sem' \in [Turns -> 0..MaxConcurrent] /\ acquired' \subseteq Children
    BY <1>9, SlotTypes DEF TreeInv, Send, DeferredRelease
  <2>3. pending' \in [Turns -> 0..ChanCap]
    <3>0. PICK p \in Turns : p = parent[c] /\ pending[p] \in 0..ChanCap /\ pending[p] < ChanCap
      BY <1>9 DEF TreeInv, Send
    <3>1. pending[p] + 1 \in 0..ChanCap
      BY <3>0
    <3>2. pending' = [pending EXCEPT ![p] = pending[p] + 1]
      BY <1>9, <3>0 DEF Send
    <3> QED
      BY <3>0, <3>1, <3>2 DEF TreeInv
  <2>4. TypeOK'
    BY <1>9, <2>1, <2>2, <2>3 DEF TreeInv, Send, tree
  <2> QED
    BY <1>9, <2>4, TreeFrame DEF TreeInv, Send
<1>10. ASSUME HardAbort PROVE TreeInv'
  <2>1. finished' \subseteq Turns
    BY <1>10, TurnsAndChildren DEF TreeInv, HardAbort, HasLoop
  <2>2. TypeOK'
    BY <1>10, <2>1 DEF TreeInv, HardAbort, tree, slots
  <2> QED
    BY <1>10, <2>2, TreeFrame DEF TreeInv, HardAbort
<1>11. CASE UNCHANGED vars
  <2>1. TypeOK' /\ UNCHANGED tree
    BY <1>11 DEF TreeInv, vars, tree
  <2> QED
    BY <1>11, <2>1, TreeFrame DEF vars
<1> QED
  BY <1>1, <1>2, <1>3, <1>4, <1>5, <1>6, <1>7, <1>8, <1>9, <1>10, <1>11
     DEF Next, Step, ChildStep

\* TypeOK, which bounds the depth of every turn by the depth limit of
\* spawnSubTurn, holds for every number of turns and every limit.
THEOREM TypeCorrect == Spec => []TypeOK
<1>1. TreeInv => TypeOK
  BY DEF TreeInv
<1> QED
  BY TreeInit, TreeStep, <1>1, PTL DEF Spec

-----------------------------------------------------------------------------
LEMMA SlotInit == Init => SlotInv
<1> SUFFICES ASSUME Init PROVE SlotInv
  OBVIOUS
<1>1. FlagsRight /\ PanickedLeave
  BY TurnsAndChildren DEF Init, FlagsRight, PanickedLeave, Occupies, Children, Root
<1>2. SlotsReturned
  <2> SUFFICES ASSUME NEW p \in Children PROVE sem[p] = Cardinality(Holders(p))
    BY DEF SlotsReturned, Holders
  <2>1. Holders(p) = {} /\ sem[p] = 0
    BY TurnsAndChildren DEF Init, Holders, Occupies, Children, Root
  <2> QED
    BY <2>1, FS_EmptySet
<1> QED
  BY <1>1, <1>2 DEF SlotInv

LEMMA HoldersFinite == \A p : IsFiniteSet(Holders(p))
<1>1. IsFiniteSet(Children)
  BY FS_Interval, SubTurnConstants DEF Children
<1> QED
  BY <1>1, FS_Subset DEF Holders

\* Nothing the slots depend on changes.
LEMMA SlotFrame ==
  ASSUME SlotInv, UNCHANGED <<slots, parent>>, panicked' \subseteq panicked,
         \A c \in Children : phase'[c] \in {"sending", "returning", "gone"} <=> phase[c] \in {"sending", "returning", "gone"},
         \A c \in Children : Occupies(c)' <=> Occupies(c), panicked \subseteq Children
  PROVE  SlotInv'
<1>1. \A p : Holders(p)' = Holders(p)
  BY DEF Holders
<1>2. SlotsReturned'
  <2> SUFFICES ASSUME NEW p \in Children PROVE sem'[p] = Cardinality(Holders(p)')
    BY DEF SlotsReturned, Holders
  <2> QED
    BY <1>1 DEF SlotInv, SlotsReturned, Holders, slots
<1>3. FlagsRight' /\ PanickedLeave'
  BY DEF SlotInv, FlagsRight, PanickedLeave, slots
<1> QED
  BY <1>2, <1>3 DEF SlotInv

\* Whoever the step of one sub-turn makes occupy a slot or leave it.
LEMMA HoldersMove ==
  ASSUME NEW c \in Children, UNCHANGED parent,
         \A d \in Children \ {c} : Occupies(d)' <=> Occupies(d),
         NEW p
  PROVE  Holders(p)' = IF parent[c] = p /\ Occupies(c)' THEN Holders(p) \cup {c} ELSE Holders(p) \ {c}
  BY DEF Holders

\* A step of one sub-turn, which takes a slot, gives one back or does neither.
LEMMA SlotMove ==
  ASSUME TreeInv, SlotInv, NEW c \in Children, NEW ph \in Phases,
         phase' = [phase EXCEPT ![c] = ph], UNCHANGED parent,
         panicked' = panicked \/ (panicked' = panicked \cup {c} /\ ph \in {"sending", "returning"}),
         c \in panicked => ph \in {"sending", "returning", "gone"},
         \/ UNCHANGED slots /\ (Occupies(c)' <=> Occupies(c))
         \/ GiveBack(c) /\ ~Occupies(c)'
         \/ TakeSlot(c) /\ ~Occupies(c) /\ Occupies(c)'
  PROVE  SlotInv'
<1>1. /\ phase \in [Turns -> Phases] /\ parent \in [Children -> Turns] /\ sem \in [Turns -> 0..MaxConcurrent]
      /\ panicked \subseteq Children /\ acquired \subseteq Children
  BY DEF TreeInv, TypeOK
<1>2. phase'[c] = ph /\ \A d \in Children \ {c} : phase'[d] = phase[d]
  BY <1>1, TurnsAndChildren
<1>3. \A d \in Children \ {c} : (d \in panicked' <=> d \in panicked) /\ (Occupies(d)' <=> Occupies(d))
  BY <1>2 DEF Occupies
<1>4. PanickedLeave'
  BY <1>1, <1>2, <1>3 DEF SlotInv, PanickedLeave
<1>5. FlagsRight /\ SlotsReturned
  BY DEF SlotInv
<1>6. FlagsRight'
  <2>1. \A d \in Children \ {c} : d \in acquired' <=> d \in acquired
    BY DEF GiveBack, TakeSlot, slots
  <2>2. c \in acquired' <=> HasSlots(parent[c]) /\ Occupies(c)'
    BY <1>5 DEF GiveBack, TakeSlot, slots, FlagsRight
  <2> QED
    BY <1>3, <1>5, <2>1, <2>2 DEF FlagsRight, HasSlots
<1>7. SlotsReturned'
  <2> SUFFICES ASSUME NEW p \in Children PROVE sem'[p] = Cardinality(Holders(p)')
    BY DEF SlotsReturned, Holders
  <2>1. sem[p] = Cardinality(Holders(p)) /\ IsFiniteSet(Holders(p)) /\ sem[p] \in Nat /\ HasSlots(p) /\ p \in Turns
    <3>1. HasSlots(p) /\ p \in Turns
      BY TurnsAndChildren DEF HasSlots, Children, Root
    <3>2. sem[p] = Cardinality(Holders(p)) /\ IsFiniteSet(Holders(p))
      BY <1>5, HoldersFinite DEF SlotsReturned, Holders
    <3> QED
      BY <1>1, <3>1, <3>2
  <2>2. Holders(p)' = IF parent[c] = p /\ Occupies(c)' THEN Holders(p) \cup {c} ELSE Holders(p) \ {c}
    BY <1>3, HoldersMove
  <2>3. c \in Holders(p) <=> parent[c] = p /\ Occupies(c)
    BY DEF Holders
  <2>4. CASE parent[c] # p
    <3>1. sem'[p] = sem[p]
      BY <1>1, <2>1, <2>4 DEF GiveBack, TakeSlot, slots
    <3>2. Holders(p)' = Holders(p)
      BY <2>2, <2>3, <2>4
    <3> QED
      BY <2>1, <3>1, <3>2
  <2>5. CASE parent[c] = p /\ (Occupies(c)' <=> Occupies(c))
    <3>1. Holders(p)' = Holders(p)
      BY <2>2, <2>3, <2>5
    <3>2. c \in acquired <=> Occupies(c)
      BY <1>5, <2>1, <2>5 DEF FlagsRight
    <3>3. sem' = sem
      BY <2>5, <3>2 DEF GiveBack, slots
    <3> QED
      BY <2>1, <3>1, <3>3
  <2>6. CASE parent[c] = p /\ Occupies(c) /\ ~Occupies(c)'
    <3>1. c \in acquired
      BY <1>5, <2>1, <2>6 DEF FlagsRight
    <3>2. sem'[p] = sem[p] - 1
      BY <1>1, <2>1, <2>6, <3>1 DEF GiveBack
    <3>3. Holders(p)' = Holders(p) \ {c} /\ c \in Holders(p)
      BY <2>2, <2>3, <2>6
    <3>4. Cardinality(Holders(p) \ {c}) = Cardinality(Holders(p)) - 1
      BY <2>1, <3>3, FS_RemoveElement
    <3> QED
      BY <2>1, <3>2, <3>3, <3>4
  <2>7. CASE parent[c] = p /\ ~Occupies(c) /\ Occupies(c)'
    <3>1. sem'[p] = sem[p] + 1
      BY <1>1, <2>1, <2>7 DEF TakeSlot
    <3>2. Holders(p)' = Holders(p) \cup {c} /\ c \notin Holders(p)
      BY <2>2, <2>3, <2>7
    <3>3. Cardinality(Holders(p) \cup {c}) = Cardinality(Holders(p)) + 1
      BY <2>1, <3>2, FS_AddElement
    <3> QED
      BY <2>1, <3>1, <3>2, <3>3
  <2> QED
    BY <2>4, <2>5, <2>6, <2>7
<1> QED
  BY <1>4, <1>6, <1>7 DEF SlotInv

LEMMA SlotSpawn ==
  ASSUME TreeInv, SlotInv, NEW p \in Turns, NEW m \in Modes, Spawn(p, m)
  PROVE  SlotInv'
<1>0. PICK c \in Children : c = spawned + 1 /\ phase[c] = "unused"
  BY SubTurnConstants DEF TreeInv, TypeOK, Turns, Children, Unnamed, Spawn
<1>1. /\ phase[c] = "unused" /\ phase' = [phase EXCEPT ![c] = "waiting"]
      /\ parent' = [parent EXCEPT ![c] = p] /\ UNCHANGED <<slots, panicked>>
  BY <1>0 DEF Spawn, Goto
<1>2. phase \in [Turns -> Phases] /\ parent \in [Children -> Turns]
  BY DEF TreeInv, TypeOK
<1>3. /\ phase'[c] = "waiting"
      /\ \A d \in Children \ {c} : phase'[d] = phase[d] /\ parent'[d] = parent[d]
  BY <1>1, <1>2, TurnsAndChildren
<1>4. ~Occupies(c) /\ ~Occupies(c)' /\ \A d \in Children \ {c} : Occupies(d)' <=> Occupies(d)
  BY <1>1, <1>3 DEF Occupies
<1>5. \A q : Holders(q)' = Holders(q)
  <2> SUFFICES ASSUME NEW q, NEW d \in Children
               PROVE  parent'[d] = q /\ Occupies(d)' <=> parent[d] = q /\ Occupies(d)
    BY DEF Holders
  <2>1. CASE d = c
    BY <1>4, <2>1
  <2>2. CASE d # c
    BY <1>3, <1>4, <2>2
  <2> QED
    BY <2>1, <2>2
<1>6. SlotsReturned'
  <2> SUFFICES ASSUME NEW q \in Children PROVE sem'[q] = Cardinality(Holders(q)')
    BY DEF SlotsReturned, Holders
  <2> QED
    BY <1>1, <1>5 DEF SlotInv, SlotsReturned, Holders, slots
<1>7. FlagsRight'
  <2> SUFFICES ASSUME NEW d \in Children
               PROVE  d \in acquired' <=> HasSlots(parent'[d]) /\ Occupies(d)'
    BY DEF FlagsRight, HasSlots
  <2>0. acquired' = acquired /\ (d \in acquired <=> HasSlots(parent[d]) /\ Occupies(d))
    BY <1>1 DEF SlotInv, FlagsRight, slots
  <2>1. CASE d = c
    BY <1>4, <2>0, <2>1
  <2>2. CASE d # c
    BY <1>3, <1>4, <2>0, <2>2 DEF HasSlots
  <2> QED
    BY <2>1, <2>2
<1>8. PanickedLeave'
  <2>1. c \notin panicked /\ panicked \subseteq Children
    BY <1>1 DEF SlotInv, PanickedLeave, TreeInv, TypeOK
  <2> QED
    BY <1>1, <1>3, <2>1 DEF SlotInv, PanickedLeave
<1> QED
  BY <1>6, <1>7, <1>8 DEF SlotInv

LEMMA SlotStep == TreeInv /\ SlotInv /\ [Next]_vars => SlotInv'
<1> SUFFICES ASSUME TreeInv, SlotInv, [Next]_vars PROVE SlotInv'
  OBVIOUS
<1> USE DEF Goto, tree, Phases
<1>0. /\ phase \in [Turns -> Phases] /\ panicked \subseteq Children /\ Children \subseteq Turns
      /\ \A c \in panicked : phase[c] \in {"sending", "returning", "gone"}
  BY TurnsAndChildren DEF TreeInv, TypeOK, SlotInv, PanickedLeave
<1>1. ASSUME NEW t \in Turns, EndTurn(t) PROVE SlotInv'
  <2>1. CASE t \in Children
    <3>1. phase[t] = "running" /\ t \notin panicked /\ t # Root
      BY <1>0, <1>1, <2>1 DEF EndTurn, Active, Children, Root
    <3>2. phase' = [phase EXCEPT ![t] = "ended"] /\ UNCHANGED <<slots, parent, panicked>>
      BY <1>1, <3>1 DEF EndTurn
    <3>3. Occupies(t) /\ Occupies(t)'
      BY <1>0, <3>1, <3>2 DEF Occupies
    <3> QED
      BY <2>1, <3>1, <3>2, <3>3, SlotMove
  <2>2. CASE t \notin Children
    <3>1. \A c \in Children : phase'[c] = phase[c]
      BY <1>0, <1>1, <2>2 DEF EndTurn
    <3>2. UNCHANGED <<slots, parent, panicked>>
      BY <1>1 DEF EndTurn
    <3>3. \A c \in Children : Occupies(c)' <=> Occupies(c)
      BY <3>1, <3>2 DEF Occupies
    <3> QED
      BY <1>0, <3>1, <3>2, <3>3, SlotFrame
  <2> QED
    BY <2>1, <2>2
<1>2. CASE (\E p \in Turns : Poll(p)) \/ HardAbort \/ UNCHANGED vars
  <2>1. UNCHANGED <<phase, slots, parent, panicked>>
    BY <1>2 DEF Poll, HardAbort, vars, slots
  <2>2. \A c \in Children : Occupies(c)' <=> Occupies(c)
    BY <2>1 DEF Occupies
  <2> QED
    BY <1>0, <2>1, <2>2, SlotFrame
<1>3. ASSUME NEW p \in Turns, NEW m \in Modes, Spawn(p, m) PROVE SlotInv'
  BY <1>3, SlotSpawn
<1>4. ASSUME NEW c \in Children, Acquire(c) PROVE SlotInv'
  <2>1. PICK ph \in {"refused", "running"} : phase' = [phase EXCEPT ![c] = ph]
    BY <1>4 DEF Acquire
  <2>2. phase[c] = "waiting" /\ c \notin panicked /\ TakeSlot(c) /\ UNCHANGED <<parent, panicked>>
    BY <1>0, <1>4 DEF Acquire
  <2>3. ~Occupies(c) /\ Occupies(c)'
    BY <1>0, <2>1, <2>2 DEF Occupies
  <2> QED
    BY <2>1, <2>2, <2>3, SlotMove
<1>5. ASSUME NEW c \in Children, SlotTimeout(c) \/ SlotCancelled(c) PROVE SlotInv'
  <2>1. /\ phase[c] = "waiting" /\ phase' = [phase EXCEPT ![c] = "returning"]
        /\ UNCHANGED <<slots, parent, panicked>>
    BY <1>5 DEF SlotTimeout, SlotCancelled
  <2>2. ~Occupies(c) /\ ~Occupies(c)'
    BY <1>0, <2>1 DEF Occupies
  <2> QED
    BY <2>1, <2>2, SlotMove
<1>6. ASSUME NEW c \in Children, Panic(c) PROVE SlotInv'
  <2>1. phase[c] = "running" /\ panicked' = panicked \cup {c} /\ UNCHANGED parent
    BY <1>6 DEF Panic, Active
  <2>2. CASE mode[c] = "async"
    <3>1. phase' = [phase EXCEPT ![c] = "sending"] /\ UNCHANGED slots
      BY <1>6, <2>2 DEF Panic
    <3>2. Occupies(c) /\ Occupies(c)'
      BY <1>0, <2>1, <3>1 DEF Occupies
    <3> QED
      BY <2>1, <3>1, <3>2, SlotMove
  <2>3. CASE mode[c] # "async"
    <3>1. phase' = [phase EXCEPT ![c] = "returning"] /\ GiveBack(c)
      BY <1>6, <2>3 DEF Panic, DeferredRelease
    <3>2. ~Occupies(c)'
      BY <1>0, <3>1 DEF Occupies
    <3> QED
      BY <2>1, <3>1, <3>2, SlotMove
  <2> QED
    BY <2>2, <2>3
<1>7. ASSUME NEW c \in Children, Refuse(c) \/ ReleaseSlot(c) \/ Orphan(c) \/ Send(c) PROVE SlotInv'
  <2>1. GiveBack(c) /\ UNCHANGED <<parent, panicked>>
    BY <1>7 DEF Refuse, ReleaseSlot, Orphan, Send, EarlyRelease, DeferredRelease
  <2>2. PICK ph \in {"sending", "returning"} : phase' = [phase EXCEPT ![c] = ph]
    BY <1>7 DEF Refuse, ReleaseSlot, Orphan, Send
  <2>3. ph = "sending" => c \notin panicked
    BY <1>0, <1>7, <2>2 DEF Refuse, ReleaseSlot, Orphan, Send
  <2>4. ~Occupies(c)'
    BY <1>0, <2>1, <2>2, <2>3 DEF Occupies
  <2> QED
    BY <2>1, <2>2, <2>4, SlotMove
<1>8. ASSUME NEW c \in Children, Return(c) PROVE SlotInv'
  <2>1. /\ phase[c] = "returning" /\ phase' = [phase EXCEPT ![c] = "gone"]
        /\ UNCHANGED <<slots, parent, panicked>>
    BY <1>8 DEF Return
  <2>2. ~Occupies(c) /\ ~Occupies(c)'
    BY <1>0, <2>1 DEF Occupies
  <2> QED
    BY <2>1, <2>2, SlotMove
<1> QED
  BY <1>1, <1>2, <1>3, <1>4, <1>5, <1>6, <1>7, <1>8 DEF Next, Step, ChildStep

LEMMA SlotCorrect == Spec => [](TreeInv /\ SlotInv)
  BY TreeInit, TreeStep, SlotInit, SlotStep, PTL DEF Spec

\* No sub-turn ever has more sub-turns running than slots: those that run are among those
\* the semaphore counts, and it never holds more values than its capacity.
THEOREM SlotsBoundedCorrect == Spec => []SlotsBounded
<1>1. TreeInv /\ SlotInv => SlotsBounded
  <2> SUFFICES ASSUME TreeInv, SlotInv, NEW p \in Children
               PROVE  Cardinality({c \in Children : parent[c] = p /\ phase[c] = "running"}) <= MaxConcurrent
    BY DEF SlotsBounded
  <2> DEFINE R == {c \in Children : parent[c] = p /\ phase[c] = "running"}
  <2>1. R \subseteq Holders(p) /\ IsFiniteSet(Holders(p))
    BY HoldersFinite DEF Holders, Occupies
  <2>2. IsFiniteSet(R) /\ Cardinality(R) <= Cardinality(Holders(p))
    BY <2>1, FS_Subset
  <2>3. Cardinality(Holders(p)) = sem[p] /\ sem[p] \in 0..MaxConcurrent
    BY TurnsAndChildren DEF TreeInv, TypeOK, SlotInv, SlotsReturned, Holders
  <2>4. Cardinality(R) \in Nat
    BY <2>2, FS_CardinalityType
  <2> HIDE DEF R
  <2>5. Cardinality(R) <= MaxConcurrent
    BY <2>2, <2>3, <2>4, SubTurnConstants
  <2> QED
    BY <2>5 DEF R
<1> QED
  BY SlotCorrect, <1>1, PTL

\* Every path out of spawnSubTurn gives its slot back, and only once: the flag that the
\* deferred release looks at is set exactly while the sub-turn occupies a slot.  So a
\* sub-turn that waits for room in its parent's channel has none, unless it panicked.
THEOREM SlotsReturnedCorrect == Spec => []SlotsReturned
<1>1. SlotInv => SlotsReturned
  BY DEF SlotInv
<1> QED
  BY SlotCorrect, <1>1, PTL
=============================================================================
