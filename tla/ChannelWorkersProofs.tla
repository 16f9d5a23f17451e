------------------------ MODULE ChannelWorkersProofs ------------------------
(***************************************************************************)
(* Proofs about ChannelWorkers, for every number of channels, instances,   *)
(* messages and reloads.                                                   *)
(*                                                                         *)
(* ReloadSparesOthers is not inductive by itself: that no message is       *)
(* dropped rests on no context being cancelled before StopAll, although a  *)
(* Reload replaces the context of the dispatcher (SparesInv).              *)
(*                                                                         *)
(* StartedIsServed and OrderedOnce rest on three more invariants: the      *)
(* types (TypeInv); what the registry, the Reload under way and the        *)
(* entries left to goroutines have to do with one another (RegistryInv);   *)
(* and where the messages are, behind the one dispatcher and with the      *)
(* worker that is registered for their channel (TrafficInv).               *)
(***************************************************************************)
EXTENDS ChannelWorkers, FiniteSetTheorems, WellFoundedInduction, TLAPS

Serving == main.pc \notin {"stopping", "stopped"}

\* Until StopAll no context is cancelled.
NoneCancelled == Serving => cancelled = {}

NoneDropped == Serving => \A m \in Ids : fate[m].is # "cancelled"
DispatcherStays == Serving /\ main.pc # "new" => disp[0].pc # "off"

Ends == {"none", "pending", "unknown", "no worker", "sent", "failed", "cancelled"}
Fates == [Ids -> [on : Names \cup {AnyName}, is : Ends]]

\* A dispatcher has three fields.
Formed(d) == d = [pc |-> d.pc, msg |-> d.msg, worker |-> d.worker]
Dispatchers == disp = [e \in Epochs |-> disp[e]] /\ \A e \in Epochs : Formed(disp[e])

SparesInv == NoneCancelled /\ NoneDropped /\ DispatcherStays /\ fate \in Fates /\ Dispatchers

-----------------------------------------------------------------------------
USE DEF Ends

LEMMA EpochZero == 0 \in Epochs
  BY ChannelConstants DEF Epochs

LEMMA SparesInit == Init => SparesInv
<1> SUFFICES ASSUME NEW hs \in Configs, NEW cs, NEW n, InitFor(hs, cs, n) PROVE SparesInv
  BY DEF Init
<1>1. main.pc = "new" /\ cancelled = {}
  BY DEF InitFor, Idle
<1>2. fate = [m \in Ids |-> [on |-> AnyName, is |-> "none"]]
  BY DEF InitFor
<1>3. disp = [e \in Epochs |-> Away]
  BY DEF InitFor
<1>4. Dispatchers
  BY <1>3 DEF Dispatchers, Formed, Away
<1> QED
  BY <1>1, <1>2, <1>4 DEF SparesInv, NoneCancelled, NoneDropped, DispatcherStays, Serving, Fates

\* A step that leaves the dispatchers, the fates and the contexts alone, taken while
\* the main goroutine is at work or not taken by it.
LEMMA SparesFrame ==
  ASSUME SparesInv, UNCHANGED <<cancelled, fate, disp>>,
         main.pc \in {"idle", "remove", "drain", "start"} \/ UNCHANGED main
  PROVE  SparesInv'
  BY DEF SparesInv, NoneCancelled, NoneDropped, DispatcherStays, Serving, Dispatchers, Formed

\* A message ends otherwise than by the end of a context.
LEMMA FateEnds ==
  ASSUME SparesInv, NEW m, NEW how \in Ends, Ended(m, how), UNCHANGED main,
         how # "cancelled" \/ ~Serving
  PROVE  fate' \in Fates /\ NoneDropped'
<1>1. fate \in Fates /\ fate' = [fate EXCEPT ![m].is = how]
  BY DEF SparesInv, Ended
<1>2. ASSUME NEW k \in Ids
      PROVE  /\ fate'[k] \in [on : Names \cup {AnyName}, is : Ends]
             /\ fate'[k].is = fate[k].is \/ fate'[k].is = how
  BY <1>1, <1>2 DEF Fates
<1>3. fate' \in Fates
  BY <1>1, <1>2 DEF Fates
<1> QED
  BY <1>2, <1>3 DEF SparesInv, NoneDropped, Serving

\* One dispatcher changes: it may stop only when a context is cancelled.
LEMMA DispatcherMoves ==
  ASSUME SparesInv, NEW e \in Epochs, NEW d, Formed(d), disp' = [disp EXCEPT ![e] = d],
         UNCHANGED main, d.pc # "off" \/ ~Serving
  PROVE  Dispatchers' /\ DispatcherStays'
<1>1. \A f \in Epochs : disp'[f] = IF f = e THEN d ELSE disp[f]
  BY DEF SparesInv, Dispatchers
<1>2. disp' = [f \in Epochs |-> disp'[f]]
  BY DEF SparesInv, Dispatchers
<1> QED
  BY <1>1, <1>2, EpochZero DEF SparesInv, Dispatchers, DispatcherStays, Serving, Formed

LEMMA SparesDispatch ==
  ASSUME SparesInv, NEW e \in Epochs, Dispatch(e)
  PROVE  SparesInv'
<1>1. UNCHANGED <<main, cancelled>> /\ NoneCancelled'
  BY DEF SparesInv, NoneCancelled, Serving, Dispatch, contexts,
         DispatchReceive, DispatchStop, DispatchLookup, DispatchEnqueue, DispatchPanic, DispatchGiveUp
<1>2. e \in cancelled => ~Serving
  BY DEF SparesInv, NoneCancelled
<1>3. Formed([pc |-> "recv", msg |-> None, worker |-> None]) /\ Formed(Away) /\ Away.pc = "off"
      /\ [Away EXCEPT !.pc = "recv"] = [pc |-> "recv", msg |-> None, worker |-> None]
  BY DEF Formed, Away
<1>5. ASSUME NEW d, Formed(d), disp' = [disp EXCEPT ![e] = d], d.pc # "off" \/ ~Serving,
             fate' \in Fates /\ NoneDropped'
      PROVE  SparesInv'
  BY <1>1, <1>5, DispatcherMoves DEF SparesInv
<1>6. UNCHANGED fate => fate' \in Fates /\ NoneDropped'
  BY <1>1 DEF SparesInv, NoneDropped, Serving
<1>7. CASE DispatchReceive(e)
  <2>1. Formed([pc |-> "look", msg |-> Head(bus), worker |-> None])
    BY DEF Formed
  <2> QED
    BY <1>5, <1>6, <1>7, <2>1 DEF DispatchReceive
<1>8. CASE DispatchStop(e)
  BY <1>2, <1>3, <1>5, <1>6, <1>8 DEF DispatchStop
<1>9. CASE DispatchLookup(e)
  <2>1. CASE UNCHANGED fate
    <3> DEFINE v == workers[fate[disp[e].msg].on]
    <3>1. \/ disp' = [disp EXCEPT ![e] = [pc |-> "send", msg |-> disp[e].msg, worker |-> v]]
          \/ disp' = [disp EXCEPT ![e] = [Away EXCEPT !.pc = "recv"]]
      BY <1>9 DEF DispatchLookup
    <3> HIDE DEF v
    <3>2. Formed([pc |-> "send", msg |-> disp[e].msg, worker |-> v])
      BY DEF Formed
    <3> QED
      BY <1>3, <1>5, <1>6, <2>1, <3>1, <3>2
  <2>2. CASE fate' # fate
    <3>1. /\ disp' = [disp EXCEPT ![e] = [Away EXCEPT !.pc = "recv"]]
          /\ Ended(disp[e].msg, "unknown") \/ Ended(disp[e].msg, "no worker")
      BY <1>9, <2>2 DEF DispatchLookup
    <3>2. fate' \in Fates /\ NoneDropped'
      BY <1>1, <3>1, FateEnds
    <3> QED
      BY <1>3, <1>5, <3>1, <3>2
  <2> QED
    BY <2>1, <2>2
<1>10. CASE DispatchEnqueue(e)
  BY <1>3, <1>5, <1>6, <1>10 DEF DispatchEnqueue
<1>11. CASE DispatchPanic(e)
  BY <1>11, SparesFrame DEF DispatchPanic, contexts, traffic
<1>12. CASE DispatchGiveUp(e)
  <2>1. fate' \in Fates /\ NoneDropped'
    BY <1>1, <1>2, <1>12, FateEnds DEF DispatchGiveUp
  <2> QED
    BY <1>2, <1>3, <1>5, <1>12, <2>1 DEF DispatchGiveUp
<1> QED
  BY <1>7, <1>8, <1>9, <1>10, <1>11, <1>12 DEF Dispatch

LEMMA SparesWorker ==
  ASSUME SparesInv, NEW w \in Workers, Worker(w)
  PROVE  SparesInv'
<1>1. UNCHANGED <<main, cancelled, disp>>
  BY DEF Worker, contexts, WorkerTake, WorkerDone, WorkerAbandon, WorkerSend
<1>2. ctxOf[w] \in cancelled => ~Serving
  BY DEF SparesInv, NoneCancelled
<1>3. NoneCancelled' /\ DispatcherStays' /\ Dispatchers'
  BY <1>1 DEF SparesInv, NoneCancelled, DispatcherStays, Dispatchers, Serving, Formed
<1>4. CASE WorkerTake(w)
  BY <1>1, <1>4, SparesFrame DEF WorkerTake
<1>5. CASE WorkerDone(w)
  <2>1. fate \in Fates
    BY DEF SparesInv
  <2>2. ASSUME NEW k \in Ids
        PROVE  /\ fate'[k] \in [on : Names \cup {AnyName}, is : Ends]
               /\ fate'[k] = fate[k] \/ k \in ToSet(queue[w])
    BY <1>5, <2>1, <2>2 DEF WorkerDone, Fates
  <2>3. fate' \in Fates
    BY <1>5, <2>2 DEF WorkerDone, Fates
  <2>4. ToSet(queue[w]) = {} \/ ~Serving
    BY <1>2, <1>5 DEF WorkerDone, Exhausted, ToSet
  <2>5. NoneDropped'
    BY <1>1, <2>2, <2>4 DEF SparesInv, NoneDropped, Serving
  <2> QED
    BY <1>3, <2>3, <2>5 DEF SparesInv
<1>6. CASE WorkerAbandon(w)
  <2>1. fate' \in Fates /\ NoneDropped'
    BY <1>1, <1>2, <1>6, FateEnds DEF WorkerAbandon
  <2> QED
    BY <1>3, <2>1 DEF SparesInv
<1>7. ASSUME NEW ok \in BOOLEAN, WorkerSend(w, ok) PROVE SparesInv'
  <2>1. Ended(work[w].msg, "sent") \/ Ended(work[w].msg, "failed")
    BY <1>7 DEF WorkerSend
  <2>2. fate' \in Fates /\ NoneDropped'
    BY <1>1, <2>1, FateEnds
  <2> QED
    BY <1>3, <2>2 DEF SparesInv
<1> QED
  BY <1>4, <1>5, <1>6, <1>7 DEF Worker

LEMMA SparesStart ==
  ASSUME SparesInv, NEW failing \in SUBSET Names, StartAll(failing)
  PROVE  SparesInv'
<1>1. main.pc = "new" /\ UNCHANGED fate
  BY DEF StartAll
<1>2. fate' \in Fates /\ NoneDropped'
  BY <1>1 DEF SparesInv, NoneDropped, Serving
<1>3. CASE main'.pc = "stopped" /\ UNCHANGED disp
  BY <1>2, <1>3 DEF SparesInv, NoneCancelled, DispatcherStays, Dispatchers, Serving, Formed
<1>4. CASE disp' = [disp EXCEPT ![0].pc = "recv"] /\ UNCHANGED cancelled
  <2>1. PICK p, m, w : disp[0] = [pc |-> p, msg |-> m, worker |-> w]
    BY EpochZero DEF SparesInv, Dispatchers, Formed
  <2>2. disp' = [disp EXCEPT ![0] = [pc |-> "recv", msg |-> m, worker |-> w]]
    <3>1. [disp[0] EXCEPT !.pc = "recv"] = [pc |-> "recv", msg |-> m, worker |-> w]
      BY <2>1
    <3>2. disp' = [disp EXCEPT ![0] = [disp[0] EXCEPT !.pc = "recv"]]
      BY <1>4
    <3> QED
      BY <3>1, <3>2
  <2>3. \A e \in Epochs : disp'[e] = IF e = 0 THEN [pc |-> "recv", msg |-> m, worker |-> w] ELSE disp[e]
    BY <2>2 DEF SparesInv, Dispatchers
  <2>4. Dispatchers'
    BY <2>2, <2>3 DEF SparesInv, Dispatchers, Formed
  <2>5. disp'[0].pc = "recv" /\ NoneCancelled'
    BY <1>1, <1>4, <2>3, EpochZero DEF SparesInv, NoneCancelled, Serving
  <2> QED
    BY <1>2, <2>4, <2>5 DEF SparesInv, DispatcherStays
<1> QED
  BY <1>3, <1>4 DEF StartAll, Idle

LEMMA SparesPublish ==
  ASSUME SparesInv, NEW c \in Names, Publish(c)
  PROVE  SparesInv'
<1>1. UNCHANGED <<main, cancelled, disp>> /\ fate' = [fate EXCEPT ![published'] = [on |-> c, is |-> "pending"]]
  BY DEF Publish, contexts
<1>2. fate \in Fates
  BY DEF SparesInv
<1>3. ASSUME NEW k \in Ids
      PROVE  /\ fate'[k] \in [on : Names \cup {AnyName}, is : Ends]
             /\ fate'[k].is = fate[k].is \/ fate'[k].is = "pending"
  BY <1>1, <1>2, <1>3 DEF Fates
<1>4. fate' \in Fates
  BY <1>1, <1>2, <1>3 DEF Fates
<1> QED
  BY <1>1, <1>3, <1>4
     DEF SparesInv, NoneCancelled, NoneDropped, DispatcherStays, Dispatchers, Serving, Formed

LEMMA SparesReload ==
  ASSUME SparesInv, Reloading \/ \E cfg \in Configs : ReloadBegin(cfg)
  PROVE  SparesInv'
<1>1. ASSUME NEW cfg \in Configs, ReloadBegin(cfg) PROVE SparesInv'
  BY <1>1, SparesFrame DEF ReloadBegin, CancelledByReload, DispatchersOf
<1>2. CASE ReloadReleased \/ ReloadEnd
  BY <1>2, SparesFrame DEF ReloadReleased, ReloadEnd, contexts, traffic
<1>3. ASSUME NEW failing \in SUBSET Names, ReloadBuild(failing) PROVE SparesInv'
  BY <1>3, SparesFrame DEF ReloadBuild, contexts, traffic
<1>4. ASSUME NEW c \in Names, ReloadRemove(c) PROVE SparesInv'
  BY <1>4, SparesFrame DEF ReloadRemove, contexts, traffic
<1>5. ASSUME NEW c \in Names, NEW ok \in BOOLEAN, ReloadStart(c, ok) PROVE SparesInv'
  BY <1>5, SparesFrame DEF ReloadStart
<1> QED
  BY <1>1, <1>2, <1>3, <1>4, <1>5 DEF Reloading

LEMMA SparesStop ==
  ASSUME SparesInv, StopAll \/ StopAllDone
  PROVE  SparesInv'
<1>1. ~Serving'
  BY DEF StopAll, StopAllDone, Serving, Idle
<1>2. UNCHANGED <<fate, disp>>
  BY DEF StopAll, StopAllDone, traffic
<1> QED
  BY <1>1, <1>2 DEF SparesInv, NoneCancelled, NoneDropped, DispatcherStays, Dispatchers, Formed

LEMMA SparesStep == SparesInv /\ [Next]_vars => SparesInv'
<1> SUFFICES ASSUME SparesInv, [Next]_vars PROVE SparesInv'
  OBVIOUS
<1>1. ASSUME NEW r \in 1..LastReload, Late(r) PROVE SparesInv'
  BY <1>1, SparesFrame DEF Late, LateRegister, LateUnregister, LateUnregistered, contexts, traffic
<1>2. CASE UNCHANGED vars
  BY <1>2, SparesFrame DEF vars, contexts, traffic
<1> QED
  BY <1>1, <1>2, SparesStart, SparesPublish, SparesDispatch, SparesWorker, SparesReload, SparesStop DEF Next

\* Whatever channels a reload replaces, the dispatcher and the workers of the others go
\* on: until StopAll no message is dropped because a context ended.
THEOREM ReloadSparesOthersCorrect == Spec => []ReloadSparesOthers
<1>1. SparesInv => ReloadSparesOthers
  BY DEF SparesInv, NoneDropped, DispatcherStays, Serving, ReloadSparesOthers
<1> QED
  BY SparesInit, SparesStep, <1>1, PTL DEF Spec

-----------------------------------------------------------------------------
(* Sequences without repetition, and the greatest number of a set           *)

LEMMA SeqElements ==
  ASSUME NEW S, NEW q \in Seq(S)
  PROVE  /\ ToSet(q) \subseteq S
         /\ \A x \in S : Append(q, x) \in Seq(S) /\ ToSet(Append(q, x)) = ToSet(q) \cup {x}
         /\ q # <<>> => /\ Head(q) \in ToSet(q) /\ Tail(q) \in Seq(S)
                        /\ ToSet(Tail(q)) \subseteq ToSet(q)
                        /\ \A x \in ToSet(q) : x \in ToSet(Tail(q)) \/ x = Head(q)
<1>1. ASSUME NEW x \in S PROVE Append(q, x) \in Seq(S) /\ ToSet(Append(q, x)) = ToSet(q) \cup {x}
  <2>1. /\ Append(q, x) \in Seq(S) /\ Len(Append(q, x)) = Len(q) + 1
        /\ \A i \in 1..Len(q) : Append(q, x)[i] = q[i]
        /\ Append(q, x)[Len(q) + 1] = x
    OBVIOUS
  <2>2. DOMAIN q = 1..Len(q) /\ DOMAIN Append(q, x) = 1..(Len(q) + 1) /\ Len(q) \in Nat
    BY <2>1
  <2> QED
    BY <2>1, <2>2 DEF ToSet
<1>2. ASSUME q # <<>>
      PROVE  /\ Head(q) \in ToSet(q) /\ Tail(q) \in Seq(S)
             /\ ToSet(Tail(q)) \subseteq ToSet(q)
             /\ \A x \in ToSet(q) : x \in ToSet(Tail(q)) \/ x = Head(q)
  <2>1. /\ Len(q) \in Nat \ {0} /\ Head(q) = q[1] /\ DOMAIN q = 1..Len(q)
        /\ Tail(q) \in Seq(S) /\ DOMAIN Tail(q) = 1..(Len(q) - 1)
        /\ \A i \in 1..(Len(q) - 1) : Tail(q)[i] = q[i + 1]
    BY <1>2
  <2>2. ASSUME NEW i \in DOMAIN q PROVE i = 1 \/ (i - 1 \in DOMAIN Tail(q) /\ Tail(q)[i - 1] = q[i])
    BY <2>1
  <2>3. ASSUME NEW i \in DOMAIN Tail(q) PROVE i + 1 \in DOMAIN q /\ Tail(q)[i] = q[i + 1]
    BY <2>1
  <2>4. ASSUME NEW x \in ToSet(q) PROVE x \in ToSet(Tail(q)) \/ x = Head(q)
    <3>1. PICK i \in DOMAIN q : x = q[i]
      BY DEF ToSet
    <3> QED
      BY <2>1, <2>2, <3>1 DEF ToSet
  <2>5. ToSet(Tail(q)) \subseteq ToSet(q)
    BY <2>3 DEF ToSet
  <2>6. Head(q) \in ToSet(q)
    BY <2>1 DEF ToSet
  <2> QED
    BY <2>1, <2>4, <2>5, <2>6
<1>3. ToSet(q) \subseteq S
  BY DEF ToSet
<1> QED
  BY <1>1, <1>2, <1>3

\* The sequence of a finite set holds each of its members at one place.
LEMMA Enumerated ==
  ASSUME NEW S, IsFiniteSet(S)
  PROVE  /\ Cardinality(S) \in Nat /\ SetToSeq(S) \in Seq(S) /\ Len(SetToSeq(S)) = Cardinality(S)
         /\ \A c \in S : IndexIn(c, SetToSeq(S)) \in 1..Cardinality(S)
         /\ \A c : c \notin S => IndexIn(c, SetToSeq(S)) = 0
         /\ \A c, d \in S : IndexIn(c, SetToSeq(S)) = IndexIn(d, SetToSeq(S)) => c = d
<1> DEFINE n == Cardinality(S)
           q == SetToSeq(S)
<1>1. n \in Nat /\ ExistsBijection(1..n, S)
  BY FS_CardinalityType
<1>2. \E f \in [1..n -> S] : IsInjective(f)
  BY <1>1 DEF ExistsBijection, Bijection, Injection
<1>3. q \in [1..n -> S] /\ IsInjective(q)
  BY <1>2 DEF SetToSeq
<1>4. q \in Injection(1..n, S)
  BY <1>3 DEF Injection
<1>5. IsFiniteSet(1..n) /\ Cardinality(1..n) = n
  BY <1>1, FS_Interval
<1>6. q \in Surjection(1..n, S)
  BY <1>4, <1>5, FS_Injection
<1>7. \A c \in S : \E k \in 1..n : q[k] = c
  BY <1>6 DEF Surjection
<1>8. q \in Seq(S) /\ Len(q) = n
  BY <1>1, <1>3
<1> HIDE DEF n, q
<1>9. ASSUME NEW c, NEW k \in 1..n, q[k] = c PROVE IndexIn(c, q) = k
  <2>1. {j \in DOMAIN q : q[j] = c} = {k}
    BY <1>3, <1>9 DEF IsInjective
  <2>2. \E x \in {0, k} : \A y \in {0, k} : x >= y
    BY <1>1, <1>9
  <2>3. Max({0, k}) \in {0, k} /\ Max({0, k}) >= k
    BY <2>2 DEF Max
  <2>4. {0} \cup {k} = {0, k}
    OBVIOUS
  <2>5. IndexIn(c, q) = Max({0, k})
    BY <2>1, <2>4 DEF IndexIn
  <2> HIDE DEF IndexIn
  <2>6. k \in Nat /\ k >= 1
    BY <1>1, <1>9
  <2> QED
    BY <2>3, <2>5, <2>6
<1>10. ASSUME NEW c, c \notin S PROVE IndexIn(c, q) = 0
  <2>1. {j \in DOMAIN q : q[j] = c} = {}
    BY <1>3, <1>10
  <2>2. Max({0}) = 0
    BY DEF Max
  <2> QED
    BY <2>1, <2>2 DEF IndexIn
<1>11. ASSUME NEW c \in S PROVE IndexIn(c, q) \in 1..n /\ q[IndexIn(c, q)] = c
  BY <1>7, <1>9
<1> QED
  BY <1>1, <1>8, <1>10, <1>11 DEF n, q

LEMMA LeastNat ==
  ASSUME NEW T, T \subseteq Nat, T # {}
  PROVE  \E x \in T : \A y \in T : x <= y
<1>1. PICK x \in T : \A y \in T : ~ (<<y, x>> \in OpToRel(<, Nat))
  BY NatLessThanWellFounded, WFMin
<1>2. \A y \in T : ~ (y < x)
  BY <1>1 DEF OpToRel
<1> QED
  BY <1>2

\* One more than the greatest member is in no bounded set of numbers.
LEMMA AboveMax ==
  ASSUME NEW n \in Nat, NEW S, S \subseteq 1..n
  PROVE  /\ Max(S \cup {0}) \in Nat
         /\ \A v \in S : v <= Max(S \cup {0})
<1> DEFINE T == {n - v : v \in S \cup {0}}
<1>1. \A v \in S \cup {0} : v \in 0..n /\ n - v \in T
  OBVIOUS
<1>2. T \subseteq Nat /\ T # {}
  BY <1>1
<1>3. PICK t \in T : \A y \in T : t <= y
  BY <1>2, LeastNat
<1>4. PICK x \in S \cup {0} : t = n - x
  OBVIOUS
<1>5. ASSUME NEW v \in S \cup {0} PROVE x >= v
  <2>1. v \in 0..n /\ x \in 0..n /\ n - v \in T
    BY <1>1
  <2>2. n - x <= n - v
    BY <1>3, <1>4, <2>1
  <2> QED
    BY <2>1, <2>2
<1>6. Max(S \cup {0}) \in S \cup {0} /\ \A v \in S \cup {0} : Max(S \cup {0}) >= v
  BY <1>5 DEF Max
<1> HIDE DEF T
<1>7. Max(S \cup {0}) \in 0..n /\ \A v \in S : v \in 0..n
  BY <1>1, <1>6
<1> QED
  BY <1>6, <1>7

-----------------------------------------------------------------------------
(* Types                                                                    *)

Points == {"new", "idle", "remove", "drain", "start", "stopping", "stopped"}
Reconciling == main.pc \in {"remove", "drain", "start"}

\* What a Reload leaves to its goroutine.
Entry == {Unregister(c) : c \in Names} \cup {Register(c, i) : c \in Names, i \in Insts}
MainState == [pc : Points, removed : SUBSET Names, added : SUBSET Names,
              at : Names \cup {AnyName}, defers : Seq(Entry)]
AtDispatch == [pc : {"off", "recv", "look", "send"}, msg : Ids \cup {None}, worker : Workers \cup {None}]
AtWork == [pc : {"off", "idle", "sending", "done"}, msg : Ids \cup {None}]

RegistryTypes ==
  /\ hashes \in Configs /\ shaky \subseteq Names
  /\ channels \in [Names -> Insts \cup {None}] /\ workers \in [Names -> Workers \cup {None}]
  /\ started \subseteq Insts /\ made \in 0..LastInst
  /\ chanOf \in [Workers -> Insts \cup {None}] /\ closed \subseteq Workers

ContextTypes ==
  /\ task \in -1..LastReload /\ cancelled \subseteq Epochs /\ ctxOf \in [Workers -> Epochs]
  /\ main.pc \in {"idle", "remove", "drain", "start"} => task \in Epochs

MainTypes ==
  /\ main \in MainState /\ late \in [1..LastReload -> Seq(Entry)]
  /\ lock \in {Free} \cup 0..LastReload
  /\ lock \in 1..LastReload => late[lock] # <<>>

TrafficTypes ==
  /\ bus \in Seq(Ids) /\ published \in 0..LastMsg /\ crashed \in BOOLEAN
  /\ disp \in [Epochs -> AtDispatch]
  /\ \A e \in Epochs : /\ disp[e].pc \in {"look", "send"} => disp[e].msg \in Ids
                       /\ disp[e].pc = "send" => disp[e].worker \in Workers
  /\ queue \in [Workers -> Seq(Ids)] /\ \A w \in Workers : Len(queue[w]) <= QueueSize
  /\ work \in [Workers -> AtWork] /\ \A w \in Workers : work[w].pc = "sending" => work[w].msg \in Ids
  /\ sent \in [Names -> Seq(Ids)] /\ fate \in Fates
  /\ Names = {} => bus = <<>> /\ \A e \in Epochs : disp[e].pc \notin {"look", "send"}

TypeInv == RegistryTypes /\ ContextTypes /\ MainTypes /\ TrafficTypes

LEMMA Numbers ==
  /\ LastInst \in Nat \ {0} /\ LastReload \in Nat /\ LastMsg \in Nat /\ QueueSize \in Nat \ {0}
  /\ Insts = 1..LastInst /\ Workers = 1..LastInst /\ Ids = 1..LastMsg /\ Epochs = 0..LastReload
  /\ None = 0 /\ None \notin Insts /\ None \notin Workers /\ None \notin Ids
  /\ 0 \in Epochs /\ Free = -1 /\ Main = 0
  BY ChannelConstants DEF Insts, Workers, Ids, Epochs, None, Free, Main

LEMMA SomeName == Names # {} => AnyName \in Names
  BY DEF AnyName

Resting(x) == x.removed = {} /\ x.added = {} /\ x.defers = <<>>

LEMMA IdleState ==
  /\ Idle \in MainState /\ Idle.pc = "idle" /\ Resting(Idle)
  /\ \A p \in Points : /\ [Idle EXCEPT !.pc = p] \in MainState
                       /\ [Idle EXCEPT !.pc = p].pc = p /\ Resting([Idle EXCEPT !.pc = p])
<1>1. <<>> \in Seq(Entry)
  OBVIOUS
<1>2. Idle \in MainState
  BY <1>1 DEF Idle, MainState, Points
<1>3. Idle.pc = "idle" /\ Resting(Idle)
  BY DEF Idle, Resting
<1>4. ASSUME NEW p \in Points
      PROVE  /\ [Idle EXCEPT !.pc = p] \in MainState
             /\ [Idle EXCEPT !.pc = p].pc = p /\ Resting([Idle EXCEPT !.pc = p])
  BY <1>2, <1>3 DEF MainState, Resting
<1> QED
  BY <1>2, <1>3, <1>4, Zenon

\* An entry is what it says, and names a channel.
LEMMA EntryForm ==
  ASSUME NEW x \in Entry
  PROVE  /\ x.name \in Names
         /\ x.op = "register" => x.inst \in Insts /\ x = Register(x.name, x.inst)
         /\ x.op = "unregister" => x = Unregister(x.name)
  BY DEF Entry, Register, Unregister

LEMMA EntriesApart ==
  /\ \A c, d, i, j : Register(c, i) = Register(d, j) <=> c = d /\ i = j
  /\ \A c, d : Unregister(c) = Unregister(d) <=> c = d
  /\ \A c, d, i : Register(c, i) # Unregister(d)
  /\ \A c, i : Register(c, i).name = c /\ Unregister(c).name = c
  /\ \A c \in Names : Unregister(c) \in Entry /\ \A i \in Insts : Register(c, i) \in Entry
<1>1. ASSUME NEW c, NEW d, NEW i, NEW j
      PROVE  /\ Register(c, i) = Register(d, j) <=> c = d /\ i = j
             /\ Unregister(c) = Unregister(d) <=> c = d
             /\ Register(c, i) # Unregister(d)
             /\ Register(c, i).name = c /\ Unregister(c).name = c
  BY DEF Register, Unregister
<1> QED
  BY <1>1 DEF Entry

LEMMA TypeInit == Init => TypeInv
<1> SUFFICES ASSUME NEW hs \in Configs, NEW unbuilt \in SUBSET Names,
                    LET order == SetToSeq({c \in Names : hs[c] # None} \ unbuilt)
                    IN  InitFor(hs, [c \in Names |-> IndexIn(c, order)], Len(order))
             PROVE  TypeInv
  BY DEF Init
<1> DEFINE S == {c \in Names : hs[c] # None} \ unbuilt
           enabled == {c \in Names : hs[c] # 0}
           order == SetToSeq(S)
           cs == [c \in Names |-> IndexIn(c, order)]
<1>1. IsFiniteSet(enabled) /\ Cardinality(enabled) <= LastInst
  <2>1. IsFiniteSet(Names) /\ Cardinality(enabled) <= LastInst
    BY ChannelConstants
  <2>2. enabled \in SUBSET Names
    OBVIOUS
  <2> QED
    BY <2>1, <2>2, FS_Subset
<1>2. IsFiniteSet(S) /\ Cardinality(S) <= Cardinality(enabled)
  <2>1. S \in SUBSET enabled
    BY DEF None
  <2> HIDE DEF S, enabled
  <2> QED
    BY <1>1, <2>1, FS_Subset
<1>3. /\ Cardinality(S) \in Nat /\ Len(order) = Cardinality(S)
      /\ \A c \in S : IndexIn(c, order) \in 1..Cardinality(S)
      /\ \A c : c \notin S => IndexIn(c, order) = 0
  <2> HIDE DEF S
  <2> QED
    BY <1>2, Enumerated
<1>4. Cardinality(enabled) \in Nat
  BY <1>1, FS_CardinalityType
<1> HIDE DEF S, enabled
<1>5. Cardinality(S) \in 0..LastInst
  BY <1>1, <1>2, <1>3, <1>4, Numbers
<1>6. \A c : IndexIn(c, order) \in Insts \cup {None}
  BY <1>3, <1>5, Numbers
<1>7. InitFor(hs, cs, Len(order))
  BY DEF S
<1> HIDE DEF order
<1>8. RegistryTypes
  <2>1. /\ hashes = hs /\ channels = cs /\ made = Len(order) /\ workers = [c \in Names |-> None]
        /\ started = {} /\ chanOf = [w \in Workers |-> None] /\ closed = {} /\ shaky = {}
    BY <1>7 DEF InitFor
  <2>2. cs \in [Names -> Insts \cup {None}]
    BY <1>6
  <2> HIDE DEF cs
  <2> QED
    BY <1>3, <1>5, <2>1, <2>2, Numbers DEF RegistryTypes
<1>9. main = [Idle EXCEPT !.pc = "new"] /\ main.pc = "new" /\ "new" \in Points
  BY <1>7 DEF InitFor, Idle, Points
<1>10. ContextTypes /\ MainTypes
  BY <1>7, <1>9, Numbers, IdleState DEF InitFor, ContextTypes, MainTypes
<1>11. fate \in Fates
  BY <1>7 DEF InitFor, Fates
<1>12. disp \in [Epochs -> AtDispatch] /\ \A e \in Epochs : disp[e].pc = "off"
  BY <1>7 DEF InitFor, Away, AtDispatch, None
<1>13. work \in [Workers -> AtWork] /\ \A w \in Workers : work[w].pc = "off"
  BY <1>7 DEF InitFor, AtWork, None
<1>14. <<>> \in Seq(Ids) /\ Len(<<>>) = 0
  OBVIOUS
<1>15. queue \in [Workers -> Seq(Ids)] /\ \A w \in Workers : Len(queue[w]) <= QueueSize
  BY <1>7, <1>14, Numbers DEF InitFor
<1>16. bus = <<>> /\ published = 0 /\ crashed = FALSE /\ sent = [c \in Names |-> <<>>]
  BY <1>7 DEF InitFor
<1>17. bus \in Seq(Ids) /\ published \in 0..LastMsg /\ crashed \in BOOLEAN /\ sent \in [Names -> Seq(Ids)]
  <2>1. crashed \in BOOLEAN
    BY <1>16, Zenon
  <2>2. sent \in [Names -> Seq(Ids)]
    BY <1>14, <1>16
  <2>3. bus \in Seq(Ids) /\ published \in 0..LastMsg
    BY <1>16, Numbers
  <2> QED
    BY <2>1, <2>2, <2>3
<1>18. TrafficTypes
  BY <1>11, <1>12, <1>13, <1>15, <1>16, <1>17 DEF TrafficTypes
<1> QED
  BY <1>8, <1>10, <1>18 DEF TypeInv

\* The traffic of one step: what it may change of the streams.
LEMMA TypeDispatch ==
  ASSUME TypeInv, fate' \in Fates, NEW e \in Epochs, Dispatch(e)
  PROVE  TypeInv'
<1>1. UNCHANGED <<registry, contexts, lock, main, late, closed, shaky, published, sent, work>>
  BY DEF Dispatch, DispatchReceive, DispatchStop, DispatchLookup, DispatchEnqueue, DispatchPanic, DispatchGiveUp,
         traffic
<1>2. RegistryTypes' /\ ContextTypes' /\ MainTypes'
  BY <1>1 DEF TypeInv, RegistryTypes, ContextTypes, MainTypes, registry, contexts
<1>3. TrafficTypes /\ disp[e] \in AtDispatch
  BY DEF TypeInv, TrafficTypes
<1>4. ASSUME NEW d \in AtDispatch, disp' = [disp EXCEPT ![e] = d], bus' \in Seq(Ids), crashed' \in BOOLEAN,
             d.pc \in {"look", "send"} => d.msg \in Ids /\ Names # {}, d.pc = "send" => d.worker \in Workers,
             bus' # <<>> => Names # {},
             queue' \in [Workers -> Seq(Ids)], \A w \in Workers : Len(queue'[w]) <= QueueSize
      PROVE  TypeInv'
  <2>1. \A f \in Epochs : disp'[f] = IF f = e THEN d ELSE disp[f]
    BY <1>3, <1>4 DEF TrafficTypes
  <2>2. disp' \in [Epochs -> AtDispatch]
    BY <1>3, <1>4 DEF TrafficTypes
  <2>3. \A f \in Epochs : /\ disp'[f].pc \in {"look", "send"} => disp'[f].msg \in Ids
                          /\ disp'[f].pc = "send" => disp'[f].worker \in Workers
    BY <1>3, <1>4, <2>1 DEF TrafficTypes
  <2>4. Names = {} => bus' = <<>> /\ \A f \in Epochs : disp'[f].pc \notin {"look", "send"}
    BY <1>3, <1>4, <2>1 DEF TrafficTypes
  <2>5. TrafficTypes'
    BY <1>1, <1>3, <1>4, <2>2, <2>3, <2>4 DEF TrafficTypes
  <2> QED
    BY <1>2, <2>5 DEF TypeInv
<1>5. Away \in AtDispatch /\ Away.pc = "off"
      /\ [Away EXCEPT !.pc = "recv"] \in AtDispatch /\ [Away EXCEPT !.pc = "recv"].pc = "recv"
  BY DEF Away, AtDispatch
<1>6. CASE DispatchReceive(e)
  <2> DEFINE d == [pc |-> "look", msg |-> Head(bus), worker |-> None]
  <2>1. bus # <<>> /\ bus \in Seq(Ids) /\ Names # {}
    BY <1>3, <1>6 DEF DispatchReceive, TrafficTypes
  <2>2. Head(bus) \in Ids /\ Tail(bus) \in Seq(Ids)
    BY <2>1
  <2>3. d \in AtDispatch /\ d.pc = "look" /\ d.msg \in Ids
    BY <2>2 DEF AtDispatch
  <2>4. disp' = [disp EXCEPT ![e] = d] /\ bus' = Tail(bus) /\ UNCHANGED <<queue, crashed>>
    BY <1>6 DEF DispatchReceive
  <2> HIDE DEF d
  <2>5. queue' \in [Workers -> Seq(Ids)] /\ \A w \in Workers : Len(queue'[w]) <= QueueSize
    BY <1>3, <2>4 DEF TrafficTypes
  <2>6. crashed' \in BOOLEAN
    BY <1>3, <2>4, Zenon DEF TrafficTypes
  <2> QED
    BY <1>4, <2>1, <2>2, <2>3, <2>4, <2>5, <2>6
<1>7. ASSUME UNCHANGED <<bus, queue, crashed>>, NEW d \in AtDispatch, disp' = [disp EXCEPT ![e] = d],
             d.pc \in {"look", "send"} => d.msg \in Ids /\ Names # {}, d.pc = "send" => d.worker \in Workers
      PROVE  TypeInv'
  <2>1. bus' \in Seq(Ids) /\ queue' \in [Workers -> Seq(Ids)] /\ \A w \in Workers : Len(queue'[w]) <= QueueSize
    BY <1>3, <1>7 DEF TrafficTypes
  <2>2. bus' # <<>> => Names # {}
    BY <1>3, <1>7 DEF TrafficTypes
  <2>3. crashed' \in BOOLEAN
    BY <1>3, <1>7, Zenon DEF TrafficTypes
  <2> QED
    BY <1>4, <1>7, <2>1, <2>2, <2>3
<1>8. CASE DispatchStop(e)
  BY <1>5, <1>7, <1>8 DEF DispatchStop
<1>9. CASE DispatchLookup(e)
  <2>1. disp[e].msg \in Ids /\ Names # {}
    BY <1>3, <1>9 DEF DispatchLookup, TrafficTypes
  <2>2. fate[disp[e].msg].on \in Names
    BY <1>3, <2>1, SomeName DEF TrafficTypes, Fates
  <2> DEFINE v == workers[fate[disp[e].msg].on]
             d == [pc |-> "send", msg |-> disp[e].msg, worker |-> v]
  <2>3. v \in Workers \cup {None}
    BY <2>2 DEF TypeInv, RegistryTypes
  <2>4. UNCHANGED <<bus, queue, crashed>>
    BY <1>9 DEF DispatchLookup
  <2>5. CASE v = None \/ channels[fate[disp[e].msg].on] = None
    BY <1>5, <1>7, <1>9, <2>4, <2>5 DEF DispatchLookup
  <2>6. CASE v # None /\ disp' = [disp EXCEPT ![e] = d]
    <3>1. d \in AtDispatch /\ d.pc = "send" /\ d.msg \in Ids /\ d.worker \in Workers
      BY <2>1, <2>3, <2>6 DEF AtDispatch
    <3> HIDE DEF d
    <3> QED
      BY <1>7, <2>1, <2>4, <2>6, <3>1
  <2> QED
    BY <1>9, <2>5, <2>6 DEF DispatchLookup
<1>10. CASE DispatchEnqueue(e)
  <2> DEFINE w == disp[e].worker
  <2>1. w \in Workers /\ disp[e].msg \in Ids /\ Len(queue[w]) < QueueSize
    BY <1>3, <1>10 DEF DispatchEnqueue, TrafficTypes
  <2>2. queue' = [queue EXCEPT ![w] = Append(@, disp[e].msg)] /\ UNCHANGED <<bus, crashed>>
    BY <1>10 DEF DispatchEnqueue
  <2> HIDE DEF w
  <2>3. queue \in [Workers -> Seq(Ids)] /\ \A x \in Workers : Len(queue[x]) <= QueueSize
    BY <1>3 DEF TrafficTypes
  <2>4. Append(queue[w], disp[e].msg) \in Seq(Ids) /\ Len(Append(queue[w], disp[e].msg)) = Len(queue[w]) + 1
        /\ Len(queue[w]) \in Nat
    BY <2>1, <2>3
  <2>5. queue' \in [Workers -> Seq(Ids)] /\ \A x \in Workers : Len(queue'[x]) <= QueueSize
    BY <2>1, <2>2, <2>3, <2>4, Numbers
  <2>6. bus' \in Seq(Ids) /\ (bus' # <<>> => Names # {})
    BY <1>3, <2>2 DEF TrafficTypes
  <2>7. crashed' \in BOOLEAN
    BY <1>3, <2>2, Zenon DEF TrafficTypes
  <2>8. disp' = [disp EXCEPT ![e] = [Away EXCEPT !.pc = "recv"]]
    BY <1>10 DEF DispatchEnqueue
  <2> QED
    BY <1>4, <1>5, <2>5, <2>6, <2>7, <2>8
<1>11. CASE DispatchPanic(e)
  <2>1. UNCHANGED traffic /\ crashed' = TRUE
    BY <1>11 DEF DispatchPanic
  <2>2. crashed' \in BOOLEAN
    BY <2>1, Zenon
  <2>3. TrafficTypes'
    BY <1>3, <2>1, <2>2 DEF TrafficTypes, traffic
  <2> QED
    BY <1>2, <2>3 DEF TypeInv
<1>12. CASE DispatchGiveUp(e)
  BY <1>5, <1>7, <1>12 DEF DispatchGiveUp
<1> QED
  BY <1>6, <1>8, <1>9, <1>10, <1>11, <1>12 DEF Dispatch

LEMMA ReadyWork == Ready \in AtWork /\ Ready.pc = "idle"
  BY DEF Ready, AtWork

LEMMA TypeWorker ==
  ASSUME TypeInv, fate' \in Fates, NEW w \in Workers, Worker(w)
  PROVE  TypeInv'
<1>1. UNCHANGED <<registry, contexts, lock, main, late, closed, shaky, published, bus, disp, crashed>>
  BY DEF Worker, WorkerTake, WorkerDone, WorkerAbandon, WorkerSend
<1>2. RegistryTypes' /\ ContextTypes' /\ MainTypes'
  BY <1>1 DEF TypeInv, RegistryTypes, ContextTypes, MainTypes, registry, contexts
<1>3. TrafficTypes /\ work[w] \in AtWork /\ queue[w] \in Seq(Ids)
  BY DEF TypeInv, TrafficTypes
<1>4. crashed' \in BOOLEAN
  BY <1>1, <1>3, Zenon DEF TrafficTypes
<1>5. ASSUME NEW d \in AtWork, work' = [work EXCEPT ![w] = d], d.pc = "sending" => d.msg \in Ids,
             NEW q \in Seq(Ids), Len(q) <= QueueSize, queue' = [queue EXCEPT ![w] = q],
             sent' \in [Names -> Seq(Ids)]
      PROVE  TypeInv'
  <2>1. work' \in [Workers -> AtWork] /\ \A v \in Workers : work'[v] = IF v = w THEN d ELSE work[v]
    BY <1>3, <1>5 DEF TrafficTypes
  <2>2. \A v \in Workers : work'[v].pc = "sending" => work'[v].msg \in Ids
    BY <1>3, <1>5, <2>1 DEF TrafficTypes
  <2>3. queue' \in [Workers -> Seq(Ids)] /\ \A v \in Workers : Len(queue'[v]) <= QueueSize
    BY <1>3, <1>5 DEF TrafficTypes
  <2>4. TrafficTypes'
    BY <1>1, <1>3, <1>4, <1>5, <2>1, <2>2, <2>3 DEF TrafficTypes
  <2> QED
    BY <1>2, <2>4 DEF TypeInv
<1>6. queue = [queue EXCEPT ![w] = queue[w]] /\ Len(queue[w]) <= QueueSize /\ sent \in [Names -> Seq(Ids)]
  BY <1>3 DEF TrafficTypes
<1>7. CASE WorkerTake(w)
  <2> DEFINE d == [pc |-> "sending", msg |-> Head(queue[w])]
  <2>1. work' = [work EXCEPT ![w] = d] /\ queue' = [queue EXCEPT ![w] = Tail(queue[w])] /\ sent' = sent
    BY <1>7 DEF WorkerTake
  <2>2. Head(queue[w]) \in Ids /\ Tail(queue[w]) \in Seq(Ids) /\ Len(Tail(queue[w])) = Len(queue[w]) - 1
        /\ Len(queue[w]) \in Nat
    BY <1>3, <1>7 DEF WorkerTake
  <2>3. d \in AtWork /\ d.msg \in Ids
    BY <2>2 DEF AtWork
  <2> HIDE DEF d
  <2>4. Len(Tail(queue[w])) <= QueueSize
    BY <1>6, <2>2, Numbers
  <2> QED
    BY <1>5, <1>6, <2>1, <2>2, <2>3, <2>4
<1>8. CASE WorkerDone(w)
  <2> DEFINE d == [work[w] EXCEPT !.pc = "done"]
  <2>1. work' = [work EXCEPT ![w] = d] /\ queue' = [queue EXCEPT ![w] = <<>>] /\ sent' = sent
    BY <1>8 DEF WorkerDone
  <2>2. d \in AtWork /\ d.pc = "done"
    BY <1>3 DEF AtWork
  <2>3. <<>> \in Seq(Ids) /\ Len(<<>>) <= QueueSize
    BY Numbers
  <2> HIDE DEF d
  <2> QED
    BY <1>5, <1>6, <2>1, <2>2, <2>3
<1>9. CASE WorkerAbandon(w)
  <2>1. work' = [work EXCEPT ![w] = Ready] /\ queue' = queue /\ sent' = sent
    BY <1>9 DEF WorkerAbandon
  <2> QED
    BY <1>3, <1>5, <1>6, <2>1, ReadyWork
<1>10. ASSUME NEW ok \in BOOLEAN, WorkerSend(w, ok) PROVE TypeInv'
  <2>1. work' = [work EXCEPT ![w] = Ready] /\ queue' = queue /\ work[w].msg \in Ids
    BY <1>3, <1>10 DEF WorkerSend, TrafficTypes
  <2>2. \/ sent' = sent
        \/ sent' = [sent EXCEPT ![fate[work[w].msg].on] = Append(sent[fate[work[w].msg].on], work[w].msg)]
    BY <1>10 DEF WorkerSend
  <2>3. \A c \in Names : Append(sent[c], work[w].msg) \in Seq(Ids)
    BY <1>6, <2>1
  <2>4. sent' \in [Names -> Seq(Ids)]
    BY <1>6, <2>2, <2>3
  <2> QED
    BY <1>3, <1>5, <1>6, <2>1, <2>4, ReadyWork
<1> QED
  BY <1>7, <1>8, <1>9, <1>10 DEF Worker

LEMMA TypePublish ==
  ASSUME TypeInv, fate' \in Fates, NEW c \in Names, Publish(c)
  PROVE  TypeInv'
<1>1. UNCHANGED <<registry, contexts, lock, main, late, closed, shaky, disp, queue, work, sent, crashed>>
  BY DEF Publish
<1>2. RegistryTypes' /\ ContextTypes' /\ MainTypes'
  BY <1>1 DEF TypeInv, RegistryTypes, ContextTypes, MainTypes, registry, contexts
<1>3. TrafficTypes
  BY DEF TypeInv
<1>4. published' \in 0..LastMsg /\ published' \in Ids /\ bus' = Append(bus, published')
  BY <1>3, Numbers DEF Publish, TrafficTypes
<1>5. bus' \in Seq(Ids)
  BY <1>3, <1>4 DEF TrafficTypes
<1>6. crashed' \in BOOLEAN
  BY <1>1, <1>3, Zenon DEF TrafficTypes
<1>7. TrafficTypes'
  BY <1>1, <1>3, <1>4, <1>5, <1>6 DEF TrafficTypes
<1> QED
  BY <1>2, <1>7 DEF TypeInv

LEMMA TrafficFrame ==
  ASSUME TrafficTypes, UNCHANGED <<traffic, crashed>>
  PROVE  TrafficTypes'
<1>1. crashed' \in BOOLEAN
  BY Zenon DEF TrafficTypes
<1> QED
  BY <1>1 DEF TrafficTypes, traffic

LEMMA CrashedType == TypeInv => crashed \in BOOLEAN
  BY DEF TypeInv, TrafficTypes

LEMMA TypeStart ==
  ASSUME TypeInv, NEW failing \in SUBSET Names, StartAll(failing)
  PROVE  TypeInv'
<1> DEFINE up == {c \in Names : channels[c] # None} \ failing
<1>1. /\ started' = {channels[c] : c \in up}
      /\ workers' = [c \in Names |-> IF c \in up THEN channels[c] ELSE None]
      /\ chanOf' = [w \in Workers |-> IF w \in started' THEN w ELSE None]
      /\ work' = [w \in Workers |-> IF w \in started' THEN Ready ELSE work[w]]
      /\ UNCHANGED <<hashes, channels, made, ctxOf, lock, late, bus, queue, closed, published,
                     crashed, sent, fate, shaky>>
  BY DEF StartAll
<1>2. \A c \in up : c \in Names /\ channels[c] \in Insts
  BY DEF TypeInv, RegistryTypes
<1> HIDE DEF up
<1>3. RegistryTypes'
  BY <1>1, <1>2, Numbers DEF TypeInv, RegistryTypes
<1>4. /\ main' \in MainState /\ task' \in -1..LastReload /\ cancelled' \subseteq Epochs
      /\ main'.pc \in {"idle", "remove", "drain", "start"} => task' \in Epochs
      /\ disp' = disp \/ disp' = [disp EXCEPT ![0].pc = "recv"]
  <2>1. CASE main' = [Idle EXCEPT !.pc = "stopped"] /\ cancelled' = {0} /\ UNCHANGED <<task, disp>>
    <3>1. main' \in MainState /\ main'.pc = "stopped"
      BY <2>1, IdleState DEF Points
    <3> QED
      BY <2>1, <3>1, Numbers DEF TypeInv, ContextTypes
  <2>2. CASE main' = Idle /\ task' = 0 /\ disp' = [disp EXCEPT ![0].pc = "recv"] /\ UNCHANGED cancelled
    BY <2>2, IdleState, Numbers DEF TypeInv, ContextTypes
  <2> QED
    BY <2>1, <2>2 DEF StartAll
<1>5. ContextTypes' /\ MainTypes'
  BY <1>1, <1>4 DEF TypeInv, ContextTypes, MainTypes
<1>6. TrafficTypes
  BY DEF TypeInv
<1>7. work' \in [Workers -> AtWork] /\ \A w \in Workers : work'[w].pc = "sending" => work'[w].msg \in Ids
  BY <1>1, <1>6, ReadyWork DEF TrafficTypes
<1>8. [disp[0] EXCEPT !.pc = "recv"] \in AtDispatch /\ [disp[0] EXCEPT !.pc = "recv"].pc = "recv"
  <2>1. disp[0] \in AtDispatch
    BY <1>6, Numbers DEF TrafficTypes
  <2> QED
    BY <2>1 DEF AtDispatch
<1>9. disp' = disp \/ disp' = [disp EXCEPT ![0] = [disp[0] EXCEPT !.pc = "recv"]]
  BY <1>4
<1>10. /\ disp' \in [Epochs -> AtDispatch]
       /\ \A e \in Epochs : disp'[e] = disp[e] \/ disp'[e].pc = "recv"
  <2>1. PICK d \in AtDispatch : d.pc = "recv" /\ (disp' = disp \/ disp' = [disp EXCEPT ![0] = d])
    BY <1>8, <1>9
  <2>2. disp \in [Epochs -> AtDispatch]
    BY <1>6 DEF TrafficTypes
  <2> QED
    BY <2>1, <2>2
<1>11. crashed' \in BOOLEAN
  BY <1>1, CrashedType, Zenon
<1>12. TrafficTypes'
  <2>1. \A e \in Epochs : /\ disp'[e].pc \in {"look", "send"} => disp'[e].msg \in Ids
                          /\ disp'[e].pc = "send" => disp'[e].worker \in Workers
    BY <1>6, <1>10 DEF TrafficTypes
  <2>2. Names = {} => bus' = <<>> /\ \A e \in Epochs : disp'[e].pc \notin {"look", "send"}
    BY <1>1, <1>6, <1>10 DEF TrafficTypes
  <2> QED
    BY <1>1, <1>6, <1>7, <1>10, <1>11, <2>1, <2>2 DEF TrafficTypes
<1> QED
  BY <1>3, <1>5, <1>12 DEF TypeInv

\* The main goroutine moves on with the lists of its Reload.
LEMMA MainMoves ==
  ASSUME main \in MainState, NEW c \in Names
  PROVE  /\ main.pc \in Points /\ main.removed \subseteq Names /\ main.added \subseteq Names
         /\ main.defers \in Seq(Entry) /\ main.at \in Names \cup {AnyName}
         /\ [main EXCEPT !.pc = "drain", !.removed = @ \ {c}, !.at = c] \in MainState
         /\ [main EXCEPT !.removed = @ \ {c}] \in MainState
         /\ \A x \in Entry : [main EXCEPT !.removed = @ \ {c}, !.defers = Append(@, x)] \in MainState
         /\ \A x \in Entry : [main EXCEPT !.added = @ \ {c}, !.defers = Append(@, x)] \in MainState
         /\ [main EXCEPT !.added = @ \ {c}] \in MainState
<1>1. /\ main.pc \in Points /\ main.removed \subseteq Names /\ main.added \subseteq Names
      /\ main.defers \in Seq(Entry) /\ main.at \in Names \cup {AnyName}
  BY DEF MainState
<1>2. \A x \in Entry : Append(main.defers, x) \in Seq(Entry)
  BY <1>1
<1> QED
  BY <1>1, <1>2 DEF MainState, Points

LEMMA TypeRemove ==
  ASSUME TypeInv, NEW c \in Names, ReloadRemove(c)
  PROVE  TypeInv'
<1> DEFINE i == channels[c]
           w == workers[c]
<1>1. /\ started' = started \ {i} /\ main.pc = "remove"
      /\ UNCHANGED <<hashes, workers, made, chanOf, contexts, lock, late, traffic, shaky>>
  BY DEF ReloadRemove
<1>2. \/ /\ w # None /\ CloseQueue(w) /\ UNCHANGED channels
         /\ main' = [main EXCEPT !.pc = "drain", !.removed = @ \ {c}, !.at = c]
      \/ /\ channels' = [channels EXCEPT ![c] = None] /\ UNCHANGED <<closed, crashed>>
         /\ main' = [main EXCEPT !.removed = @ \ {c}]
      \/ /\ main' = [main EXCEPT !.removed = @ \ {c}, !.defers = Append(@, Unregister(c))]
         /\ UNCHANGED <<channels, closed, crashed>>
  BY DEF ReloadRemove
<1>3. main \in MainState /\ RegistryTypes /\ ContextTypes /\ MainTypes /\ TrafficTypes
  BY DEF TypeInv, MainTypes
<1>4. main' \in MainState /\ main'.pc \in {"remove", "drain"}
  <2>1. Unregister(c) \in Entry
    BY EntriesApart
  <2>2. main' \in MainState
    BY <1>2, <1>3, <2>1, MainMoves
  <2>3. main'.pc \in {"remove", "drain"}
    BY <1>1, <1>2, <1>3 DEF MainState
  <2> QED
    BY <2>2, <2>3
<1>5. w \in Workers \cup {None} /\ (closed' = closed \/ (w # None /\ closed' = closed \cup {w}))
      /\ (channels' = channels \/ channels' = [channels EXCEPT ![c] = None])
  BY <1>2, <1>3 DEF CloseQueue, RegistryTypes
<1>6. RegistryTypes'
  BY <1>1, <1>3, <1>5 DEF RegistryTypes
<1>7. ContextTypes' /\ MainTypes'
  BY <1>1, <1>3, <1>4 DEF ContextTypes, MainTypes, contexts
<1>8. crashed' \in BOOLEAN
  <2>1. crashed \in BOOLEAN
    BY CrashedType
  <2>2. crashed' = crashed \/ crashed' = (crashed \/ w \in closed)
    BY <1>2 DEF CloseQueue
  <2> HIDE DEF w
  <2> QED
    BY <2>1, <2>2, Zenon
<1>9. TrafficTypes'
  BY <1>1, <1>3, <1>8 DEF TrafficTypes, traffic
<1> QED
  BY <1>6, <1>7, <1>9 DEF TypeInv

LEMMA TypeBegin ==
  ASSUME TypeInv, NEW cfg \in Configs, ReloadBegin(cfg)
  PROVE  TypeInv'
<1> DEFINE m == [Idle EXCEPT !.pc = "remove", !.removed = Removed(cfg), !.added = Added(cfg)]
<1>1. /\ main.pc = "idle" /\ task < LastReload /\ lock' = Main /\ main' = m
      /\ hashes' = cfg /\ task' = task + 1 /\ cancelled' = cancelled /\ disp' = disp
      /\ shaky' = shaky \cup Entangled \cup {c \in Removed(cfg) \cap Added(cfg) : channels[c] = None}
      /\ UNCHANGED <<channels, workers, started, made, chanOf, ctxOf, late, bus, queue, work, published,
                     sent, fate, closed, crashed>>
  BY DEF ReloadBegin, CancelledByReload, DispatchersOf
<1>2. RegistryTypes /\ ContextTypes /\ MainTypes /\ TrafficTypes
  BY DEF TypeInv
<1>3. m \in MainState
  BY IdleState DEF MainState, Points, Removed, Added
<1>4. Entangled \subseteq Names
  BY <1>2, EntryForm DEF Entangled, MainTypes
<1>5. shaky' \subseteq Names
  BY <1>1, <1>2, <1>4 DEF Removed, RegistryTypes
<1>6. RegistryTypes'
  BY <1>1, <1>2, <1>5 DEF RegistryTypes
<1>7. ContextTypes'
  BY <1>1, <1>2, Numbers DEF ContextTypes
<1>8. MainTypes'
  BY <1>1, <1>2, <1>3, Numbers DEF MainTypes
<1>9. TrafficTypes'
  BY <1>1, <1>2, TrafficFrame DEF traffic
<1> QED
  BY <1>6, <1>7, <1>8, <1>9 DEF TypeInv

LEMMA TypeReload ==
  ASSUME TypeInv, Reloading
  PROVE  TypeInv'
<1>1. main \in MainState /\ RegistryTypes /\ ContextTypes /\ MainTypes /\ TrafficTypes
  BY DEF TypeInv, MainTypes
<1>2. CASE ReloadReleased
  <2>1. /\ main.pc = "drain" /\ main' = [main EXCEPT !.pc = "remove", !.at = AnyName]
        /\ channels' = [channels EXCEPT ![main.at] = None] /\ workers' = [workers EXCEPT ![main.at] = None]
        /\ UNCHANGED <<hashes, started, made, chanOf, contexts, lock, late, traffic, closed, crashed, shaky>>
    BY <1>2 DEF ReloadReleased
  <2>2. main' \in MainState /\ main'.pc = "remove"
    BY <1>1, <2>1 DEF MainState, Points
  <2>3. RegistryTypes' /\ ContextTypes' /\ MainTypes'
    BY <1>1, <2>1, <2>2 DEF RegistryTypes, ContextTypes, MainTypes, contexts
  <2> QED
    BY <1>1, <2>1, <2>3, TrafficFrame DEF TypeInv
<1>3. CASE ReloadEnd
  <2>1. /\ main.pc = "start" /\ main' = Idle /\ lock' = Free /\ late' = [late EXCEPT ![task] = main.defers]
        /\ UNCHANGED <<registry, contexts, traffic, closed, crashed, shaky>>
    BY <1>3 DEF ReloadEnd
  <2>2. main.defers \in Seq(Entry)
    BY <1>1 DEF MainState
  <2>3. RegistryTypes'
    BY <1>1, <2>1 DEF RegistryTypes, registry
  <2>4. ContextTypes'
    BY <1>1, <2>1, IdleState DEF ContextTypes, contexts
  <2>5. late' \in [1..LastReload -> Seq(Entry)]
    BY <1>1, <2>1, <2>2 DEF MainTypes
  <2>6. MainTypes'
    BY <2>1, <2>5, IdleState, Numbers DEF MainTypes
  <2> QED
    BY <1>1, <2>1, <2>3, <2>4, <2>6, TrafficFrame DEF TypeInv
<1>4. ASSUME NEW failing \in SUBSET Names, ReloadBuild(failing) PROVE TypeInv'
  <2> DEFINE S == main.added \ failing
             q == SetToSeq(S)
  <2>1. /\ main.pc = "remove" /\ main' = [main EXCEPT !.pc = "start"]
        /\ made + Len(q) <= LastInst /\ made' = made + Len(q)
        /\ channels' = [c \in Names |-> IF c \in S THEN made + IndexIn(c, q) ELSE channels[c]]
        /\ UNCHANGED <<hashes, workers, started, chanOf, contexts, lock, late, traffic, closed, crashed, shaky>>
    BY <1>4 DEF ReloadBuild
  <2>2. IsFiniteSet(S)
    <3>1. IsFiniteSet(Names) /\ S \in SUBSET Names
      BY <1>1, ChannelConstants DEF MainState
    <3> HIDE DEF S
    <3> QED
      BY <3>1, FS_Subset
  <2> HIDE DEF S
  <2>3. Cardinality(S) \in Nat /\ Len(q) = Cardinality(S) /\ \A c \in S : IndexIn(c, q) \in 1..Cardinality(S)
    BY <2>2, Enumerated
  <2> HIDE DEF q
  <2>4. made \in 0..LastInst /\ made' \in 0..LastInst
    BY <1>1, <2>1, <2>3, Numbers DEF RegistryTypes
  <2>5. ASSUME NEW c \in S PROVE made + IndexIn(c, q) \in Insts
    BY <2>1, <2>3, <2>4, Numbers
  <2>6. RegistryTypes'
    BY <1>1, <2>1, <2>4, <2>5 DEF RegistryTypes
  <2>7. main' \in MainState /\ main'.pc = "start"
    BY <1>1, <2>1 DEF MainState, Points
  <2>8. ContextTypes' /\ MainTypes'
    BY <1>1, <2>1, <2>7 DEF ContextTypes, MainTypes, contexts
  <2> QED
    BY <1>1, <2>1, <2>6, <2>8, TrafficFrame DEF TypeInv
<1>5. ASSUME NEW c \in Names, NEW ok \in BOOLEAN, ReloadStart(c, ok) PROVE TypeInv'
  <2> DEFINE i == channels[c]
             w == 1 + Max({v \in Workers : chanOf[v] # None} \cup {0})
             up == ok /\ i # None
  <2>1. /\ main.pc = "start" /\ (ok => i # None /\ w \in Workers)
        /\ started' = IF up THEN started \cup {i} ELSE started
        /\ workers' = IF up THEN [workers EXCEPT ![c] = w] ELSE workers
        /\ chanOf' = IF up THEN [chanOf EXCEPT ![w] = i] ELSE chanOf
        /\ work' = IF up THEN [work EXCEPT ![w] = Ready] ELSE work
        /\ ctxOf' = IF up THEN [ctxOf EXCEPT ![w] = task] ELSE ctxOf
        /\ main' = [main EXCEPT !.added = @ \ {c}, !.defers = IF up THEN Append(@, Register(c, i)) ELSE @]
        /\ UNCHANGED <<hashes, channels, made, task, cancelled, lock, late, bus, disp, queue,
                       published, sent, fate, closed, crashed, shaky>>
    BY <1>5 DEF ReloadStart
  <2>2. i \in Insts \cup {None}
    BY <1>1 DEF RegistryTypes
  <2> HIDE DEF w, i
  <2>3. RegistryTypes'
    BY <1>1, <2>1, <2>2 DEF RegistryTypes
  <2>4. \/ main' = [main EXCEPT !.added = @ \ {c}, !.defers = Append(@, Register(c, i))] /\ i \in Insts
        \/ main' = [main EXCEPT !.added = @ \ {c}]
    BY <1>1, <2>1, <2>2 DEF MainState
  <2>5. main' \in MainState
    <3>1. CASE main' = [main EXCEPT !.added = @ \ {c}, !.defers = Append(@, Register(c, i))] /\ i \in Insts
      <4>1. Register(c, i) \in Entry
        BY <3>1, EntriesApart
      <4> QED
        BY <1>1, <3>1, <4>1, MainMoves
    <3>2. CASE main' = [main EXCEPT !.added = @ \ {c}]
      BY <1>1, <3>2, MainMoves
    <3> QED
      BY <2>4, <3>1, <3>2
  <2>6. main'.pc = "start"
    BY <1>1, <2>1, <2>4 DEF MainState
  <2>7. ContextTypes' /\ MainTypes'
    BY <1>1, <2>1, <2>5, <2>6 DEF ContextTypes, MainTypes
  <2>8. work' \in [Workers -> AtWork] /\ \A v \in Workers : work'[v].pc = "sending" => work'[v].msg \in Ids
    BY <1>1, <2>1, ReadyWork DEF TrafficTypes
  <2>9. crashed' \in BOOLEAN
    BY <2>1, CrashedType, Zenon
  <2>10. TrafficTypes'
    BY <1>1, <2>1, <2>8, <2>9 DEF TrafficTypes
  <2> QED
    BY <2>3, <2>7, <2>10 DEF TypeInv
<1> QED
  BY <1>2, <1>3, <1>4, <1>5, TypeRemove DEF Reloading

LEMMA TypeLate ==
  ASSUME TypeInv, NEW r \in 1..LastReload, Late(r)
  PROVE  TypeInv'
<1>1. RegistryTypes /\ ContextTypes /\ MainTypes /\ TrafficTypes /\ late[r] \in Seq(Entry)
  BY DEF TypeInv, MainTypes
<1>2. UNCHANGED <<hashes, started, made, chanOf, contexts, main, traffic, crashed, shaky>>
  BY DEF Late, LateRegister, LateUnregister, LateUnregistered, registry
<1>3. r \in 0..LastReload /\ r # Free
  BY Numbers
<1>4. ASSUME late[r] # <<>>
      PROVE  Head(late[r]) \in Entry /\ Head(late[r]).name \in Names /\ Tail(late[r]) \in Seq(Entry)
  BY <1>1, <1>4, EntryForm
<1>5. CASE LateRegister(r)
  <2>1. /\ late[r] # <<>> /\ Head(late[r]).op = "register" /\ lock = Free
        /\ channels' = [channels EXCEPT ![Head(late[r]).name] = Head(late[r]).inst]
        /\ late' = [late EXCEPT ![r] = Tail(late[r])] /\ UNCHANGED <<workers, lock, closed>>
    BY <1>5 DEF LateRegister
  <2>2. Head(late[r]).inst \in Insts
    BY <1>4, <2>1, EntryForm
  <2>3. RegistryTypes' /\ ContextTypes'
    BY <1>1, <1>2, <2>1, <2>2 DEF RegistryTypes, ContextTypes, contexts
  <2>4. MainTypes'
    BY <1>1, <1>2, <1>4, <2>1, Numbers DEF MainTypes
  <2> QED
    BY <1>1, <1>2, <2>3, <2>4, TrafficFrame DEF TypeInv
<1>6. CASE LateUnregister(r)
  <2> DEFINE w == workers[Head(late[r]).name]
  <2>1. /\ late[r] # <<>> /\ lock = Free /\ UNCHANGED <<workers, channels>>
        /\ \/ late' = [late EXCEPT ![r] = <<>>] /\ UNCHANGED <<lock, closed>>
           \/ lock' = r /\ late' = late /\ closed' = IF w = None THEN closed ELSE closed \cup {w}
    BY <1>6 DEF LateUnregister, registry
  <2>2. w \in Workers \cup {None}
    BY <1>1, <1>4, <2>1 DEF RegistryTypes
  <2> HIDE DEF w
  <2>3. RegistryTypes' /\ ContextTypes'
    BY <1>1, <1>2, <2>1, <2>2 DEF RegistryTypes, ContextTypes, contexts
  <2>4. main' \in MainState /\ late' \in [1..LastReload -> Seq(Entry)]
    <3>1. <<>> \in Seq(Entry)
      OBVIOUS
    <3> QED
      BY <1>1, <1>2, <2>1, <3>1 DEF MainTypes
  <2>5. lock' \in {Free} \cup 0..LastReload /\ (lock' \in 1..LastReload => late'[lock'] # <<>>)
    BY <1>3, <2>1, Numbers
  <2>6. MainTypes'
    BY <2>4, <2>5 DEF MainTypes
  <2> QED
    BY <1>1, <1>2, <2>3, <2>6, TrafficFrame DEF TypeInv
<1>7. CASE LateUnregistered(r)
  <2> DEFINE c == Head(late[r]).name
  <2>1. /\ lock = r /\ lock' = Free /\ late' = [late EXCEPT ![r] = Tail(late[r])]
        /\ workers' = [workers EXCEPT ![c] = None] /\ channels' = [channels EXCEPT ![c] = None]
        /\ UNCHANGED closed
    BY <1>7 DEF LateUnregistered
  <2>2. late[r] # <<>>
    BY <1>1, <2>1 DEF MainTypes
  <2> HIDE DEF c
  <2>3. RegistryTypes' /\ ContextTypes'
    BY <1>1, <1>2, <2>1 DEF RegistryTypes, ContextTypes, contexts
  <2>4. MainTypes'
    BY <1>1, <1>2, <1>4, <2>1, <2>2, Numbers DEF MainTypes
  <2> QED
    BY <1>1, <1>2, <2>3, <2>4, TrafficFrame DEF TypeInv
<1> QED
  BY <1>5, <1>6, <1>7 DEF Late

LEMMA TypeStop ==
  ASSUME TypeInv, StopAll \/ StopAllDone
  PROVE  TypeInv'
<1>1. RegistryTypes /\ ContextTypes /\ MainTypes /\ TrafficTypes
  BY DEF TypeInv
<1>2. CASE StopAll
  <2>1. /\ main.pc = "idle" /\ main' = [Idle EXCEPT !.pc = "stopping"] /\ lock' = Main
        /\ cancelled' = cancelled \cup {task} /\ task' = -1 /\ closed' = closed \cup Registered
        /\ UNCHANGED <<registry, ctxOf, late, traffic, crashed, shaky>>
    BY <1>2 DEF StopAll
  <2>2. main' \in MainState /\ main'.pc = "stopping"
    BY <2>1, IdleState DEF Points
  <2>3. RegistryTypes'
    BY <1>1, <2>1 DEF RegistryTypes, registry, Registered
  <2>4. ContextTypes' /\ MainTypes'
    BY <1>1, <2>1, <2>2, Numbers DEF ContextTypes, MainTypes
  <2> QED
    BY <1>1, <2>1, <2>3, <2>4, TrafficFrame DEF TypeInv
<1>3. CASE StopAllDone
  <2>1. /\ main' = [Idle EXCEPT !.pc = "stopped"] /\ lock' = Free
        /\ started' = started \ {channels[c] : c \in Names}
        /\ UNCHANGED <<hashes, channels, workers, made, chanOf, contexts, late, traffic, closed, crashed, shaky>>
    BY <1>3 DEF StopAllDone
  <2>2. main' \in MainState /\ main'.pc = "stopped"
    BY <2>1, IdleState DEF Points
  <2>3. RegistryTypes' /\ ContextTypes' /\ MainTypes'
    BY <1>1, <2>1, <2>2, Numbers DEF RegistryTypes, ContextTypes, MainTypes, contexts
  <2> QED
    BY <1>1, <2>1, <2>3, TrafficFrame DEF TypeInv
<1> QED
  BY <1>2, <1>3

LEMMA TypeStep ==
  ASSUME TypeInv, SparesInv, [Next]_vars
  PROVE  TypeInv'
<1>1. fate' \in Fates
  BY SparesStep DEF SparesInv
<1>2. CASE UNCHANGED vars
  <2>1. UNCHANGED <<registry, contexts, lock, main, late, traffic, closed, crashed, shaky>>
    BY <1>2 DEF vars
  <2>2. RegistryTypes' /\ ContextTypes' /\ MainTypes'
    BY <2>1 DEF TypeInv, RegistryTypes, ContextTypes, MainTypes, registry, contexts
  <2> QED
    BY <2>1, <2>2, TrafficFrame DEF TypeInv
<1> QED
  BY <1>1, <1>2, TypeStart, TypePublish, TypeDispatch, TypeWorker, TypeBegin, TypeReload, TypeLate, TypeStop
     DEF Next

-----------------------------------------------------------------------------
(* The registry: channels, their workers, and the entries left to be done   *)

\* The entries left to the goroutines, and those with the ones of the Reload under way.
LateTodo == UNION {ToSet(late[r]) : r \in 1..LastReload}
Todo == LateTodo \cup ToSet(main.defers)
Due(c) == \E x \in Todo : x.name = c
DueLate(c) == \E x \in LateTodo : x.name = c

NewInv ==
  main.pc = "new" =>
    /\ \A c \in Names : workers[c] = None /\ (channels[c] # None => hashes[c] # None)
    /\ \A w \in Workers : chanOf[w] = None
    /\ task = -1 /\ started = {} /\ closed = {} /\ shaky = {}

QuietInv == ~Reconciling => Resting(main)

\* A Reload holds the lock; while it removes it has only unregistrations to leave.
StageInv ==
  /\ lock = Main <=> Reconciling \/ main.pc = "stopping"
  /\ main.pc = "start" => main.removed = {}
  /\ main.pc # "start" => \A c \in Names, i \in Insts : Register(c, i) \notin ToSet(main.defers)
  /\ main.pc = "drain" => /\ main.at \in main.added \ main.removed
                          /\ workers[main.at] \in closed /\ channels[main.at] \notin started

\* A Reload finds its list empty.
LateInv ==
  Serving =>
    /\ Reconciling => task >= 1
    /\ \A r \in 1..LastReload : r > task \/ (r = task /\ Reconciling) => late[r] = <<>>

\* A worker has one name, and one that is registered or closed was started.
WorkersInv ==
  /\ \A c, d \in Names : workers[c] = workers[d] /\ workers[c] # None => c = d
  /\ \A c \in Names : workers[c] # None => chanOf[workers[c]] # None
  /\ \A w \in closed : chanOf[w] # None

\* A worker that is registered and closed is being waited for.
HeldBy(c) == lock \in 1..LastReload /\ Head(late[lock]).name = c
ClosedInv ==
  /\ \A c \in Names : workers[c] \in closed => ~Serving \/ (main.pc = "drain" /\ main.at = c) \/ HeldBy(c)
  /\ lock \in 1..LastReload =>
       /\ late[lock] # <<>>
       /\ \E c \in Names : Head(late[lock]) = Unregister(c) /\ workers[c] \in closed \cup {None}

\* An instance has one name, in the registry and in what is left to be done.
Owns(c, i) == channels[c] = i \/ Register(c, i) \in Todo
ApartInv ==
  /\ \A c, d \in Names, i \in Insts : Owns(c, i) /\ Owns(d, i) => c = d
  /\ \A c \in Names, i \in Insts : Owns(c, i) => i <= made
  /\ \A i \in started : i <= made

\* A name without a configuration has nothing registered, unless it is still to be done.
AbsentInv ==
  Serving => \A c \in Names \ shaky :
    hashes[c] = None /\ ~Due(c) /\ c \notin main.removed => workers[c] = None /\ channels[c] = None

\* What is left to be done agrees with the configuration and with the registry.
EntryInv ==
  \A c \in Names \ shaky :
    /\ Unregister(c) \in Todo => hashes[c] = None /\ channels[c] \notin started
    /\ \A i \in Insts : Register(c, i) \in Todo => hashes[c] # None /\ channels[c] = i

\* What a Reload still has to remove and to add.
TouchedInv ==
  Reconciling =>
    /\ \A c \in (main.added \cup main.removed) \ shaky : ~DueLate(c)
    /\ \A c \in main.removed \ main.added : hashes[c] = None
    /\ \A c \in main.added : hashes[c] # None
    /\ \A c \in main.added \ shaky :
         /\ c \in main.removed => channels[c] # None
         /\ c \notin main.removed =>
              /\ channels[c] \notin started
              /\ workers[c] = None \/ (main.pc = "drain" /\ main.at = c)
         /\ \A i \in Insts : Register(c, i) \notin Todo

ServedInv ==
  Serving => \A c \in Names \ shaky : channels[c] \in started =>
    workers[c] # None /\ workers[c] \notin closed /\ chanOf[workers[c]] = channels[c]

ListedInv == Serving /\ shaky = {} => \A i \in started : \E c \in Names : i = channels[c]

RegistryInv ==
  /\ NewInv /\ QuietInv /\ StageInv /\ LateInv /\ WorkersInv /\ ClosedInv
  /\ ApartInv /\ AbsentInv /\ EntryInv /\ TouchedInv /\ ServedInv /\ ListedInv

LEMMA NoEntries ==
  ASSUME \A r \in 1..LastReload : late[r] = <<>>, main.defers = <<>>
  PROVE  LateTodo = {} /\ Todo = {} /\ ToSet(main.defers) = {}
<1>1. ToSet(<<>>) = {}
  BY DEF ToSet
<1>2. \A r \in 1..LastReload : ToSet(late[r]) = {}
  BY <1>1
<1> QED
  BY <1>1, <1>2 DEF LateTodo, Todo

LEMMA RegistryInit == Init => RegistryInv
<1> SUFFICES ASSUME NEW hs \in Configs, NEW unbuilt \in SUBSET Names,
                    LET order == SetToSeq({c \in Names : hs[c] # None} \ unbuilt)
                    IN  InitFor(hs, [c \in Names |-> IndexIn(c, order)], Len(order))
             PROVE  RegistryInv
  BY DEF Init
<1> DEFINE S == {c \in Names : hs[c] # None} \ unbuilt
           order == SetToSeq(S)
           cs == [c \in Names |-> IndexIn(c, order)]
<1>1. IsFiniteSet(S)
  <2>1. IsFiniteSet(Names) /\ S \in SUBSET Names
    BY ChannelConstants
  <2> HIDE DEF S
  <2> QED
    BY <2>1, FS_Subset
<1>2. S \subseteq {c \in Names : hs[c] # None}
  OBVIOUS
<1>3. InitFor(hs, cs, Len(order))
  OBVIOUS
<1> HIDE DEF S
<1>4. /\ Cardinality(S) \in Nat /\ Len(order) = Cardinality(S)
      /\ \A c \in S : IndexIn(c, order) \in 1..Cardinality(S)
      /\ \A c : c \notin S => IndexIn(c, order) = 0
      /\ \A c, d \in S : IndexIn(c, order) = IndexIn(d, order) => c = d
  BY <1>1, Enumerated
<1> HIDE DEF order
<1>5. /\ channels = cs /\ hashes = hs /\ made = Len(order) /\ task = -1 /\ lock = Free
      /\ started = {} /\ closed = {} /\ shaky = {} /\ main = [Idle EXCEPT !.pc = "new"]
      /\ \A c \in Names : workers[c] = None
      /\ \A w \in Workers : chanOf[w] = None
      /\ \A r \in 1..LastReload : late[r] = <<>>
  BY <1>3 DEF InitFor
<1>6. main.pc = "new" /\ Resting(main)
  BY <1>5, IdleState DEF Points
<1>7. \A c \in Names : channels[c] = IndexIn(c, order)
  BY <1>5
<1>8. \A c \in Names : channels[c] # None => c \in S /\ channels[c] \in 1..made
  BY <1>4, <1>5, <1>7 DEF None
<1>9. LateTodo = {} /\ Todo = {} /\ ToSet(main.defers) = {}
  BY <1>5, <1>6, NoEntries DEF Resting
<1>10. NewInv
  BY <1>2, <1>5, <1>8 DEF NewInv
<1>11. QuietInv /\ StageInv /\ LateInv
  BY <1>5, <1>6, <1>9, Numbers DEF QuietInv, StageInv, LateInv, Reconciling
<1>12. WorkersInv /\ ClosedInv
  BY <1>5, Numbers DEF WorkersInv, ClosedInv
<1>13. ApartInv
  BY <1>4, <1>5, <1>7, <1>8, <1>9, Numbers DEF ApartInv, Owns
<1>14. AbsentInv /\ EntryInv
  BY <1>2, <1>5, <1>8, <1>9 DEF AbsentInv, EntryInv
<1>15. TouchedInv /\ ServedInv /\ ListedInv
  BY <1>5, <1>6 DEF TouchedInv, ServedInv, ListedInv, Reconciling
<1> QED
  BY <1>10, <1>11, <1>12, <1>13, <1>14, <1>15 DEF RegistryInv

\* A step that leaves the registry, the lists and the lock alone.
LEMMA RegistryFrame ==
  ASSUME RegistryInv, UNCHANGED <<registry, task, lock, main, late, closed, shaky>>
  PROVE  RegistryInv'
<1>1. LateTodo' = LateTodo /\ Todo' = Todo
  BY DEF LateTodo, Todo
<1>2. /\ UNCHANGED <<hashes, channels, workers, started, made, chanOf>>
      /\ (Serving' <=> Serving) /\ (Reconciling' <=> Reconciling)
  BY DEF registry, Serving, Reconciling
<1>3. \A c : (Due(c)' <=> Due(c)) /\ (DueLate(c)' <=> DueLate(c)) /\ (HeldBy(c)' <=> HeldBy(c))
  BY <1>1 DEF Due, DueLate, HeldBy
<1>4. \A c, i : Owns(c, i)' <=> Owns(c, i)
  BY <1>1, <1>2 DEF Owns
<1>5. NewInv' /\ QuietInv' /\ StageInv' /\ LateInv' /\ WorkersInv'
  BY <1>2 DEF RegistryInv, NewInv, QuietInv, Resting, StageInv, LateInv, WorkersInv
<1>6. ClosedInv' /\ ApartInv' /\ AbsentInv'
  BY <1>2, <1>3, <1>4 DEF RegistryInv, ClosedInv, ApartInv, AbsentInv
<1>7. EntryInv' /\ TouchedInv' /\ ServedInv' /\ ListedInv'
  BY <1>1, <1>2, <1>3 DEF RegistryInv, EntryInv, TouchedInv, ServedInv, ListedInv
<1> QED
  BY <1>5, <1>6, <1>7 DEF RegistryInv

LEMMA RegistryTraffic ==
  ASSUME RegistryInv,
         \/ \E c \in Names : Publish(c)
         \/ \E e \in Epochs : Dispatch(e)
         \/ \E w \in Workers : Worker(w)
         \/ UNCHANGED vars
  PROVE  RegistryInv'
<1>1. UNCHANGED <<registry, contexts, lock, main, late, closed, shaky>>
  BY DEF Publish, Dispatch, DispatchReceive, DispatchStop, DispatchLookup, DispatchEnqueue, DispatchPanic,
         DispatchGiveUp, Worker, WorkerTake, WorkerDone, WorkerAbandon, WorkerSend, vars
<1> QED
  BY <1>1, RegistryFrame DEF contexts

\* The entries are what they say.
LEMMA TodoTypes ==
  ASSUME TypeInv
  PROVE  /\ main.defers \in Seq(Entry) /\ \A r \in 1..LastReload : late[r] \in Seq(Entry)
         /\ LateTodo \subseteq Entry /\ ToSet(main.defers) \subseteq Entry /\ Todo \subseteq Entry
         /\ LateTodo \subseteq Todo
         /\ \A r \in 1..LastReload : ToSet(late[r]) \subseteq LateTodo
         /\ \A c : c \in Entangled <=> DueLate(c)
<1>1. main.defers \in Seq(Entry) /\ late \in [1..LastReload -> Seq(Entry)]
  BY DEF TypeInv, MainTypes, MainState
<1>2. \A r \in 1..LastReload : ToSet(late[r]) \subseteq Entry
  BY <1>1, SeqElements
<1>3. ToSet(main.defers) \subseteq Entry
  BY <1>1, SeqElements
<1>4. LateTodo \subseteq Entry
  BY <1>2 DEF LateTodo
<1>5. \A c : c \in Entangled <=> DueLate(c)
  BY <1>1 DEF Entangled, DueLate, LateTodo, ToSet
<1> QED
  BY <1>1, <1>3, <1>4, <1>5 DEF Todo, LateTodo

\* Before StartAll nothing is left to be done and nobody holds the lock.
LEMMA NewIsQuiet ==
  ASSUME TypeInv, RegistryInv, main.pc = "new"
  PROVE  LateTodo = {} /\ Todo = {} /\ ToSet(main.defers) = {} /\ lock \notin 1..LastReload /\ lock # Main
<1>1. task = -1 /\ Resting(main) /\ Serving /\ ~Reconciling
  BY DEF RegistryInv, NewInv, QuietInv, Serving, Reconciling
<1>2. \A r \in 1..LastReload : late[r] = <<>>
  BY <1>1 DEF RegistryInv, LateInv
<1>3. lock \notin 1..LastReload
  BY <1>2 DEF RegistryInv, ClosedInv
<1>4. lock # Main
  BY <1>1 DEF RegistryInv, StageInv
<1> QED
  BY <1>1, <1>2, <1>3, <1>4, NoEntries DEF Resting

LEMMA RegistryStart ==
  ASSUME TypeInv, RegistryInv, NEW failing \in SUBSET Names, StartAll(failing)
  PROVE  RegistryInv'
<1> DEFINE up == {c \in Names : channels[c] # None} \ failing
<1>1. /\ main.pc = "new" /\ started' = {channels[c] : c \in up}
      /\ workers' = [c \in Names |-> IF c \in up THEN channels[c] ELSE None]
      /\ chanOf' = [w \in Workers |-> IF w \in started' THEN w ELSE None]
      /\ UNCHANGED <<hashes, channels, made, lock, late, closed, shaky>>
  BY DEF StartAll
<1>2. /\ Resting(main') /\ Resting(main)
      /\ main'.pc = "stopped" \/ (main'.pc = "idle" /\ task' = 0)
  <2>1. \/ main' = [Idle EXCEPT !.pc = "stopped"]
        \/ main' = Idle /\ task' = 0
    BY DEF StartAll
  <2>2. Resting(main)
    BY <1>1 DEF RegistryInv, QuietInv, Reconciling
  <2> QED
    BY <2>1, <2>2, IdleState DEF Points
<1>3. /\ \A c \in up : c \in Names /\ channels[c] \in Insts
      /\ \A c \in Names : workers'[c] = IF c \in up THEN channels[c] ELSE None
      /\ \A c \in Names \ up : channels[c] = None \/ c \in failing
  BY <1>1 DEF TypeInv, RegistryTypes
<1>4. \A c \in Names : channels[c] = None => c \notin up
  OBVIOUS
<1> HIDE DEF up
<1>5. \A w \in Workers : chanOf'[w] = IF w \in started' THEN w ELSE None
  BY <1>1
<1>6. \A c \in up : chanOf'[channels[c]] = channels[c] /\ channels[c] # None
  BY <1>1, <1>3, <1>5, Numbers
<1>7. Todo = {} /\ LateTodo = {} /\ lock \notin 1..LastReload /\ lock # Main /\ ToSet(main.defers) = {}
  BY <1>1, NewIsQuiet
<1>8. Todo' = {} /\ LateTodo' = {} /\ ToSet(main'.defers) = {}
  <2>1. main'.defers = main.defers
    BY <1>2 DEF Resting
  <2> QED
    BY <1>1, <1>7, <2>1 DEF Todo, LateTodo
<1>9. \A c \in Names, i \in Insts : Owns(c, i) <=> channels[c] = i
  BY <1>7 DEF Owns
<1>10. closed = {} /\ shaky = {} /\ \A c \in Names : channels[c] # None => hashes[c] # None
  BY <1>1 DEF RegistryInv, NewInv
<1>11. \A c, d \in Names : channels[c] = channels[d] /\ channels[c] # None => c = d
  <2>1. \A c \in Names : channels[c] \in Insts \cup {None}
    BY DEF TypeInv, RegistryTypes
  <2> QED
    BY <1>9, <2>1 DEF RegistryInv, ApartInv
<1>12. ~Reconciling' /\ (Serving' => main'.pc = "idle")
  BY <1>2 DEF Reconciling, Serving
<1>13. NewInv' /\ QuietInv' /\ StageInv'
  BY <1>1, <1>2, <1>7, <1>8, <1>12 DEF NewInv, QuietInv, StageInv
<1>14. LateInv'
  <2>1. task = -1 /\ Serving /\ ~Reconciling
    BY <1>1 DEF RegistryInv, NewInv, Serving, Reconciling
  <2>2. \A r \in 1..LastReload : late[r] = <<>>
    BY <2>1 DEF RegistryInv, LateInv
  <2> QED
    BY <1>1, <1>12, <2>2 DEF LateInv
<1>15. WorkersInv'
  BY <1>1, <1>3, <1>6, <1>10, <1>11 DEF WorkersInv
<1>16. ClosedInv'
  BY <1>1, <1>7, <1>10 DEF ClosedInv
<1>17. ApartInv'
  <2>1. \A c \in Names, i \in Insts : Owns(c, i)' <=> channels[c] = i
    BY <1>1, <1>8 DEF Owns
  <2>2. ASSUME NEW i \in started' PROVE i <= made
    <3>1. PICK c \in up : i = channels[c]
      BY <1>1
    <3> QED
      BY <1>3, <1>9, <3>1 DEF RegistryInv, ApartInv
  <2> QED
    BY <1>1, <1>9, <2>1, <2>2 DEF RegistryInv, ApartInv
<1>18. AbsentInv' /\ EntryInv' /\ TouchedInv'
  BY <1>1, <1>3, <1>4, <1>8, <1>10, <1>12 DEF AbsentInv, EntryInv, TouchedInv
<1>19. ServedInv' /\ ListedInv'
  <2>1. ASSUME NEW c \in Names, channels[c] \in started' PROVE c \in up
    <3>1. PICK d \in up : channels[c] = channels[d]
      BY <1>1, <2>1
    <3> QED
      BY <1>3, <1>6, <1>11, <3>1
  <2> QED
    BY <1>1, <1>3, <1>6, <1>10, <2>1 DEF ServedInv, ListedInv
<1> QED
  BY <1>13, <1>14, <1>15, <1>16, <1>17, <1>18, <1>19 DEF RegistryInv

LEMMA RegistryStop ==
  ASSUME TypeInv, RegistryInv, StopAll \/ StopAllDone
  PROVE  RegistryInv'
<1>1. /\ UNCHANGED <<hashes, channels, workers, made, chanOf, late, shaky>>
      /\ started' \subseteq started /\ main.pc # "new"
      /\ (lock' = Main /\ main'.pc = "stopping") \/ (lock' = Free /\ main'.pc = "stopped")
      /\ Resting(main')
  <2>1. CASE StopAll
    <3>1. main' = [Idle EXCEPT !.pc = "stopping"]
      BY <2>1 DEF StopAll
    <3> QED
      BY <2>1, <3>1, IdleState DEF StopAll, registry, Points
  <2>2. CASE StopAllDone
    <3>1. main' = [Idle EXCEPT !.pc = "stopped"]
      BY <2>2 DEF StopAllDone
    <3> QED
      BY <2>2, <3>1, IdleState DEF StopAllDone, Points
  <2> QED
    BY <2>1, <2>2
<1>2. ~Serving' /\ ~Reconciling' /\ Resting(main) /\ main'.defers = main.defers
  BY <1>1 DEF Serving, Reconciling, RegistryInv, QuietInv, Resting, StopAll, StopAllDone
<1>3. LateTodo' = LateTodo /\ Todo' = Todo
  BY <1>1, <1>2 DEF LateTodo, Todo
<1>4. \A c, i : Owns(c, i)' <=> Owns(c, i)
  BY <1>1, <1>3 DEF Owns
<1>5. NewInv' /\ QuietInv' /\ LateInv' /\ AbsentInv' /\ TouchedInv' /\ ServedInv' /\ ListedInv'
  BY <1>1, <1>2 DEF NewInv, QuietInv, LateInv, AbsentInv, TouchedInv, ServedInv, ListedInv
<1>6. StageInv'
  <2>1. main.pc # "start"
    BY DEF StopAll, StopAllDone
  <2> QED
    BY <1>1, <1>2, <2>1, Numbers DEF RegistryInv, StageInv
<1>7. WorkersInv'
  <2>1. closed' = closed \/ closed' = closed \cup Registered
    BY DEF StopAll, StopAllDone
  <2> QED
    BY <1>1, <2>1 DEF RegistryInv, WorkersInv, Registered
<1>8. ClosedInv'
  BY <1>1, <1>2, Numbers DEF ClosedInv
<1>9. ApartInv' /\ EntryInv'
  BY <1>1, <1>3, <1>4 DEF RegistryInv, ApartInv, EntryInv
<1> QED
  BY <1>5, <1>6, <1>7, <1>8, <1>9 DEF RegistryInv

LEMMA RegistryBegin ==
  ASSUME TypeInv, RegistryInv, NEW cfg \in Configs, ReloadBegin(cfg)
  PROVE  RegistryInv'
<1> DEFINE m == [Idle EXCEPT !.pc = "remove", !.removed = Removed(cfg), !.added = Added(cfg)]
<1>1. /\ main.pc = "idle" /\ lock = Free /\ lock' = Main /\ main' = m
      /\ hashes' = cfg /\ task' = task + 1
      /\ shaky' = shaky \cup Entangled \cup {c \in Removed(cfg) \cap Added(cfg) : channels[c] = None}
      /\ UNCHANGED <<channels, workers, started, made, chanOf, late, closed>>
  BY DEF ReloadBegin
<1>2. m.pc = "remove" /\ m.removed = Removed(cfg) /\ m.added = Added(cfg) /\ m.defers = <<>>
  BY IdleState DEF MainState, Resting
<1> HIDE DEF m
<1>3. Serving /\ ~Reconciling /\ Resting(main) /\ Serving' /\ Reconciling' /\ main.removed = {}
  BY <1>1, <1>2 DEF Serving, Reconciling, RegistryInv, QuietInv, Resting
<1>4. LateTodo' = LateTodo /\ Todo' = Todo /\ Todo = LateTodo
  BY <1>1, <1>2, <1>3 DEF LateTodo, Todo, Resting, ToSet
<1>5. \A c, i : Owns(c, i)' <=> Owns(c, i)
  BY <1>1, <1>4 DEF Owns
<1>6. \A c : (Due(c)' <=> Due(c)) /\ (DueLate(c)' <=> DueLate(c)) /\ (Due(c) <=> DueLate(c))
  BY <1>4 DEF Due, DueLate
<1>7. ASSUME NEW c \in Names \ shaky'
      PROVE  /\ c \in Names \ shaky /\ ~DueLate(c) /\ ~Due(c)
             /\ c \in Removed(cfg) \cap Added(cfg) => channels[c] # None
  BY <1>1, <1>6, TodoTypes
<1>8. task \in Epochs
  BY <1>1 DEF TypeInv, ContextTypes
<1>9. NewInv' /\ QuietInv' /\ StageInv'
  <2>1. \A c \in Names, i \in Insts : Register(c, i) \notin ToSet(main'.defers)
    BY <1>1, <1>2 DEF ToSet
  <2> QED
    BY <1>1, <1>2, <1>3, <2>1 DEF NewInv, QuietInv, StageInv
<1>10. LateInv'
  <2>1. \A r \in 1..LastReload : r >= task + 1 => late[r] = <<>>
    BY <1>3, <1>8, Numbers DEF RegistryInv, LateInv
  <2>2. task + 1 >= 1
    BY <1>8, Numbers
  <2> QED
    BY <1>1, <1>8, <2>1, <2>2, Numbers DEF LateInv
<1>11. WorkersInv'
  BY <1>1 DEF RegistryInv, WorkersInv
<1>12. ClosedInv'
  <2>1. \A c \in Names : workers[c] \notin closed
    <3>1. lock \notin 1..LastReload
      BY <1>1, Numbers
    <3> QED
      BY <1>1, <1>3, <3>1 DEF RegistryInv, ClosedInv, HeldBy
  <2> QED
    BY <1>1, <2>1, Numbers DEF ClosedInv
<1>13. ApartInv'
  BY <1>1, <1>5 DEF RegistryInv, ApartInv
<1>14. AbsentInv'
  <2> SUFFICES ASSUME NEW c \in Names \ shaky', hashes'[c] = None, c \notin main'.removed
               PROVE  workers'[c] = None /\ channels'[c] = None
    BY DEF AbsentInv
  <2>1. hashes[c] = None
    BY <1>1, <1>2 DEF Removed
  <2> QED
    BY <1>1, <1>3, <1>7, <2>1 DEF RegistryInv, AbsentInv
<1>15. EntryInv'
  <2> SUFFICES ASSUME NEW c \in Names \ shaky'
               PROVE  Unregister(c) \notin Todo /\ \A i : Register(c, i) \notin Todo
    BY <1>4 DEF EntryInv
  <2> QED
    BY <1>7, EntriesApart DEF Due
<1>16. TouchedInv'
  <2>1. \A c \in (Added(cfg) \cup Removed(cfg)) \ shaky' : ~DueLate(c)'
    BY <1>6, <1>7 DEF Added, Removed
  <2>2. \A c \in Removed(cfg) \ Added(cfg) : cfg[c] = None
    BY DEF Added, Removed
  <2>3. \A c \in Added(cfg) : cfg[c] # None
    BY DEF Added
  <2>4. ASSUME NEW c \in Added(cfg) \ shaky'
        PROVE  /\ c \in Removed(cfg) => channels[c] # None
               /\ c \notin Removed(cfg) => channels[c] \notin started /\ workers[c] = None
               /\ \A i \in Insts : Register(c, i) \notin Todo
    <3>1. c \in Names \ shaky' /\ (c \notin Removed(cfg) => hashes[c] = None)
      BY DEF Added, Removed
    <3>2. c \in Removed(cfg) => channels[c] # None
      BY <1>7, <3>1
    <3>3. c \notin Removed(cfg) => channels[c] = None /\ workers[c] = None
      BY <1>3, <1>7, <3>1 DEF RegistryInv, AbsentInv
    <3>4. \A i \in Insts : Register(c, i) \notin Todo
      BY <1>7, <3>1, EntriesApart DEF Due
    <3>5. None \notin started
      BY Numbers DEF TypeInv, RegistryTypes
    <3> QED
      BY <3>2, <3>3, <3>4, <3>5
  <2> QED
    BY <1>1, <1>2, <1>4, <2>1, <2>2, <2>3, <2>4 DEF TouchedInv
<1>17. ServedInv' /\ ListedInv'
  BY <1>1, <1>3, <1>7 DEF RegistryInv, ServedInv, ListedInv
<1> QED
  BY <1>9, <1>10, <1>11, <1>12, <1>13, <1>14, <1>15, <1>16, <1>17 DEF RegistryInv

\* While a Reload is under way it has the lock, and no queue is closed but the one it drains.
LEMMA UnderWay ==
  ASSUME TypeInv, RegistryInv, Reconciling
  PROVE  /\ Serving /\ lock = Main /\ lock \notin 1..LastReload
         /\ \A c \in Names : workers[c] \in closed => main.pc = "drain" /\ main.at = c
         /\ None \notin started /\ None \notin closed
<1>1. Serving /\ lock = Main /\ lock \notin 1..LastReload
  BY Numbers DEF Reconciling, Serving, RegistryInv, StageInv
<1>2. None \notin started /\ None \notin closed
  BY Numbers DEF TypeInv, RegistryTypes
<1> QED
  BY <1>1, <1>2 DEF RegistryInv, ClosedInv, HeldBy

LEMMA RegistryRemove ==
  ASSUME TypeInv, RegistryInv, NEW c \in Names, ReloadRemove(c)
  PROVE  RegistryInv'
<1> DEFINE i == channels[c]
           w == workers[c]
           Close == /\ w # None /\ closed' = closed \cup {w} /\ channels' = channels /\ Todo' = Todo
                    /\ main'.pc = "drain" /\ main'.at = c /\ i # None /\ c \in main.added
           Drop == /\ w = None /\ closed' = closed /\ channels' = [channels EXCEPT ![c] = None] /\ Todo' = Todo
                   /\ main'.pc = "remove" /\ i # None /\ c \in main.added
           Defer == /\ closed' = closed /\ channels' = channels /\ Todo' = Todo \cup {Unregister(c)}
                    /\ main'.pc = "remove" /\ (i = None \/ c \notin main.added)
<1>1. /\ main.pc = "remove" /\ c \in main.removed /\ started' = started \ {i}
      /\ UNCHANGED <<hashes, workers, made, chanOf, contexts, lock, late, shaky>>
  BY DEF ReloadRemove
<1>2. main \in MainState /\ main.defers \in Seq(Entry)
  BY DEF TypeInv, MainTypes, MainState
<1>3. UNCHANGED <<hashes, workers, made, chanOf, task, lock, late, shaky>>
  BY <1>1 DEF contexts
<1>4. LateTodo' = LateTodo
  BY <1>3 DEF LateTodo
<1>5. /\ main'.removed = main.removed \ {c} /\ main'.added = main.added
      /\ Close \/ Drop \/ Defer
      /\ \A x : x \in ToSet(main'.defers) => x \in ToSet(main.defers) \/ x = Unregister(c)
  <2>1. CASE /\ i # None /\ c \in main.added /\ w # None /\ CloseQueue(w) /\ UNCHANGED channels
             /\ main' = [main EXCEPT !.pc = "drain", !.removed = @ \ {c}, !.at = c]
    <3>1. main'.removed = main.removed \ {c} /\ main'.added = main.added /\ main'.defers = main.defers
          /\ main'.pc = "drain" /\ main'.at = c
      BY <1>2, <2>1 DEF MainState
    <3>2. Close
      BY <1>4, <2>1, <3>1 DEF Todo, CloseQueue
    <3> QED
      BY <3>1, <3>2
  <2>2. CASE /\ i # None /\ c \in main.added /\ w = None
             /\ channels' = [channels EXCEPT ![c] = None] /\ UNCHANGED closed
             /\ main' = [main EXCEPT !.removed = @ \ {c}]
    <3>1. main'.removed = main.removed \ {c} /\ main'.added = main.added /\ main'.defers = main.defers
          /\ main'.pc = "remove"
      BY <1>1, <1>2, <2>2 DEF MainState
    <3>2. Drop
      BY <1>4, <2>2, <3>1 DEF Todo
    <3> QED
      BY <3>1, <3>2
  <2>3. CASE /\ i = None \/ c \notin main.added
             /\ main' = [main EXCEPT !.removed = @ \ {c}, !.defers = Append(@, Unregister(c))]
             /\ UNCHANGED <<channels, closed>>
    <3>1. main'.removed = main.removed \ {c} /\ main'.added = main.added
          /\ main'.defers = Append(main.defers, Unregister(c)) /\ main'.pc = "remove"
      BY <1>1, <1>2, <2>3 DEF MainState
    <3>2. ToSet(main'.defers) = ToSet(main.defers) \cup {Unregister(c)}
      BY <1>2, <3>1, SeqElements, EntriesApart
    <3>3. Defer
      BY <1>4, <2>3, <3>1, <3>2 DEF Todo
    <3> QED
      BY <3>1, <3>2, <3>3
  <2> QED
    BY <2>1, <2>2, <2>3 DEF ReloadRemove, ReleasedNow
<1>6. Reconciling /\ Reconciling' /\ Serving'
  BY <1>1, <1>5 DEF Reconciling, Serving
<1>7. /\ Serving /\ lock = Main /\ lock \notin 1..LastReload /\ None \notin started /\ None \notin closed
      /\ \A d \in Names : workers[d] \notin closed
  BY <1>1, <1>6, UnderWay
<1>8. /\ \A d \in Names : d # c => channels'[d] = channels[d]
      /\ channels'[c] = i \/ channels'[c] = None
      /\ i \notin started'
      /\ \A d \in Names, j \in Insts : channels'[d] = j => channels[d] = j
  BY <1>1, <1>5, Numbers DEF TypeInv, RegistryTypes
<1>9. \A d, j : Register(d, j) \in Todo' <=> Register(d, j) \in Todo
  BY <1>5, EntriesApart
<1>10. \A d : /\ Unregister(d) \in Todo' => Unregister(d) \in Todo \/ d = c
              /\ Due(d) => Due(d)'
  BY <1>5, EntriesApart DEF Due
<1> HIDE DEF i, w
<1>11. c \in main.added \ shaky => i # None /\ hashes[c] # None /\ \A j \in Insts : Register(c, j) \notin Todo
  BY <1>1, <1>6 DEF RegistryInv, TouchedInv, i
<1>12. c \notin main.added => hashes[c] = None
  BY <1>1, <1>6 DEF RegistryInv, TouchedInv
<1>13. Defer => Unregister(c) \in Todo' /\ Due(c)'
  BY EntriesApart DEF Due
<1>14. w = workers[c] /\ (w # None => chanOf[w] # None) /\ \A d \in Names : d # c /\ w # None => workers[d] # w
  BY DEF RegistryInv, WorkersInv, w
<1>15. NewInv' /\ QuietInv' /\ LateInv'
  BY <1>1, <1>3, <1>5, <1>6, <1>7 DEF RegistryInv, NewInv, QuietInv, LateInv, Reconciling
<1>16. StageInv'
  <2>1. \A d \in Names, j \in Insts : Register(d, j) \notin ToSet(main'.defers)
    BY <1>1, <1>5, EntriesApart DEF RegistryInv, StageInv
  <2>2. main'.pc = "drain" => Close
    BY <1>5
  <2>3. main'.pc = "drain" => /\ main'.at \in main'.added \ main'.removed
                              /\ workers'[main'.at] \in closed' /\ channels'[main'.at] \notin started'
    BY <1>3, <1>5, <1>8, <1>14, <2>2, <1>1 DEF i
  <2>4. main'.pc # "start" /\ main'.pc # "stopping"
    BY <1>5
  <2> QED
    BY <1>3, <1>6, <1>7, <2>1, <2>3, <2>4 DEF StageInv
<1>17. WorkersInv'
  BY <1>3, <1>5, <1>14 DEF RegistryInv, WorkersInv
<1>18. ClosedInv'
  BY <1>3, <1>5, <1>7, <1>14 DEF ClosedInv
<1>19. ApartInv'
  <2>1. \A d \in Names, j \in Insts : Owns(d, j)' => Owns(d, j)
    BY <1>8, <1>9 DEF Owns
  <2> QED
    BY <1>1, <1>3, <2>1 DEF RegistryInv, ApartInv
<1>20. AbsentInv'
  <2> SUFFICES ASSUME NEW d \in Names \ shaky, hashes[d] = None, ~Due(d)', d \notin main'.removed
               PROVE  workers'[d] = None /\ channels'[d] = None
    BY <1>3 DEF AbsentInv
  <2>1. d # c
    BY <1>5, <1>11, <1>13
  <2>2. ~Due(d) /\ d \notin main.removed
    BY <1>5, <1>10, <2>1
  <2> QED
    BY <1>3, <1>7, <1>8, <2>1, <2>2 DEF RegistryInv, AbsentInv
<1>21. EntryInv'
  <2>1. ASSUME NEW d \in Names \ shaky, Unregister(d) \in Todo' PROVE hashes[d] = None /\ channels'[d] \notin started'
    <3>1. CASE Unregister(d) \in Todo
      <4>1. hashes[d] = None /\ channels[d] \notin started
        BY <3>1, <2>1 DEF RegistryInv, EntryInv
      <4> QED
        BY <1>1, <1>7, <1>8, <4>1
    <3>2. CASE Unregister(d) \notin Todo
      <4>1. d = c /\ Defer
        BY <1>5, <1>10, <2>1, <3>2
      <4> QED
        BY <1>1, <1>7, <1>8, <1>11, <1>12, <2>1, <4>1
    <3> QED
      BY <3>1, <3>2
  <2>2. ASSUME NEW d \in Names \ shaky, NEW j \in Insts, Register(d, j) \in Todo'
        PROVE  hashes[d] # None /\ channels'[d] = j
    <3>1. Register(d, j) \in Todo /\ hashes[d] # None /\ channels[d] = j
      BY <1>9, <2>2 DEF RegistryInv, EntryInv
    <3>2. d = c => channels' = channels
      BY <1>5, <1>11, <2>2, <3>1
    <3> QED
      BY <1>8, <3>1, <3>2
  <2> QED
    BY <1>3, <2>1, <2>2 DEF EntryInv
<1>22. TouchedInv'
  <2>1. TouchedInv /\ \A d : DueLate(d)' <=> DueLate(d)
    BY <1>4 DEF RegistryInv, DueLate
  <2>2. ASSUME NEW d \in main.added \ shaky
        PROVE  /\ d \in main'.removed => channels'[d] # None
               /\ d \notin main'.removed =>
                    /\ channels'[d] \notin started'
                    /\ workers[d] = None \/ (main'.pc = "drain" /\ main'.at = d)
               /\ \A j \in Insts : Register(d, j) \notin Todo'
    <3>1. d \in Names
      BY <1>2 DEF MainState
    <3>2. CASE d = c
      <4>1. channels'[c] \notin started' /\ c \notin main'.removed
        BY <1>1, <1>5, <1>7, <1>8
      <4>2. \A j \in Insts : Register(c, j) \notin Todo'
        BY <1>9, <1>11, <2>2, <3>2
      <4>3. workers[c] = None \/ (main'.pc = "drain" /\ main'.at = c)
        BY <1>5, <1>11, <1>14, <2>2, <3>2
      <4> QED
        BY <3>2, <4>1, <4>2, <4>3
    <3>3. CASE d # c
      BY <1>1, <1>5, <1>6, <1>8, <1>9, <2>1, <2>2, <3>1, <3>3 DEF TouchedInv
    <3> QED
      BY <3>2, <3>3
  <2>3. /\ \A d \in (main'.added \cup main'.removed) \ shaky : ~DueLate(d)'
        /\ \A d \in main'.removed \ main'.added : hashes[d] = None
        /\ \A d \in main'.added : hashes[d] # None
    BY <1>5, <1>6, <2>1 DEF TouchedInv
  <2> QED
    BY <1>3, <1>5, <2>2, <2>3 DEF TouchedInv
<1>23. ServedInv'
  <2> SUFFICES ASSUME NEW d \in Names \ shaky, channels'[d] \in started'
               PROVE  workers[d] # None /\ workers[d] \notin closed' /\ chanOf[workers[d]] = channels'[d]
    BY <1>3 DEF ServedInv
  <2>1. d # c
    BY <1>1, <1>7, <1>8
  <2>2. channels'[d] = channels[d] /\ channels[d] \in started
    BY <1>1, <1>8, <2>1
  <2>3. workers[d] # None /\ workers[d] \notin closed /\ chanOf[workers[d]] = channels[d]
    BY <1>7, <2>2 DEF RegistryInv, ServedInv
  <2> QED
    BY <1>5, <1>14, <2>1, <2>2, <2>3
<1>24. ListedInv'
  BY <1>1, <1>3, <1>7, <1>8 DEF RegistryInv, ListedInv, i
<1> QED
  BY <1>15, <1>16, <1>17, <1>18, <1>19, <1>20, <1>21, <1>22, <1>23, <1>24 DEF RegistryInv

LEMMA RegistryReleased ==
  ASSUME TypeInv, RegistryInv, ReloadReleased
  PROVE  RegistryInv'
<1> DEFINE a == main.at
<1>1. /\ main.pc = "drain" /\ main' = [main EXCEPT !.pc = "remove", !.at = AnyName]
      /\ channels' = [channels EXCEPT ![a] = None] /\ workers' = [workers EXCEPT ![a] = None]
      /\ UNCHANGED <<hashes, started, made, chanOf, task, lock, late, closed, shaky>>
  BY DEF ReloadReleased, contexts
<1>2. main \in MainState
  BY DEF TypeInv, MainTypes
<1>3. /\ main'.pc = "remove" /\ main'.removed = main.removed /\ main'.added = main.added
      /\ main'.defers = main.defers
  BY <1>1, <1>2 DEF MainState
<1>4. Reconciling /\ Reconciling' /\ Serving'
  BY <1>1, <1>3 DEF Reconciling, Serving
<1>5. /\ Serving /\ lock = Main /\ lock \notin 1..LastReload /\ None \notin started /\ None \notin closed
      /\ \A d \in Names : workers[d] \in closed => d = a
  BY <1>4, UnderWay
<1>6. a \in main.added \ main.removed /\ channels[a] \notin started /\ a \in Names
  BY <1>1, <1>2 DEF RegistryInv, StageInv, MainState
<1> HIDE DEF a
<1>7. /\ \A d \in Names : channels'[d] = IF d = a THEN None ELSE channels[d]
      /\ \A d \in Names : workers'[d] = IF d = a THEN None ELSE workers[d]
  BY <1>1, <1>6 DEF TypeInv, RegistryTypes
<1>8. LateTodo' = LateTodo /\ Todo' = Todo
  BY <1>1, <1>3 DEF LateTodo, Todo
<1>9. TouchedInv /\ \A d : (DueLate(d)' <=> DueLate(d)) /\ (Due(d)' <=> Due(d))
  BY <1>8 DEF RegistryInv, DueLate, Due
<1>10. hashes[a] # None /\ (a \notin shaky => \A j \in Insts : Register(a, j) \notin Todo)
  BY <1>4, <1>6, <1>9 DEF TouchedInv
<1>11. NewInv' /\ QuietInv' /\ LateInv'
  BY <1>1, <1>3, <1>4, <1>5 DEF RegistryInv, NewInv, QuietInv, LateInv
<1>12. StageInv'
  BY <1>1, <1>3, <1>4, <1>5 DEF RegistryInv, StageInv
<1>13. WorkersInv'
  BY <1>1, <1>7 DEF RegistryInv, WorkersInv
<1>14. ClosedInv'
  BY <1>1, <1>5, <1>7 DEF ClosedInv
<1>15. ApartInv'
  <2>1. \A d \in Names, j \in Insts : Owns(d, j)' => Owns(d, j)
    BY <1>7, <1>8, Numbers DEF Owns
  <2> QED
    BY <1>1, <2>1 DEF RegistryInv, ApartInv
<1>16. AbsentInv'
  BY <1>1, <1>3, <1>5, <1>7, <1>9, <1>10 DEF RegistryInv, AbsentInv
<1>17. EntryInv'
  <2>1. EntryInv
    BY DEF RegistryInv
  <2>2. \A d \in Names \ shaky : Unregister(d) \in Todo => hashes[d] = None /\ channels'[d] \notin started
    BY <1>5, <1>7, <2>1 DEF EntryInv
  <2>3. \A d \in Names \ shaky, j \in Insts : Register(d, j) \in Todo => hashes[d] # None /\ channels'[d] = j
    BY <1>7, <1>10, <2>1 DEF EntryInv
  <2> QED
    BY <1>1, <1>8, <2>2, <2>3 DEF EntryInv
<1>18. TouchedInv'
  <2>1. ASSUME NEW d \in main.added \ shaky
        PROVE  /\ d \in main.removed => channels'[d] # None
               /\ d \notin main.removed => channels'[d] \notin started /\ workers'[d] = None
               /\ \A j \in Insts : Register(d, j) \notin Todo
    <3>1. d \in Names
      BY <1>2 DEF MainState
    <3>2. /\ d \in main.removed => channels[d] # None
          /\ d \notin main.removed => channels[d] \notin started /\ (workers[d] = None \/ a = d)
          /\ \A j \in Insts : Register(d, j) \notin Todo
      BY <1>4, <1>9 DEF TouchedInv, a
    <3> QED
      BY <1>5, <1>6, <1>7, <3>1, <3>2
  <2>2. /\ \A d \in (main.added \cup main.removed) \ shaky : ~DueLate(d)
        /\ \A d \in main.removed \ main.added : hashes[d] = None
        /\ \A d \in main.added : hashes[d] # None
    BY <1>4, <1>9 DEF TouchedInv
  <2> QED
    BY <1>1, <1>3, <1>8, <1>9, <2>1, <2>2 DEF TouchedInv
<1>19. ServedInv' /\ ListedInv'
  BY <1>1, <1>5, <1>6, <1>7 DEF RegistryInv, ServedInv, ListedInv
<1> QED
  BY <1>11, <1>12, <1>13, <1>14, <1>15, <1>16, <1>17, <1>18, <1>19 DEF RegistryInv

LEMMA RegistryBuild ==
  ASSUME TypeInv, RegistryInv, NEW failing \in SUBSET Names, ReloadBuild(failing)
  PROVE  RegistryInv'
<1> DEFINE S == main.added \ failing
           q == SetToSeq(S)
<1>1. /\ main.pc = "remove" /\ main.removed = {} /\ main' = [main EXCEPT !.pc = "start"]
      /\ made' = made + Len(q)
      /\ channels' = [c \in Names |-> IF c \in S THEN made + IndexIn(c, q) ELSE channels[c]]
      /\ UNCHANGED <<hashes, workers, started, chanOf, task, lock, late, closed, shaky>>
  BY DEF ReloadBuild, contexts
<1>2. main \in MainState /\ made \in Nat
  BY Numbers DEF TypeInv, MainTypes, RegistryTypes
<1>3. IsFiniteSet(S) /\ S \subseteq main.added
  <2>1. IsFiniteSet(Names) /\ S \in SUBSET Names
    BY <1>2, ChannelConstants DEF MainState
  <2>2. S \subseteq main.added
    OBVIOUS
  <2> HIDE DEF S
  <2> QED
    BY <2>1, <2>2, FS_Subset
<1>4. \A c \in main.added : c \notin S \/ c \in S
  OBVIOUS
<1> HIDE DEF S
<1>5. /\ Cardinality(S) \in Nat /\ Len(q) = Cardinality(S)
      /\ \A c \in S : IndexIn(c, q) \in 1..Cardinality(S)
      /\ \A c, d \in S : IndexIn(c, q) = IndexIn(d, q) => c = d
  BY <1>3, Enumerated
<1> HIDE DEF q
<1>6. /\ \A c \in Names : c \notin S => channels'[c] = channels[c]
      /\ \A c \in S : c \in Names /\ channels'[c] = made + IndexIn(c, q)
  BY <1>1, <1>2, <1>3 DEF MainState
<1>7. /\ made' \in Nat /\ made' >= made
      /\ \A c \in S : channels'[c] \in Nat /\ channels'[c] > made /\ channels'[c] <= made'
      /\ \A c, d \in S : channels'[c] = channels'[d] => c = d
  BY <1>1, <1>2, <1>5, <1>6
<1>8. /\ main'.pc = "start" /\ main'.removed = {} /\ main'.added = main.added /\ main'.defers = main.defers
  BY <1>1, <1>2 DEF MainState
<1>9. Reconciling /\ Reconciling' /\ Serving'
  BY <1>1, <1>8 DEF Reconciling, Serving
<1>10. /\ Serving /\ lock = Main /\ lock \notin 1..LastReload /\ None \notin started /\ None \notin closed
       /\ \A d \in Names : workers[d] \notin closed
  BY <1>1, <1>9, UnderWay
<1>11. LateTodo' = LateTodo /\ Todo' = Todo
  BY <1>1, <1>8 DEF LateTodo, Todo
<1>12. TouchedInv /\ EntryInv /\ ApartInv /\ \A d : (DueLate(d)' <=> DueLate(d)) /\ (Due(d)' <=> Due(d))
  BY <1>11 DEF RegistryInv, DueLate, Due
<1>13. \A j \in started : j \in Nat /\ j <= made
  BY <1>12, Numbers DEF ApartInv, TypeInv, RegistryTypes
<1>14. \A c \in S : channels'[c] \notin started
  BY <1>2, <1>7, <1>13
<1>15. \A c \in S : hashes[c] # None /\ (c \notin shaky => channels[c] \notin started
                                           /\ \A j \in Insts : Register(c, j) \notin Todo)
  BY <1>1, <1>3, <1>9, <1>12 DEF TouchedInv
<1>16. NewInv' /\ QuietInv' /\ LateInv'
  BY <1>1, <1>8, <1>9, <1>10 DEF RegistryInv, NewInv, QuietInv, LateInv
<1>17. StageInv'
  BY <1>1, <1>8, <1>9, <1>10 DEF RegistryInv, StageInv
<1>18. WorkersInv'
  BY <1>1 DEF RegistryInv, WorkersInv
<1>19. ClosedInv'
  BY <1>1, <1>10 DEF ClosedInv
<1>20. ApartInv'
  <2>1. ASSUME NEW d \in Names, NEW j \in Insts, Owns(d, j)'
        PROVE  \/ j <= made /\ Owns(d, j)
               \/ j > made /\ d \in S /\ channels'[d] = j
    <3>1. CASE Register(d, j) \in Todo \/ d \notin S
      <4>1. Owns(d, j)
        BY <1>6, <1>11, <2>1, <3>1 DEF Owns
      <4> QED
        BY <1>12, <4>1 DEF ApartInv
    <3>2. CASE Register(d, j) \notin Todo /\ d \in S
      BY <1>7, <1>11, <2>1, <3>2 DEF Owns
    <3> QED
      BY <3>1, <3>2
  <2>2. ASSUME NEW c \in Names, NEW d \in Names, NEW j \in Insts, Owns(c, j)', Owns(d, j)' PROVE c = d
    <3>1. j \in Nat
      BY Numbers
    <3> QED
      BY <1>2, <1>7, <1>12, <2>1, <2>2, <3>1 DEF ApartInv
  <2>3. ASSUME NEW c \in Names, NEW j \in Insts, Owns(c, j)' PROVE j <= made'
    <3>1. j \in Nat
      BY Numbers
    <3> QED
      BY <1>2, <1>7, <2>1, <2>3, <3>1
  <2>4. \A j \in started' : j <= made'
    BY <1>1, <1>2, <1>7, <1>13
  <2> QED
    BY <2>2, <2>3, <2>4 DEF ApartInv
<1>21. AbsentInv'
  BY <1>1, <1>6, <1>8, <1>10, <1>12, <1>15 DEF RegistryInv, AbsentInv
<1>22. EntryInv'
  <2>1. \A d \in Names \ shaky : Unregister(d) \in Todo => hashes[d] = None /\ channels'[d] \notin started
    BY <1>6, <1>12, <1>14 DEF EntryInv
  <2>2. \A d \in Names \ shaky, j \in Insts : Register(d, j) \in Todo => hashes[d] # None /\ channels'[d] = j
    BY <1>6, <1>12, <1>15 DEF EntryInv
  <2> QED
    BY <1>1, <1>11, <2>1, <2>2 DEF EntryInv
<1>23. TouchedInv'
  <2>1. ASSUME NEW d \in main.added \ shaky
        PROVE  channels'[d] \notin started /\ workers[d] = None /\ \A j \in Insts : Register(d, j) \notin Todo
    <3>1. d \in Names
      BY <1>2 DEF MainState
    <3>2. channels[d] \notin started /\ workers[d] = None /\ \A j \in Insts : Register(d, j) \notin Todo
      BY <1>1, <1>9, <1>12 DEF TouchedInv
    <3> QED
      BY <1>6, <1>14, <3>1, <3>2
  <2>2. /\ \A d \in main.added \ shaky : ~DueLate(d)
        /\ \A d \in main.added : hashes[d] # None
    BY <1>1, <1>9, <1>12 DEF TouchedInv
  <2> QED
    BY <1>1, <1>8, <1>11, <1>12, <2>1, <2>2 DEF TouchedInv
<1>24. ServedInv' /\ ListedInv'
  BY <1>1, <1>6, <1>10, <1>14, <1>15 DEF RegistryInv, ServedInv, ListedInv
<1> QED
  BY <1>16, <1>17, <1>18, <1>19, <1>20, <1>21, <1>22, <1>23, <1>24 DEF RegistryInv

\* The worker a Reload makes is new.
LEMMA FreshWorker ==
  ASSUME TypeInv, RegistryInv, NEW w,
         w = 1 + Max({v \in Workers : chanOf[v] # None} \cup {0}), w \in Workers
  PROVE  chanOf[w] = None /\ w \notin closed /\ \A d \in Names : workers[d] # w
<1> DEFINE S == {v \in Workers : chanOf[v] # None}
<1>1. S \subseteq 1..LastInst /\ LastInst \in Nat
  BY Numbers
<1>2. Max(S \cup {0}) \in Nat /\ \A v \in S : v <= Max(S \cup {0})
  <2> HIDE DEF S
  <2> QED
    BY <1>1, AboveMax
<1>3. w \notin S
  <2> DEFINE M == Max(S \cup {0})
  <2>1. M \in Nat /\ (w \in S => w <= M) /\ w = 1 + M
    BY <1>2
  <2> HIDE DEF M
  <2> QED
    BY <2>1
<1>4. chanOf[w] = None
  BY <1>3
<1> QED
  BY <1>4, Numbers DEF RegistryInv, WorkersInv

LEMMA RegistryStarted ==
  ASSUME TypeInv, RegistryInv, NEW c \in Names, NEW ok \in BOOLEAN, ReloadStart(c, ok)
  PROVE  RegistryInv'
<1> DEFINE i == channels[c]
           w == 1 + Max({v \in Workers : chanOf[v] # None} \cup {0})
           up == ok /\ i # None
<1>1. /\ main.pc = "start" /\ c \in main.added /\ (ok => i # None /\ w \in Workers)
      /\ started' = IF up THEN started \cup {i} ELSE started
      /\ workers' = IF up THEN [workers EXCEPT ![c] = w] ELSE workers
      /\ chanOf' = IF up THEN [chanOf EXCEPT ![w] = i] ELSE chanOf
      /\ main' = [main EXCEPT !.added = @ \ {c}, !.defers = IF up THEN Append(@, Register(c, i)) ELSE @]
      /\ UNCHANGED <<hashes, channels, made, task, lock, late, closed, shaky>>
  BY DEF ReloadStart
<1>2. main \in MainState /\ main.defers \in Seq(Entry)
  BY DEF TypeInv, MainTypes, MainState
<1>3. up => chanOf[w] = None /\ w \notin closed /\ (\A d \in Names : workers[d] # w) /\ w \in Workers /\ w # None
  BY <1>1, FreshWorker, Numbers
<1>4. i \in Insts \cup {None}
  BY DEF TypeInv, RegistryTypes
<1>5. i = channels[c]
  OBVIOUS
<1> HIDE DEF i, w
<1>6. /\ main'.pc = "start" /\ main'.removed = main.removed /\ main'.added = main.added \ {c}
      /\ main'.defers = IF up THEN Append(main.defers, Register(c, i)) ELSE main.defers
  BY <1>1, <1>2 DEF MainState
<1>7. Reconciling /\ Reconciling' /\ Serving' /\ main.removed = {}
  BY <1>1, <1>6 DEF Reconciling, Serving, RegistryInv, StageInv
<1>8. /\ Serving /\ lock = Main /\ lock \notin 1..LastReload /\ None \notin started /\ None \notin closed
      /\ \A d \in Names : workers[d] \notin closed
  BY <1>1, <1>7, UnderWay
<1>9. LateTodo' = LateTodo
  BY <1>1 DEF LateTodo
<1>10. Todo' = IF up THEN Todo \cup {Register(c, i)} ELSE Todo
  <2>1. CASE up
    <3>1. i \in Insts /\ Register(c, i) \in Entry
      BY <1>4, <2>1, EntriesApart
    <3>2. ToSet(main'.defers) = ToSet(main.defers) \cup {Register(c, i)}
      BY <1>2, <1>6, <2>1, <3>1, SeqElements
    <3> QED
      BY <1>9, <2>1, <3>2 DEF Todo
  <2>2. CASE ~up
    BY <1>6, <1>9, <2>2 DEF Todo
  <2> QED
    BY <2>1, <2>2
<1>11. /\ \A d : Unregister(d) \in Todo' <=> Unregister(d) \in Todo
       /\ \A d, j : Register(d, j) \in Todo' => Register(d, j) \in Todo \/ (up /\ d = c /\ j = i)
       /\ \A d : (Due(d) => Due(d)') /\ (DueLate(d)' <=> DueLate(d))
  BY <1>9, <1>10, EntriesApart DEF Due, DueLate
<1>12. TouchedInv /\ EntryInv /\ ApartInv
  BY DEF RegistryInv
<1>14. hashes[c] # None
  BY <1>1, <1>7, <1>12 DEF TouchedInv
<1>15. /\ \A d \in Names : workers'[d] = IF up /\ d = c THEN w ELSE workers[d]
       /\ \A v \in Workers : chanOf'[v] = IF up /\ v = w THEN i ELSE chanOf[v]
  BY <1>1 DEF TypeInv, RegistryTypes
<1>16. \A d \in Names : up /\ channels[d] = i => d = c
  BY <1>4, <1>5, <1>12 DEF ApartInv, Owns
<1>17. \A d \in Names : channels[d] \in started' => channels[d] \in started \/ (up /\ d = c)
  BY <1>1, <1>16
<1>18. NewInv' /\ QuietInv' /\ LateInv' /\ StageInv'
  BY <1>1, <1>6, <1>7, <1>8 DEF RegistryInv, NewInv, QuietInv, LateInv, StageInv
<1>19. WorkersInv'
  <2>1. \A d \in Names : workers[d] # None => workers[d] \in Workers
    BY DEF TypeInv, RegistryTypes
  <2>2. WorkersInv /\ closed \subseteq Workers
    BY DEF RegistryInv, TypeInv, RegistryTypes
  <2> QED
    BY <1>1, <1>3, <1>15, <2>1, <2>2 DEF WorkersInv
<1>20. ClosedInv'
  BY <1>1, <1>3, <1>8, <1>15 DEF ClosedInv
<1>21. ApartInv'
  <2>1. \A d \in Names, j \in Insts : Owns(d, j)' => Owns(d, j)
    BY <1>1, <1>5, <1>11 DEF Owns
  <2>2. up => i <= made
    BY <1>4, <1>5, <1>12 DEF ApartInv, Owns
  <2> QED
    BY <1>1, <1>12, <2>1, <2>2 DEF ApartInv
<1>22. AbsentInv'
  BY <1>1, <1>6, <1>8, <1>11, <1>14, <1>15 DEF RegistryInv, AbsentInv
<1>23. EntryInv'
  <2>1. \A d \in Names \ shaky : Unregister(d) \in Todo => hashes[d] = None /\ channels[d] \notin started'
    BY <1>12, <1>14, <1>17 DEF EntryInv
  <2>2. \A d \in Names \ shaky, j \in Insts : Register(d, j) \in Todo' => hashes[d] # None /\ channels[d] = j
    BY <1>5, <1>11, <1>12, <1>14 DEF EntryInv
  <2> QED
    BY <1>1, <1>11, <2>1, <2>2 DEF EntryInv
<1>24. TouchedInv'
  <2>1. ASSUME NEW d \in main'.added \ shaky
        PROVE  channels[d] \notin started' /\ workers'[d] = None /\ \A j \in Insts : Register(d, j) \notin Todo'
    <3>1. d \in Names /\ d # c /\ d \in main.added
      BY <1>2, <1>6 DEF MainState
    <3>2. channels[d] \notin started /\ workers[d] = None /\ \A j \in Insts : Register(d, j) \notin Todo
      BY <1>1, <1>7, <1>12, <2>1, <3>1 DEF TouchedInv
    <3> QED
      BY <1>11, <1>15, <1>17, <3>1, <3>2
  <2>2. /\ \A d \in main'.added \ shaky : ~DueLate(d)
        /\ \A d \in main'.added : hashes[d] # None
    BY <1>6, <1>7, <1>12 DEF TouchedInv
  <2>3. main'.removed = {}
    BY <1>6, <1>7
  <2> QED
    BY <1>1, <1>11, <2>1, <2>2, <2>3 DEF TouchedInv
<1>25. ServedInv'
  <2> SUFFICES ASSUME NEW d \in Names \ shaky, channels[d] \in started'
               PROVE  workers'[d] # None /\ workers'[d] \notin closed /\ chanOf'[workers'[d]] = channels[d]
    BY <1>1 DEF ServedInv
  <2>1. CASE up /\ d = c
    BY <1>3, <1>5, <1>15, <2>1
  <2>2. CASE ~(up /\ d = c)
    <3>1. workers[d] # None /\ workers[d] \notin closed /\ chanOf[workers[d]] = channels[d]
      BY <1>8, <1>17, <2>2 DEF RegistryInv, ServedInv
    <3>2. workers[d] \in Workers /\ (up => workers[d] # w)
      BY <1>3, <3>1 DEF TypeInv, RegistryTypes
    <3> QED
      BY <1>15, <2>2, <3>1, <3>2
  <2> QED
    BY <2>1, <2>2
<1>26. ListedInv'
  BY <1>1, <1>5, <1>8 DEF RegistryInv, ListedInv
<1> QED
  BY <1>18, <1>19, <1>20, <1>21, <1>22, <1>23, <1>24, <1>25, <1>26 DEF RegistryInv

LEMMA RegistryEnd ==
  ASSUME TypeInv, RegistryInv, ReloadEnd
  PROVE  RegistryInv'
<1>1. /\ main.pc = "start" /\ main.added = {} /\ main' = Idle /\ lock' = Free
      /\ late' = [late EXCEPT ![task] = main.defers]
      /\ UNCHANGED <<hashes, channels, workers, started, made, chanOf, task, closed, shaky>>
  BY DEF ReloadEnd, registry, contexts
<1>2. Reconciling /\ main'.pc = "idle" /\ Resting(main') /\ ~Reconciling' /\ Serving'
  BY <1>1, IdleState DEF Reconciling, Serving
<1>3. /\ Serving /\ lock = Main /\ None \notin started /\ None \notin closed
      /\ \A d \in Names : workers[d] \notin closed
  BY <1>1, <1>2, UnderWay
<1>4. main.removed = {} /\ main'.removed = {}
  BY <1>1, <1>2 DEF RegistryInv, StageInv, Resting
<1>5. task \in 1..LastReload /\ late[task] = <<>>
  BY <1>1, <1>2, <1>3, Numbers DEF RegistryInv, LateInv, TypeInv, ContextTypes
<1>6. \A r \in 1..LastReload : late'[r] = IF r = task THEN main.defers ELSE late[r]
  BY <1>1 DEF TypeInv, MainTypes
<1>7. ToSet(<<>>) = {} /\ main'.defers = <<>>
  BY <1>2 DEF ToSet, Resting
<1>8. Todo' = Todo
  <2>1. LateTodo' = LateTodo \cup ToSet(main.defers)
    BY <1>5, <1>6, <1>7 DEF LateTodo
  <2> QED
    BY <1>7, <2>1 DEF Todo
<1>9. /\ \A d : Due(d)' <=> Due(d)
      /\ \A d, j : Owns(d, j)' <=> Owns(d, j)
  BY <1>1, <1>8 DEF Due, Owns
<1>10. NewInv' /\ QuietInv'
  BY <1>2 DEF NewInv, QuietInv
<1>11. StageInv'
  BY <1>1, <1>2, <1>7, Numbers DEF StageInv
<1>12. LateInv'
  BY <1>1, <1>2, <1>3, <1>6, Numbers DEF RegistryInv, LateInv
<1>13. WorkersInv' /\ ClosedInv' /\ ApartInv'
  BY <1>1, <1>3, <1>9, Numbers DEF RegistryInv, WorkersInv, ClosedInv, ApartInv
<1>14. AbsentInv' /\ EntryInv' /\ TouchedInv'
  BY <1>1, <1>2, <1>3, <1>4, <1>8, <1>9 DEF RegistryInv, AbsentInv, EntryInv, TouchedInv
<1>15. ServedInv' /\ ListedInv'
  BY <1>1, <1>3 DEF RegistryInv, ServedInv, ListedInv
<1> QED
  BY <1>10, <1>11, <1>12, <1>13, <1>14, <1>15 DEF RegistryInv

\* The goroutine of a Reload acts when no Reload is under way.
LEMMA LateTime ==
  ASSUME TypeInv, RegistryInv, NEW r \in 1..LastReload, lock = Free \/ lock = r, late[r] # <<>>
  PROVE  /\ ~Reconciling /\ main.pc # "new" /\ main.pc # "stopping" /\ Resting(main) /\ lock # Main
         /\ late[r] \in Seq(Entry) /\ Head(late[r]) \in Todo /\ Head(late[r]) \in Entry
         /\ ToSet(main.defers) = {} /\ Todo = LateTodo
<1>1. lock # Main
  BY Numbers
<1>2. ~Reconciling /\ main.pc # "stopping" /\ Resting(main)
  BY <1>1 DEF RegistryInv, StageInv, QuietInv
<1>3. main.pc # "new"
  <2>1. SUFFICES ASSUME main.pc = "new" PROVE FALSE
    OBVIOUS
  <2>2. task = -1 /\ Serving
    BY <2>1 DEF RegistryInv, NewInv, Serving
  <2> QED
    BY <2>2 DEF RegistryInv, LateInv
<1>4. late[r] \in Seq(Entry) /\ ToSet(late[r]) \subseteq LateTodo /\ LateTodo \subseteq Todo /\ Todo \subseteq Entry
  BY TodoTypes
<1>5. Head(late[r]) \in ToSet(late[r])
  BY <1>4, SeqElements
<1>6. ToSet(main.defers) = {}
  BY <1>2 DEF Resting, ToSet
<1> QED
  BY <1>1, <1>2, <1>3, <1>4, <1>5, <1>6 DEF Todo

\* Taking the first entry of a list loses that entry and no other.
LEMMA EntryTaken ==
  ASSUME TypeInv, NEW r \in 1..LastReload, late[r] # <<>>, late' = [late EXCEPT ![r] = Tail(late[r])]
  PROVE  LateTodo' \subseteq LateTodo /\ \A x \in LateTodo : x \in LateTodo' \/ x = Head(late[r])
<1>1. late \in [1..LastReload -> Seq(Entry)]
  BY DEF TypeInv, MainTypes
<1>2. /\ ToSet(Tail(late[r])) \subseteq ToSet(late[r])
      /\ \A x \in ToSet(late[r]) : x \in ToSet(Tail(late[r])) \/ x = Head(late[r])
  BY <1>1, SeqElements
<1>3. \A s \in 1..LastReload : late'[s] = IF s = r THEN Tail(late[r]) ELSE late[s]
  BY <1>1
<1> QED
  BY <1>2, <1>3 DEF LateTodo

LEMMA RegistryLateRegister ==
  ASSUME TypeInv, RegistryInv, NEW r \in 1..LastReload, LateRegister(r)
  PROVE  RegistryInv'
<1>1. /\ late[r] # <<>> /\ Head(late[r]).op = "register" /\ lock = Free
      /\ channels' = [channels EXCEPT ![Head(late[r]).name] = Head(late[r]).inst]
      /\ late' = [late EXCEPT ![r] = Tail(late[r])]
      /\ UNCHANGED <<hashes, workers, started, made, chanOf, task, lock, main, closed, shaky>>
  BY DEF LateRegister, contexts
<1>2. /\ ~Reconciling /\ main.pc # "new" /\ Resting(main) /\ Head(late[r]) \in Todo /\ Head(late[r]) \in Entry
      /\ ToSet(main.defers) = {} /\ Todo = LateTodo
  BY <1>1, LateTime
<1>3. PICK c \in Names, i \in Insts : Head(late[r]) = Register(c, i)
  BY <1>1, <1>2, EntryForm
<1>4. Head(late[r]).name = c /\ Head(late[r]).inst = i
  BY <1>3 DEF Register
<1>5. LateTodo' \subseteq LateTodo /\ (\A x \in LateTodo : x \in LateTodo' \/ x = Register(c, i)) /\ Todo' = LateTodo'
  BY <1>1, <1>2, <1>3, EntryTaken DEF Todo
<1>6. \A d \in Names : channels'[d] = IF d = c THEN i ELSE channels[d]
  BY <1>1, <1>4 DEF TypeInv, RegistryTypes
<1>7. c \notin shaky => hashes[c] # None /\ channels[c] = i
  BY <1>2, <1>3 DEF RegistryInv, EntryInv
<1>8. \A d \in Names \ shaky : channels'[d] = channels[d]
  BY <1>6, <1>7
<1>9. \A d : Due(d) => Due(d)' \/ d = c
  BY <1>2, <1>5, EntriesApart DEF Due
<1>10. (Serving' <=> Serving) /\ ~Reconciling' /\ main' = main
  BY <1>1, <1>2 DEF Serving, Reconciling
<1>11. NewInv' /\ QuietInv' /\ StageInv' /\ WorkersInv' /\ TouchedInv'
  BY <1>1, <1>2, <1>10 DEF RegistryInv, NewInv, QuietInv, StageInv, WorkersInv, TouchedInv, Reconciling
<1>12. LateInv'
  <2>1. \A s \in 1..LastReload : late'[s] # <<>> => late[s] # <<>>
    BY <1>1 DEF TypeInv, MainTypes
  <2> QED
    BY <1>1, <1>10, <2>1 DEF RegistryInv, LateInv, Reconciling
<1>13. ClosedInv'
  <2>1. lock \notin 1..LastReload
    BY <1>1, Numbers
  <2> QED
    BY <1>1, <1>10, <2>1 DEF RegistryInv, ClosedInv, HeldBy
<1>14. ApartInv'
  <2>1. \A d \in Names, j \in Insts : Owns(d, j)' => Owns(d, j)
    BY <1>2, <1>3, <1>5, <1>6 DEF Owns
  <2> QED
    BY <1>1, <2>1 DEF RegistryInv, ApartInv
<1>15. AbsentInv'
  BY <1>1, <1>7, <1>8, <1>9, <1>10 DEF RegistryInv, AbsentInv
<1>16. EntryInv'
  <2>1. Todo' \subseteq Todo
    BY <1>2, <1>5
  <2> QED
    BY <1>1, <1>8, <2>1 DEF RegistryInv, EntryInv
<1>17. ServedInv' /\ ListedInv'
  BY <1>1, <1>8, <1>10 DEF RegistryInv, ServedInv, ListedInv
<1> QED
  BY <1>11, <1>12, <1>13, <1>14, <1>15, <1>16, <1>17 DEF RegistryInv

LEMMA RegistryLateUnregister ==
  ASSUME TypeInv, RegistryInv, NEW r \in 1..LastReload, LateUnregister(r)
  PROVE  RegistryInv'
<1>1. late[r] # <<>> /\ Head(late[r]).op = "unregister" /\ lock = Free
      /\ UNCHANGED <<hashes, channels, workers, started, made, chanOf, task, main, shaky>>
  BY DEF LateUnregister, registry, contexts
<1>2. /\ ~Reconciling /\ main.pc # "new" /\ Resting(main) /\ Head(late[r]) \in Todo /\ Head(late[r]) \in Entry
      /\ main.pc # "stopping" /\ late[r] \in Seq(Entry) /\ ToSet(main.defers) = {} /\ Todo = LateTodo
  BY <1>1, LateTime
<1>3. PICK c \in Names : Head(late[r]) = Unregister(c)
  BY <1>1, <1>2, EntryForm
<1>4. Head(late[r]).name = c
  BY <1>3, EntriesApart
<1>5. (Serving' <=> Serving) /\ ~Reconciling' /\ main' = main /\ lock \notin 1..LastReload
  BY <1>1, <1>2, Numbers DEF Serving, Reconciling
<1>6. NewInv' /\ QuietInv' /\ TouchedInv'
  BY <1>1, <1>2, <1>5 DEF RegistryInv, NewInv, QuietInv, TouchedInv
<1>7. main.pc \notin {"remove", "drain", "start", "stopping"}
  BY <1>2 DEF Reconciling
<1>8. CASE workers[c] \in closed
  <2>1. late' = [late EXCEPT ![r] = <<>>] /\ UNCHANGED <<lock, closed>>
    BY <1>4, <1>8 DEF LateUnregister
  <2>2. ~Serving
    BY <1>5, <1>7, <1>8 DEF RegistryInv, ClosedInv, HeldBy
  <2>3. Todo' \subseteq Todo
    <3>1. \A s \in 1..LastReload : late'[s] = IF s = r THEN <<>> ELSE late[s]
      BY <2>1 DEF TypeInv, MainTypes
    <3>2. ToSet(<<>>) = {}
      BY DEF ToSet
    <3>3. LateTodo' \subseteq LateTodo
      BY <3>1, <3>2 DEF LateTodo
    <3> QED
      BY <1>1, <3>3 DEF Todo
  <2>4. \A d, j : Owns(d, j)' => Owns(d, j)
    BY <1>1, <2>3 DEF Owns
  <2>5. StageInv' /\ LateInv' /\ WorkersInv' /\ ClosedInv'
    BY <1>1, <1>5, <1>7, <2>1, <2>2, Numbers
       DEF RegistryInv, StageInv, LateInv, WorkersInv, ClosedInv, Reconciling
  <2>6. ApartInv' /\ EntryInv'
    BY <1>1, <2>3, <2>4 DEF RegistryInv, ApartInv, EntryInv
  <2>7. AbsentInv' /\ ServedInv' /\ ListedInv'
    BY <1>5, <2>2 DEF AbsentInv, ServedInv, ListedInv
  <2> QED
    BY <1>6, <2>5, <2>6, <2>7 DEF RegistryInv
<1>9. CASE workers[c] \notin closed
  <2>1. /\ lock' = r /\ late' = late
        /\ closed' = IF workers[c] = None THEN closed ELSE closed \cup {workers[c]}
    BY <1>4, <1>9 DEF LateUnregister
  <2>2. LateTodo' = LateTodo /\ Todo' = Todo
    BY <1>1, <2>1 DEF LateTodo, Todo
  <2>3. /\ \A d, j : Owns(d, j)' <=> Owns(d, j)
        /\ \A d : Due(d)' <=> Due(d)
    BY <1>1, <2>2 DEF Owns, Due
  <2>4. lock' # Main /\ lock' \in 1..LastReload /\ HeldBy(c)'
    BY <1>4, <2>1, Numbers DEF HeldBy
  <2>5. StageInv'
    BY <1>5, <1>7, <1>2, <2>4 DEF RegistryInv, StageInv, Reconciling
  <2>6. LateInv' /\ ListedInv'
    BY <1>1, <1>2, <1>5, <2>1 DEF RegistryInv, LateInv, ListedInv
  <2>7. WorkersInv'
    BY <1>1, <2>1 DEF RegistryInv, WorkersInv
  <2>8. ClosedInv'
    <3>1. ASSUME NEW d \in Names, workers[d] \in closed' PROVE ~Serving \/ d = c
      BY <1>5, <1>7, <2>1, <3>1 DEF RegistryInv, WorkersInv, ClosedInv, HeldBy
    <3> QED
      BY <1>1, <1>3, <1>5, <2>1, <2>4, <3>1 DEF ClosedInv
  <2>9. ApartInv' /\ EntryInv' /\ AbsentInv'
    BY <1>1, <1>5, <2>2, <2>3 DEF RegistryInv, ApartInv, EntryInv, AbsentInv
  <2>10. ServedInv'
    <3>1. \A d \in Names \ shaky : channels[d] \in started => d # c
      BY <1>2, <1>3 DEF RegistryInv, EntryInv
    <3>2. \A d \in Names : workers[d] = workers[c] /\ workers[c] # None => d = c
      BY DEF RegistryInv, WorkersInv
    <3> QED
      BY <1>1, <1>5, <2>1, <3>1, <3>2 DEF RegistryInv, ServedInv
  <2> QED
    BY <1>6, <2>5, <2>6, <2>7, <2>8, <2>9, <2>10 DEF RegistryInv
<1> QED
  BY <1>8, <1>9

LEMMA RegistryLateUnregistered ==
  ASSUME TypeInv, RegistryInv, NEW r \in 1..LastReload, LateUnregistered(r)
  PROVE  RegistryInv'
<1>1. /\ lock = r /\ lock' = Free /\ late' = [late EXCEPT ![r] = Tail(late[r])]
      /\ workers' = [workers EXCEPT ![Head(late[r]).name] = None]
      /\ channels' = [channels EXCEPT ![Head(late[r]).name] = None]
      /\ UNCHANGED <<hashes, started, made, chanOf, task, main, closed, shaky>>
  BY DEF LateUnregistered, contexts
<1>2. PICK c \in Names : Head(late[r]) = Unregister(c)
  BY <1>1 DEF RegistryInv, ClosedInv
<1>3. Head(late[r]).name = c /\ late[r] # <<>>
  BY <1>1, <1>2, EntriesApart DEF RegistryInv, ClosedInv
<1>4. /\ ~Reconciling /\ main.pc # "new" /\ Resting(main) /\ Unregister(c) \in Todo
      /\ main.pc # "stopping" /\ ToSet(main.defers) = {} /\ Todo = LateTodo
  BY <1>1, <1>2, <1>3, LateTime
<1>5. LateTodo' \subseteq LateTodo /\ (\A x \in LateTodo : x \in LateTodo' \/ x = Unregister(c)) /\ Todo' = LateTodo'
  BY <1>1, <1>2, <1>3, <1>4, EntryTaken DEF Todo
<1>6. /\ \A d \in Names : channels'[d] = IF d = c THEN None ELSE channels[d]
      /\ \A d \in Names : workers'[d] = IF d = c THEN None ELSE workers[d]
  BY <1>1, <1>3 DEF TypeInv, RegistryTypes
<1>7. c \notin shaky => hashes[c] = None /\ channels[c] \notin started
  BY <1>4 DEF RegistryInv, EntryInv
<1>8. (Serving' <=> Serving) /\ ~Reconciling' /\ main' = main /\ lock' \notin 1..LastReload /\ lock' # Main
  BY <1>1, <1>4, Numbers DEF Serving, Reconciling
<1>9. main.pc \notin {"remove", "drain", "start", "stopping"}
  BY <1>4 DEF Reconciling
<1>10. None \notin started /\ None \notin closed
  BY Numbers DEF TypeInv, RegistryTypes
<1>11. \A d : Due(d) => Due(d)' \/ d = c
  BY <1>4, <1>5, EntriesApart DEF Due
<1>12. NewInv' /\ QuietInv' /\ TouchedInv'
  BY <1>4, <1>8 DEF RegistryInv, NewInv, QuietInv, TouchedInv
<1>13. StageInv'
  BY <1>4, <1>8, <1>9 DEF RegistryInv, StageInv, Reconciling
<1>14. LateInv'
  <2>1. \A s \in 1..LastReload : late'[s] # <<>> => late[s] # <<>>
    BY <1>1, <1>3 DEF TypeInv, MainTypes
  <2> QED
    BY <1>1, <1>4, <1>8, <2>1 DEF RegistryInv, LateInv
<1>15. WorkersInv'
  BY <1>1, <1>6 DEF RegistryInv, WorkersInv
<1>16. ClosedInv'
  BY <1>1, <1>3, <1>6, <1>8, <1>9, <1>10 DEF RegistryInv, ClosedInv, HeldBy
<1>17. ApartInv'
  <2>1. \A d \in Names, j \in Insts : Owns(d, j)' => Owns(d, j)
    BY <1>4, <1>5, <1>6, Numbers DEF Owns
  <2> QED
    BY <1>1, <2>1 DEF RegistryInv, ApartInv
<1>18. AbsentInv'
  BY <1>1, <1>6, <1>8, <1>11 DEF RegistryInv, AbsentInv
<1>19. EntryInv'
  <2>1. Todo' \subseteq Todo /\ EntryInv
    BY <1>4, <1>5 DEF RegistryInv
  <2>2. \A d \in Names \ shaky : Unregister(d) \in Todo' => hashes[d] = None /\ channels'[d] \notin started
    BY <1>6, <1>10, <2>1 DEF EntryInv
  <2>3. \A d \in Names \ shaky, j \in Insts : Register(d, j) \in Todo' => hashes[d] # None /\ channels'[d] = j
    BY <1>6, <1>7, <2>1 DEF EntryInv
  <2> QED
    BY <1>1, <2>2, <2>3 DEF EntryInv
<1>20. ServedInv' /\ ListedInv'
  BY <1>1, <1>6, <1>7, <1>8, <1>10 DEF RegistryInv, ServedInv, ListedInv
<1> QED
  BY <1>12, <1>13, <1>14, <1>15, <1>16, <1>17, <1>18, <1>19, <1>20 DEF RegistryInv

LEMMA RegistryStep ==
  ASSUME TypeInv, RegistryInv, [Next]_vars
  PROVE  RegistryInv'
BY RegistryStart, RegistryStop, RegistryBegin, RegistryRemove, RegistryReleased, RegistryBuild, RegistryStarted,
   RegistryEnd, RegistryLateRegister, RegistryLateUnregister, RegistryLateUnregistered, RegistryTraffic
   DEF Next, Reloading, Late

-----------------------------------------------------------------------------
(* The traffic: where the messages of a channel are, and in which order     *)

\* The messages a worker has.
Held(w) == ToSet(queue[w]) \cup {m \in {work[w].msg} : work[w].pc = "sending"}
InHand == disp[0].pc \in {"look", "send"}
Ascending(q) == \A i, j \in DOMAIN q : i < j => q[i] < q[j]

\* The dispatcher has passed x on.
Behind(x) == x \in 1..published /\ (\A y \in ToSet(bus) : x < y) /\ (InHand => x < disp[0].msg)

\* There is one dispatcher, and it goes through the bus in the order of publication.
BusInv ==
  /\ \A e \in Epochs \ {0} : disp[e].pc = "off"
  /\ main.pc = "new" => disp[0].pc = "off"
  /\ Ascending(bus) /\ \A y \in ToSet(bus) : y \in 1..published
  /\ InHand => disp[0].msg \in 1..published /\ \A y \in ToSet(bus) : disp[0].msg < y

HeldInv ==
  /\ \A w \in Workers : /\ Ascending(queue[w]) /\ \A x \in Held(w) : Behind(x)
                        /\ work[w].pc = "sending" => \A x \in ToSet(queue[w]) : work[w].msg < x
  /\ \A c \in Names : \A x \in ToSet(sent[c]) : Behind(x)

\* What the worker of a queue is doing, by the state of the queue.
WorkInv ==
  /\ \A w \in Workers : chanOf[w] = None => Held(w) = {} /\ work[w].pc = "off"
  /\ disp[0].pc = "send" => chanOf[disp[0].worker] # None
  /\ \A w \in closed : work[w].pc = "done" => queue[w] = <<>>
  /\ Serving => \A w \in Workers : chanOf[w] # None /\ w \notin closed => work[w].pc \in {"idle", "sending"}
  /\ ~Serving => \A c \in Names : workers[c] \in closed \cup {None}

SentInv ==
  \A c \in Names \ shaky :
    /\ Ascending(sent[c])
    /\ \A w \in Workers : \A m \in Held(w) : fate[m].on = c => \A x \in ToSet(sent[c]) : x < m

\* The messages of a name are with the worker that is registered for it, or with the
\* dispatcher on their way to it.
CurrentInv ==
  \A c \in Names \ shaky :
    /\ \A w \in Workers : \A m \in Held(w) : fate[m].on = c => w = workers[c]
    /\ disp[0].pc = "send" /\ fate[disp[0].msg].on = c =>
         disp[0].worker = workers[c] \/ disp[0].worker \in closed

TrafficInv == BusInv /\ HeldInv /\ WorkInv /\ SentInv /\ CurrentInv

LEMMA AscendingGrows ==
  ASSUME NEW q \in Seq(Ids), Ascending(q), NEW y \in Ids, \A x \in ToSet(q) : x < y
  PROVE  Append(q, y) \in Seq(Ids) /\ Ascending(Append(q, y)) /\ ToSet(Append(q, y)) = ToSet(q) \cup {y}
<1>1. Append(q, y) \in Seq(Ids) /\ ToSet(Append(q, y)) = ToSet(q) \cup {y}
  BY SeqElements
<1>2. /\ DOMAIN q = 1..Len(q) /\ Len(q) \in Nat /\ DOMAIN Append(q, y) = 1..(Len(q) + 1)
      /\ \A i \in 1..Len(q) : Append(q, y)[i] = q[i]
      /\ Append(q, y)[Len(q) + 1] = y
  OBVIOUS
<1>3. \A i \in 1..Len(q) : q[i] < y
  BY <1>2 DEF ToSet
<1>4. ASSUME NEW i \in 1..(Len(q) + 1), NEW j \in 1..(Len(q) + 1), i < j PROVE Append(q, y)[i] < Append(q, y)[j]
  <2>1. i \in 1..Len(q) /\ (j \in 1..Len(q) \/ j = Len(q) + 1)
    BY <1>2, <1>4
  <2> QED
    BY <1>2, <1>3, <1>4, <2>1 DEF Ascending
<1> QED
  BY <1>1, <1>2, <1>4 DEF Ascending

LEMMA AscendingTaken ==
  ASSUME NEW q \in Seq(Ids), Ascending(q), q # <<>>
  PROVE  /\ Tail(q) \in Seq(Ids) /\ Ascending(Tail(q)) /\ Head(q) \in Ids
         /\ ToSet(q) = ToSet(Tail(q)) \cup {Head(q)}
         /\ \A x \in ToSet(Tail(q)) : Head(q) < x
<1>1. /\ Tail(q) \in Seq(Ids) /\ Head(q) \in Ids /\ ToSet(q) = ToSet(Tail(q)) \cup {Head(q)}
  BY SeqElements
<1>2. /\ DOMAIN q = 1..Len(q) /\ Len(q) \in Nat \ {0} /\ DOMAIN Tail(q) = 1..(Len(q) - 1)
      /\ \A i \in 1..(Len(q) - 1) : Tail(q)[i] = q[i + 1]
      /\ Head(q) = q[1]
  OBVIOUS
<1>3. ASSUME NEW i \in 1..(Len(q) - 1) PROVE Head(q) < Tail(q)[i]
  <2>1. 1 \in 1..Len(q) /\ i + 1 \in 1..Len(q) /\ 1 < i + 1
    BY <1>2
  <2> QED
    BY <1>2, <2>1 DEF Ascending
<1>4. ASSUME NEW i \in 1..(Len(q) - 1), NEW j \in 1..(Len(q) - 1), i < j PROVE Tail(q)[i] < Tail(q)[j]
  <2>1. i + 1 \in 1..Len(q) /\ j + 1 \in 1..Len(q) /\ i + 1 < j + 1
    BY <1>2, <1>4
  <2> QED
    BY <1>2, <2>1 DEF Ascending
<1> QED
  BY <1>1, <1>2, <1>3, <1>4 DEF Ascending, ToSet

LEMMA EmptyStream == Ascending(<<>>) /\ ToSet(<<>>) = {}
  BY DEF Ascending, ToSet

LEMMA TrafficInit == Init => TrafficInv
<1> SUFFICES ASSUME NEW hs \in Configs, NEW cs, NEW n, InitFor(hs, cs, n) PROVE TrafficInv
  BY DEF Init
<1>1. /\ bus = <<>> /\ closed = {} /\ main = [Idle EXCEPT !.pc = "new"]
      /\ \A e \in Epochs : disp[e].pc = "off"
      /\ \A w \in Workers : queue[w] = <<>> /\ work[w].pc = "off"
      /\ \A c \in Names : sent[c] = <<>>
  BY DEF InitFor, Away
<1>2. main.pc = "new" /\ Serving
  BY <1>1, IdleState DEF Points, Serving
<1>3. \A w \in Workers : chanOf[w] = None
  BY DEF InitFor
<1>4. \A w \in Workers : Held(w) = {}
  BY <1>1, EmptyStream DEF Held
<1>5. disp[0].pc = "off"
  BY <1>1, Numbers
<1>6. BusInv
  BY <1>1, <1>5, EmptyStream DEF BusInv, InHand
<1>7. HeldInv
  BY <1>1, <1>4, EmptyStream DEF HeldInv
<1>8. WorkInv
  BY <1>1, <1>2, <1>3, <1>4, <1>5 DEF WorkInv
<1>9. SentInv /\ CurrentInv
  BY <1>1, <1>4, <1>5, EmptyStream DEF SentInv, CurrentInv
<1> QED
  BY <1>6, <1>7, <1>8, <1>9 DEF TrafficInv

\* A step of the registry that lets go only of workers that have nothing left.
LEMMA TrafficRegistry ==
  ASSUME TypeInv, TrafficInv, UNCHANGED <<traffic, chanOf>>, closed \subseteq closed', shaky \subseteq shaky',
         Serving' => Serving, main'.pc # "new",
         \A w \in closed' \ closed : Serving /\ w \in Workers /\ chanOf[w] # None,
         \A c \in Names : \/ workers'[c] = workers[c]
                          \/ workers'[c] = None /\ workers[c] = None
                          \/ workers'[c] = None /\ workers[c] \in closed /\ work[workers[c]].pc = "done",
         ~Serving' => \A c \in Names : workers'[c] \in closed' \cup {None}
  PROVE  TrafficInv'
<1>1. UNCHANGED <<bus, disp, queue, work, published, sent, fate>>
  BY DEF traffic
<1>2. /\ \A w : Held(w)' = Held(w)
      /\ InHand' <=> InHand
      /\ \A x : Behind(x)' <=> Behind(x)
  BY <1>1 DEF Held, InHand, Behind
<1>3. BusInv' /\ HeldInv' /\ SentInv'
  BY <1>1, <1>2 DEF TrafficInv, BusInv, HeldInv, SentInv
<1>4. WorkInv'
  <2>1. \A w \in closed' : work[w].pc = "done" => queue[w] = <<>>
    BY DEF TrafficInv, WorkInv
  <2> QED
    BY <1>1, <1>2, <2>1 DEF TrafficInv, WorkInv
<1>5. CurrentInv'
  <2> SUFFICES ASSUME NEW c \in Names \ shaky'
               PROVE  /\ \A w \in Workers : \A m \in Held(w) : fate[m].on = c => w = workers'[c]
                      /\ disp[0].pc = "send" /\ fate[disp[0].msg].on = c =>
                           disp[0].worker = workers'[c] \/ disp[0].worker \in closed'
    BY <1>1, <1>2 DEF CurrentInv
  <2>1. /\ \A w \in Workers : \A m \in Held(w) : fate[m].on = c => w = workers[c]
        /\ disp[0].pc = "send" /\ fate[disp[0].msg].on = c =>
             disp[0].worker = workers[c] \/ disp[0].worker \in closed
    BY DEF TrafficInv, CurrentInv
  <2>2. disp[0].pc = "send" => disp[0].worker \in Workers /\ disp[0].worker # None
    BY Numbers DEF TypeInv, TrafficTypes
  <2>3. CASE workers'[c] = workers[c]
    BY <2>1, <2>3
  <2>4. CASE workers'[c] = None /\ workers[c] = None
    BY <2>1, <2>2, <2>4
  <2>5. CASE workers[c] \in closed /\ work[workers[c]].pc = "done"
    <3>1. Held(workers[c]) = {}
      BY <2>5, EmptyStream DEF Held, TrafficInv, WorkInv
    <3> QED
      BY <2>1, <2>5, <3>1
  <2> QED
    BY <2>3, <2>4, <2>5
<1> QED
  BY <1>3, <1>4, <1>5 DEF TrafficInv

\* A registry step of the main goroutine or of a goroutine of a Reload.
LEMMA TrafficReload ==
  ASSUME TypeInv, RegistryInv, TrafficInv,
         \/ \E cfg \in Configs : ReloadBegin(cfg)
         \/ ReloadReleased \/ ReloadEnd
         \/ \E failing \in SUBSET Names : ReloadBuild(failing)
         \/ \E c \in Names : ReloadRemove(c)
  PROVE  TrafficInv'
<1>1. main \in MainState
  BY DEF TypeInv, MainTypes
<1>2. ASSUME NEW cfg \in Configs, ReloadBegin(cfg) PROVE TrafficInv'
  <2>1. main'.pc = "remove"
    <3>1. main' = [Idle EXCEPT !.pc = "remove", !.removed = Removed(cfg), !.added = Added(cfg)]
      BY <1>2 DEF ReloadBegin
    <3> QED
      BY <3>1, IdleState DEF MainState
  <2>2. /\ UNCHANGED <<traffic, chanOf, workers, closed>> /\ shaky \subseteq shaky' /\ main.pc = "idle"
    BY <1>2 DEF ReloadBegin, DispatchersOf, traffic
  <2>3. Serving /\ Serving'
    BY <2>1, <2>2 DEF Serving
  <2> QED
    BY <2>1, <2>2, <2>3, TrafficRegistry
<1>3. CASE ReloadReleased
  <2> DEFINE a == main.at
  <2>1. /\ main.pc = "drain" /\ main' = [main EXCEPT !.pc = "remove", !.at = AnyName]
        /\ workers' = [workers EXCEPT ![a] = None] /\ work[workers[a]].pc = "done"
        /\ UNCHANGED <<traffic, chanOf, closed, shaky>>
    BY <1>3 DEF ReloadReleased
  <2>2. main'.pc = "remove"
    BY <1>1, <2>1 DEF MainState
  <2>3. Serving /\ Serving' /\ workers[a] \in closed
    BY <2>1, <2>2 DEF Serving, RegistryInv, StageInv
  <2> HIDE DEF a
  <2>4. \A c \in Names : \/ workers'[c] = workers[c]
                         \/ workers'[c] = None /\ workers[c] \in closed /\ work[workers[c]].pc = "done"
    BY <2>1, <2>3 DEF TypeInv, RegistryTypes
  <2> QED
    BY <2>1, <2>2, <2>3, <2>4, TrafficRegistry
<1>4. CASE ReloadEnd
  <2>1. UNCHANGED <<traffic, chanOf, workers, closed, shaky>> /\ main.pc = "start" /\ main'.pc = "idle"
    BY <1>4, IdleState DEF ReloadEnd, registry
  <2>2. Serving /\ Serving'
    BY <2>1 DEF Serving
  <2> QED
    BY <2>1, <2>2, TrafficRegistry
<1>5. ASSUME NEW failing \in SUBSET Names, ReloadBuild(failing) PROVE TrafficInv'
  <2>1. UNCHANGED <<traffic, chanOf, workers, closed, shaky>> /\ main.pc = "remove" /\ main'.pc = "start"
    BY <1>1, <1>5 DEF ReloadBuild, MainState
  <2>2. Serving /\ Serving'
    BY <2>1 DEF Serving
  <2> QED
    BY <2>1, <2>2, TrafficRegistry
<1>6. ASSUME NEW c \in Names, ReloadRemove(c) PROVE TrafficInv'
  <2>1. /\ UNCHANGED <<traffic, chanOf, workers, shaky>> /\ main.pc = "remove"
        /\ main'.pc \in {"remove", "drain"}
        /\ closed' = closed \/ (workers[c] # None /\ closed' = closed \cup {workers[c]})
    BY <1>1, <1>6 DEF ReloadRemove, CloseQueue, MainState
  <2>2. Serving /\ Serving' /\ main'.pc # "new"
    BY <2>1 DEF Serving
  <2>3. \A w \in closed' \ closed : w \in Workers /\ chanOf[w] # None
    BY <2>1, Numbers DEF RegistryInv, WorkersInv, TypeInv, RegistryTypes
  <2> QED
    BY <2>1, <2>2, <2>3, TrafficRegistry
<1> QED
  BY <1>2, <1>3, <1>4, <1>5, <1>6

LEMMA TrafficLate ==
  ASSUME TypeInv, RegistryInv, TrafficInv, NEW r \in 1..LastReload, Late(r)
  PROVE  TrafficInv'
<1>1. UNCHANGED <<traffic, chanOf, shaky, main>> /\ late[r] # <<>> /\ (lock = Free \/ lock = r)
  BY DEF Late, LateRegister, LateUnregister, LateUnregistered, registry, RegistryInv, ClosedInv
<1>2. main.pc # "new" /\ main'.pc # "new" /\ (Serving' <=> Serving)
  BY <1>1, LateTime DEF Serving
<1>3. CASE LateRegister(r)
  <2>1. UNCHANGED <<workers, closed>>
    BY <1>3 DEF LateRegister
  <2>2. ~Serving' => \A c \in Names : workers'[c] \in closed' \cup {None}
    BY <1>2, <2>1 DEF TrafficInv, WorkInv
  <2> QED
    BY <1>1, <1>2, <2>1, <2>2, TrafficRegistry
<1>4. CASE LateUnregister(r)
  <2> DEFINE w == workers[Head(late[r]).name]
  <2>1. /\ UNCHANGED workers /\ Head(late[r]).op = "unregister"
        /\ closed' = closed \/ (w # None /\ w \notin closed /\ closed' = closed \cup {w})
    BY <1>4 DEF LateUnregister, registry
  <2>2. Head(late[r]).name \in Names
    BY <1>1, LateTime, EntryForm
  <2>3. w \in Workers \cup {None} /\ (w # None => chanOf[w] # None)
    BY <2>2 DEF TypeInv, RegistryTypes, RegistryInv, WorkersInv
  <2>4. ~Serving => w \in closed \cup {None}
    BY <2>2 DEF TrafficInv, WorkInv
  <2> HIDE DEF w
  <2>5. \A v \in closed' \ closed : Serving /\ v \in Workers /\ chanOf[v] # None
    BY <2>1, <2>3, <2>4
  <2>6. ~Serving' => \A c \in Names : workers'[c] \in closed' \cup {None}
    BY <1>2, <2>1 DEF TrafficInv, WorkInv
  <2> QED
    BY <1>1, <1>2, <2>1, <2>5, <2>6, TrafficRegistry
<1>5. CASE LateUnregistered(r)
  <2> DEFINE c == Head(late[r]).name
  <2>1. /\ lock = r /\ workers' = [workers EXCEPT ![c] = None] /\ UNCHANGED closed
        /\ workers[c] # None => work[workers[c]].pc = "done"
    BY <1>5 DEF LateUnregistered
  <2>2. workers[c] \in closed \cup {None}
    BY <2>1, EntriesApart DEF RegistryInv, ClosedInv
  <2> HIDE DEF c
  <2>3. \A d \in Names : workers'[d] = IF d = c THEN None ELSE workers[d]
    BY <2>1 DEF TypeInv, RegistryTypes
  <2>4. \A d \in Names : \/ workers'[d] = workers[d]
                         \/ workers'[d] = None /\ workers[d] = None
                         \/ workers'[d] = None /\ workers[d] \in closed /\ work[workers[d]].pc = "done"
    BY <2>1, <2>2, <2>3
  <2>5. ~Serving' => \A d \in Names : workers'[d] \in closed' \cup {None}
    BY <1>2, <2>1, <2>3 DEF TrafficInv, WorkInv
  <2> QED
    BY <1>1, <1>2, <2>1, <2>4, <2>5, TrafficRegistry
<1> QED
  BY <1>3, <1>4, <1>5 DEF Late

LEMMA TrafficStop ==
  ASSUME TypeInv, RegistryInv, TrafficInv, StopAll \/ StopAllDone
  PROVE  TrafficInv'
<1>1. UNCHANGED <<traffic, chanOf, workers, shaky>>
  BY DEF StopAll, StopAllDone, registry
<1>2. CASE StopAll
  <2>1. main'.pc = "stopping" /\ main.pc = "idle" /\ closed' = closed \cup Registered
    <3>1. main' = [Idle EXCEPT !.pc = "stopping"]
      BY <1>2 DEF StopAll
    <3> QED
      BY <1>2, <3>1, IdleState DEF StopAll, Points
  <2>2. Serving /\ ~Serving'
    BY <2>1 DEF Serving
  <2>3. \A w \in closed' \ closed : w \in Workers /\ chanOf[w] # None
    BY <2>1, Numbers DEF Registered, RegistryInv, WorkersInv, TypeInv, RegistryTypes
  <2>4. \A c \in Names : workers'[c] \in closed' \cup {None}
    BY <1>1, <2>1 DEF Registered
  <2> QED
    BY <1>1, <2>1, <2>2, <2>3, <2>4, TrafficRegistry
<1>3. CASE StopAllDone
  <2>1. main'.pc = "stopped" /\ main.pc = "stopping" /\ closed' = closed
    <3>1. main' = [Idle EXCEPT !.pc = "stopped"]
      BY <1>3 DEF StopAllDone
    <3> QED
      BY <1>3, <3>1, IdleState DEF StopAllDone, Points
  <2>2. ~Serving /\ ~Serving'
    BY <2>1 DEF Serving
  <2>3. \A c \in Names : workers'[c] \in closed' \cup {None}
    BY <1>1, <2>1, <2>2 DEF TrafficInv, WorkInv
  <2> QED
    BY <1>1, <2>1, <2>2, <2>3, TrafficRegistry
<1> QED
  BY <1>2, <1>3

\* New workers: they have nothing, and no message is on its way to their names.
LEMMA TrafficStart ==
  ASSUME TypeInv, RegistryInv, TrafficInv, NEW failing \in SUBSET Names, StartAll(failing)
  PROVE  TrafficInv'
<1> DEFINE up == {c \in Names : channels[c] # None} \ failing
<1>1. /\ main.pc = "new" /\ started' = {channels[c] : c \in up}
      /\ workers' = [c \in Names |-> IF c \in up THEN channels[c] ELSE None]
      /\ chanOf' = [w \in Workers |-> IF w \in started' THEN w ELSE None]
      /\ work' = [w \in Workers |-> IF w \in started' THEN Ready ELSE work[w]]
      /\ UNCHANGED <<bus, queue, closed, published, sent, fate, shaky>>
  BY DEF StartAll
<1>2. \/ main' = [Idle EXCEPT !.pc = "stopped"] /\ up = {} /\ UNCHANGED disp
      \/ main' = Idle /\ disp' = [disp EXCEPT ![0].pc = "recv"]
  BY DEF StartAll
<1>3. main'.pc # "new" /\ (~Serving' => up = {})
  BY <1>2, IdleState DEF Points, Serving
<1> HIDE DEF up
<1>4. closed = {} /\ shaky = {} /\ \A w \in Workers : chanOf[w] = None
  BY <1>1 DEF RegistryInv, NewInv
<1>5. \A w \in Workers : Held(w) = {} /\ work[w].pc = "off"
  BY <1>4 DEF TrafficInv, WorkInv
<1>6. \A e \in Epochs : disp[e].pc = "off"
  BY <1>1 DEF TrafficInv, BusInv
<1>7. disp \in [Epochs -> AtDispatch]
  BY DEF TypeInv, TrafficTypes
<1>8. \A e \in Epochs : disp'[e].pc = "off" \/ (e = 0 /\ disp'[e].pc = "recv")
  <2>1. [disp[0] EXCEPT !.pc = "recv"].pc = "recv"
    BY <1>7, Numbers DEF AtDispatch
  <2>2. disp' = disp \/ disp' = [disp EXCEPT ![0] = [disp[0] EXCEPT !.pc = "recv"]]
    BY <1>2
  <2> QED
    BY <1>6, <1>7, <2>1, <2>2, Numbers
<1>9. disp'[0].pc \notin {"look", "send"} /\ ~InHand'
  BY <1>8, Numbers DEF InHand
<1>10. \A w \in Workers : work'[w] = IF w \in started' THEN Ready ELSE work[w]
  BY <1>1
<1>11. \A w \in Workers : work'[w].pc # "sending" /\ ToSet(queue[w]) = {}
  BY <1>5, <1>10, ReadyWork DEF Held
<1>12. \A w \in Workers : Held(w)' = {}
  BY <1>1, <1>11 DEF Held
<1>13. \A x : Behind(x) => Behind(x)'
  BY <1>1, <1>9 DEF Behind
<1>14. BusInv'
  BY <1>1, <1>3, <1>8, <1>9 DEF TrafficInv, BusInv
<1>15. HeldInv'
  BY <1>1, <1>11, <1>12, <1>13 DEF TrafficInv, HeldInv
<1>16. WorkInv'
  <2>1. \A w \in Workers : chanOf'[w] = IF w \in started' THEN w ELSE None
    BY <1>1
  <2>2. ~Serving' => \A c \in Names : workers'[c] = None
    BY <1>1, <1>3
  <2>3. \A w \in Workers : w \in started' => chanOf'[w] # None /\ work'[w].pc = "idle"
    BY <1>10, <2>1, ReadyWork, Numbers
  <2>4. \A w \in Workers : w \notin started' => chanOf'[w] = None /\ work'[w].pc = "off"
    BY <1>5, <1>10, <2>1
  <2> QED
    BY <1>1, <1>4, <1>9, <1>12, <2>2, <2>3, <2>4 DEF WorkInv
<1>17. SentInv' /\ CurrentInv'
  BY <1>1, <1>9, <1>12 DEF TrafficInv, SentInv, CurrentInv
<1> QED
  BY <1>14, <1>15, <1>16, <1>17 DEF TrafficInv

LEMMA TrafficStarted ==
  ASSUME TypeInv, RegistryInv, TrafficInv, NEW c \in Names, NEW ok \in BOOLEAN, ReloadStart(c, ok)
  PROVE  TrafficInv'
<1> DEFINE i == channels[c]
           w == 1 + Max({v \in Workers : chanOf[v] # None} \cup {0})
           up == ok /\ i # None
<1>1. /\ main.pc = "start" /\ c \in main.added /\ (ok => w \in Workers)
      /\ workers' = IF up THEN [workers EXCEPT ![c] = w] ELSE workers
      /\ chanOf' = IF up THEN [chanOf EXCEPT ![w] = i] ELSE chanOf
      /\ work' = IF up THEN [work EXCEPT ![w] = Ready] ELSE work
      /\ main' = [main EXCEPT !.added = @ \ {c}, !.defers = IF up THEN Append(@, Register(c, i)) ELSE @]
      /\ UNCHANGED <<bus, disp, queue, published, sent, fate, closed, shaky>>
  BY DEF ReloadStart
<1>2. main'.pc = "start" /\ Serving /\ Serving' /\ Reconciling
  <2>1. main \in MainState
    BY DEF TypeInv, MainTypes
  <2>2. main'.pc = "start"
    BY <1>1, <2>1 DEF MainState
  <2> QED
    BY <1>1, <2>2 DEF Serving, Reconciling
<1>3. up => /\ chanOf[w] = None /\ w \notin closed /\ w \in Workers /\ w # None
  BY <1>1, FreshWorker, Numbers
<1> HIDE DEF i, w
<1>4. CASE ~up
  <2>1. UNCHANGED <<traffic, chanOf, workers, closed, shaky>>
    BY <1>1, <1>4 DEF traffic
  <2> QED
    BY <1>2, <2>1, TrafficRegistry
<1>5. CASE up
  <2>1. /\ \A v \in Workers : chanOf'[v] = IF v = w THEN i ELSE chanOf[v]
        /\ \A v \in Workers : work'[v] = IF v = w THEN Ready ELSE work[v]
        /\ \A d \in Names : workers'[d] = IF d = c THEN w ELSE workers[d]
    BY <1>1, <1>5 DEF TypeInv, RegistryTypes, TrafficTypes
  <2>3. Held(w) = {}
    BY <1>3, <1>5 DEF TrafficInv, WorkInv
  <2>4. \A v \in Workers : Held(v)' = Held(v)
    BY <1>1, <2>1, <2>3, ReadyWork DEF Held
  <2>5. \A x : Behind(x)' <=> Behind(x)
    BY <1>1 DEF Behind, InHand
  <2>6. BusInv'
    BY <1>1, <1>2 DEF TrafficInv, BusInv, InHand
  <2>7. HeldInv'
    BY <1>1, <2>1, <2>4, <2>5, ReadyWork DEF TrafficInv, HeldInv
  <2>8. WorkInv'
    <3>1. disp[0].pc = "send" => disp[0].worker \in Workers /\ chanOf[disp[0].worker] # None
      BY Numbers DEF TrafficInv, WorkInv, TypeInv, TrafficTypes
    <3>2. disp[0].pc = "send" => chanOf'[disp[0].worker] # None
      BY <1>5, <2>1, <3>1
    <3>3. \A v \in Workers : chanOf'[v] = None => Held(v)' = {} /\ work'[v].pc = "off"
      BY <1>5, <2>1, <2>4 DEF TrafficInv, WorkInv
    <3>4. \A v \in closed : v \in Workers /\ v # w /\ (work'[v].pc = "done" => queue[v] = <<>>)
      BY <1>3, <1>5, <2>1 DEF TrafficInv, WorkInv, TypeInv, RegistryTypes
    <3>5. \A v \in Workers : chanOf'[v] # None /\ v \notin closed => work'[v].pc \in {"idle", "sending"}
      BY <1>2, <2>1, ReadyWork DEF TrafficInv, WorkInv
    <3> QED
      BY <1>1, <1>2, <3>2, <3>3, <3>4, <3>5 DEF WorkInv
  <2>9. SentInv'
    BY <1>1, <2>4 DEF TrafficInv, SentInv
  <2>10. CurrentInv'
    <3> SUFFICES ASSUME NEW d \in Names \ shaky
                 PROVE  /\ \A v \in Workers : \A m \in Held(v) : fate[m].on = d => v = workers'[d]
                        /\ disp[0].pc = "send" /\ fate[disp[0].msg].on = d =>
                             disp[0].worker = workers'[d] \/ disp[0].worker \in closed
      BY <1>1, <2>4 DEF CurrentInv
    <3>1. /\ \A v \in Workers : \A m \in Held(v) : fate[m].on = d => v = workers[d]
          /\ disp[0].pc = "send" /\ fate[disp[0].msg].on = d =>
               disp[0].worker = workers[d] \/ disp[0].worker \in closed
      BY DEF TrafficInv, CurrentInv
    <3>2. disp[0].pc = "send" => disp[0].worker # None
      BY Numbers DEF TypeInv, TrafficTypes
    <3>3. d = c => workers[d] = None
      BY <1>1, <1>2 DEF RegistryInv, TouchedInv, StageInv
    <3> QED
      BY <2>1, <3>1, <3>2, <3>3, Numbers
  <2> QED
    BY <2>6, <2>7, <2>8, <2>9, <2>10 DEF TrafficInv
<1> QED
  BY <1>4, <1>5

\* Ending a message does not move it to another channel.
LEMMA SameName ==
  ASSUME fate \in Fates, fate' = fate \/ \E m, how : Ended(m, how)
  PROVE  \A x \in Ids : fate'[x].on = fate[x].on
<1>1. \A x \in Ids : fate[x] \in [on : Names \cup {AnyName}, is : Ends]
  BY DEF Fates
<1>2. ASSUME NEW m, NEW how, fate' = [fate EXCEPT ![m].is = how], NEW x \in Ids PROVE fate'[x].on = fate[x].on
  BY <1>1, <1>2 DEF Fates
<1> QED
  BY <1>2 DEF Ended

LEMMA TrafficPublish ==
  ASSUME TypeInv, TrafficInv, NEW c \in Names, Publish(c)
  PROVE  TrafficInv'
<1> DEFINE p == published + 1
<1>1. /\ published < LastMsg /\ published' = p /\ bus' = Append(bus, p)
      /\ fate' = [fate EXCEPT ![p] = [on |-> c, is |-> "pending"]]
      /\ UNCHANGED <<registry, main, closed, shaky, disp, queue, work, sent>>
  BY DEF Publish
<1>2. published \in Nat /\ p \in Ids /\ p \in 1..p /\ \A x \in 1..published : x < p /\ x # p /\ x \in 1..p /\ x \in Ids
  BY <1>1, Numbers DEF TypeInv, TrafficTypes
<1>3. \A x \in 1..published : fate'[x] = fate[x]
  <2>1. fate \in [Ids -> [on : Names \cup {AnyName}, is : Ends]]
    BY DEF TypeInv, TrafficTypes, Fates
  <2>2. \A x \in Ids : x # p => fate'[x] = fate[x]
    BY <1>1, <2>1
  <2> QED
    BY <1>2, <2>2
<1>4. bus \in Seq(Ids) /\ Ascending(bus) /\ \A y \in ToSet(bus) : y < p /\ y \in 1..published
  BY <1>2 DEF TypeInv, TrafficTypes, TrafficInv, BusInv
<1> HIDE DEF p
<1>5. Ascending(bus') /\ ToSet(bus') = ToSet(bus) \cup {p}
  BY <1>1, <1>2, <1>4, AscendingGrows
<1>6. /\ \A w : Held(w)' = Held(w)
      /\ InHand' <=> InHand
  BY <1>1 DEF Held, InHand
<1>7. \A x : Behind(x) => Behind(x)' /\ x \in 1..published
  BY <1>1, <1>2, <1>5, <1>6 DEF Behind
<1>8. InHand => disp[0].msg \in 1..published /\ \A y \in ToSet(bus) : disp[0].msg < y
  BY DEF TrafficInv, BusInv
<1>9. BusInv'
  <2>1. InHand => disp[0].msg \in 1..p /\ \A y \in ToSet(bus') : disp[0].msg < y
    BY <1>2, <1>5, <1>8
  <2>2. \A y \in ToSet(bus') : y \in 1..p
    BY <1>2, <1>4, <1>5
  <2> QED
    BY <1>1, <1>5, <1>6, <2>1, <2>2 DEF TrafficInv, BusInv
<1>10. HeldInv'
  BY <1>1, <1>6, <1>7 DEF TrafficInv, HeldInv
<1>11. WorkInv'
  BY <1>1, <1>6 DEF TrafficInv, WorkInv, registry, Serving
<1>12. \A w \in Workers : \A m \in Held(w) : fate'[m] = fate[m]
  BY <1>3, <1>7 DEF TrafficInv, HeldInv
<1>13. SentInv'
  BY <1>1, <1>6, <1>12 DEF TrafficInv, SentInv
<1>14. disp[0].pc = "send" => fate'[disp[0].msg] = fate[disp[0].msg]
  BY <1>3, <1>8 DEF InHand
<1>15. CurrentInv'
  BY <1>1, <1>6, <1>12, <1>14 DEF TrafficInv, CurrentInv, registry
<1> QED
  BY <1>9, <1>10, <1>11, <1>13, <1>15 DEF TrafficInv

LEMMA TrafficDispatch ==
  ASSUME TypeInv, RegistryInv, TrafficInv, NEW e \in Epochs, Dispatch(e)
  PROVE  TrafficInv'
<1>1. UNCHANGED <<registry, main, closed, shaky, published, sent, work>>
  BY DEF Dispatch, DispatchReceive, DispatchStop, DispatchLookup, DispatchEnqueue, DispatchPanic, DispatchGiveUp,
         traffic
<1>2. disp[e].pc # "off"
  BY DEF Dispatch, DispatchReceive, DispatchStop, DispatchLookup, DispatchEnqueue, DispatchPanic, DispatchGiveUp
<1>3. e = 0 /\ main.pc # "new"
  BY <1>2 DEF TrafficInv, BusInv
<1>4. UNCHANGED <<workers, chanOf>> /\ (Serving' <=> Serving)
  BY <1>1 DEF registry, Serving
<1>5. disp \in [Epochs -> AtDispatch] /\ queue \in [Workers -> Seq(Ids)] /\ bus \in Seq(Ids) /\ fate \in Fates
  BY DEF TypeInv, TrafficTypes
<1>6. ASSUME NEW d, disp' = [disp EXCEPT ![0] = d] PROVE disp'[0] = d /\ \A f \in Epochs \ {0} : disp'[f].pc = "off"
  BY <1>5, <1>6, Numbers DEF TrafficInv, BusInv
<1>7. ASSUME NEW d, disp' = [disp EXCEPT ![0] = d], d.pc \in {"off", "recv"}, UNCHANGED <<bus, queue>>,
             \A x \in Ids : fate'[x].on = fate[x].on
      PROVE  TrafficInv'
  <2>1. disp'[0].pc \in {"off", "recv"} /\ ~InHand' /\ disp'[0].pc # "send" /\ \A f \in Epochs \ {0} : disp'[f].pc = "off"
    BY <1>6, <1>7 DEF InHand
  <2>2. \A w : Held(w)' = Held(w)
    BY <1>1, <1>7 DEF Held
  <2>3. \A x : Behind(x) => Behind(x)' /\ x \in Ids
    BY <1>1, <1>7, <2>1, Numbers DEF Behind, TypeInv, TrafficTypes
  <2>4. BusInv'
    BY <1>1, <1>3, <1>7, <2>1 DEF TrafficInv, BusInv
  <2>5. HeldInv'
    BY <1>1, <1>7, <2>2, <2>3 DEF TrafficInv, HeldInv
  <2>6. WorkInv'
    BY <1>1, <1>4, <1>7, <2>1, <2>2 DEF TrafficInv, WorkInv
  <2>7. \A w \in Workers : \A m \in Held(w) : fate'[m].on = fate[m].on
    BY <1>7, <2>3 DEF TrafficInv, HeldInv
  <2>8. SentInv' /\ CurrentInv'
    BY <1>1, <1>4, <2>1, <2>2, <2>7 DEF TrafficInv, SentInv, CurrentInv
  <2> QED
    BY <2>4, <2>5, <2>6, <2>8 DEF TrafficInv
<1>8. Away.pc = "off" /\ [Away EXCEPT !.pc = "recv"].pc = "recv"
  BY DEF Away
<1>9. CASE DispatchReceive(e)
  <2> DEFINE d == [pc |-> "look", msg |-> Head(bus), worker |-> None]
  <2>1. bus # <<>> /\ bus' = Tail(bus) /\ disp' = [disp EXCEPT ![0] = d] /\ UNCHANGED <<queue, fate>>
        /\ disp[0].pc = "recv"
    BY <1>3, <1>9 DEF DispatchReceive
  <2>2. d.pc = "look" /\ d.msg = Head(bus)
    OBVIOUS
  <2> HIDE DEF d
  <2>3. disp'[0] = d /\ \A f \in Epochs \ {0} : disp'[f].pc = "off"
    BY <1>6, <2>1
  <2>4. InHand' /\ disp'[0].pc = "look" /\ disp'[0].msg = Head(bus)
    BY <2>2, <2>3 DEF InHand
  <2>5. /\ Ascending(bus') /\ ToSet(bus) = ToSet(bus') \cup {Head(bus)}
        /\ \A x \in ToSet(bus') : Head(bus) < x
    BY <1>5, <2>1, AscendingTaken DEF TrafficInv, BusInv
  <2>6. \A w : Held(w)' = Held(w)
    BY <1>1, <2>1 DEF Held
  <2>7. \A x : Behind(x) => Behind(x)'
    BY <1>1, <2>4, <2>5 DEF Behind
  <2>8. BusInv'
    BY <1>1, <1>3, <2>3, <2>4, <2>5 DEF TrafficInv, BusInv
  <2>9. HeldInv'
    BY <1>1, <2>1, <2>6, <2>7 DEF TrafficInv, HeldInv
  <2>10. WorkInv'
    BY <1>1, <1>4, <2>1, <2>4, <2>6 DEF TrafficInv, WorkInv
  <2>11. SentInv' /\ CurrentInv'
    BY <1>1, <1>4, <2>1, <2>4, <2>6 DEF TrafficInv, SentInv, CurrentInv
  <2> QED
    BY <2>8, <2>9, <2>10, <2>11 DEF TrafficInv
<1>10. CASE DispatchStop(e)
  BY <1>3, <1>7, <1>8, <1>10 DEF DispatchStop
<1>11. CASE DispatchLookup(e)
  <2> DEFINE c == fate[disp[0].msg].on
             d == [pc |-> "send", msg |-> disp[0].msg, worker |-> workers[c]]
  <2>1. /\ disp[0].pc = "look" /\ UNCHANGED <<bus, queue>>
        /\ \/ /\ disp' = [disp EXCEPT ![0] = [Away EXCEPT !.pc = "recv"]]
              /\ Ended(disp[0].msg, "unknown") \/ Ended(disp[0].msg, "no worker")
           \/ disp' = [disp EXCEPT ![0] = d] /\ workers[c] # None /\ fate' = fate
    BY <1>3, <1>11 DEF DispatchLookup
  <2>2. CASE /\ disp' = [disp EXCEPT ![0] = [Away EXCEPT !.pc = "recv"]]
             /\ Ended(disp[0].msg, "unknown") \/ Ended(disp[0].msg, "no worker")
    <3>1. \A x \in Ids : fate'[x].on = fate[x].on
      BY <1>5, <2>2, SameName
    <3> QED
      BY <1>7, <1>8, <2>1, <2>2, <3>1
  <2>3. CASE disp' = [disp EXCEPT ![0] = d] /\ workers[c] # None /\ fate' = fate
    <3>1. d.pc = "send" /\ d.msg = disp[0].msg /\ d.worker = workers[c]
      OBVIOUS
    <3>2. disp[0].msg \in Ids /\ Names # {}
      BY <2>1, Numbers DEF TypeInv, TrafficTypes
    <3>3. c \in Names
      BY <1>5, <3>2, SomeName DEF Fates
    <3> HIDE DEF c, d
    <3>4. disp'[0] = d /\ \A f \in Epochs \ {0} : disp'[f].pc = "off"
      BY <1>6, <2>3
    <3>5. disp'[0].pc = "send" /\ disp'[0].msg = disp[0].msg /\ disp'[0].worker = workers[c]
      BY <3>1, <3>4
    <3>6. InHand /\ InHand' /\ \A w : Held(w)' = Held(w)
      BY <1>1, <2>1, <3>5 DEF InHand, Held
    <3>7. \A x : Behind(x) => Behind(x)'
      BY <1>1, <2>1, <3>5, <3>6 DEF Behind
    <3>8. BusInv'
      BY <1>1, <1>3, <2>1, <3>4, <3>5, <3>6 DEF TrafficInv, BusInv
    <3>9. HeldInv'
      BY <1>1, <2>1, <3>6, <3>7 DEF TrafficInv, HeldInv
    <3>10. chanOf[workers[c]] # None
      BY <2>3, <3>3 DEF RegistryInv, WorkersInv
    <3>11. WorkInv'
      BY <1>1, <1>4, <2>1, <3>5, <3>6, <3>10 DEF TrafficInv, WorkInv
    <3>12. SentInv'
      BY <1>1, <2>3, <3>6 DEF TrafficInv, SentInv
    <3>13. fate'[disp'[0].msg].on = c
      BY <2>3, <3>5 DEF c
    <3>14. CurrentInv'
      BY <1>1, <1>4, <2>3, <3>5, <3>6, <3>13 DEF TrafficInv, CurrentInv
    <3> QED
      BY <3>8, <3>9, <3>11, <3>12, <3>14 DEF TrafficInv
  <2> QED
    BY <2>1, <2>2, <2>3
<1>12. CASE DispatchEnqueue(e)
  <2>0. disp[0].worker \in Workers /\ disp[0].msg \in Ids
    BY <1>3, <1>12, Numbers DEF DispatchEnqueue, TypeInv, TrafficTypes
  <2>2. PICK w \in Workers, m \in Ids : w = disp[0].worker /\ m = disp[0].msg
    BY <2>0
  <2> DEFINE d == [Away EXCEPT !.pc = "recv"]
  <2>1. /\ disp[0].pc = "send" /\ w \notin closed /\ queue' = [queue EXCEPT ![w] = Append(@, m)]
        /\ disp' = [disp EXCEPT ![0] = d] /\ UNCHANGED <<bus, fate>>
    BY <1>3, <1>12, <2>2 DEF DispatchEnqueue
  <2>3. InHand /\ chanOf[w] # None
    BY <2>1, <2>2 DEF InHand, TrafficInv, WorkInv
  <2>4. m \in 1..published /\ (\A y \in ToSet(bus) : m < y) /\ \A x : Behind(x) => x < m
    BY <2>2, <2>3 DEF TrafficInv, BusInv, Behind
  <2>5. \A c \in Names \ shaky : fate[m].on = c => w = workers[c]
    BY <2>1, <2>2 DEF TrafficInv, CurrentInv
  <2> HIDE DEF d
  <2>6. disp'[0] = d /\ \A f \in Epochs \ {0} : disp'[f].pc = "off"
    BY <1>6, <2>1
  <2>7. disp'[0].pc = "recv" /\ ~InHand'
    BY <1>8, <2>6 DEF InHand, d
  <2>8. /\ Append(queue[w], m) \in Seq(Ids) /\ Ascending(Append(queue[w], m))
        /\ ToSet(Append(queue[w], m)) = ToSet(queue[w]) \cup {m}
    <3>1. queue[w] \in Seq(Ids) /\ Ascending(queue[w]) /\ \A x \in ToSet(queue[w]) : x < m
      BY <1>5, <2>2, <2>4 DEF TrafficInv, HeldInv, Held
    <3> QED
      BY <2>2, <3>1, AscendingGrows
  <2>9. \A v \in Workers : queue'[v] = IF v = w THEN Append(queue[w], m) ELSE queue[v]
    BY <1>5, <2>1
  <2>10. \A v \in Workers : Held(v)' = Held(v) \cup {x \in {m} : v = w}
    BY <1>1, <2>8, <2>9 DEF Held
  <2>11. Behind(m)' /\ \A x : Behind(x) => Behind(x)'
    BY <1>1, <2>1, <2>4, <2>7 DEF Behind
  <2>12. BusInv'
    BY <1>1, <1>3, <2>1, <2>6, <2>7 DEF TrafficInv, BusInv
  <2>13. HeldInv'
    <3>1. ASSUME NEW v \in Workers
          PROVE  /\ Ascending(queue'[v]) /\ \A x \in Held(v)' : Behind(x)'
                 /\ work[v].pc = "sending" => \A x \in ToSet(queue'[v]) : work[v].msg < x
      <4>1. Ascending(queue'[v]) /\ \A x \in Held(v)' : Behind(x)'
        BY <2>8, <2>9, <2>10, <2>11 DEF TrafficInv, HeldInv
      <4>2. work[v].pc = "sending" => Behind(work[v].msg) /\ \A x \in ToSet(queue[v]) : work[v].msg < x
        BY DEF TrafficInv, HeldInv, Held
      <4>3. \A x \in ToSet(queue'[v]) : x \in ToSet(queue[v]) \/ x = m
        BY <2>8, <2>9
      <4> QED
        BY <2>4, <4>1, <4>2, <4>3
    <3> QED
      BY <1>1, <2>11, <3>1 DEF TrafficInv, HeldInv
  <2>14. WorkInv'
    <3>1. \A v \in Workers : chanOf[v] = None => Held(v)' = {}
      BY <2>3, <2>10 DEF TrafficInv, WorkInv
    <3>2. \A v \in closed : v \in Workers /\ v # w
      BY <2>1 DEF TypeInv, RegistryTypes
    <3>3. \A v \in closed : queue'[v] = queue[v]
      BY <2>9, <3>2
    <3> QED
      BY <1>1, <1>4, <2>7, <3>1, <3>3 DEF TrafficInv, WorkInv
  <2>15. SentInv'
    <3>1. \A c \in Names : \A x \in ToSet(sent[c]) : x < m
      BY <2>4 DEF TrafficInv, HeldInv
    <3> QED
      BY <1>1, <2>1, <2>10, <3>1 DEF TrafficInv, SentInv
  <2>16. CurrentInv'
    BY <1>1, <1>4, <2>1, <2>5, <2>7, <2>10 DEF TrafficInv, CurrentInv
  <2> QED
    BY <2>12, <2>13, <2>14, <2>15, <2>16 DEF TrafficInv
<1>13. CASE DispatchPanic(e)
  <2>1. UNCHANGED <<bus, disp, queue, fate>> /\ (\A w : Held(w)' = Held(w)) /\ (InHand' <=> InHand)
    BY <1>1, <1>13 DEF DispatchPanic, traffic, Held, InHand
  <2>2. \A x : Behind(x)' <=> Behind(x)
    BY <1>1, <2>1 DEF Behind
  <2> QED
    BY <1>1, <1>4, <2>1, <2>2 DEF TrafficInv, BusInv, HeldInv, WorkInv, SentInv, CurrentInv
<1>14. CASE DispatchGiveUp(e)
  <2>1. \A x \in Ids : fate'[x].on = fate[x].on
    BY <1>5, <1>14, SameName DEF DispatchGiveUp
  <2> QED
    BY <1>3, <1>7, <1>8, <1>14, <2>1 DEF DispatchGiveUp
<1> QED
  BY <1>9, <1>10, <1>11, <1>12, <1>13, <1>14 DEF Dispatch

\* A step of worker w, which goes on with what it has or with less.
LEMMA TrafficHeld ==
  ASSUME TypeInv, TrafficInv, UNCHANGED <<registry, main, closed, shaky, bus, disp, published>>,
         \A x \in Ids : fate'[x].on = fate[x].on,
         NEW w \in Workers, chanOf[w] # None,
         NEW d \in AtWork, work' = [work EXCEPT ![w] = d],
         NEW q \in Seq(Ids), queue' = [queue EXCEPT ![w] = q], Ascending(q), Held(w)' \subseteq Held(w),
         d.pc = "sending" => \A x \in ToSet(q) : d.msg < x,
         w \in closed /\ d.pc = "done" => q = <<>>,
         Serving /\ w \notin closed => d.pc \in {"idle", "sending"},
         SentInv', \A c \in Names : \A x \in ToSet(sent'[c]) : x \in ToSet(sent[c]) \/ Behind(x)
  PROVE  TrafficInv'
<1>1. /\ \A v \in Workers : work'[v] = IF v = w THEN d ELSE work[v]
      /\ \A v \in Workers : queue'[v] = IF v = w THEN q ELSE queue[v]
  BY DEF TypeInv, TrafficTypes
<1>2. \A v \in Workers : v # w => Held(v)' = Held(v)
  BY <1>1 DEF Held
<1>3. \A v \in Workers : \A x \in Held(v)' : x \in Held(v)
  BY <1>2
<1>4. (InHand' <=> InHand) /\ (\A x : Behind(x)' <=> Behind(x)) /\ (Serving' <=> Serving)
      /\ UNCHANGED <<workers, chanOf>>
  BY DEF InHand, Behind, Serving, registry
<1>5. BusInv'
  BY <1>4 DEF TrafficInv, BusInv
<1>6. HeldInv'
  BY <1>1, <1>3, <1>4 DEF TrafficInv, HeldInv
<1>7. WorkInv'
  <2>1. \A v \in closed : v \in Workers
    BY DEF TypeInv, RegistryTypes
  <2> QED
    BY <1>1, <1>2, <1>4, <2>1 DEF TrafficInv, WorkInv
<1>8. CurrentInv'
  <2>1. \A v \in Workers : \A m \in Held(v) : m \in Ids
    BY Numbers DEF TrafficInv, HeldInv, Behind, TypeInv, TrafficTypes
  <2>2. disp[0].pc = "send" => disp[0].msg \in Ids
    BY Numbers DEF TypeInv, TrafficTypes
  <2> QED
    BY <1>3, <1>4, <2>1, <2>2 DEF TrafficInv, CurrentInv
<1> QED
  BY <1>5, <1>6, <1>7, <1>8 DEF TrafficInv

LEMMA TrafficWorker ==
  ASSUME TypeInv, SparesInv, TrafficInv, NEW w \in Workers, Worker(w)
  PROVE  TrafficInv'
<1>1. UNCHANGED <<registry, main, closed, shaky, bus, disp, published>>
  BY DEF Worker, WorkerTake, WorkerDone, WorkerAbandon, WorkerSend
<1>2. work[w].pc \in {"idle", "sending"}
  BY DEF Worker, WorkerTake, WorkerDone, WorkerAbandon, WorkerSend
<1>3. chanOf[w] # None
  BY <1>2 DEF TrafficInv, WorkInv
<1>4. /\ queue \in [Workers -> Seq(Ids)] /\ work \in [Workers -> AtWork] /\ fate \in Fates
      /\ sent \in [Names -> Seq(Ids)] /\ queue[w] \in Seq(Ids) /\ work[w] \in AtWork
  BY DEF TypeInv, TrafficTypes
<1>5. Ascending(queue[w]) /\ \A x \in ToSet(queue[w]) : x \in Ids
  BY <1>4, SeqElements DEF TrafficInv, HeldInv
<1>6. \A v \in Workers : \A m \in Held(v) : m \in Ids /\ Behind(m)
  BY Numbers DEF TrafficInv, HeldInv, Behind, TypeInv, TrafficTypes
<1>7. ASSUME UNCHANGED sent, \A x \in Ids : fate'[x].on = fate[x].on,
             Held(w)' \subseteq Held(w), \A v \in Workers \ {w} : Held(v)' = Held(v)
      PROVE  SentInv'
  <2>1. \A v \in Workers : \A m \in Held(v)' : m \in Held(v) /\ fate'[m].on = fate[m].on
    BY <1>6, <1>7
  <2> QED
    BY <1>1, <1>7, <2>1 DEF TrafficInv, SentInv
<1>8. ASSUME NEW d \in AtWork, work' = [work EXCEPT ![w] = d],
             NEW q \in Seq(Ids), queue' = [queue EXCEPT ![w] = q]
      PROVE  /\ work'[w] = d /\ queue'[w] = q
             /\ \A v \in Workers \ {w} : Held(v)' = Held(v)
             /\ Held(w)' = ToSet(q) \cup {m \in {d.msg} : d.pc = "sending"}
  <2>1. work'[w] = d /\ queue'[w] = q /\ \A v \in Workers \ {w} : work'[v] = work[v] /\ queue'[v] = queue[v]
    BY <1>4, <1>8
  <2> QED
    BY <2>1 DEF Held
<1>9. CASE WorkerTake(w)
  <2> DEFINE d == [pc |-> "sending", msg |-> Head(queue[w])]
             q == Tail(queue[w])
  <2>1. /\ work[w].pc = "idle" /\ queue[w] # <<>> /\ UNCHANGED <<sent, fate>>
        /\ work' = [work EXCEPT ![w] = d] /\ queue' = [queue EXCEPT ![w] = q]
    BY <1>9 DEF WorkerTake
  <2>2. /\ q \in Seq(Ids) /\ Ascending(q) /\ Head(queue[w]) \in Ids
        /\ ToSet(queue[w]) = ToSet(q) \cup {Head(queue[w])}
        /\ \A x \in ToSet(q) : Head(queue[w]) < x
    BY <1>4, <1>5, <2>1, AscendingTaken
  <2>3. d \in AtWork /\ d.pc = "sending" /\ d.msg = Head(queue[w])
    BY <2>2 DEF AtWork
  <2> HIDE DEF d, q
  <2>4. Held(w)' \subseteq Held(w) /\ \A v \in Workers \ {w} : Held(v)' = Held(v)
    BY <1>8, <2>1, <2>2, <2>3 DEF Held
  <2>5. SentInv'
    BY <1>7, <2>1, <2>4
  <2> QED
    BY <1>1, <1>3, <2>1, <2>2, <2>3, <2>4, <2>5, TrafficHeld
<1>10. CASE WorkerDone(w)
  <2> DEFINE d == [work[w] EXCEPT !.pc = "done"]
  <2>1. /\ work' = [work EXCEPT ![w] = d] /\ queue' = [queue EXCEPT ![w] = <<>>] /\ UNCHANGED sent
        /\ Exhausted(w) \/ ctxOf[w] \in cancelled
        /\ fate' = [m \in Ids |-> IF m \in ToSet(queue[w]) THEN [fate[m] EXCEPT !.is = "cancelled"] ELSE fate[m]]
    BY <1>10 DEF WorkerDone
  <2>2. d \in AtWork /\ d.pc = "done"
    BY <1>4 DEF AtWork
  <2>3. \A x \in Ids : fate'[x].on = fate[x].on
    <3>1. \A x \in Ids : fate[x] \in [on : Names \cup {AnyName}, is : Ends]
      BY <1>4 DEF Fates
    <3>2. ASSUME NEW x \in Ids PROVE [fate[x] EXCEPT !.is = "cancelled"].on = fate[x].on
      BY <3>1
    <3> QED
      BY <2>1, <3>2
  <2> HIDE DEF d
  <2>4. <<>> \in Seq(Ids) /\ ToSet(<<>>) = {} /\ Ascending(<<>>)
    BY EmptyStream
  <2>5. Held(w)' = {} /\ \A v \in Workers \ {w} : Held(v)' = Held(v)
    BY <1>8, <2>1, <2>2, <2>4
  <2>6. SentInv'
    BY <1>7, <2>1, <2>3, <2>5
  <2>7. Serving => w \in closed
    BY <2>1 DEF Exhausted, SparesInv, NoneCancelled
  <2>8. \A x \in ToSet(<<>>) : d.msg < x
    BY <2>4
  <2>9. \A c \in Names : \A x \in ToSet(sent'[c]) : x \in ToSet(sent[c])
    BY <2>1
  <2> QED
    BY <1>1, <1>3, <2>1, <2>2, <2>3, <2>4, <2>5, <2>6, <2>7, <2>8, <2>9, TrafficHeld
<1>11. ASSUME work' = [work EXCEPT ![w] = Ready], UNCHANGED queue, \A x \in Ids : fate'[x].on = fate[x].on
       PROVE  /\ Held(w)' = ToSet(queue[w]) /\ \A v \in Workers \ {w} : Held(v)' = Held(v)
              /\ SentInv' /\ (\A c \in Names : \A x \in ToSet(sent'[c]) : x \in ToSet(sent[c]) \/ Behind(x)) => TrafficInv'
  <2>1. queue' = [queue EXCEPT ![w] = queue[w]]
    BY <1>4, <1>11
  <2>2. Held(w)' = ToSet(queue[w]) /\ \A v \in Workers \ {w} : Held(v)' = Held(v)
    <3>1. /\ \A v \in Workers \ {w} : Held(v)' = Held(v)
          /\ Held(w)' = ToSet(queue[w]) \cup {m \in {Ready.msg} : Ready.pc = "sending"}
      BY <1>4, <1>8, <1>11, <2>1, ReadyWork
    <3>2. {m \in {Ready.msg} : Ready.pc = "sending"} = {}
      BY ReadyWork
    <3> QED
      BY <3>1, <3>2
  <2>3. Held(w)' \subseteq Held(w)
    BY <2>2 DEF Held
  <2> QED
    BY <1>1, <1>3, <1>4, <1>5, <1>11, <2>1, <2>2, <2>3, ReadyWork, TrafficHeld
<1>12. CASE WorkerAbandon(w)
  <2>1. work' = [work EXCEPT ![w] = Ready] /\ UNCHANGED <<queue, sent>>
    BY <1>12 DEF WorkerAbandon
  <2>2. \A x \in Ids : fate'[x].on = fate[x].on
    BY <1>4, <1>12, SameName DEF WorkerAbandon
  <2>3. SentInv'
    BY <1>7, <1>11, <2>1, <2>2 DEF Held
  <2> QED
    BY <1>11, <2>1, <2>2, <2>3
<1>13. ASSUME NEW ok \in BOOLEAN, WorkerSend(w, ok) PROVE TrafficInv'
  <2>1. work[w].pc = "sending" /\ work[w].msg \in Held(w)
    BY <1>13 DEF WorkerSend, Held
  <2>2. PICK m \in Ids : m = work[w].msg
    BY <1>6, <2>1
  <2> DEFINE c == fate[m].on
  <2>3. /\ work' = [work EXCEPT ![w] = Ready] /\ UNCHANGED queue
        /\ sent' = IF ok THEN [sent EXCEPT ![c] = Append(@, m)] ELSE sent
    BY <1>13, <2>2 DEF WorkerSend
  <2>4. \A x \in Ids : fate'[x].on = fate[x].on
    BY <1>4, <1>13, SameName DEF WorkerSend
  <2>5. m \in Held(w) /\ Behind(m) /\ \A x \in ToSet(queue[w]) : m < x
    BY <1>6, <2>1, <2>2 DEF TrafficInv, HeldInv
  <2>6. Held(w)' = ToSet(queue[w]) /\ \A v \in Workers \ {w} : Held(v)' = Held(v)
    BY <1>11, <2>3, <2>4
  <2>7. CASE ~ok
    <3>1. SentInv'
      BY <1>7, <2>3, <2>4, <2>6, <2>7 DEF Held
    <3> QED
      BY <1>11, <2>3, <2>4, <2>7, <3>1
  <2>8. CASE ok
    <3>1. \A b \in Names : sent'[b] = IF b = c THEN Append(sent[b], m) ELSE sent[b]
      BY <1>4, <2>3, <2>8
    <3>2. \A b \in Names : ToSet(sent'[b]) = ToSet(sent[b]) \cup {x \in {m} : b = c}
      BY <1>4, <3>1, SeqElements
    <3>3. \A v \in Workers : \A x \in Held(v)' : x \in Held(v) /\ fate'[x].on = fate[x].on
      BY <1>6, <2>4, <2>6 DEF Held
    <3>4. ASSUME NEW b \in Names \ shaky
          PROVE  /\ Ascending(sent'[b])
                 /\ \A v \in Workers : \A x \in Held(v)' : fate'[x].on = b => \A y \in ToSet(sent'[b]) : y < x
      <4>1. Ascending(sent[b]) /\ \A v \in Workers : \A x \in Held(v) : fate[x].on = b => \A y \in ToSet(sent[b]) : y < x
        BY DEF TrafficInv, SentInv
      <4>2. \A v \in Workers : \A x \in Held(v) : fate[x].on = b => v = workers[b]
        BY DEF TrafficInv, CurrentInv
      <4>3. CASE b # c
        <5>1. sent'[b] = sent[b]
          BY <3>1, <4>3
        <5> QED
          BY <3>3, <4>1, <5>1
      <4>4. CASE b = c
        <5>1. w = workers[b] /\ \A y \in ToSet(sent[b]) : y < m
          BY <2>5, <4>1, <4>2, <4>4
        <5>2. Ascending(Append(sent[b], m))
          BY <1>4, <4>1, <5>1, AscendingGrows
        <5>3. \A v \in Workers : \A x \in Held(v)' : fate'[x].on = b => m < x
          BY <2>5, <2>6, <3>3, <4>2, <5>1
        <5> QED
          BY <3>1, <3>2, <3>3, <4>1, <4>4, <5>2, <5>3
      <4> QED
        BY <4>3, <4>4
    <3>5. SentInv'
      BY <1>1, <3>4 DEF SentInv
    <3>6. \A b \in Names : \A x \in ToSet(sent'[b]) : x \in ToSet(sent[b]) \/ Behind(x)
      BY <2>5, <3>2
    <3> QED
      BY <1>11, <2>3, <2>4, <3>5, <3>6
  <2> QED
    BY <2>7, <2>8
<1> QED
  BY <1>9, <1>10, <1>12, <1>13 DEF Worker

LEMMA TrafficStep ==
  ASSUME TypeInv, SparesInv, RegistryInv, TrafficInv, [Next]_vars
  PROVE  TrafficInv'
<1>1. CASE Next
  BY <1>1, TrafficStart, TrafficPublish, TrafficDispatch, TrafficWorker, TrafficReload, TrafficStarted,
     TrafficLate, TrafficStop DEF Next, Reloading
<1>2. CASE UNCHANGED vars
  <2>1. UNCHANGED <<bus, disp, queue, work, published, sent, fate, workers, chanOf, closed, shaky, main>>
    BY <1>2 DEF vars, traffic, registry
  <2>2. (\A w : Held(w)' = Held(w)) /\ (InHand' <=> InHand) /\ (Serving' <=> Serving)
    BY <2>1 DEF Held, InHand, Serving
  <2>3. \A x : Behind(x)' <=> Behind(x)
    BY <2>1, <2>2 DEF Behind
  <2> QED
    BY <2>1, <2>2, <2>3 DEF TrafficInv, BusInv, HeldInv, WorkInv, SentInv, CurrentInv
<1> QED
  BY <1>1, <1>2

-----------------------------------------------------------------------------
(* The theorems                                                             *)

Inv == SparesInv /\ TypeInv /\ RegistryInv /\ TrafficInv

LEMMA InvCorrect == Spec => []Inv
<1>1. Init => Inv
  BY SparesInit, TypeInit, RegistryInit, TrafficInit DEF Inv
<1>2. Inv /\ [Next]_vars => Inv'
  BY SparesStep, TypeStep, RegistryStep, TrafficStep DEF Inv
<1> QED
  BY <1>1, <1>2, PTL DEF Spec

\* The registry, the contexts, what the goroutines of the reloads have left and the
\* queues keep their types: a started channel is one that was built, and no queue holds
\* more than its size.
THEOREM TypeCorrect == Spec => []TypeOK
<1>1. Inv => TypeOK
  <2> SUFFICES ASSUME Inv PROVE TypeOK
    OBVIOUS
  <2>1. RegistryTypes /\ ContextTypes /\ MainTypes /\ TrafficTypes /\ \A i \in started : i <= made
    BY DEF Inv, TypeInv, RegistryInv, ApartInv
  <2>2. started \subseteq 1..made
    BY <2>1, Numbers DEF RegistryTypes
  <2>3. \A r \in DOMAIN late, k \in 1..Cardinality(Names) + 1 : k \in DOMAIN late[r] => late[r][k].name \in Names
    <3> SUFFICES ASSUME NEW r \in 1..LastReload, NEW k \in DOMAIN late[r] PROVE late[r][k].name \in Names
      BY <2>1 DEF MainTypes
    <3>1. late[r][k] \in Entry
      BY <2>1 DEF MainTypes
    <3> QED
      BY <3>1, EntryForm
  <2>4. main.pc \in Points /\ crashed \in BOOLEAN
    <3>1. main.pc \in Points
      BY <2>1 DEF MainTypes, MainState
    <3> QED
      BY <2>1, <3>1, Zenon DEF TrafficTypes
  <2> QED
    BY <2>1, <2>2, <2>3, <2>4 DEF TypeOK, RegistryTypes, ContextTypes, MainTypes, TrafficTypes, Points
<1> QED
  BY <1>1, InvCorrect, PTL

\* A channel gets its messages in the order of the bus and none of them twice, however
\* often reloads replace it and its worker: the dispatcher is one, what it hands over
\* goes to the registered worker, and a replacement is registered only after the worker
\* before it has sent all it had.
THEOREM OrderedOnceCorrect == Spec => []OrderedOnce
<1>1. Inv => OrderedOnce
  BY DEF Inv, TrafficInv, SentInv, Ascending, OrderedOnce
<1> QED
  BY <1>1, InvCorrect, PTL

\* Whenever no reconciliation is under way, a channel that is registered and started has
\* a worker of its own that serves it, and while no name is shaky every started channel
\* is registered.
THEOREM StartedIsServedCorrect == Spec => []StartedIsServed
<1>1. Inv => StartedIsServed
  <2> SUFFICES ASSUME Inv, lock = Free, main.pc = "idle"
               PROVE  /\ \A c \in Names \ shaky :
                           channels[c] \in started => Serves(workers[c]) /\ chanOf[workers[c]] = channels[c]
                      /\ shaky = {} => started \subseteq {channels[c] : c \in Names}
    BY DEF StartedIsServed
  <2>1. Serving /\ cancelled = {}
    BY DEF Serving, Inv, SparesInv, NoneCancelled
  <2>2. ASSUME NEW c \in Names \ shaky, channels[c] \in started
        PROVE  Serves(workers[c]) /\ chanOf[workers[c]] = channels[c]
    <3>1. workers[c] # None /\ workers[c] \notin closed /\ chanOf[workers[c]] = channels[c]
      BY <2>1, <2>2 DEF Inv, RegistryInv, ServedInv
    <3>2. workers[c] \in Workers /\ chanOf[workers[c]] # None
      BY <2>2, <3>1, Numbers DEF Inv, TypeInv, RegistryTypes
    <3>3. work[workers[c]].pc \in {"idle", "sending"}
      BY <2>1, <3>1, <3>2 DEF Inv, TrafficInv, WorkInv
    <3> QED
      BY <2>1, <2>2, <3>1, <3>3 DEF Serves
  <2>3. shaky = {} => started \subseteq {channels[c] : c \in Names}
    BY <2>1 DEF Inv, RegistryInv, ListedInv
  <2> QED
    BY <2>2, <2>3
<1> QED
  BY <1>1, InvCorrect, PTL
=============================================================================
