-------------------------- MODULE CronServiceProofs --------------------------
(***************************************************************************)
(* Proofs about CronService, for every number of jobs, services, edits and *)
(* every horizon: no acknowledged job is lost, no due time is taken twice, *)
(* and no recurring job dies, over failing saves, crashes and reloads.     *)
(*                                                                         *)
(* StoresInv are the types the arguments rest on.  What a step may do to a *)
(* job is said once, by JobMoves: each property follows from it.           *)
(* With the bounds of CountsInv they give TypeOK.                          *)
(***************************************************************************)
EXTENDS CronService, FiniteSetTheorems, WellFoundedInduction, TLAPS

GoodStores == UNION {[I -> Job] : I \in SUBSET Ids}

StoresInv ==
  /\ now \in 1..Horizon /\ used \in Nat /\ made \in 0..LastService /\ cur \in 0..made
  /\ disk \in GoodStores /\ mem \in [Services -> GoodStores]
  /\ running \subseteq {cur} /\ running \subseteq Services /\ alive \subseteq Services
  /\ clone = NoClone \/ (clone.svc \in Services /\ clone.id \in Ids /\ clone.base \in Job)

\* A loop holds jobs only while it runs them, and a service not made has no loop.
LoopsInv ==
  /\ loop \in [Services -> {"off", "compute", "armed", "select", "run"}]
  /\ batch \in [Services -> SUBSET Ids]
  /\ \A s \in Services : loop[s] # "run" => batch[s] = {}
  /\ \A s \in Services : s > made => loop[s] = "off"

\* RecurringAlive and the reason for DueTimesTakenOnce, for the service that runs.
TakenInv ==
  /\ DOMAIN taken = Ids /\ \A i \in Ids : taken[i] \in 0..now
  /\ \A s \in running : \A i \in DOMAIN mem[s] :
       <<s, i>> \notin torn /\ Scheduled(mem[s][i]) => mem[s][i].next > taken[i]
-----------------------------------------------------------------------------
(* Stores *)

LEMMA StoreIs ==
  ASSUME NEW d \in GoodStores
  PROVE  DOMAIN d \in SUBSET Ids /\ d \in [DOMAIN d -> Job] /\ \A i \in DOMAIN d : d[i] \in Job /\ i \in Ids
  BY DEF GoodStores

LEMMA StoreMade ==
  ASSUME NEW I \in SUBSET Ids, NEW d \in [I -> Job]
  PROVE  d \in GoodStores
  BY DEF GoodStores

LEMMA NextRunLater ==
  ASSUME now \in 1..Horizon, NEW kind \in Kinds, NEW arg \in Nat
  PROVE  /\ NextRun(kind, arg) \in Nat
         /\ NextRun(kind, arg) # Never => NextRun(kind, arg) > now
         /\ kind = "every" /\ arg > 0 => NextRun(kind, arg) # Never
  BY CronConstants DEF NextRun, Never, Kinds

LEMMA JobMade ==
  ASSUME now \in 1..Horizon, NEW j \in Job
  PROVE  /\ Rescheduled(j) \in Job /\ AfterRun(j) \in Job
         /\ [j EXCEPT !.next = Never] \in Job
         /\ \A on \in BOOLEAN : [j EXCEPT !.enabled = on] \in Job
<1>1. NextRun(j.kind, j.arg) \in Nat
  BY NextRunLater DEF Job
<1> QED
  BY <1>1 DEF Rescheduled, AfterRun, Job, Never

LEMMA WithMade ==
  ASSUME NEW d \in GoodStores, NEW i \in Ids, NEW j \in Job
  PROVE  /\ With(d, i, j) \in GoodStores /\ DOMAIN With(d, i, j) = DOMAIN d \cup {i}
         /\ With(d, i, j)[i] = j /\ \A k \in DOMAIN d \ {i} : With(d, i, j)[k] = d[k]
<1>0. DOMAIN d \in SUBSET Ids /\ \A k \in DOMAIN d : d[k] \in Job
  BY StoreIs
<1>1. With(d, i, j) \in [DOMAIN d \cup {i} -> Job]
  BY <1>0 DEF With
<1> QED
  BY <1>0, <1>1, StoreMade DEF With

\* What is done to a whole store.
LEMMA StoreOps ==
  ASSUME now \in 1..Horizon, NEW d \in GoodStores
  PROVE  /\ \A I : /\ Without(d, I) \in GoodStores /\ DOMAIN Without(d, I) = DOMAIN d \ I
                   /\ \A i \in DOMAIN d \ I : Without(d, I)[i] = d[i]
         /\ \A I : /\ Cleared(d, I) \in GoodStores /\ DOMAIN Cleared(d, I) = DOMAIN d
                   /\ \A i \in DOMAIN d :
                        Cleared(d, I)[i] = IF i \in I THEN [d[i] EXCEPT !.next = Never] ELSE d[i]
         /\ Recomputed(d) \in GoodStores /\ DOMAIN Recomputed(d) = DOMAIN d
         /\ \A i \in DOMAIN d : Recomputed(d)[i] = IF d[i].enabled THEN Rescheduled(d[i]) ELSE d[i]
<1>0. DOMAIN d \in SUBSET Ids /\ \A i \in DOMAIN d : d[i] \in Job
  BY StoreIs
<1>1. ASSUME NEW I
      PROVE  /\ Without(d, I) \in GoodStores /\ DOMAIN Without(d, I) = DOMAIN d \ I
             /\ \A i \in DOMAIN d \ I : Without(d, I)[i] = d[i]
  <2>1. Without(d, I) \in [DOMAIN d \ I -> Job]
    BY <1>0 DEF Without
  <2> QED
    BY <1>0, <2>1, StoreMade DEF Without
<1>3. ASSUME NEW I
      PROVE  /\ Cleared(d, I) \in GoodStores /\ DOMAIN Cleared(d, I) = DOMAIN d
             /\ \A i \in DOMAIN d :
                  Cleared(d, I)[i] = IF i \in I THEN [d[i] EXCEPT !.next = Never] ELSE d[i]
  <2>1. \A i \in DOMAIN d : [d[i] EXCEPT !.next = Never] \in Job
    BY <1>0, JobMade
  <2>2. Cleared(d, I) \in [DOMAIN d -> Job]
    BY <1>0, <2>1 DEF Cleared
  <2> QED
    BY <1>0, <2>2, StoreMade DEF Cleared
<1>4. /\ Recomputed(d) \in GoodStores /\ DOMAIN Recomputed(d) = DOMAIN d
      /\ \A i \in DOMAIN d : Recomputed(d)[i] = IF d[i].enabled THEN Rescheduled(d[i]) ELSE d[i]
  <2>1. \A i \in DOMAIN d : Rescheduled(d[i]) \in Job
    BY <1>0, JobMade
  <2>2. Recomputed(d) \in [DOMAIN d -> Job]
    BY <1>0, <2>1 DEF Recomputed
  <2> QED
    BY <1>0, <2>2, StoreMade DEF Recomputed
<1> QED
  BY <1>1, <1>3, <1>4

-----------------------------------------------------------------------------
(* Types *)

LEMMA ScheduleMade ==
  ASSUME now \in 1..Horizon, NEW kind \in Kinds, NEW d \in Delays
  PROVE  LET sched == Schedule(kind, d)
         IN  sched.kind = kind /\ sched.arg \in Nat /\ sched.del \in BOOLEAN
  BY CronConstants DEF Schedule, Kinds

\* The jobs the edits make.
LEMMA JobAdded ==
  ASSUME now \in 1..Horizon, NEW kind \in Kinds, NEW d \in Delays
  PROVE  NewJob(kind, d) \in Job
  BY ScheduleMade DEF NewJob, Job, Never

LEMMA JobEdited ==
  ASSUME now \in 1..Horizon, NEW kind \in Kinds, NEW d \in Delays, NEW b \in Job
  PROVE  LET new == [b EXCEPT !.kind = Schedule(kind, d).kind, !.arg = Schedule(kind, d).arg,
                              !.del = Schedule(kind, d).del]
         IN  new \in Job /\ new.enabled = b.enabled /\ new.next = b.next
<1>1. Schedule(kind, d).kind = kind /\ Schedule(kind, d).arg \in Nat /\ Schedule(kind, d).del \in BOOLEAN
  BY ScheduleMade
<1> QED
  BY <1>1 DEF Job

LEMMA JobMerged ==
  ASSUME now \in 1..Horizon, NEW old \in Job, NEW new \in Job
  PROVE  Merged(old, new) \in Job
<1>1. Rescheduled(new) \in Job /\ [new EXCEPT !.next = Never] \in Job
  BY JobMade
<1> QED
  BY <1>1 DEF Merged

LEMMA StoresFrame ==
  ASSUME StoresInv, UNCHANGED <<now, made, cur, alive>>, running' \subseteq running, used' \in Nat,
         mem' \in [Services -> GoodStores], UNCHANGED disk \/ \E s \in Services : disk' = mem'[s],
         clone' = NoClone \/ clone' = clone
  PROVE  StoresInv'
<1>1. disk' \in GoodStores
  BY DEF StoresInv
<1> QED
  BY <1>1 DEF StoresInv, NoClone

LEMMA StoresInit == Init => StoresInv
<1> SUFFICES ASSUME Init PROVE StoresInv
  OBVIOUS
<1>1. EmptyStore \in [{} -> Job]
  BY DEF EmptyStore
<1>2. EmptyStore \in GoodStores
  BY <1>1, StoreMade
<1>3. disk \in GoodStores
  <2>1. disk \in Stores /\ DOMAIN disk \in SUBSET Ids /\ disk \in [DOMAIN disk -> Job]
    BY CronConstants DEF Init, IsStore
  <2> QED
    BY <2>1, StoreMade
<1>4. used \in Nat
  <2>1. IsFiniteSet(Ids)
    BY CronConstants, FS_Interval DEF Ids
  <2>2. IsFiniteSet(DOMAIN disk)
    BY <2>1, <1>3, StoreIs, FS_Subset
  <2> QED
    BY <2>2, FS_CardinalityType DEF Init
<1> QED
  BY <1>2, <1>3, <1>4, CronConstants DEF Init, StoresInv

\* A job that was updated with the copy of GetJob.
LEMMA UpdateType ==
  ASSUME StoresInv, NEW new \in Job, NEW ok \in BOOLEAN, UpdateJob(new, ok)
  PROVE  StoresInv'
<1>1. clone.svc \in Services /\ clone.id \in Ids
  BY DEF StoresInv, UpdateJob
<1>2. now \in 1..Horizon /\ mem \in [Services -> GoodStores] /\ mem[clone.svc] \in GoodStores /\ used \in Nat
  BY <1>1 DEF StoresInv
<1>3. CASE clone.id \in DOMAIN mem[clone.svc]
  <2>1. mem[clone.svc][clone.id] \in Job
    BY <1>2, <1>3, StoreIs
  <2>2. With(mem[clone.svc], clone.id, Merged(mem[clone.svc][clone.id], new)) \in GoodStores
    BY <1>1, <1>2, <2>1, JobMerged, WithMade
  <2>3. mem' = [mem EXCEPT ![clone.svc] = With(mem[clone.svc], clone.id, Merged(mem[clone.svc][clone.id], new))]
    BY <1>3 DEF UpdateJob
  <2>4. mem' \in [Services -> GoodStores]
    BY <1>2, <2>2, <2>3
  <2> QED
    BY <1>1, <1>2, <1>3, <2>4, StoresFrame DEF UpdateJob, Save, process
<1>4. CASE clone.id \notin DOMAIN mem[clone.svc]
  BY <1>2, <1>4, StoresFrame DEF UpdateJob, process
<1> QED
  BY <1>3, <1>4

LEMMA EditType ==
  ASSUME StoresInv, NEW s \in Services, NEW ok \in BOOLEAN, EditStep(s, ok)
  PROVE  StoresInv'
<1>1. now \in 1..Horizon /\ mem \in [Services -> GoodStores] /\ mem[s] \in GoodStores /\ used \in Nat
  BY DEF StoresInv
<1>2. ASSUME NEW X \in GoodStores, mem' = [mem EXCEPT ![s] = X], Save(s, X, ok), used' \in Nat,
             UNCHANGED <<now, process, clone>>
      PROVE  StoresInv'
  <2>1. mem' \in [Services -> GoodStores] /\ mem'[s] = X
    BY <1>1, <1>2
  <2> QED
    BY <1>2, <2>1, StoresFrame DEF Save, process
<1>3. ASSUME NEW kind \in Kinds, NEW d \in Delays, AddJob(s, kind, d, ok) PROVE StoresInv'
  <2> DEFINE X == With(mem[s], used + 1, Rescheduled(NewJob(kind, d)))
  <2>1. Rescheduled(NewJob(kind, d)) \in Job
    BY <1>1, <1>3, JobAdded, JobMade DEF AddJob
  <2>2. used + 1 \in Ids
    BY <1>1, <1>3, CronConstants DEF AddJob, Ids
  <2>3. X \in GoodStores
    BY <1>1, <2>1, <2>2, WithMade
  <2>4. mem' = [mem EXCEPT ![s] = X] /\ mem'[s] = X
    BY <1>1, <1>3 DEF AddJob
  <2>5. used' \in Nat /\ UNCHANGED <<now, process, clone>>
    BY <1>1, <1>3 DEF AddJob
  <2>6. Save(s, mem'[s], ok)
    BY <1>3 DEF AddJob
  <2> HIDE DEF X
  <2> QED
    BY <1>2, <2>3, <2>4, <2>5, <2>6
<1>4. ASSUME NEW i \in Ids, GetJob(s, i) PROVE StoresInv'
  <2>1. mem[s][i] \in Job
    BY <1>1, <1>4, StoreIs DEF GetJob
  <2>2. clone'.svc = s /\ clone'.id = i /\ clone'.base = mem[s][i]
    BY <1>4 DEF GetJob
  <2> QED
    BY <1>4, <2>1, <2>2 DEF GetJob, StoresInv, process
<1>5. ASSUME NEW i \in Ids, RemoveJob(s, i, ok) PROVE StoresInv'
  <2>1. Without(mem[s], {i}) \in GoodStores
    BY <1>1, StoreOps
  <2>2. mem' = [mem EXCEPT ![s] = Without(mem[s], {i})] /\ mem'[s] = Without(mem[s], {i})
    BY <1>1, <1>5 DEF RemoveJob
  <2> QED
    BY <1>1, <1>2, <1>5, <2>1, <2>2 DEF RemoveJob
<1>6. ASSUME NEW i \in Ids, NEW on \in BOOLEAN, EnableJob(s, i, on, ok) PROVE StoresInv'
  <2> DEFINE j == [mem[s][i] EXCEPT !.enabled = on]
             X == With(mem[s], i, IF on THEN Rescheduled(j) ELSE [j EXCEPT !.next = Never])
  <2>1. j \in Job
    BY <1>1, <1>6, StoreIs, JobMade DEF EnableJob
  <2>2. X \in GoodStores
    <3>1. (IF on THEN Rescheduled(j) ELSE [j EXCEPT !.next = Never]) \in Job
      BY <1>1, <2>1, JobMade
    <3> HIDE DEF j
    <3> QED
      BY <1>1, <3>1, WithMade
  <2>3. mem' = [mem EXCEPT ![s] = X] /\ mem'[s] = X
    BY <1>1, <1>6 DEF EnableJob
  <2> HIDE DEF X, j
  <2> QED
    BY <1>1, <1>2, <1>6, <2>2, <2>3 DEF EnableJob
<1> QED
  BY <1>3, <1>4, <1>5, <1>6 DEF EditStep

LEMMA LoopType ==
  ASSUME StoresInv, NEW s \in Services, NEW ok \in BOOLEAN, LoopStep(s, ok)
  PROVE  StoresInv'
<1>1. now \in 1..Horizon /\ mem \in [Services -> GoodStores] /\ mem[s] \in GoodStores /\ used \in Nat
  BY DEF StoresInv
<1>2. CASE Check(s, ok)
  <2> DEFINE X == Cleared(mem[s], Due(mem[s]))
  <2>1. X \in GoodStores
    BY <1>1, StoreOps
  <2>2. mem' = [mem EXCEPT ![s] = X] /\ mem'[s] = X
    BY <1>1, <1>2 DEF Check
  <2> HIDE DEF X
  <2>3. mem' \in [Services -> GoodStores]
    BY <1>1, <2>1, <2>2
  <2> QED
    BY <1>1, <1>2, <2>3, StoresFrame DEF Check, Save, process
<1>3. CASE RunJob(s, ok)
  <2>1. PICK i : /\ \/ i \notin DOMAIN mem[s] /\ mem' = [mem EXCEPT ![s] = @] /\ UNCHANGED disk
                    \/ mem' = [mem EXCEPT ![s] = Without(@, {i})] /\ Save(s, mem'[s], ok)
                    \/ /\ i \in DOMAIN mem[s] /\ mem' = [mem EXCEPT ![s] = With(@, i, AfterRun(@[i]))]
                       /\ Save(s, mem'[s], ok)
    BY <1>3 DEF RunJob
  <2>2. Without(mem[s], {i}) \in GoodStores
    BY <1>1, StoreOps
  <2>3. ASSUME i \in DOMAIN mem[s] PROVE With(mem[s], i, AfterRun(mem[s][i])) \in GoodStores
    <3>1. i \in Ids /\ AfterRun(mem[s][i]) \in Job
      BY <1>1, <2>3, StoreIs, JobMade
    <3> QED
      BY <1>1, <3>1, WithMade
  <2>4. mem' \in [Services -> GoodStores]
    BY <1>1, <2>1, <2>2, <2>3
  <2> QED
    BY <1>1, <1>3, <2>1, <2>4, StoresFrame DEF RunJob, Save, process
<1>4. CASE LoopCompute(s) \/ LoopWait(s) \/ LoopExit(s) \/ CheckStopped(s)
  BY <1>1, <1>4, StoresFrame DEF LoopCompute, LoopWait, LoopExit, CheckStopped, process
<1> QED
  BY <1>2, <1>3, <1>4 DEF LoopStep

LEMMA StoresStep == StoresInv /\ [Next]_vars => StoresInv'
<1> SUFFICES ASSUME StoresInv, [Next]_vars PROVE StoresInv'
  OBVIOUS
<1>1. now \in 1..Horizon /\ mem \in [Services -> GoodStores] /\ used \in Nat
  BY DEF StoresInv
<1>2. CASE Tick
  BY <1>1, <1>2, CronConstants DEF Tick, StoresInv, process
<1>3. CASE Stop
  BY <1>1, <1>3, StoresFrame DEF Stop, process
<1>4. CASE Crash
  <2>1. EmptyStore \in [{} -> Job]
    BY DEF EmptyStore
  <2>2. EmptyStore \in GoodStores
    BY <2>1, StoreMade
  <2> QED
    BY <1>4, <2>2, CronConstants DEF Crash, StoresInv
<1>5. ASSUME NEW ok \in BOOLEAN, Start(ok) PROVE StoresInv'
  <2>1. Recomputed(disk) \in GoodStores /\ made + 1 \in Services /\ made + 1 \in 0..LastService
    BY <1>1, <1>5, StoreOps, CronConstants DEF StoresInv, Start, Services
  <2>2. mem' \in [Services -> GoodStores] /\ (disk' = mem'[made + 1] \/ UNCHANGED disk) /\ mem'[made + 1] = Recomputed(disk)
    BY <1>1, <1>5, <2>1 DEF Start
  <2>3. running = {} \/ running = {cur} => running' \subseteq {made + 1}
    BY <1>5 DEF Start
  <2>4. running' \subseteq {made + 1}
    BY <2>3 DEF StoresInv
  <2> QED
    BY <1>5, <2>1, <2>2, <2>4 DEF Start, StoresInv
<1>6. ASSUME NEW ok \in BOOLEAN, UpdateStep(ok) PROVE StoresInv'
  <2>1. clone # NoClone /\ clone.base \in Job
    BY <1>6 DEF UpdateStep, UpdateMessage, UpdateSchedule, StoresInv
  <2>2. CASE UpdateMessage(ok)
    BY <2>1, <2>2, UpdateType DEF UpdateMessage
  <2>3. ASSUME NEW kind \in Kinds, NEW d \in Delays, UpdateSchedule(kind, d, ok) PROVE StoresInv'
    <3> QED
      BY <1>1, <2>1, <2>3, JobEdited, UpdateType DEF UpdateSchedule
  <2> QED
    BY <1>6, <2>2, <2>3 DEF UpdateStep
<1>7. CASE UNCHANGED vars
  BY <1>7 DEF vars, process, StoresInv
<1> QED
  BY <1>2, <1>3, <1>4, <1>5, <1>6, <1>7, EditType, LoopType DEF Next

-----------------------------------------------------------------------------
(* No acknowledged job is lost *)

\* A step of service s that ends in a save, and what it takes from the acknowledged jobs
\* it takes from the store.
LEMMA SavedKept ==
  ASSUME StoresInv, JobsKept, NEW s \in Services, NEW ok \in BOOLEAN, NEW X \in GoodStores,
         mem' = [mem EXCEPT ![s] = X], Save(s, X, ok), UNCHANGED cur,
         \A i \in acked' : (i \in acked /\ (i \in DOMAIN mem[s] => i \in DOMAIN X)) \/ (ok /\ i \in DOMAIN X)
  PROVE  JobsKept'
<1> SUFFICES ASSUME ~clobbered', NEW i \in acked'
             PROVE  i \in DOMAIN disk' /\ (cur # 0 => i \in DOMAIN mem'[cur])
  BY DEF JobsKept
<1>1. mem \in [Services -> GoodStores] /\ s # 0 /\ cur \in 0..LastService /\ (cur # 0 => cur \in Services)
  BY CronConstants DEF StoresInv, Services
<1>2. ~clobbered /\ (ok => s = cur /\ disk' = X) /\ (~ok => disk' = disk)
  BY DEF Save
<1>3. mem'[s] = X /\ \A q \in Services \ {s} : mem'[q] = mem[q]
  BY <1>1
<1>4. CASE i \in acked /\ (i \in DOMAIN mem[s] => i \in DOMAIN X)
  <2>1. i \in DOMAIN disk /\ (cur # 0 => i \in DOMAIN mem[cur])
    BY <1>2, <1>4 DEF JobsKept
  <2> QED
    BY <1>1, <1>2, <1>3, <1>4, <2>1
<1>5. CASE ok /\ i \in DOMAIN X
  BY <1>1, <1>2, <1>3, <1>5
<1> QED
  BY <1>4, <1>5

LEMMA EditKeeps ==
  ASSUME StoresInv, JobsKept, NEW s \in Services, NEW ok \in BOOLEAN, EditStep(s, ok)
  PROVE  JobsKept'
<1>1. now \in 1..Horizon /\ mem \in [Services -> GoodStores] /\ mem[s] \in GoodStores /\ used \in Nat
  BY DEF StoresInv
<1>3. ASSUME NEW kind \in Kinds, NEW d \in Delays, AddJob(s, kind, d, ok) PROVE JobsKept'
  <2> DEFINE X == With(mem[s], used + 1, Rescheduled(NewJob(kind, d)))
  <2>a. Rescheduled(NewJob(kind, d)) \in Job
    BY <1>1, <1>3, JobAdded, JobMade DEF AddJob
  <2>b. used + 1 \in Ids
    BY <1>1, <1>3, CronConstants DEF AddJob, Ids
  <2>2. X \in GoodStores /\ DOMAIN X = DOMAIN mem[s] \cup {used + 1}
    BY <1>1, <2>a, <2>b, WithMade
  <2>3. mem' = [mem EXCEPT ![s] = X] /\ mem'[s] = X
    BY <1>1, <1>3 DEF AddJob
  <2>4. Save(s, mem'[s], ok) /\ UNCHANGED cur
    BY <1>3 DEF AddJob, process
  <2>5. acked' = IF ok THEN acked \cup {used + 1} ELSE acked
    BY <1>3 DEF AddJob, Acknowledged
  <2> HIDE DEF X
  <2> QED
    BY <2>2, <2>3, <2>4, <2>5, SavedKept
<1>4. ASSUME NEW i \in Ids, GetJob(s, i) PROVE JobsKept'
  BY <1>4 DEF GetJob, JobsKept, process, history
<1>5. ASSUME NEW i \in Ids, RemoveJob(s, i, ok) PROVE JobsKept'
  <2>1. Without(mem[s], {i}) \in GoodStores /\ DOMAIN Without(mem[s], {i}) = DOMAIN mem[s] \ {i}
    BY <1>1, StoreOps
  <2>2. mem' = [mem EXCEPT ![s] = Without(mem[s], {i})] /\ mem'[s] = Without(mem[s], {i})
    BY <1>1, <1>5 DEF RemoveJob
  <2>3. Save(s, mem'[s], ok) /\ UNCHANGED cur /\ acked' = acked \ {i}
    BY <1>5 DEF RemoveJob, process
  <2> QED
    BY <2>1, <2>2, <2>3, SavedKept
<1>6. ASSUME NEW i \in Ids, NEW on \in BOOLEAN, EnableJob(s, i, on, ok) PROVE JobsKept'
  <2> DEFINE j == [mem[s][i] EXCEPT !.enabled = on]
             k == IF on THEN Rescheduled(j) ELSE [j EXCEPT !.next = Never]
             X == With(mem[s], i, k)
  <2>1. j \in Job
    BY <1>1, <1>6, StoreIs, JobMade DEF EnableJob
  <2>2. k \in Job
    BY <1>1, <2>1, JobMade
  <2>3. mem' = [mem EXCEPT ![s] = X] /\ mem'[s] = X
    BY <1>1, <1>6 DEF EnableJob
  <2>4. Save(s, mem'[s], ok) /\ UNCHANGED <<cur, acked>>
    BY <1>6 DEF EnableJob, process
  <2> HIDE DEF k
  <2>5. X \in GoodStores /\ DOMAIN X = DOMAIN mem[s] \cup {i}
    BY <1>1, <2>2, WithMade
  <2> HIDE DEF X
  <2> QED
    BY <2>3, <2>4, <2>5, SavedKept
<1> QED
  BY <1>3, <1>4, <1>5, <1>6 DEF EditStep

LEMMA UpdateKeeps ==
  ASSUME StoresInv, JobsKept, NEW new \in Job, NEW ok \in BOOLEAN, UpdateJob(new, ok)
  PROVE  JobsKept'
<1> DEFINE s == clone.svc
           k == Merged(mem[s][clone.id], new)
           X == With(mem[s], clone.id, k)
<1>1. s \in Services /\ clone.id \in Ids
  BY DEF StoresInv, UpdateJob
<1>2. now \in 1..Horizon /\ mem \in [Services -> GoodStores] /\ mem[s] \in GoodStores
  BY <1>1 DEF StoresInv
<1>3. CASE clone.id \in DOMAIN mem[s]
  <2>1. k \in Job
    BY <1>2, <1>3, StoreIs, JobMerged
  <2>2. mem' = [mem EXCEPT ![s] = X] /\ mem'[s] = X
    BY <1>1, <1>2, <1>3 DEF UpdateJob
  <2>3. Save(s, mem'[s], ok) /\ UNCHANGED <<cur, acked>>
    BY <1>3 DEF UpdateJob, process
  <2> HIDE DEF k, s
  <2>4. X \in GoodStores /\ DOMAIN X = DOMAIN mem[s] \cup {clone.id}
    BY <1>1, <1>2, <2>1, WithMade
  <2> HIDE DEF X
  <2> QED
    BY <1>1, <2>2, <2>3, <2>4, SavedKept
<1>4. CASE clone.id \notin DOMAIN mem[s]
  BY <1>4 DEF UpdateJob, JobsKept, process
<1> QED
  BY <1>3, <1>4

LEMMA LoopKeeps ==
  ASSUME StoresInv, JobsKept, NEW s \in Services, NEW ok \in BOOLEAN, LoopStep(s, ok)
  PROVE  JobsKept'
<1>1. now \in 1..Horizon /\ mem \in [Services -> GoodStores] /\ mem[s] \in GoodStores
  BY DEF StoresInv
<1>2. CASE Check(s, ok)
  <2> DEFINE X == Cleared(mem[s], Due(mem[s]))
  <2>1. X \in GoodStores /\ DOMAIN X = DOMAIN mem[s]
    BY ZenonT(40), <1>1, StoreOps
  <2>2. mem' = [mem EXCEPT ![s] = X] /\ mem'[s] = X
    BY <1>1, <1>2 DEF Check
  <2>3. Save(s, mem'[s], ok) /\ UNCHANGED <<cur, acked>>
    BY <1>2 DEF Check, process
  <2> HIDE DEF X
  <2> QED
    BY <2>1, <2>2, <2>3, SavedKept
<1>3. CASE RunJob(s, ok)
  <2> DEFINE i == Min(batch[s])
             done == i \in DOMAIN mem[s] /\ mem[s][i].kind = "at" /\ mem[s][i].del
             X == IF done THEN Without(mem[s], {i}) ELSE With(mem[s], i, AfterRun(mem[s][i]))
  <2>1. CASE i \notin DOMAIN mem[s]
    <3>1. mem' = [mem EXCEPT ![s] = mem[s]] /\ UNCHANGED <<disk, clobbered, acked, cur>>
      BY <1>3, <2>1 DEF RunJob, process
    <3>2. mem' = mem
      BY <1>1, <3>1
    <3> QED
      BY <3>1, <3>2 DEF JobsKept
  <2>2. CASE i \in DOMAIN mem[s]
    <3>1. mem' = [mem EXCEPT ![s] = X] /\ mem'[s] = X
      BY <1>1, <1>3, <2>2 DEF RunJob
    <3>2. Save(s, mem'[s], ok) /\ UNCHANGED cur /\ acked' = IF done THEN acked \ {i} ELSE acked
      BY <1>3, <2>2 DEF RunJob, process
    <3>3. i \in Ids /\ AfterRun(mem[s][i]) \in Job
      BY <1>1, <2>2, StoreIs, JobMade
    <3> HIDE DEF i
    <3>4. X \in GoodStores /\ DOMAIN X = IF done THEN DOMAIN mem[s] \ {i} ELSE DOMAIN mem[s]
      <4>1. CASE done
        <5>1. X = Without(mem[s], {i})
          BY <4>1
        <5> HIDE DEF X, done
        <5> QED
          BY <1>1, <4>1, <5>1, StoreOps
      <4>2. CASE ~done
        <5>1. X = With(mem[s], i, AfterRun(mem[s][i]))
          BY <4>2
        <5> HIDE DEF X, done
        <5>2. DOMAIN mem[s] \cup {i} = DOMAIN mem[s]
          BY <2>2
        <5>3. With(mem[s], i, AfterRun(mem[s][i])) \in GoodStores
              /\ DOMAIN With(mem[s], i, AfterRun(mem[s][i])) = DOMAIN mem[s] \cup {i}
          BY <1>1, <3>3, WithMade
        <5> QED
          BY <4>2, <5>1, <5>2, <5>3
      <4> QED
        BY <4>1, <4>2
    <3> HIDE DEF X, done
    <3> QED
      BY <3>1, <3>2, <3>4, SavedKept
  <2> QED
    BY <2>1, <2>2
<1>4. CASE LoopCompute(s) \/ LoopWait(s) \/ LoopExit(s) \/ CheckStopped(s)
  BY <1>4 DEF LoopCompute, LoopWait, LoopExit, CheckStopped, JobsKept, process, history
<1> QED
  BY <1>2, <1>3, <1>4 DEF LoopStep

LEMMA KeptStep == StoresInv /\ JobsKept /\ [Next]_vars => JobsKept'
<1> SUFFICES ASSUME StoresInv, JobsKept, [Next]_vars PROVE JobsKept'
  OBVIOUS
<1>1. now \in 1..Horizon /\ mem \in [Services -> GoodStores] /\ disk \in GoodStores
  BY DEF StoresInv
<1>2. CASE Tick \/ Stop \/ Crash \/ UNCHANGED vars
  BY <1>2 DEF Tick, Stop, Crash, JobsKept, process, loops, history, vars
<1>3. ASSUME NEW ok \in BOOLEAN, Start(ok) PROVE JobsKept'
  <2>1. /\ made + 1 \in Services /\ DOMAIN Recomputed(disk) = DOMAIN disk
        /\ mem' = [mem EXCEPT ![made + 1] = Recomputed(disk)] /\ cur' = made + 1
    BY <1>1, <1>3, StoreOps, CronConstants DEF StoresInv, Start, Services
  <2>2. mem'[cur'] = Recomputed(disk) /\ (disk' = Recomputed(disk) \/ disk' = disk)
    BY <1>1, <1>3, <2>1 DEF Start
  <2>3. \A i \in acked' : i \in DOMAIN disk
    BY <1>3 DEF Start, JobsKept
  <2> QED
    BY <2>1, <2>2, <2>3 DEF JobsKept
<1>4. ASSUME NEW ok \in BOOLEAN, UpdateStep(ok) PROVE JobsKept'
  <2>1. clone.base \in Job
    BY <1>4 DEF UpdateStep, UpdateMessage, UpdateSchedule, StoresInv
  <2>2. CASE UpdateMessage(ok)
    BY <2>1, <2>2, UpdateKeeps DEF UpdateMessage
  <2>3. ASSUME NEW kind \in Kinds, NEW d \in Delays, UpdateSchedule(kind, d, ok) PROVE JobsKept'
    <3> QED
      BY <1>1, <2>1, <2>3, JobEdited, UpdateKeeps DEF UpdateSchedule
  <2> QED
    BY <1>4, <2>2, <2>3 DEF UpdateStep
<1> QED
  BY <1>2, <1>3, <1>4, EditKeeps, LoopKeeps DEF Next

\* A job that AddJob reported stays in the file and in the memory of the service the
\* gateway holds until it is removed or deleted after its run: every step that loses it
\* in one loses it in both, by a save of the service the gateway holds.
THEOREM JobsKeptCorrect == Spec => []JobsKept
<1>1. Init => StoresInv /\ JobsKept
  BY StoresInit DEF Init, JobsKept
<1>2. StoresInv /\ JobsKept /\ [Next]_vars => (StoresInv /\ JobsKept)'
  BY StoresStep, KeptStep
<1> QED
  BY <1>1, <1>2, PTL DEF Spec

-----------------------------------------------------------------------------
(* Loops *)

LEMMA LoopsInit == Init => LoopsInv
  BY DEF Init, LoopsInv

LEMMA LoopsNotified ==
  ASSUME LoopsInv, NEW s \in Services, UNCHANGED <<made, batch>>, loop' \in {loop, Notified(s)}
  PROVE  LoopsInv'
  BY DEF LoopsInv, Notified

LEMMA LoopsStep == StoresInv /\ LoopsInv /\ [Next]_vars => LoopsInv'
<1> SUFFICES ASSUME StoresInv, LoopsInv, [Next]_vars PROVE LoopsInv'
  OBVIOUS
<1>0. made \in 0..LastService /\ mem \in [Services -> GoodStores]
  BY DEF StoresInv
<1>1. CASE Tick \/ Stop \/ UNCHANGED vars
  BY <1>1 DEF Tick, Stop, LoopsInv, loops, process, vars
<1>2. CASE Crash
  BY <1>2 DEF Crash, LoopsInv
<1>3. ASSUME NEW ok \in BOOLEAN, Start(ok) PROVE LoopsInv'
  <2>1. made + 1 \in Services /\ made' = made + 1
    BY <1>0, <1>3, CronConstants DEF Start, Services
  <2>2. loop[made + 1] = "off" /\ batch[made + 1] = {} /\ batch' = batch
    BY <1>0, <1>3, <2>1 DEF Start, LoopsInv
  <2>3. loop' = [loop EXCEPT ![made + 1] = "compute"] \/ loop' = loop
    BY <1>3 DEF Start
  <2>4. \A s \in Services : s > made + 1 => s > made /\ s # made + 1
    BY <1>0, CronConstants DEF Services
  <2> QED
    BY <2>1, <2>2, <2>3, <2>4 DEF LoopsInv
<1>4. ASSUME NEW ok \in BOOLEAN, UpdateStep(ok) PROVE LoopsInv'
  <2>1. PICK new : UpdateJob(new, ok)
    BY <1>4 DEF UpdateStep, UpdateMessage, UpdateSchedule
  <2>2. clone.svc \in Services /\ UNCHANGED <<made, batch>> /\ loop' \in {loop, Notified(clone.svc)}
    BY <2>1 DEF UpdateJob, StoresInv, process
  <2> QED
    BY <2>2, LoopsNotified
<1>5. ASSUME NEW s \in Services, NEW ok \in BOOLEAN, EditStep(s, ok) PROVE LoopsInv'
  <2>1. UNCHANGED <<made, batch>> /\ loop' \in {loop, Notified(s)}
    BY <1>5 DEF EditStep, AddJob, GetJob, RemoveJob, EnableJob, process, loops
  <2> QED
    BY <2>1, LoopsNotified
<1>6. ASSUME NEW s \in Services, NEW ok \in BOOLEAN, LoopStep(s, ok) PROVE LoopsInv'
  <2>1. CASE LoopCompute(s) \/ LoopWait(s) \/ LoopExit(s) \/ CheckStopped(s)
    BY <2>1 DEF LoopCompute, LoopWait, LoopExit, CheckStopped, TimerFired, Goto, LoopsInv, process
  <2>2. CASE Check(s, ok)
    <3>1. Due(mem[s]) \in SUBSET Ids
      BY <1>0, StoreIs DEF Due
    <3> QED
      BY <2>2, <3>1 DEF Check, TimerFired, Goto, LoopsInv, process
  <2>3. CASE RunJob(s, ok)
    BY <2>3 DEF RunJob, Goto, LoopsInv, process
  <2> QED
    BY <1>6, <2>1, <2>2, <2>3 DEF LoopStep
<1> QED
  BY <1>1, <1>2, <1>3, <1>4, <1>5, <1>6 DEF Next

-----------------------------------------------------------------------------
(* What a step does to a job of a service *)

\* Nothing that the loop sees.
SameJob(s, i) ==
  /\ i \in DOMAIN mem[s] /\ s \in running' => s \in running
  /\ i \in DOMAIN mem[s] /\ mem'[s][i].kind = mem[s][i].kind /\ mem'[s][i].enabled = mem[s][i].enabled
  /\ mem'[s][i].arg = mem[s][i].arg /\ mem'[s][i].next = mem[s][i].next
  /\ <<s, i>> \in torn => <<s, i>> \in torn'
  /\ i \in batch[s] => i \in batch'[s]
  /\ s \in running' => taken'[i] = taken[i]

\* If it is enabled it gets the next run that its schedule has from now on.
Rearmed(s, i) ==
  /\ now' = now
  /\ mem'[s][i].enabled => mem'[s][i].next = NextRun(mem'[s][i].kind, mem'[s][i].arg)

JobTaken(s, i) == mem'[s][i].next = Never /\ i \in batch'[s]

JobChange(s, i) == SameJob(s, i) \/ Rearmed(s, i) \/ JobTaken(s, i) \/ <<s, i>> \in torn'

LEMMA RearmedBy ==
  ASSUME NEW j \in Job, NEW s, NEW i,
         mem'[s][i] \in {Rescheduled(j), AfterRun(j)} \/ ~mem'[s][i].enabled, now' = now
  PROVE  Rearmed(s, i)
<1>1. CASE mem'[s][i] = Rescheduled(j)
  BY <1>1 DEF Rescheduled, Job, Rearmed
<1>2. CASE ~mem'[s][i].enabled
  BY <1>2 DEF Rearmed
<1>3. CASE mem'[s][i] = AfterRun(j)
  <2>1. CASE j.kind = "at"
    BY <1>3, <2>1 DEF AfterRun, Job, Rearmed
  <2>2. CASE j.kind # "at"
    BY <1>3, <1>1, <2>2 DEF AfterRun
  <2> QED
    BY <2>1, <2>2
<1> QED
  BY <1>1, <1>2, <1>3

LEMMA SameBy ==
  ASSUME NEW s, NEW i \in DOMAIN mem[s], mem'[s][i] = mem[s][i], running' \subseteq running,
         <<s, i>> \in torn => <<s, i>> \in torn', i \in batch[s] => i \in batch'[s],
         s \in running' => taken'[i] = taken[i]
  PROVE  SameJob(s, i)
  BY DEF SameJob

\* An edit of job i of service q.
LEMMA EditedBy ==
  ASSUME StoresInv, NEW q \in Services, NEW i, NEW X \in GoodStores, mem' = [mem EXCEPT ![q] = X],
         \A k \in DOMAIN X \ {i} : k \in DOMAIN mem[q] /\ X[k] = mem[q][k],
         i \in DOMAIN X => JobChange(q, i),
         UNCHANGED <<running, taken>>, batch' = batch,
         torn \ {<<q, i>>} \subseteq torn',
         NEW s \in Services, NEW k \in DOMAIN mem'[s]
  PROVE  JobChange(s, k)
<1>1. mem'[q] = X /\ \A r \in Services \ {q} : mem'[r] = mem[r]
  BY DEF StoresInv
<1>2. CASE s = q /\ k = i
  BY <1>1, <1>2
<1>3. CASE s = q /\ k # i
  <2>1. <<s, k>> # <<q, i>>
    BY <1>3
  <2> QED
    BY <1>1, <1>3, <2>1, SameBy DEF JobChange
<1>4. CASE s # q
  <2>1. <<s, k>> # <<q, i>>
    BY <1>4
  <2> QED
    BY <1>1, <1>4, <2>1, SameBy DEF JobChange
<1> QED
  BY <1>2, <1>3, <1>4

LEMMA EditChanges ==
  ASSUME StoresInv, NEW q \in Services, NEW ok \in BOOLEAN, EditStep(q, ok),
         NEW s \in Services, NEW n \in DOMAIN mem'[s]
  PROVE  JobChange(s, n)
<1>1. now \in 1..Horizon /\ mem \in [Services -> GoodStores] /\ mem[q] \in GoodStores /\ used \in Nat
  BY DEF StoresInv
<1>3. ASSUME NEW kind \in Kinds, NEW d \in Delays, AddJob(q, kind, d, ok) PROVE JobChange(s, n)
  <2> DEFINE X == With(mem[q], used + 1, Rescheduled(NewJob(kind, d)))
  <2>a. Rescheduled(NewJob(kind, d)) \in Job /\ NewJob(kind, d) \in Job
    BY <1>1, <1>3, JobAdded, JobMade DEF AddJob
  <2>b. used + 1 \in Ids
    BY <1>1, <1>3, CronConstants DEF AddJob, Ids
  <2>2. /\ X \in GoodStores /\ DOMAIN X = DOMAIN mem[q] \cup {used + 1}
        /\ X[used + 1] = Rescheduled(NewJob(kind, d)) /\ \A k \in DOMAIN mem[q] \ {used + 1} : X[k] = mem[q][k]
    BY ZenonT(40), <1>1, <2>a, <2>b, WithMade
  <2>3. mem' = [mem EXCEPT ![q] = X] /\ mem'[q] = X
    BY <1>1, <1>3 DEF AddJob
  <2>4. UNCHANGED <<running, taken, batch, torn, now>>
    BY <1>3 DEF AddJob, process
  <2> HIDE DEF X
  <2>5. JobChange(q, used + 1)
    <3>1. mem'[q][used + 1] = Rescheduled(NewJob(kind, d)) /\ now' = now
      BY <2>2, <2>3, <2>4
    <3> QED
      BY <2>a, <3>1, RearmedBy DEF JobChange
  <2> QED
    BY <2>2, <2>3, <2>4, <2>5, EditedBy
<1>4. ASSUME NEW i \in Ids, GetJob(q, i) PROVE JobChange(s, n)
  <2>1. UNCHANGED <<mem, running, taken, batch, torn>>
    BY <1>4 DEF GetJob, process, history, loops
  <2> QED
    BY <2>1, SameBy DEF JobChange
<1>5. ASSUME NEW i \in Ids, RemoveJob(q, i, ok) PROVE JobChange(s, n)
  <2>1. /\ Without(mem[q], {i}) \in GoodStores /\ DOMAIN Without(mem[q], {i}) = DOMAIN mem[q] \ {i}
        /\ \A k \in DOMAIN mem[q] \ {i} : Without(mem[q], {i})[k] = mem[q][k]
    BY <1>1, StoreOps
  <2>2. mem' = [mem EXCEPT ![q] = Without(mem[q], {i})]
    BY <1>5 DEF RemoveJob
  <2>3. UNCHANGED <<running, taken, batch, torn>>
    BY <1>5 DEF RemoveJob, process
  <2> QED
    BY <2>1, <2>2, <2>3, EditedBy
<1>6. ASSUME NEW i \in Ids, NEW on \in BOOLEAN, EnableJob(q, i, on, ok) PROVE JobChange(s, n)
  <2> DEFINE j == [mem[q][i] EXCEPT !.enabled = on]
             v == IF on THEN Rescheduled(j) ELSE [j EXCEPT !.next = Never]
             X == With(mem[q], i, v)
  <2>1. j \in Job /\ j.enabled = on
    <3>1. mem[q][i] \in Job
      BY <1>1, <1>6, StoreIs DEF EnableJob
    <3>2. j \in Job
      BY <1>1, <3>1, JobMade
    <3> QED
      BY <3>1, <3>2 DEF Job
  <2>2. v \in Job
    BY <1>1, <2>1, JobMade
  <2>3. mem' = [mem EXCEPT ![q] = X] /\ mem'[q] = X
    BY <1>1, <1>6 DEF EnableJob
  <2>4. UNCHANGED <<running, taken, batch, now>> /\ torn \ {<<q, i>>} \subseteq torn'
    BY <1>6 DEF EnableJob, process
  <2>6. v = Rescheduled(j) \/ ~v.enabled
    BY <2>1 DEF Job
  <2> HIDE DEF v
  <2>5. /\ X \in GoodStores /\ DOMAIN X = DOMAIN mem[q] \cup {i}
        /\ X[i] = v /\ \A k \in DOMAIN mem[q] \ {i} : X[k] = mem[q][k]
    BY <1>1, <2>2, WithMade
  <2> HIDE DEF X, j
  <2>7. JobChange(q, i)
    <3>1. mem'[q][i] = v /\ now' = now
      BY <2>3, <2>4, <2>5
    <3>2. Rearmed(q, i)
      BY <2>1, <2>6, <3>1, RearmedBy
    <3> QED
      BY <3>2 DEF JobChange
  <2> QED
    BY <2>3, <2>4, <2>5, <2>7, EditedBy
<1> QED
  BY <1>3, <1>4, <1>5, <1>6 DEF EditStep

\* An update stores its copy with a fresh next run, or an unchanged one, or a torn one.
LEMMA UpdateChanges ==
  ASSUME StoresInv, NEW new \in Job, NEW ok \in BOOLEAN, UpdateJob(new, ok),
         new.enabled = clone.base.enabled, new.next = clone.base.next,
         NEW s \in Services, NEW n \in DOMAIN mem'[s]
  PROVE  JobChange(s, n)
<1> DEFINE q == clone.svc
           i == clone.id
           old == mem[q][i]
           v == Merged(old, new)
           X == With(mem[q], i, v)
<1>1. q \in Services /\ i \in Ids
  BY DEF StoresInv, UpdateJob
<1>2. now \in 1..Horizon /\ mem \in [Services -> GoodStores] /\ mem[q] \in GoodStores
  BY <1>1 DEF StoresInv
<1>3. CASE i \in DOMAIN mem[q]
  <2>0. old \in Job
    BY <1>2, <1>3, StoreIs
  <2>1. v \in Job
    BY <1>2, <2>0, JobMerged
  <2>2. mem' = [mem EXCEPT ![q] = X] /\ mem'[q] = X
    BY <1>1, <1>2, <1>3 DEF UpdateJob
  <2>3. /\ UNCHANGED <<running, taken, batch, now>> /\ torn \subseteq torn'
        /\ v = new /\ new.enabled /\ clone.base # old => <<q, i>> \in torn'
    BY <1>3 DEF UpdateJob, process
  <2>4. \/ ~v.enabled
        \/ v = Rescheduled(new)
        \/ v = new /\ new.enabled /\ old.enabled = new.enabled /\ old.kind = new.kind /\ old.arg = new.arg
    BY <2>0 DEF Merged, Job
  <2> HIDE DEF v
  <2>5. /\ X \in GoodStores /\ DOMAIN X = DOMAIN mem[q] \cup {i}
        /\ X[i] = v /\ \A k \in DOMAIN mem[q] \ {i} : X[k] = mem[q][k]
    BY ZenonT(40), <1>1, <1>2, <2>1, WithMade
  <2> HIDE DEF X
  <2>6. mem'[q][i] = v
    BY <2>2, <2>5
  <2>7. JobChange(q, i)
    <3>1. CASE ~v.enabled \/ v = Rescheduled(new)
      <4>1. Rearmed(q, i)
        BY <2>3, <2>6, <3>1, RearmedBy
      <4> QED
        BY <4>1 DEF JobChange
    <3>2. CASE v = new /\ new.enabled /\ old.enabled = new.enabled /\ old.kind = new.kind /\ old.arg = new.arg
      <4>1. CASE clone.base # old
        BY <2>3, <3>2, <4>1 DEF JobChange
      <4>2. CASE clone.base = old
        BY <1>3, <2>3, <2>6, <3>2, <4>2 DEF JobChange, SameJob
      <4> QED
        BY <4>1, <4>2
    <3> QED
      BY <2>4, <3>1, <3>2
  <2> HIDE DEF q, i
  <2>8. torn \ {<<q, i>>} \subseteq torn'
    BY <2>3
  <2> QED
    BY <1>1, <2>2, <2>3, <2>5, <2>7, <2>8, EditedBy
<1>4. CASE i \notin DOMAIN mem[q]
  <2>1. UNCHANGED <<mem, running, taken, batch, torn>>
    BY <1>4 DEF UpdateJob, process
  <2> QED
    BY <2>1, SameBy DEF JobChange
<1> QED
  BY <1>3, <1>4

LEMMA CheckChanges ==
  ASSUME StoresInv, LoopsInv, NEW q \in Services, NEW ok \in BOOLEAN, Check(q, ok),
         NEW s \in Services, NEW n \in DOMAIN mem'[s]
  PROVE  JobChange(s, n)
<1> DEFINE D == Due(mem[q])
           X == Cleared(mem[q], D)
<1>1. now \in 1..Horizon /\ mem \in [Services -> GoodStores] /\ mem[q] \in GoodStores
  BY DEF StoresInv
<1>2. /\ X \in GoodStores /\ DOMAIN X = DOMAIN mem[q]
      /\ \A i \in DOMAIN mem[q] : X[i] = IF i \in D THEN [mem[q][i] EXCEPT !.next = Never] ELSE mem[q][i]
  <2>1. \A I : /\ Cleared(mem[q], I) \in GoodStores /\ DOMAIN Cleared(mem[q], I) = DOMAIN mem[q]
               /\ \A i \in DOMAIN mem[q] :
                    Cleared(mem[q], I)[i] = IF i \in I THEN [mem[q][i] EXCEPT !.next = Never] ELSE mem[q][i]
    BY <1>1, StoreOps
  <2> HIDE DEF D
  <2> QED
    BY <2>1, Zenon
<1>3. mem' = [mem EXCEPT ![q] = X] /\ batch' = [batch EXCEPT ![q] = D]
      /\ taken' = [i \in Ids |-> IF i \in D THEN mem[q][i].next ELSE taken[i]]
      /\ UNCHANGED <<running, torn, now>>
  BY DEF Check, process
<1>4. batch[q] = {} /\ q \in running /\ running \subseteq {cur}
  BY DEF LoopsInv, Check, TimerFired, StoresInv
<1>5. batch'[q] = D /\ \A r \in Services \ {q} : batch'[r] = batch[r]
  BY <1>3 DEF LoopsInv
<1> HIDE DEF D, X
<1>6. mem'[q] = X /\ \A r \in Services \ {q} : mem'[r] = mem[r]
  BY <1>1, <1>3
<1>7. CASE s # q
  BY <1>3, <1>4, <1>5, <1>6, <1>7, SameBy DEF JobChange
<1>8. CASE s = q /\ n \in D
  <2>1. mem[q][n] \in Job /\ mem'[q][n] = [mem[q][n] EXCEPT !.next = Never]
    BY <1>1, <1>2, <1>6, <1>8, StoreIs
  <2>2. mem'[q][n].next = Never
    BY <2>1 DEF Job
  <2> QED
    BY <1>5, <1>8, <2>2 DEF JobChange, JobTaken
<1>9. CASE s = q /\ n \notin D
  <2>1. n \in DOMAIN mem[q] /\ mem'[q][n] = mem[q][n]
    BY <1>2, <1>6, <1>9
  <2>2. n \in Ids
    BY <1>1, <2>1, StoreIs
  <2>3. taken'[n] = taken[n]
    BY <1>3, <1>9, <2>2
  <2> QED
    BY <1>3, <1>4, <1>9, <2>1, <2>3, SameBy DEF JobChange
<1> QED
  BY <1>7, <1>8, <1>9

LEMMA RunChanges ==
  ASSUME StoresInv, LoopsInv, NEW q \in Services, NEW ok \in BOOLEAN, RunJob(q, ok),
         NEW s \in Services, NEW n \in DOMAIN mem'[s]
  PROVE  JobChange(s, n)
<1> DEFINE i == Min(batch[q])
<1>1. now \in 1..Horizon /\ mem \in [Services -> GoodStores] /\ mem[q] \in GoodStores
  BY DEF StoresInv
<1>2. /\ batch' = [batch EXCEPT ![q] = batch[q] \ {i}] /\ torn' = torn \ {<<q, i>>}
      /\ UNCHANGED <<running, taken, now>>
  BY DEF RunJob, process
<1>3. \/ i \notin DOMAIN mem[q] /\ mem' = [mem EXCEPT ![q] = mem[q]]
      \/ mem' = [mem EXCEPT ![q] = Without(mem[q], {i})]
      \/ i \in DOMAIN mem[q] /\ mem' = [mem EXCEPT ![q] = With(mem[q], i, AfterRun(mem[q][i]))]
  BY DEF RunJob
<1> HIDE DEF i
<1>4. batch'[q] = batch[q] \ {i} /\ \A r \in Services \ {q} : batch'[r] = batch[r]
  BY <1>2 DEF LoopsInv
<1>5. \A r \in Services \ {q} : mem'[r] = mem[r]
  BY <1>1, <1>3
<1>6. \/ i \notin DOMAIN mem'[q]
      \/ i \in DOMAIN mem[q] /\ mem'[q][i] = AfterRun(mem[q][i])
  <2>1. CASE i \notin DOMAIN mem[q] /\ mem' = [mem EXCEPT ![q] = mem[q]]
    BY <1>1, <2>1
  <2>2. CASE mem' = [mem EXCEPT ![q] = Without(mem[q], {i})]
    <3>1. DOMAIN Without(mem[q], {i}) = DOMAIN mem[q] \ {i}
      BY ZenonT(40), <1>1, StoreOps
    <3>2. mem'[q] = Without(mem[q], {i})
      BY <1>1, <2>2
    <3> QED
      BY <3>1, <3>2
  <2>3. CASE i \in DOMAIN mem[q] /\ mem' = [mem EXCEPT ![q] = With(mem[q], i, AfterRun(mem[q][i]))]
    <3>1. i \in Ids /\ AfterRun(mem[q][i]) \in Job
      BY <1>1, <2>3, StoreIs, JobMade
    <3>2. With(mem[q], i, AfterRun(mem[q][i]))[i] = AfterRun(mem[q][i])
      BY ZenonT(40), <1>1, <3>1, WithMade
    <3>3. mem'[q] = With(mem[q], i, AfterRun(mem[q][i]))
      BY <1>1, <2>3
    <3> QED
      BY <2>3, <3>2, <3>3
  <2> QED
    BY <1>3, <2>1, <2>2, <2>3
<1>7. \A k \in DOMAIN mem'[q] \ {i} : k \in DOMAIN mem[q] /\ mem'[q][k] = mem[q][k]
  <2>1. CASE mem' = [mem EXCEPT ![q] = mem[q]]
    BY <1>1, <2>1
  <2>2. CASE mem' = [mem EXCEPT ![q] = Without(mem[q], {i})]
    <3>1. /\ DOMAIN Without(mem[q], {i}) = DOMAIN mem[q] \ {i}
          /\ \A k \in DOMAIN mem[q] \ {i} : Without(mem[q], {i})[k] = mem[q][k]
      BY ZenonT(40), <1>1, StoreOps
    <3>2. mem'[q] = Without(mem[q], {i})
      BY <1>1, <2>2
    <3> QED
      BY <3>1, <3>2
  <2>3. CASE i \in DOMAIN mem[q] /\ mem' = [mem EXCEPT ![q] = With(mem[q], i, AfterRun(mem[q][i]))]
    <3>1. i \in Ids /\ AfterRun(mem[q][i]) \in Job
      BY <1>1, <2>3, StoreIs, JobMade
    <3>2. /\ DOMAIN With(mem[q], i, AfterRun(mem[q][i])) = DOMAIN mem[q] \cup {i}
          /\ \A k \in DOMAIN mem[q] \ {i} : With(mem[q], i, AfterRun(mem[q][i]))[k] = mem[q][k]
      BY <1>1, <3>1, WithMade
    <3>3. mem'[q] = With(mem[q], i, AfterRun(mem[q][i]))
      BY <1>1, <2>3
    <3> QED
      BY <3>2, <3>3
  <2> QED
    BY <1>3, <2>1, <2>2, <2>3
<1>8. CASE s # q
  <2>1. <<s, n>> # <<q, i>>
    BY <1>8
  <2> QED
    BY <1>2, <1>4, <1>5, <1>8, <2>1, SameBy DEF JobChange
<1>9. CASE s = q /\ n # i
  <2>1. <<s, n>> # <<q, i>>
    BY <1>9
  <2> QED
    BY <1>2, <1>4, <1>7, <1>9, <2>1, SameBy DEF JobChange
<1>10. CASE s = q /\ n = i
  <2>1. mem[q][i] \in Job /\ mem'[q][i] = AfterRun(mem[q][i])
    BY <1>1, <1>6, <1>10, StoreIs
  <2>2. Rearmed(q, i)
    BY <1>2, <2>1, RearmedBy
  <2> QED
    BY <1>10, <2>2 DEF JobChange
<1> QED
  BY <1>8, <1>9, <1>10

LEMMA StartChanges ==
  ASSUME StoresInv, NEW ok \in BOOLEAN, Start(ok), NEW s \in Services, NEW n \in DOMAIN mem'[s]
  PROVE  JobChange(s, n)
<1>1. now \in 1..Horizon /\ mem \in [Services -> GoodStores] /\ disk \in GoodStores
  BY DEF StoresInv
<1>2. /\ mem' = [mem EXCEPT ![made + 1] = Recomputed(disk)] /\ UNCHANGED <<batch, taken, torn, now>>
      /\ running' \subseteq running \cup {made + 1}
  BY DEF Start
<1>3. CASE s # made + 1
  <2>1. mem'[s] = mem[s]
    BY <1>1, <1>2, <1>3
  <2> QED
    BY <1>2, <1>3, <2>1 DEF JobChange, SameJob
<1>4. CASE s = made + 1
  <2>1. mem'[s] = Recomputed(disk)
    BY <1>1, <1>2, <1>4
  <2>2. n \in DOMAIN disk /\ mem'[s][n] = IF disk[n].enabled THEN Rescheduled(disk[n]) ELSE disk[n]
    BY <1>1, <2>1, StoreOps
  <2>3. disk[n] \in Job
    BY <1>1, <2>2, StoreIs
  <2>4. mem'[s][n] \in {Rescheduled(disk[n]), AfterRun(disk[n])} \/ ~mem'[s][n].enabled
    BY <2>2
  <2>5. Rearmed(s, n)
    BY <1>2, <2>3, <2>4, RearmedBy
  <2> QED
    BY <2>5 DEF JobChange
<1> QED
  BY <1>3, <1>4

LEMMA JobMoves ==
  ASSUME StoresInv, LoopsInv, [Next]_vars, NEW s \in Services, NEW n \in DOMAIN mem'[s]
  PROVE  JobChange(s, n)
<1>1. ASSUME UNCHANGED <<mem, batch, taken, torn>>, running' \subseteq running PROVE JobChange(s, n)
  BY <1>1, SameBy DEF JobChange
<1>2. CASE Tick \/ Stop \/ UNCHANGED vars
  BY <1>1, <1>2 DEF Tick, Stop, process, loops, history, vars
<1>3. CASE Crash
  BY <1>3 DEF Crash, EmptyStore
<1>4. ASSUME NEW ok \in BOOLEAN, UpdateStep(ok) PROVE JobChange(s, n)
  <2>1. now \in 1..Horizon /\ clone.base \in Job
    BY <1>4 DEF UpdateStep, UpdateMessage, UpdateSchedule, StoresInv
  <2>2. CASE UpdateMessage(ok)
    BY <2>1, <2>2, UpdateChanges DEF UpdateMessage
  <2>3. ASSUME NEW kind \in Kinds, NEW d \in Delays, UpdateSchedule(kind, d, ok) PROVE JobChange(s, n)
    <3>0. PICK b \in Job : b = clone.base
      BY <2>1
    <3> DEFINE new == [b EXCEPT !.kind = Schedule(kind, d).kind, !.arg = Schedule(kind, d).arg,
                                !.del = Schedule(kind, d).del]
    <3>1. new \in Job /\ new.enabled = clone.base.enabled /\ new.next = clone.base.next
      <4>1. new \in Job /\ new.enabled = b.enabled /\ new.next = b.next
        BY ZenonT(40), <2>1, JobEdited
      <4> HIDE DEF new
      <4> QED
        BY <3>0, <4>1
    <3>2. UpdateJob(new, ok)
      BY <2>3, <3>0 DEF UpdateSchedule
    <3> HIDE DEF new
    <3> QED
      BY <3>1, <3>2, UpdateChanges
  <2> QED
    BY <1>4, <2>2, <2>3 DEF UpdateStep
<1>5. ASSUME NEW q \in Services, NEW ok \in BOOLEAN, LoopStep(q, ok) PROVE JobChange(s, n)
  <2>1. CASE LoopCompute(q) \/ LoopWait(q) \/ LoopExit(q) \/ CheckStopped(q)
    BY <1>1, <2>1 DEF LoopCompute, LoopWait, LoopExit, CheckStopped, process, history
  <2> QED
    BY <1>5, <2>1, CheckChanges, RunChanges DEF LoopStep
<1> QED
  BY <1>2, <1>3, <1>4, <1>5, StartChanges, EditChanges DEF Next

-----------------------------------------------------------------------------
(* Recurring jobs and due times *)

LEMMA RecurringStep == StoresInv /\ LoopsInv /\ RecurringAlive /\ [Next]_vars => RecurringAlive'
<1> SUFFICES ASSUME StoresInv, LoopsInv, RecurringAlive, [Next]_vars,
                    NEW s \in running', NEW i \in DOMAIN mem'[s],
                    <<s, i>> \notin torn', mem'[s][i].enabled, mem'[s][i].kind = "every",
                    mem'[s][i].arg > 0, mem'[s][i].next = Never
             PROVE  i \in batch'[s]
  BY DEF RecurringAlive
<1>1. s \in Services /\ now \in 1..Horizon /\ mem'[s] \in GoodStores
  BY StoresStep DEF StoresInv
<1>2. mem'[s][i] \in Job
  BY <1>1, StoreIs
<1>3. CASE SameJob(s, i)
  BY <1>3 DEF SameJob, RecurringAlive
<1>4. CASE Rearmed(s, i)
  <2>1. NextRun(mem'[s][i].kind, mem'[s][i].arg) = Never
    BY <1>4 DEF Rearmed
  <2>2. mem'[s][i].kind \in Kinds /\ mem'[s][i].arg \in Nat
    BY <1>2 DEF Job
  <2> QED
    BY <1>1, <2>1, <2>2, NextRunLater
<1>5. CASE JobTaken(s, i)
  BY <1>5 DEF JobTaken
<1> QED
  BY <1>1, <1>3, <1>4, <1>5, JobMoves DEF JobChange

\* An enabled recurring job whose schedule has a next run has it or is about to get it:
\* whatever empties the next run holds the job in the batch of the loop, and the loop
\* computes it anew.  A schedule without a next run (a period of 0) is no such job.
THEOREM RecurringAliveCorrect == Spec => []RecurringAlive
<1>1. Init => StoresInv /\ LoopsInv /\ RecurringAlive
  BY StoresInit, LoopsInit DEF Init, RecurringAlive
<1>2. StoresInv /\ LoopsInv /\ RecurringAlive /\ [Next]_vars => (StoresInv /\ LoopsInv /\ RecurringAlive)'
  BY StoresStep, LoopsStep, RecurringStep
<1> QED
  BY <1>1, <1>2, PTL DEF Spec

\* Only the clock moves the time, and only checkJobs takes a due time.
LEMMA ClockMoves ==
  ASSUME [Next]_vars
  PROVE  /\ now' = now \/ now' = now + 1
         /\ UNCHANGED <<taken, again>> \/ \E s \in Services, ok \in BOOLEAN : Check(s, ok)
<1>1. CASE Tick \/ Stop \/ Crash \/ UNCHANGED vars
  BY <1>1 DEF Tick, Stop, Crash, history, vars
<1>2. ASSUME NEW ok \in BOOLEAN, Start(ok) PROVE UNCHANGED <<now, taken, again>>
  BY <1>2 DEF Start
<1>3. ASSUME NEW new, NEW ok \in BOOLEAN, UpdateJob(new, ok) PROVE UNCHANGED <<now, taken, again>>
  BY <1>3 DEF UpdateJob
<1>4. ASSUME NEW ok \in BOOLEAN, UpdateStep(ok) PROVE UNCHANGED <<now, taken, again>>
  BY <1>3, <1>4 DEF UpdateStep, UpdateMessage, UpdateSchedule
<1>5. ASSUME NEW s \in Services, NEW ok \in BOOLEAN, EditStep(s, ok) PROVE UNCHANGED <<now, taken, again>>
  BY <1>5 DEF EditStep, AddJob, GetJob, RemoveJob, EnableJob, history
<1>6. ASSUME NEW s \in Services, NEW ok \in BOOLEAN, LoopStep(s, ok)
      PROVE  now' = now /\ (UNCHANGED <<taken, again>> \/ Check(s, ok))
  <2>1. Check(s, ok) => now' = now
    BY DEF Check
  <2> QED
    BY <1>6, <2>1 DEF LoopStep, LoopCompute, LoopWait, LoopExit, CheckStopped, RunJob, history
<1> QED
  BY <1>1, <1>2, <1>4, <1>5, <1>6 DEF Next

LEMMA TakenBy ==
  ASSUME StoresInv, TakenInv, [Next]_vars
  PROVE  /\ DOMAIN taken' = Ids /\ \A i \in Ids : taken'[i] \in 0..now
         /\ now' \in Nat /\ now <= now'
<1>1. now \in 1..Horizon /\ mem \in [Services -> GoodStores]
  BY DEF StoresInv
<1>2. now' = now \/ now' = now + 1
  BY ClockMoves
<1>3. ASSUME NEW s \in Services, NEW ok \in BOOLEAN, Check(s, ok)
      PROVE  DOMAIN taken' = Ids /\ \A i \in Ids : taken'[i] \in 0..now
  <2>1. taken' = [i \in Ids |-> IF i \in Due(mem[s]) THEN mem[s][i].next ELSE taken[i]]
    BY <1>3 DEF Check
  <2>2. \A i \in Due(mem[s]) : mem[s][i].next \in 0..now
    <3> SUFFICES ASSUME NEW i \in Due(mem[s]) PROVE mem[s][i].next \in 0..now
      OBVIOUS
    <3>1. mem[s][i] \in Job /\ mem[s][i].next <= now
      BY <1>1, StoreIs DEF Due
    <3>2. mem[s][i].next \in Nat
      BY <3>1, CronConstants DEF Job
    <3> QED
      BY <1>1, <3>1, <3>2
  <2> QED
    BY <2>1, <2>2 DEF TakenInv
<1>4. taken' = taken \/ \E s \in Services, ok \in BOOLEAN : Check(s, ok)
  BY ClockMoves
<1> QED
  BY <1>1, <1>2, <1>3, <1>4 DEF TakenInv

LEMMA TakenStep == StoresInv /\ LoopsInv /\ TakenInv /\ [Next]_vars => TakenInv'
<1> SUFFICES ASSUME StoresInv, LoopsInv, TakenInv, [Next]_vars PROVE TakenInv'
  OBVIOUS
<1>1. DOMAIN taken' = Ids /\ \A i \in Ids : taken'[i] \in 0..now'
  BY TakenBy DEF StoresInv
<1>2. ASSUME NEW s \in running', NEW i \in DOMAIN mem'[s], <<s, i>> \notin torn', Scheduled(mem'[s][i])
      PROVE  mem'[s][i].next > taken'[i]
  <2>1. s \in Services /\ now \in 1..Horizon /\ mem'[s] \in GoodStores
    BY StoresStep DEF StoresInv
  <2>2. mem'[s][i] \in Job /\ i \in Ids
    BY <2>1, StoreIs
  <2>3. taken'[i] \in 0..now
    BY <2>2, TakenBy
  <2>4. mem'[s][i].enabled /\ mem'[s][i].next # Never
    BY <1>2 DEF Scheduled
  <2>5. CASE SameJob(s, i)
    BY <1>2, <2>4, <2>5 DEF SameJob, TakenInv, Scheduled
  <2>6. CASE Rearmed(s, i)
    <3>1. mem'[s][i].next = NextRun(mem'[s][i].kind, mem'[s][i].arg)
      BY <2>4, <2>6 DEF Rearmed
    <3>2. mem'[s][i].kind \in Kinds /\ mem'[s][i].arg \in Nat
      BY <2>2 DEF Job
    <3>3. mem'[s][i].next \in Nat /\ mem'[s][i].next > now
      BY <2>1, <2>4, <3>1, <3>2, NextRunLater
    <3> QED
      BY <2>1, <2>3, <3>3
  <2>7. CASE JobTaken(s, i)
    BY <2>4, <2>7 DEF JobTaken
  <2> QED
    BY <1>2, <2>1, <2>5, <2>6, <2>7, JobMoves DEF JobChange
<1> QED
  BY <1>1, <1>2 DEF TakenInv

LEMMA AgainStep == StoresInv /\ TakenInv /\ DueTimesTakenOnce /\ [Next]_vars => DueTimesTakenOnce'
<1> SUFFICES ASSUME StoresInv, TakenInv, ~again, [Next]_vars PROVE ~again'
  BY DEF DueTimesTakenOnce
<1>1. ASSUME NEW s \in Services, NEW ok \in BOOLEAN, Check(s, ok) PROVE ~again'
  <2> SUFFICES ASSUME NEW i \in Due(mem[s]), <<s, i>> \notin torn PROVE ~(mem[s][i].next <= taken[i])
    BY <1>1 DEF Check
  <2>1. s \in running /\ i \in DOMAIN mem[s] /\ Scheduled(mem[s][i])
    BY <1>1 DEF Check, Due
  <2>2. mem[s][i].next > taken[i]
    BY <2>1 DEF TakenInv
  <2>3. mem[s][i] \in Job /\ i \in Ids
    BY <2>1, StoreIs DEF StoresInv
  <2>4. mem[s][i].next \in Nat /\ taken[i] \in 0..now /\ now \in Nat
    BY <2>3, CronConstants DEF Job, TakenInv, StoresInv
  <2> QED
    BY <2>2, <2>4
<1>2. again' = again \/ \E s \in Services, ok \in BOOLEAN : Check(s, ok)
  BY ClockMoves
<1> QED
  BY <1>1, <1>2

\* No due time is taken twice, over edits, reloads and crashes: a next run computed anew
\* is later than every due time taken so far, and one that was taken is cleared.
THEOREM DueTimesTakenOnceCorrect == Spec => []DueTimesTakenOnce
<1>1. Init => StoresInv /\ LoopsInv /\ TakenInv /\ DueTimesTakenOnce
  <2>1. Init => TakenInv /\ DueTimesTakenOnce
    BY DEF Init, TakenInv, DueTimesTakenOnce, Never
  <2> QED
    BY <2>1, StoresInit, LoopsInit
<1>2. StoresInv /\ LoopsInv /\ TakenInv /\ DueTimesTakenOnce /\ [Next]_vars
      => (StoresInv /\ LoopsInv /\ TakenInv /\ DueTimesTakenOnce)'
  BY StoresStep, LoopsStep, TakenStep, AgainStep
<1> QED
  BY <1>1, <1>2, PTL DEF Spec

-----------------------------------------------------------------------------
(* The rest of the types *)

\* The counters stay within their bounds, and wake-ups and due times are times, however far.
CountsInv ==
  /\ used \in 0..LastJob /\ edits \in 0..MaxEdits
  /\ wake \in [Services -> Nat] /\ taken \in [Ids -> Nat]
  /\ torn \subseteq Services \X Ids /\ acked \subseteq Ids
  /\ again \in BOOLEAN /\ clobbered \in BOOLEAN

LEMMA LeastIn ==
  ASSUME NEW T, T \subseteq Nat, T # {}
  PROVE  Min(T) \in T
<1>1. PICK x \in T : \A y \in T : ~ (<<y, x>> \in OpToRel(<, Nat))
  BY NatLessThanWellFounded, WFMin
<1>2. \A y \in T : ~ (y < x)
  BY <1>1 DEF OpToRel
<1>3. \A y \in T : x <= y
  BY <1>2
<1> QED
  BY <1>3 DEF Min

\* The alarm is a next run of the store, or an hour from now.
LEMMA AlarmType ==
  ASSUME now \in 1..Horizon, NEW d \in GoodStores
  PROVE  Alarm(d) \in Nat
<1> DEFINE next == {d[i].next : i \in {k \in DOMAIN d : Scheduled(d[k])}}
<1>1. now + Hour \in Nat
  BY CronConstants
<1>2. next \subseteq Nat
  BY StoreIs DEF Job
<1>3. Alarm(d) = IF next = {} THEN now + Hour ELSE Min(next)
  BY DEF Alarm
<1> HIDE DEF next
<1> QED
  BY <1>1, <1>2, <1>3, LeastIn

LEMMA CountsInit == Init => CountsInv
<1> SUFFICES ASSUME Init PROVE CountsInv
  OBVIOUS
<1>1. disk \in GoodStores /\ used = Cardinality(DOMAIN disk) /\ acked = DOMAIN disk
  BY StoresInit DEF Init, StoresInv
<1>2. DOMAIN disk \in SUBSET Ids
  BY <1>1, StoreIs
<1>3. IsFiniteSet(Ids) /\ Cardinality(Ids) = LastJob
  BY CronConstants, FS_Interval DEF Ids
<1>4. used \in 0..LastJob
  BY <1>1, <1>2, <1>3, FS_Subset, FS_CardinalityType, CronConstants
<1>5. Never \in Nat
  BY DEF Never
<1>6. again = FALSE /\ clobbered = FALSE /\ torn = {} /\ edits = 0
      /\ wake = [s \in Services |-> Never] /\ taken = [i \in Ids |-> Never]
  BY DEF Init
<1>7. wake \in [Services -> Nat] /\ taken \in [Ids -> Nat] /\ edits \in 0..MaxEdits
  BY <1>5, <1>6, CronConstants
<1> QED
  BY <1>1, <1>2, <1>4, <1>6, <1>7 DEF CountsInv

\* A step that only counts: nothing but a save, an edit or a new job.
LEMMA CountsFrame ==
  ASSUME CountsInv, UNCHANGED <<wake, taken, again>>, used' = used \/ (used < LastJob /\ used' = used + 1),
         edits' = edits \/ (edits < MaxEdits /\ edits' = edits + 1),
         torn' \subseteq Services \X Ids, acked' \subseteq Ids,
         clobbered' = clobbered \/ \E s \in Services, ok \in BOOLEAN : clobbered' = (clobbered \/ (ok /\ s # cur))
  PROVE  CountsInv'
<1>1. clobbered' \in BOOLEAN /\ again' \in BOOLEAN
  BY Zenon DEF CountsInv
<1>2. used' \in 0..LastJob /\ edits' \in 0..MaxEdits
  BY CronConstants DEF CountsInv
<1> QED
  BY <1>1, <1>2 DEF CountsInv

LEMMA CountsEdit ==
  ASSUME StoresInv, CountsInv, NEW s \in Services, NEW ok \in BOOLEAN, EditStep(s, ok)
  PROVE  CountsInv'
<1>1. torn \subseteq Services \X Ids /\ acked \subseteq Ids /\ used \in 0..LastJob
  BY DEF CountsInv
<1>2. ASSUME NEW kind \in Kinds, NEW d \in Delays, AddJob(s, kind, d, ok) PROVE CountsInv'
  <2>1. used + 1 \in Ids
    BY <1>1, <1>2, CronConstants DEF AddJob, Ids
  <2>2. acked' \subseteq Ids /\ torn' = torn
    BY <1>1, <1>2, <2>1 DEF AddJob
  <2> QED
    BY <1>1, <1>2, <2>2, CountsFrame DEF AddJob, Edit, Save
<1>3. ASSUME NEW i \in Ids, GetJob(s, i) PROVE CountsInv'
  BY <1>1, <1>3, CountsFrame DEF GetJob, loops, history
<1>4. ASSUME NEW i \in Ids, RemoveJob(s, i, ok) PROVE CountsInv'
  BY <1>1, <1>4, CountsFrame DEF RemoveJob, Edit, Save
<1>5. ASSUME NEW i \in Ids, NEW on \in BOOLEAN, EnableJob(s, i, on, ok) PROVE CountsInv'
  <2>1. torn' \subseteq torn /\ acked' = acked
    BY <1>5 DEF EnableJob
  <2> QED
    BY <1>1, <1>5, <2>1, CountsFrame DEF EnableJob, Edit, Save
<1> QED
  BY <1>2, <1>3, <1>4, <1>5 DEF EditStep

LEMMA CountsUpdate ==
  ASSUME StoresInv, CountsInv, NEW new, NEW ok \in BOOLEAN, UpdateJob(new, ok)
  PROVE  CountsInv'
<1>1. clone.svc \in Services /\ clone.id \in Ids
  BY DEF StoresInv, UpdateJob
<1>2. /\ torn' = torn \/ torn' = torn \cup {<<clone.svc, clone.id>>}
      /\ clobbered' = clobbered \/ clobbered' = (clobbered \/ (ok /\ clone.svc # cur))
      /\ UNCHANGED <<wake, used, taken, again, acked>> /\ edits < MaxEdits /\ edits' = edits + 1
  BY DEF UpdateJob, Save, Edit
<1>3. torn' \subseteq Services \X Ids /\ acked' \subseteq Ids
  BY <1>1, <1>2 DEF CountsInv
<1> QED
  BY <1>1, <1>2, <1>3, CountsFrame

LEMMA CountsLoop ==
  ASSUME StoresInv, LoopsInv, CountsInv, NEW s \in Services, NEW ok \in BOOLEAN, LoopStep(s, ok)
  PROVE  CountsInv'
<1>1. /\ torn \subseteq Services \X Ids /\ acked \subseteq Ids /\ wake \in [Services -> Nat] /\ taken \in [Ids -> Nat]
      /\ now \in 1..Horizon /\ mem[s] \in GoodStores
  BY DEF CountsInv, StoresInv
<1>2. CASE LoopWait(s) \/ LoopExit(s) \/ CheckStopped(s)
  BY <1>1, <1>2, CountsFrame DEF LoopWait, LoopExit, CheckStopped, history
<1>3. CASE LoopCompute(s)
  <2>1. wake' = [wake EXCEPT ![s] = Alarm(mem[s])] /\ UNCHANGED <<used, edits, taken, again, torn, acked, clobbered>>
    BY <1>3 DEF LoopCompute, history
  <2>2. wake' \in [Services -> Nat]
    BY <1>1, <2>1, AlarmType
  <2>3. clobbered' \in BOOLEAN /\ again' \in BOOLEAN
    BY <2>1, Zenon DEF CountsInv
  <2> QED
    BY <2>1, <2>2, <2>3 DEF CountsInv
<1>4. CASE Check(s, ok)
  <2>1. /\ taken' = [i \in Ids |-> IF i \in Due(mem[s]) THEN mem[s][i].next ELSE taken[i]]
        /\ again' = (again \/ \E i \in Due(mem[s]) : <<s, i>> \notin torn /\ mem[s][i].next <= taken[i])
        /\ clobbered' = (clobbered \/ (ok /\ s # cur)) /\ UNCHANGED <<used, edits, wake, torn, acked>>
    BY <1>4 DEF Check, Save
  <2>2. \A i \in Due(mem[s]) : mem[s][i].next \in Nat
    BY <1>1, StoreIs DEF Due, Job
  <2>3. taken' \in [Ids -> Nat]
    BY <1>1, <2>1, <2>2
  <2>4. clobbered' \in BOOLEAN
    BY <2>1, Zenon
  <2>5. again' \in BOOLEAN
    BY <2>1, Zenon
  <2> QED
    BY <2>1, <2>3, <2>4, <2>5 DEF CountsInv
<1>5. CASE RunJob(s, ok)
  <2>1. /\ clobbered' = clobbered \/ clobbered' = (clobbered \/ (ok /\ s # cur))
        /\ torn' \subseteq torn /\ acked' \subseteq acked /\ UNCHANGED <<wake, used, edits, taken, again>>
    BY <1>5 DEF RunJob, Save
  <2> QED
    BY <1>1, <2>1, CountsFrame
<1> QED
  BY <1>2, <1>3, <1>4, <1>5 DEF LoopStep

LEMMA CountsStep == StoresInv /\ LoopsInv /\ CountsInv /\ [Next]_vars => CountsInv'
<1> SUFFICES ASSUME StoresInv, LoopsInv, CountsInv, [Next]_vars PROVE CountsInv'
  OBVIOUS
<1>1. torn \subseteq Services \X Ids /\ acked \subseteq Ids
  BY DEF CountsInv
<1>2. CASE Tick \/ Stop \/ UNCHANGED vars
  BY <1>1, <1>2, CountsFrame DEF Tick, Stop, history, loops, vars
<1>3. CASE Crash
  <2>1. wake' = [s \in Services |-> Never] /\ UNCHANGED <<used, edits, taken, again, torn, acked, clobbered>>
    BY <1>3 DEF Crash, history
  <2>2. wake' \in [Services -> Nat]
    BY <2>1 DEF Never
  <2>3. clobbered' \in BOOLEAN /\ again' \in BOOLEAN
    BY <2>1, Zenon DEF CountsInv
  <2> QED
    BY <2>1, <2>2, <2>3 DEF CountsInv
<1>4. ASSUME NEW ok \in BOOLEAN, Start(ok) PROVE CountsInv'
  <2>1. UNCHANGED <<wake, used, edits, taken, again, torn>> /\ clobbered' = FALSE /\ acked' \subseteq acked
    BY <1>4 DEF Start
  <2>2. clobbered' \in BOOLEAN
    BY <2>1, Zenon
  <2>3. again' \in BOOLEAN
    BY <2>1, Zenon DEF CountsInv
  <2> QED
    BY <2>1, <2>2, <2>3 DEF CountsInv
<1>5. ASSUME NEW ok \in BOOLEAN, UpdateStep(ok) PROVE CountsInv'
  BY <1>5, CountsUpdate DEF UpdateStep, UpdateMessage, UpdateSchedule
<1> QED
  BY <1>2, <1>3, <1>4, <1>5, CountsEdit, CountsLoop DEF Next

\* Every store, in the file or in the memory of a service, old ones included, holds jobs of
\* the right form; wake-ups and due times are times, the loop holds known jobs, and only
\* the service that the gateway holds counts as running.
THEOREM TypeCorrect == Spec => []TypeOK
<1>1. Init => StoresInv /\ LoopsInv /\ CountsInv
  BY StoresInit, LoopsInit, CountsInit
<1>2. StoresInv /\ LoopsInv /\ CountsInv /\ [Next]_vars => (StoresInv /\ LoopsInv /\ CountsInv)'
  BY StoresStep, LoopsStep, CountsStep
<1>3. StoresInv /\ LoopsInv /\ CountsInv => TypeOK
  <2> SUFFICES ASSUME StoresInv, LoopsInv, CountsInv PROVE TypeOK
    OBVIOUS
  <2>2. \A d \in GoodStores : IsStore(d)
    BY StoreIs DEF IsStore
  <2>3. IsStore(disk) /\ DOMAIN mem = Services /\ \A s \in Services : IsStore(mem[s])
    BY <2>2 DEF StoresInv
  <2>4. cur \in 0..LastService /\ made \in 0..LastService
    BY CronConstants DEF StoresInv
  <2>5. clone = NoClone \/ (clone.svc \in Services /\ clone.id \in Ids /\ clone.base \in Job)
    BY DEF StoresInv
  <2>6. again \in BOOLEAN /\ clobbered \in BOOLEAN
    BY Zenon DEF CountsInv
  <2> QED
    BY <2>3, <2>4, <2>5, <2>6 DEF TypeOK, StoresInv, LoopsInv, CountsInv
<1> QED
  BY <1>1, <1>2, <1>3, PTL DEF Spec
=============================================================================
