----------------------------- MODULE CronService -----------------------------
(***************************************************************************)
(* The cron service (src/core/src/pkg/cron/service.go), the edits of its   *)
(* tool (pkg/tools/cron.go) and its restarts by the gateway                *)
(* (pkg/gateway/gateway.go: stopAndCleanupServices, restartServices).      *)
(*                                                                         *)
(* A configuration reload stops one CronService and makes another on the   *)
(* same file; the loop of the old one still runs the jobs it has taken,    *)
(* and turns of old agents still edit the old one.  Services are numbered  *)
(* in the order they are made, jobs in the order they are added, which is  *)
(* their order in the store.  Time is a counter of ticks from 1.           *)
(***************************************************************************)
EXTENDS Integers, FiniteSets, FiniteSetsExt

CONSTANTS LastJob,      \* bound: jobs 1..LastJob
          LastService,  \* bound: services 1..LastService are ever made
          Horizon,      \* bound: the clock stops here
          EditUntil,    \* bound: edits happen until then
          MaxEdits,     \* bound: their number
          Hour,         \* the sleep of a loop that sees no next run
          Delays,       \* at_seconds and every_seconds of the edits, 0 when below one
          Stores,       \* what jobs.json may hold before the first start
          MayFail       \* whether WriteFileAtomic may return an error

Ids == 1..LastJob
Services == 1..LastService
Never == 0
Kinds == {"at", "every"}
Job == [kind : Kinds, arg : Nat, enabled : BOOLEAN, next : Nat, del : BOOLEAN]
IsStore(d) == DOMAIN d \subseteq Ids /\ d \in [DOMAIN d -> Job]

ASSUME CronConstants ==
  /\ LastJob \in Nat /\ LastService \in Nat \ {0} /\ MaxEdits \in Nat
  /\ Hour \in Nat \ {0} /\ EditUntil \in Nat /\ Horizon \in Nat \ {0}
  /\ Delays \subseteq Nat /\ (\A d \in Stores : IsStore(d)) /\ MayFail \in BOOLEAN

VARIABLES
  now,        \* the clock
  disk,       \* jobs.json
  mem,        \* store.Jobs of each service
  cur,        \* the service the gateway holds, or 0: no process
  alive,      \* the services made by this process
  made,       \* number of services made so far
  running,    \* services whose running flag is set
  loop,       \* where runLoop of each service is
  wake,       \* when its timer fires
  batch,      \* dueJobIDs: what its checkJobs still has to run
  clone,      \* the copy GetJob gave to an update in progress, or NoClone
  used, edits,           \* jobs and edits so far
  taken, again,          \* history: last due time a loop took of each job; one was taken again
  torn,                  \* history: jobs of a service whose next run is from an old copy
  acked, clobbered       \* history: jobs an AddJob reported; a stopped service saved

vars == <<now, disk, mem, cur, alive, made, running, loop, wake, batch, clone, used, edits,
          taken, again, torn, acked, clobbered>>
process == <<cur, alive, made, running>>
loops == <<loop, wake, batch>>
history == <<taken, again, torn, acked, clobbered>>

NoClone == [svc |-> 0]
EmptyStore == [i \in {} |-> 0]

Init ==
  /\ now = 1 /\ disk \in Stores
  /\ mem = [s \in Services |-> EmptyStore]
  /\ cur = 0 /\ alive = {} /\ made = 0 /\ running = {}
  /\ loop = [s \in Services |-> "off"] /\ wake = [s \in Services |-> Never]
  /\ batch = [s \in Services |-> {}]
  /\ clone = NoClone /\ used = Cardinality(DOMAIN disk) /\ edits = 0
  /\ taken = [i \in Ids |-> Never] /\ again = FALSE /\ torn = {} /\ acked = DOMAIN disk /\ clobbered = FALSE

-----------------------------------------------------------------------------
\* Mutant: a time that is just now counts as to come.
NotPast(kind, arg) ==
  IF kind = "at" THEN (IF arg >= now THEN arg ELSE Never) ELSE IF arg > 0 THEN now + arg ELSE Never

\* computeNextRun, for "every" and "cron" alike: a cron expression behaves as a period,
\* and one that cannot be parsed, or that no later time matches, as the period 0, which
\* int64(everySeconds) * 1000 is for half a second.
NextRun(kind, arg) ==
  IF kind = "at" THEN (IF arg > now THEN arg ELSE Never) ELSE IF arg > 0 THEN now + arg ELSE Never

Rescheduled(j) == [j EXCEPT !.next = NextRun(j.kind, j.arg)]

Scheduled(j) == j.enabled /\ j.next # Never
Due(store) == {i \in DOMAIN store : Scheduled(store[i]) /\ store[i].next <= now}

\* Mutant: with nothing to wait for the loop waits for a wake-up only.
NoAlarm(store) ==
  LET next == {store[i].next : i \in {k \in DOMAIN store : Scheduled(store[k])}}
  IN  IF next = {} THEN Horizon + 1 ELSE Min(next)

\* getNextWakeMS: the first next run, however far it is, or an hour when there is none.
Alarm(store) ==
  LET next == {store[i].next : i \in {k \in DOMAIN store : Scheduled(store[k])}}
  IN  IF next = {} THEN now + Hour ELSE Min(next)

Without(store, I) == [i \in DOMAIN store \ I |-> store[i]]
With(store, i, j) == [k \in DOMAIN store \cup {i} |-> IF k = i THEN j ELSE store[k]]

\* saveStoreUnsafe of service s: an atomic write of the whole store, or none.
Save(s, store, ok) ==
  /\ ok \/ MayFail
  /\ disk' = IF ok THEN store ELSE disk
  /\ clobbered' = (clobbered \/ (ok /\ s # cur))

\* notify: the send succeeds only while the loop waits in its select, so a
\* wake-up at any other point of the loop is lost.
Notified(s) == IF loop[s] = "select" THEN [loop EXCEPT ![s] = "compute"] ELSE loop

Goto(s, line) == loop' = [loop EXCEPT ![s] = line]

-----------------------------------------------------------------------------
Tick == now < Horizon /\ now' = now + 1
        /\ UNCHANGED <<disk, mem, process, loops, clone, used, edits, history>>

\* recomputeNextRuns: of the enabled jobs only.
Recomputed(store) ==
  [i \in DOMAIN store |->
     IF store[i].enabled THEN Rescheduled(store[i]) ELSE store[i]]

\* NewCronService and Start, at boot and after the Stop of a reload: the store
\* is loaded, recomputed and saved; with a failing save the loop is not started.
Start(ok) ==
  LET s == made + 1
  IN  /\ made < LastService /\ cur \notin running
      /\ made' = s /\ cur' = s /\ alive' = alive \cup {s}
      /\ mem' = [mem EXCEPT ![s] = Recomputed(disk)]
      /\ ok \/ MayFail
      /\ disk' = IF ok THEN mem'[s] ELSE disk
      /\ running' = IF ok THEN running \cup {s} ELSE running
      /\ loop' = IF ok THEN [loop EXCEPT ![s] = "compute"] ELSE loop
      /\ acked' = IF clobbered THEN acked \cap DOMAIN disk ELSE acked
      /\ clobbered' = FALSE
      /\ UNCHANGED <<now, wake, batch, clone, used, edits, taken, again, torn>>

\* Stop: the jobs the loop has taken go on.
Stop ==
  /\ cur \in running
  /\ running' = running \ {cur}
  /\ UNCHANGED <<now, disk, mem, cur, alive, made, loops, clone, used, edits, history>>

\* The process dies.
Crash ==
  /\ cur # 0 /\ cur' = 0 /\ alive' = {} /\ running' = {}
  /\ mem' = [s \in Services |-> EmptyStore]
  /\ loop' = [s \in Services |-> "off"] /\ batch' = [s \in Services |-> {}]
  /\ wake' = [s \in Services |-> Never] /\ clone' = NoClone
  /\ UNCHANGED <<now, disk, made, used, edits, history>>

-----------------------------------------------------------------------------
\* runLoop: the next wake-up is read under the lock, and waited for without.
LoopCompute(s) ==
  /\ loop[s] = "compute" /\ Goto(s, "armed")
  /\ wake' = [wake EXCEPT ![s] = Alarm(mem[s])]
  /\ UNCHANGED <<now, disk, mem, process, batch, clone, used, edits, history>>

LoopWait(s) ==
  /\ loop[s] = "armed" /\ Goto(s, "select")
  /\ UNCHANGED <<now, disk, mem, process, wake, batch, clone, used, edits, history>>

LoopExit(s) ==
  /\ loop[s] = "select" /\ s \notin running /\ Goto(s, "off")
  /\ UNCHANGED <<now, disk, mem, process, wake, batch, clone, used, edits, history>>

TimerFired(s) == loop[s] = "select" /\ wake[s] <= now

\* checkJobs of a service that was stopped meanwhile.
CheckStopped(s) ==
  /\ TimerFired(s) /\ s \notin running /\ Goto(s, "compute")
  /\ UNCHANGED <<now, disk, mem, process, wake, batch, clone, used, edits, history>>

Cleared(store, I) == [i \in DOMAIN store |-> IF i \in I THEN [store[i] EXCEPT !.next = Never] ELSE store[i]]

\* checkJobs: takes the due jobs, clears their due times and saves.  The timer
\* and the lock are one step: an edit between them acts as one before both.
Check(s, ok) ==
  LET due == Due(mem[s])
  IN  /\ TimerFired(s) /\ s \in running
      /\ mem' = [mem EXCEPT ![s] = Cleared(mem[s], due)]
      /\ Save(s, mem'[s], ok)
      /\ batch' = [batch EXCEPT ![s] = due]
      /\ Goto(s, IF due = {} THEN "compute" ELSE "run")
      /\ taken' = [i \in Ids |-> IF i \in due THEN mem[s][i].next ELSE taken[i]]
      /\ again' = (again \/ \E i \in due : <<s, i>> \notin torn /\ mem[s][i].next <= taken[i])
      /\ UNCHANGED <<now, process, wake, clone, used, edits, torn, acked>>

\* Mutant: a recurring job is not scheduled again.
NotRearmed(j) == IF j.kind = "at" THEN [j EXCEPT !.enabled = FALSE, !.next = Never] ELSE j

\* The job as it is stored after its run, when it is kept: a one-time job is
\* disabled, another one gets its next run even if it was disabled meanwhile.
AfterRun(j) == IF j.kind = "at" THEN [j EXCEPT !.enabled = FALSE, !.next = Never] ELSE Rescheduled(j)

\* executeJobByID of the first job taken: its handler is running, whether or
\* not the job is still enabled, and returns, with or without an error.  A job
\* that was removed, before or meanwhile, is left alone.
RunJob(s, ok) ==
  LET i    == Min(batch[s])
      gone == i \notin DOMAIN mem[s]
      done == ~gone /\ mem[s][i].kind = "at" /\ mem[s][i].del
  IN  /\ loop[s] = "run"
      /\ mem' = [mem EXCEPT ![s] = IF gone THEN @ ELSE IF done THEN Without(@, {i})
                                   ELSE With(@, i, AfterRun(@[i]))]
      /\ IF gone THEN ok /\ UNCHANGED <<disk, clobbered>> ELSE Save(s, mem'[s], ok)
      /\ batch' = [batch EXCEPT ![s] = @ \ {i}]
      /\ Goto(s, IF batch[s] = {i} THEN "compute" ELSE "run")
      /\ torn' = torn \ {<<s, i>>} /\ acked' = IF done THEN acked \ {i} ELSE acked
      /\ UNCHANGED <<now, process, wake, clone, used, edits, taken, again>>

-----------------------------------------------------------------------------
\* Edits: of the service the gateway holds, or, by a turn of an old agent, of
\* one it has stopped.
MayEdit(s) == s \in alive
Edit == edits < MaxEdits /\ now <= EditUntil /\ edits' = edits + 1

\* A schedule the tool accepts: at_seconds or every_seconds from now.
Schedule(kind, d) == [kind |-> kind, arg |-> IF kind = "at" THEN now + d ELSE d, del |-> kind = "at"]

\* Mutant: AddJob answers before the store is written.
AnswerFirst(ok) == ok \/ MayFail

Acknowledged(ok) == ok

NewJob(kind, d) ==
  LET sched == Schedule(kind, d)
  IN  [kind |-> kind, arg |-> sched.arg, del |-> sched.del, enabled |-> TRUE, next |-> Never]

\* AddJob: with a failing save the caller gets an error and the job stays.
AddJob(s, kind, d, ok) ==
  LET i == used + 1
  IN  /\ MayEdit(s) /\ Edit /\ used < LastJob
      /\ used' = i
      /\ mem' = [mem EXCEPT ![s] = With(@, i, Rescheduled(NewJob(kind, d)))]
      /\ Save(s, mem'[s], ok)
      /\ loop' = IF ok THEN Notified(s) ELSE loop
      /\ acked' = IF Acknowledged(ok) THEN acked \cup {i} ELSE acked
      /\ UNCHANGED <<now, process, wake, batch, clone, taken, again, torn>>

\* GetJob at the start of the tool's update (and the job AddJob returns).
GetJob(s, i) ==
  /\ MayEdit(s) /\ edits < MaxEdits /\ now <= EditUntil /\ clone = NoClone
  /\ i \in DOMAIN mem[s]
  /\ clone' = [svc |-> s, id |-> i, base |-> mem[s][i]]
  /\ UNCHANGED <<now, disk, mem, process, loops, used, edits, history>>

\* The job UpdateJob stores in place of old.
Merged(old, new) ==
  IF ~new.enabled THEN [new EXCEPT !.next = Never]
  ELSE IF old.enabled # new.enabled \/ old.kind # new.kind \/ old.arg # new.arg THEN Rescheduled(new)
  ELSE new

\* UpdateJob with the copy of GetJob, its message or its schedule changed.
UpdateJob(new, ok) ==
  LET s == clone.svc
      i == clone.id
      old == mem[s][i]
      stale == Merged(old, new) = new /\ new.enabled /\ clone.base # old
  IN  /\ clone # NoClone /\ Edit /\ clone' = NoClone
      /\ IF i \in DOMAIN mem[s]
           THEN /\ mem' = [mem EXCEPT ![s] = With(@, i, Merged(old, new))]
                /\ loop' = Notified(s) /\ Save(s, mem'[s], ok)
                /\ torn' = IF stale THEN torn \cup {<<s, i>>} ELSE torn
           ELSE ok /\ UNCHANGED <<mem, loop, disk, clobbered, torn>>
      /\ UNCHANGED <<now, process, wake, batch, used, taken, again, acked>>

UpdateMessage(ok) == clone # NoClone /\ UpdateJob(clone.base, ok)
UpdateSchedule(kind, d, ok) ==
  clone # NoClone /\ LET sched == Schedule(kind, d)
                     IN UpdateJob([clone.base EXCEPT !.kind = sched.kind, !.arg = sched.arg,
                                                     !.del = sched.del], ok)

RemoveJob(s, i, ok) ==
  /\ MayEdit(s) /\ Edit /\ i \in DOMAIN mem[s]
  /\ mem' = [mem EXCEPT ![s] = Without(@, {i})]
  /\ Save(s, mem'[s], ok) /\ loop' = Notified(s)
  /\ acked' = acked \ {i}
  /\ UNCHANGED <<now, process, wake, batch, clone, used, taken, again, torn>>

EnableJob(s, i, on, ok) ==
  /\ MayEdit(s) /\ Edit /\ i \in DOMAIN mem[s]
  /\ mem' = [mem EXCEPT ![s] = With(@, i, LET j == [@[i] EXCEPT !.enabled = on]
                                          IN IF on THEN Rescheduled(j) ELSE [j EXCEPT !.next = Never])]
  /\ Save(s, mem'[s], ok) /\ loop' = Notified(s)
  /\ torn' = torn \ {<<s, i>>}
  /\ UNCHANGED <<now, process, wake, batch, clone, used, taken, again, acked>>

-----------------------------------------------------------------------------
LoopStep(s, ok) ==
  \/ LoopCompute(s) \/ LoopWait(s) \/ LoopExit(s)
  \/ CheckStopped(s) \/ Check(s, ok) \/ RunJob(s, ok)
EditStep(s, ok) ==
  \/ \E kind \in Kinds, d \in Delays : AddJob(s, kind, d, ok)
  \/ \E i \in Ids : GetJob(s, i) \/ RemoveJob(s, i, ok)
  \/ \E i \in Ids, on \in BOOLEAN : EnableJob(s, i, on, ok)
UpdateStep(ok) ==
  UpdateMessage(ok) \/ \E kind \in Kinds, d \in Delays : UpdateSchedule(kind, d, ok)

Next ==
  \/ Tick \/ Stop \/ Crash
  \/ \E ok \in BOOLEAN :
       \/ Start(ok) \/ UpdateStep(ok)
       \/ \E s \in Services : LoopStep(s, ok) \/ EditStep(s, ok)

Spec == Init /\ [][Next]_vars

\* Time passes, the loop goes on and a handler returns.
Fairness ==
  /\ WF_vars(Tick)
  /\ \A s \in Services : WF_vars(\E ok \in BOOLEAN : LoopStep(s, ok))
FairSpec == Spec /\ Fairness

-----------------------------------------------------------------------------
TypeOK ==
  /\ now \in 1..Horizon
  /\ IsStore(disk)
  /\ DOMAIN mem = Services /\ \A s \in Services : IsStore(mem[s])
  /\ cur \in 0..LastService /\ made \in 0..LastService
  /\ alive \subseteq Services /\ running \subseteq {cur}
  /\ loop \in [Services -> {"off", "compute", "armed", "select", "run"}]
  /\ wake \in [Services -> Nat]
  /\ batch \in [Services -> SUBSET Ids]
  /\ clone = NoClone \/ (clone.svc \in Services /\ clone.id \in Ids /\ clone.base \in Job)
  /\ used \in 0..LastJob /\ edits \in 0..MaxEdits
  /\ taken \in [Ids -> Nat] /\ again \in BOOLEAN
  /\ torn \subseteq Services \X Ids /\ acked \subseteq Ids /\ clobbered \in BOOLEAN

\* No due time of a job is taken twice, by the loop of whatever service, over
\* edits, restarts and crashes ("to avoid duplicate execution"); the exception
\* is a next run that an update brought back with an old copy of the job.
DueTimesTakenOnce == ~again

\* An enabled recurring job whose schedule has a next run (its period is not 0) has it,
\* in the service that runs, or its loop has taken it and will give it one: it does not
\* die while edits, runs and reloads cross, again unless an update has stored the empty
\* next run of an old copy.
RecurringAlive ==
  \A s \in running : \A i \in DOMAIN mem[s] :
    LET j == mem[s][i]
    IN  <<s, i>> \notin torn /\ j.enabled /\ j.kind = "every" /\ j.arg > 0 /\ j.next = Never
        => i \in batch[s]

\* A job that AddJob reported, and that was neither removed nor deleted after
\* its run, is in the file and in the memory of the service the gateway holds,
\* over failing saves, crashes and reloads, as long as no stopped service has
\* written its own jobs over those of its successor.
JobsKept ==
  ~clobbered => \A i \in acked : i \in DOMAIN disk /\ (cur # 0 => i \in DOMAIN mem[cur])

Waiting(i) ==
  /\ cur \in running /\ i \in DOMAIN mem[cur]
  /\ i \in Due(mem[cur]) \cup batch[cur]

\* A job whose time has come is run although wake-ups are lost: the loop sleeps until the
\* next run it knew of (an hour when it knew none), however far that is, sees the job then
\* and runs it, late.
DueJobsRun == \A i \in Ids : Waiting(i) ~> ~Waiting(i)
=============================================================================
