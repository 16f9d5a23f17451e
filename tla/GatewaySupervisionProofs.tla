---------------------- MODULE GatewaySupervisionProofs ----------------------
(***************************************************************************)
(* Proofs about GatewaySupervision, for every number of processes, turns,  *)
(* attempts, polls and inputs.                                             *)
(*                                                                         *)
(* CallInv says which lines a call reaches with which result, WorkInv that *)
(* one call at a time restarts the gateway for a configuration.            *)
(* SignatureInv and SparedInv are the reasons why a stale gateway shows    *)
(* and why no turn is cut short.                                           *)
(***************************************************************************)
EXTENDS GatewaySupervision, FiniteSetTheorems, TLAPS

\* There is a supervisor exactly while the flag says so; the user's restart
\* takes no other path; a result is there only on the way to its reader.
CallOK(c) ==
  /\ c = "supervisor" => (park.supervised <=> call[c].pc # "idle")
  /\ c = "manual" => call[c].pc \in {"idle", "prepare", "signal", "exit", "start"}
  /\ call[c].res # "none" => call[c].pc \in {"park", "leave", "report"}
  /\ call[c].pc = "park" => call[c].res = "busy" \/ (call[c].res = "none" /\ c # "supervisor")
CallInv == \A c \in Calls : CallOK(c)

\* WaitersAnswered without counting.
WorkInv ==
  /\ restart.running <=> \E c \in Calls : AtWork(c)
  /\ \A c, d \in Calls : AtWork(c) /\ AtWork(d) => c = d
  /\ restart.waiters = {c \in Calls : call[c].pc = "joined"}
  /\ restart.waiters # {} => restart.running

\* The launcher takes the signature before the process it spawns reads the
\* configuration.
SignatureInv == \A p \in Holders : Tracks(p) => gw.sig <= proc[p].boot

\* One process at a time has the port, and only that one has a turn.
OneHolder ==
  /\ \A p, q \in Holders : p = q
  /\ \A p \in Procs : proc[p].turn # None => p \in Holders

\* Every turn that runs began after the answer a call is about to act on.
SparedInv ==
  \A c \in Requests \cup Appliers :
    call[c].pc \in {"prepare", "signal"} /\ call[c].saw # "down" =>
      \A p \in Procs : proc[p].turn = None \/ proc[p].turn > call[c].asked
-----------------------------------------------------------------------------
(* Types *)

\* What the types of the records rest on, with their ranges left closed.
Ranges ==
  /\ None \in Versions /\ saved \in Versions
  /\ None \in Begun /\ 0 \in Begun /\ turns \in Begun
  /\ None \in Tracked /\ (\A p \in Procs : p \in Tracked) /\ 0 \in Polled
  /\ Resting \in CallType /\ Unborn \in ProcType /\ Nothing \in GatewayType
  /\ \A p \in PidReads : p \in Tracked
  /\ "supervisor" \in Calls /\ "notified" \in Calls /\ "manual" \in Calls
  /\ \A p \in Holders : p \in Procs

LEMMA RangesHold == TypeOK => Ranges
<1> SUFFICES ASSUME TypeOK PROVE Ranges
  OBVIOUS
<1>1. /\ None \in Versions /\ saved \in Versions
      /\ None \in Begun /\ 0 \in Begun /\ turns \in Begun
      /\ None \in Tracked /\ (\A p \in Procs : p \in Tracked) /\ 0 \in Polled
  BY GatewayConstants DEF TypeOK, Versions, Begun, Tracked, Polled, None
<1>2. Resting \in CallType
  BY <1>1 DEF Resting, CallType, Lines
<1>3. Unborn \in ProcType
  BY <1>1 DEF Unborn, ProcType
<1>4. Nothing \in GatewayType
  BY <1>1 DEF Nothing, GatewayType
<1>5. Holder \in Tracked /\ \A p \in Holders : p \in Procs
  BY <1>1 DEF Holder, Holders
<1>6. \A p \in PidReads : p \in Tracked
  BY <1>1, <1>5 DEF PidReads
<1> QED
  BY <1>1, <1>2, <1>3, <1>4, <1>5, <1>6 DEF Ranges, Calls, Requests, Appliers

LEMMA TypeInit == Init => TypeOK
<1> SUFFICES ASSUME Init PROVE TypeOK
  OBVIOUS
<1>1. /\ None \in Versions /\ saved \in Versions /\ None \in Begun /\ 0 \in Begun
      /\ None \in Tracked /\ 1 \in Tracked /\ 0 \in Polled
  BY GatewayConstants DEF Init, Versions, Begun, Tracked, Polled, None, Procs
<1>2. Resting \in CallType
  BY <1>1 DEF Resting, CallType, Lines
<1>3. Unborn \in ProcType /\ [Unborn EXCEPT !.st = "serving", !.boot = saved] \in ProcType
  <2>1. Unborn \in ProcType
    BY <1>1 DEF Unborn, ProcType
  <2> QED
    BY <1>1, <2>1 DEF ProcType
<1>4. Nothing \in GatewayType /\ [Nothing EXCEPT !.cmd = 1, !.status = "running", !.sig = saved] \in GatewayType
  <2>1. Nothing \in GatewayType
    BY <1>1 DEF Nothing, GatewayType
  <2> QED
    BY <1>1, <2>1 DEF GatewayType
<1>6. proc \in [Procs -> ProcType] /\ gw \in GatewayType /\ saved = 1
  BY <1>3, <1>4 DEF Init
<1> QED
  BY <1>1, <1>2, <1>6, GatewayConstants DEF Init, TypeOK

\* The records a step may put in place of a call, a process or the gateway.
LEMMA CallMoves ==
  ASSUME TypeOK, NEW c \in Calls
  PROVE  /\ \A l \in Lines : [call EXCEPT ![c].pc = l] \in [Calls -> CallType]
         /\ call[c] \in CallType
  BY DEF TypeOK, CallType

LEMMA CallSet ==
  ASSUME TypeOK, NEW c \in Calls
  PROVE  \A v \in CallType : [call EXCEPT ![c] = v] \in [Calls -> CallType]
  BY DEF TypeOK

LEMMA CallAt ==
  ASSUME Ranges
  PROVE  \A l \in Lines : [Resting EXCEPT !.pc = l] \in CallType
  BY DEF Ranges, CallType

LEMMA CallWith ==
  ASSUME Ranges
  PROVE  /\ \A l \in Lines, r \in {"none", "busy", "ok", "failed"} :
              [Resting EXCEPT !.pc = l, !.res = r] \in CallType
         /\ \A l \in Lines, o \in {"down", "idle"} :
              [Resting EXCEPT !.pc = l, !.saw = o, !.asked = turns] \in CallType
         /\ \A l \in Lines, p \in Tracked : [Resting EXCEPT !.pc = l, !.prev = p] \in CallType
<1>1. Resting \in CallType /\ turns \in Begun
  BY DEF Ranges
<1>2. \A l \in Lines, r \in {"none", "busy", "ok", "failed"} :
        [Resting EXCEPT !.pc = l, !.res = r] \in CallType
  BY <1>1 DEF CallType
<1>3. \A l \in Lines, o \in {"down", "idle"} :
        [Resting EXCEPT !.pc = l, !.saw = o, !.asked = turns] \in CallType
  BY <1>1 DEF CallType
<1>4. \A l \in Lines, p \in Tracked : [Resting EXCEPT !.pc = l, !.prev = p] \in CallType
  BY <1>1 DEF CallType
<1> QED
  BY <1>2, <1>3, <1>4

LEMMA ProcUpdates ==
  ASSUME TypeOK, Ranges, NEW p \in Procs
  PROVE  /\ \A st \in {"none", "spawned", "serving", "closing", "exited", "failed"} :
              /\ Ended(p, st) \in [Procs -> ProcType]
              /\ [proc EXCEPT ![p] = [Unborn EXCEPT !.st = st]] \in [Procs -> ProcType]
         /\ Terminated(p) \in [Procs -> ProcType]
         /\ [proc EXCEPT ![p].note = FALSE] \in [Procs -> ProcType]
         /\ [proc EXCEPT ![p].st = "serving", ![p].boot = saved] \in [Procs -> ProcType]
         /\ [proc EXCEPT ![p].turn = None, ![p].note = TRUE] \in [Procs -> ProcType]
<1>1. /\ proc \in [Procs -> ProcType] /\ proc[p] \in ProcType /\ Unborn \in ProcType
      /\ saved \in Versions /\ None \in Begun
  BY DEF TypeOK, Ranges
<1>2. \A st \in {"none", "spawned", "serving", "closing", "exited", "failed"} :
        /\ [Unborn EXCEPT !.st = st, !.note = proc[p].note] \in ProcType
        /\ [Unborn EXCEPT !.st = st] \in ProcType
  BY <1>1 DEF ProcType
<1>3. \A st \in {"none", "spawned", "serving", "closing", "exited", "failed"} :
        Ended(p, st) \in [Procs -> ProcType]
  BY <1>1, <1>2 DEF Ended
<1>4. [proc EXCEPT ![p].st = "closing"] \in [Procs -> ProcType]
  BY <1>1 DEF ProcType
<1>5. Terminated(p) \in [Procs -> ProcType]
  BY <1>3, <1>4 DEF Terminated
<1>6. [proc EXCEPT ![p].note = FALSE] \in [Procs -> ProcType]
  BY <1>1 DEF ProcType
<1>7. [proc EXCEPT ![p].st = "serving", ![p].boot = saved] \in [Procs -> ProcType]
  BY <1>1 DEF ProcType
<1>8. [proc EXCEPT ![p].turn = None, ![p].note = TRUE] \in [Procs -> ProcType]
  BY <1>1 DEF ProcType
<1> QED
  BY <1>1, <1>2, <1>3, <1>5, <1>6, <1>7, <1>8

LEMMA GatewayUpdates ==
  ASSUME TypeOK, Ranges
  PROVE  /\ \A p \in Tracked : /\ Adopted(p) \in GatewayType /\ Reconciled(p) \in GatewayType
                               /\ Degraded(Reconciled(p)) \in GatewayType
         /\ Degraded(gw) \in GatewayType
         /\ \A g \in GatewayType, st \in {"stopped", "starting", "running", "restarting", "error"} :
              [g EXCEPT !.status = st] \in GatewayType
<1>1. gw \in GatewayType /\ saved \in Versions /\ None \in Tracked /\ None \in Versions
  BY DEF TypeOK, Ranges
<1>2. \A g \in GatewayType : Degraded(g) \in GatewayType
  BY <1>1 DEF Degraded, GatewayType
<1>3. \A p \in Tracked : Adopted(p) \in GatewayType
  BY <1>1 DEF Adopted, GatewayType
<1>4. \A p \in Tracked : Reconciled(p) \in GatewayType
  BY <1>1, <1>3 DEF Reconciled
<1>5. \A g \in GatewayType, st \in {"stopped", "starting", "running", "restarting", "error"} :
        [g EXCEPT !.status = st] \in GatewayType
  BY DEF GatewayType
<1> QED
  BY <1>1, <1>2, <1>3, <1>4, <1>5


LEMMA TypeFrame ==
  ASSUME TypeOK, UNCHANGED <<saved, turns, inputs>>,
         call' \in [Calls -> CallType], gw' \in GatewayType, proc' \in [Procs -> ProcType],
         token' \in Tracked, attempts' \in Nat,
         park' \in [waits : BOOLEAN, error : BOOLEAN, supervised : BOOLEAN, applying : BOOLEAN],
         restart' \in [running : BOOLEAN, waiters : SUBSET Calls]
  PROVE  TypeOK'
<1>1. /\ ProcType' = ProcType /\ GatewayType' = GatewayType /\ CallType' = CallType
      /\ Tracked' = Tracked
  BY DEF Versions, Begun, ProcType, GatewayType, CallType, Tracked, Polled, Lines
<1> QED
  BY <1>1 DEF TypeOK

\* The steps of a call, by what they change besides it.
LEMMA CallsKeepType ==
  ASSUME TypeOK, Ranges, NEW c \in Calls, CallStep(c)
  PROVE  call' \in [Calls -> CallType]
<1>1. CASE Ask(c)
  <2>1. \E l \in Lines : call' = [call EXCEPT ![c].pc = l]
    BY <1>1 DEF Ask, IdleNow, Go, Lines
  <2> QED
    BY <2>1, CallMoves
<1>2. CASE AskBusy(c)
  <2>1. CASE \E l \in Lines : call' = [call EXCEPT ![c].pc = l]
    BY <2>1, CallMoves
  <2>2. CASE Again
    BY <2>2, CallSet, CallAt DEF Again, Lines, Ranges
  <2> QED
    BY <1>2, <2>1, <2>2 DEF AskBusy, IdleNow, NotIdleNow, Go, Lines
<1>3. CASE Park(c)
  <2>1. PICK l \in Lines : \/ call' = [call EXCEPT ![c].pc = l]
                          \/ call' = [[call EXCEPT ![c].pc = l] EXCEPT !["supervisor"] = [Resting EXCEPT !.pc = "check"]]
    BY <1>3 DEF Park, Lines
  <2>2. [call EXCEPT ![c].pc = l] \in [Calls -> CallType]
    BY CallMoves
  <2>3. [Resting EXCEPT !.pc = "check"] \in CallType
    BY CallAt DEF Lines
  <2> QED
    BY <2>1, <2>2, <2>3 DEF Ranges
<1>4. CASE Request(c)
  <2>1. \E l \in Lines : \/ call' = [call EXCEPT ![c].pc = l]
                        \/ call' = [call EXCEPT ![c] = [Resting EXCEPT !.pc = l]]
    BY <1>4 DEF Request, Go, Lines
  <2> QED
    BY <2>1, CallMoves, CallSet, CallAt
<1>o. ASSUME NEW o \in {"down", "idle", "busy_timeout", "unverified"}, Outcome(c, o)
      PROVE  call' \in [Calls -> CallType]
  <2>1. \/ /\ o \in {"down", "idle"}
           /\ call' = [call EXCEPT ![c] = [Resting EXCEPT !.pc = "prepare", !.saw = o, !.asked = turns]]
        \/ call' = [call EXCEPT ![c] = [Resting EXCEPT !.pc = "park", !.res = "busy"]]
    BY <1>o DEF Outcome, CanRestart
  <2>2. [Resting EXCEPT !.pc = "park", !.res = "busy"] \in CallType
    BY CallWith DEF Lines
  <2>3. o \in {"down", "idle"} => [Resting EXCEPT !.pc = "prepare", !.saw = o, !.asked = turns] \in CallType
    BY CallWith DEF Lines
  <2> QED
    BY <2>1, <2>2, <2>3, CallSet
<1>5. CASE Wait(c)
  <2>1. Outcome(c, "down") \/ \E l \in Lines : call' = [call EXCEPT ![c].pc = l]
    BY <1>5 DEF Wait, Go, Lines
  <2>2. CASE Outcome(c, "down")
    BY <1>o, <2>2
  <2>3. CASE \E l \in Lines : call' = [call EXCEPT ![c].pc = l]
    BY <2>3, CallMoves
  <2> QED
    BY <2>1, <2>2, <2>3
<1>6. CASE Probe(c)
  <2>1. CASE \E o \in {"idle", "busy_timeout", "unverified"} : Outcome(c, o)
    BY <2>1, <1>o
  <2>2. CASE call[c].polls < Polls /\ call' = [call EXCEPT ![c].pc = "wait", ![c].polls = call[c].polls + 1]
    <3>1. call[c].polls + 1 \in Polled
      BY <2>2, CallMoves, GatewayConstants DEF CallType, Polled
    <3>2. call \in [Calls -> CallType] /\ "wait" \in Lines
      BY DEF TypeOK, Lines
    <3> QED
      BY ZenonT(40), <2>2, <3>1, <3>2 DEF CallType
  <2> QED
    BY <1>6, <2>1, <2>2 DEF Probe
<1>7. CASE Prepare(c)
  <2>1. PICK p \in PidReads :
          \/ gw' = [Reconciled(p) EXCEPT !.status = "restarting"]
             /\ call' = [call EXCEPT ![c].pc = "signal", ![c].prev = gw'.cmd]
          \/ Over(c, "failed")
    BY <1>7 DEF Prepare
  <2>2. CASE Over(c, "failed")
    BY <2>2, CallSet, CallWith DEF Over, Lines, Ranges
  <2>3. CASE /\ gw' = [Reconciled(p) EXCEPT !.status = "restarting"]
             /\ call' = [call EXCEPT ![c].pc = "signal", ![c].prev = gw'.cmd]
    <3>1. gw' \in GatewayType
      BY <2>3, GatewayUpdates DEF Ranges
    <3>2. gw'.cmd \in Tracked
      BY <3>1 DEF GatewayType
    <3>3. call \in [Calls -> CallType] /\ "signal" \in Lines
      BY DEF TypeOK, Lines
    <3> QED
      BY ZenonT(40), <2>3, <3>2, <3>3 DEF CallType
  <2> QED
    BY <2>1, <2>2, <2>3
<1>8. CASE Signal(c)
  <2>1. call[c].prev \in Tracked
    BY CallMoves DEF CallType
  <2> QED
    <3>1. \/ call' = [call EXCEPT ![c] = [Resting EXCEPT !.pc = "exit", !.prev = call[c].prev]]
          \/ call' = [call EXCEPT ![c].pc = "start"]
      BY <1>8 DEF Signal, Go
    <3>2. [Resting EXCEPT !.pc = "exit", !.prev = call[c].prev] \in CallType
      BY <2>1, CallWith DEF Lines
    <3>3. "start" \in Lines
      BY DEF Lines
    <3> QED
      BY <3>1, <3>2, <3>3, CallMoves, CallSet
<1>9. CASE Exited(c)
  BY <1>9, CallMoves DEF Exited, Go, Lines
<1>10. CASE \E r \in {"ok", "failed"} : Over(c, r)
  <2>1. \/ call' = [call EXCEPT ![c] = Resting]
        \/ \E r \in {"ok", "failed"} : call' = [call EXCEPT ![c] = [Resting EXCEPT !.pc = "leave", !.res = r]]
    BY <1>10 DEF Over
  <2>2. /\ Resting \in CallType
        /\ \A r \in {"ok", "failed"} : [Resting EXCEPT !.pc = "leave", !.res = r] \in CallType
    BY CallWith DEF Lines, Ranges
  <2> QED
    BY <2>1, <2>2, CallSet
<1>11. CASE Leave(c)
  <2>1. call[c].res \in {"none", "busy", "ok", "failed"}
    BY CallMoves DEF CallType
  <2>2. [Resting EXCEPT !.pc = "report", !.res = call[c].res] \in CallType
    BY <2>1, CallWith DEF Lines
  <2> QED
    BY <1>11, <2>2 DEF Leave, TypeOK, Ranges
<1>12. CASE Report(c)
  BY SMTT(30), <1>12, CallSet, CallAt DEF Report, Again, Lines, Ranges
<1>13. CASE c = "supervisor" /\ Supervise
  <2>1. \/ \E l \in Lines : call' = [call EXCEPT !["supervisor"].pc = l]
        \/ call' = [call EXCEPT !["supervisor"] = Resting]
    BY <1>13 DEF Supervise, Go, Lines
  <2> QED
    BY <1>13, <2>1, CallMoves, CallSet DEF Ranges
<1> QED
  BY <1>1, <1>2, <1>3, <1>4, <1>5, <1>6, <1>7, <1>8, <1>9, <1>10, <1>11, <1>12, <1>13
     DEF CallStep, StopFails, Start

LEMMA GatewayKeepsType ==
  ASSUME TypeOK, Ranges, NEW c \in Calls, CallStep(c)
  PROVE  gw' \in GatewayType /\ token' \in Tracked
<1>0. gw \in GatewayType /\ token \in Tracked /\ None \in Tracked
  BY DEF TypeOK, Ranges
<1>1. ASSUME \E p \in PidReads : LookAt(p) \/ gw' \in {Reconciled(p), [Reconciled(p) EXCEPT !.status = "restarting"]}
      PROVE  gw' \in GatewayType
  <2>1. PICK p \in PidReads :
          \/ gw' = Degraded(Reconciled(p)) \/ gw' = Reconciled(p)
          \/ gw' = [Reconciled(p) EXCEPT !.status = "restarting"]
    BY <1>1 DEF LookAt
  <2>2. Reconciled(p) \in GatewayType /\ Degraded(Reconciled(p)) \in GatewayType
    BY GatewayUpdates DEF Ranges
  <2>3. [Reconciled(p) EXCEPT !.status = "restarting"] \in GatewayType
    BY <2>2, GatewayUpdates
  <2> QED
    BY <2>1, <2>2, <2>3
<1>2. ASSUME StopFails(c)
      PROVE  gw' \in GatewayType
  BY <1>0, <1>2, GatewayUpdates DEF StopFails
<1>3. ASSUME NEW st \in {"starting", "restarting"}, Spawn(st)
      PROVE  gw' \in GatewayType /\ token' \in Tracked
  BY <1>3 DEF Spawn, Ranges, GatewayType
<1>4. CASE Start(c)
  <2>1. CASE gw' = [gw EXCEPT !.cmd = None, !.polled = FALSE, !.status = "error"] /\ token' \in {token, None}
    BY <1>0, <2>1 DEF GatewayType
  <2> QED
    BY <1>3, <1>4, <2>1 DEF Start
<1>5. \/ UNCHANGED gw
      \/ \E p \in PidReads : LookAt(p) \/ gw' \in {Reconciled(p), [Reconciled(p) EXCEPT !.status = "restarting"]}
      \/ StopFails(c) \/ Start(c)
  BY DEF CallStep, Ask, AskBusy, Park, Request, Wait, Probe, Prepare, Signal, Exited, Leave, Report, Supervise
<1>6. token' = token \/ Start(c)
  BY DEF CallStep, Ask, AskBusy, Park, Request, Wait, Probe, Prepare, Signal, Exited, StopFails, Leave,
         Report, Supervise
<1> QED
  BY <1>0, <1>1, <1>2, <1>4, <1>5, <1>6

LEMMA ProcsKeepType ==
  ASSUME TypeOK, Ranges, NEW c \in Calls, CallStep(c)
  PROVE  proc' \in [Procs -> ProcType]
<1>1. \A p \in Tracked : Alive(p) => Terminated(p) \in [Procs -> ProcType] /\ Ended(p, "failed") \in [Procs -> ProcType]
  BY ProcUpdates DEF Alive, Tracked
<1>2. call[c].prev \in Tracked
  BY CallMoves DEF CallType
<1>3. CASE Signal(c)
  BY <1>1, <1>2, <1>3 DEF Signal, TypeOK
<1>4. CASE Exited(c)
  BY <1>1, <1>2, <1>4 DEF Exited, TypeOK
<1>5. CASE Spawn("restarting")
  <2>1. PICK p \in Procs : proc' = [proc EXCEPT ![p] = [Unborn EXCEPT !.st = "spawned"]]
    BY <1>5 DEF Spawn
  <2> QED
    BY <2>1, ProcUpdates
<1>6. UNCHANGED proc \/ Signal(c) \/ Exited(c) \/ Spawn("restarting")
  BY DEF CallStep, Ask, AskBusy, Park, Request, Wait, Probe, Prepare, StopFails, Start, Leave, Report, Supervise
<1> QED
  BY <1>3, <1>4, <1>5, <1>6 DEF TypeOK

LEMMA CallStepType == ASSUME TypeOK, Ranges, NEW c \in Calls, CallStep(c) PROVE TypeOK'
<1>1. call' \in [Calls -> CallType] /\ gw' \in GatewayType /\ token' \in Tracked /\ proc' \in [Procs -> ProcType]
  BY CallsKeepType, GatewayKeepsType, ProcsKeepType
<1>2. UNCHANGED <<saved, turns, inputs>>
  BY DEF CallStep, Ask, AskBusy, Park, Request, Wait, Probe, Prepare, Signal, Exited, StopFails, Start,
         Leave, Report, Supervise
<1>3. park' \in [waits : BOOLEAN, error : BOOLEAN, supervised : BOOLEAN, applying : BOOLEAN]
  <2>0. park \in [waits : BOOLEAN, error : BOOLEAN, supervised : BOOLEAN, applying : BOOLEAN]
    BY DEF TypeOK
  <2>1. \/ UNCHANGED park
        \/ park' = [park EXCEPT !.waits = TRUE, !.error = FALSE, !.supervised = TRUE]
        \/ park' = [park EXCEPT !.waits = FALSE, !.applying = park.waits \/ park.applying]
        \/ \E b \in BOOLEAN : \/ park' = [park EXCEPT !.error = b, !.applying = FALSE]
                             \/ park' = [park EXCEPT !.error = b]
        \/ park' = [park EXCEPT !.supervised = FALSE]
    BY DEF CallStep, Ask, AskBusy, Park, Request, Wait, Probe, Prepare, Signal, Exited, StopFails, Start,
         Leave, Report, Supervise, Claimed
  <2> QED
    BY <2>0, <2>1
<1>4. restart' \in [running : BOOLEAN, waiters : SUBSET Calls]
  <2>0. restart \in [running : BOOLEAN, waiters : SUBSET Calls]
    BY DEF TypeOK
  <2>1. \/ UNCHANGED restart
        \/ restart' = [restart EXCEPT !.waiters = restart.waiters \cup {c}]
        \/ restart' = [restart EXCEPT !.running = TRUE]
        \/ restart' = [running |-> FALSE, waiters |-> {}]
    BY DEF CallStep, Ask, AskBusy, Park, Request, Wait, Probe, Prepare, Signal, Exited, StopFails, Start,
         Leave, Report, Supervise
  <2> DEFINE Lists == SUBSET Calls
  <2>2. restart.waiters \cup {c} \in Lists /\ {} \in Lists
    BY <2>0
  <2>3. restart \in [running : BOOLEAN, waiters : Lists]
    BY <2>0
  <2>4. restart' \in [running : BOOLEAN, waiters : Lists]
    <3> HIDE DEF Lists
    <3>1. [restart EXCEPT !.running = TRUE] \in [running : BOOLEAN, waiters : Lists]
      BY <2>3
    <3>2. \A w \in Lists : [restart EXCEPT !.waiters = w] \in [running : BOOLEAN, waiters : Lists]
      BY <2>3
    <3>3. [running |-> FALSE, waiters |-> {}] \in [running : BOOLEAN, waiters : Lists]
      BY <2>2
    <3> QED
      BY <2>1, <2>2, <2>3, <3>1, <3>2, <3>3
  <2> QED
    BY <2>4
<1>5. attempts' \in Nat
  BY GatewayConstants
     DEF CallStep, Ask, AskBusy, Park, Request, Wait, Probe, Prepare, Signal, Exited, StopFails, Start,
         Leave, Report, Supervise, IdleNow, NotIdleNow, Again, TypeOK
<1> QED
  BY <1>1, <1>2, <1>3, <1>4, <1>5, TypeFrame

LEMMA ProcStepType == ASSUME TypeOK, Ranges, NEW p \in Procs, ProcStep(p) PROVE TypeOK'
<1>0. /\ call \in [Calls -> CallType] /\ gw \in GatewayType /\ token \in Tracked /\ proc \in [Procs -> ProcType]
      /\ proc[p] \in ProcType
      /\ park \in [waits : BOOLEAN, error : BOOLEAN, supervised : BOOLEAN, applying : BOOLEAN]
      /\ restart \in [running : BOOLEAN, waiters : SUBSET Calls] /\ attempts \in Nat
      /\ None \in Tracked /\ None \in Versions
  BY DEF TypeOK, Ranges
<1>1. CASE Notified(p)
  <2>1. proc' \in [Procs -> ProcType]
    BY <1>1, ProcUpdates DEF Notified
  <2>2. park' \in [waits : BOOLEAN, error : BOOLEAN, supervised : BOOLEAN, applying : BOOLEAN]
    BY <1>0, <1>1 DEF Notified, Claimed
  <2>3. [Resting EXCEPT !.pc = "request"] \in CallType
    BY CallAt DEF Lines
  <2>4. call' \in [Calls -> CallType]
    BY <1>0, <1>1, <2>3 DEF Notified
  <2> QED
    BY <1>0, <1>1, <2>1, <2>2, <2>4, TypeFrame DEF Notified
<1>2. CASE Serve(p)
  BY <1>0, <1>2, ProcUpdates, TypeFrame DEF Serve
<1>3. CASE TurnEnds(p)
  BY <1>0, <1>3, ProcUpdates, TypeFrame DEF TurnEnds
<1>7. CASE Ends(p)
  <2>1. proc' = Ended(p, "exited") \/ proc' = Ended(p, "failed")
    BY <1>7 DEF Ends
  <2>2. Ended(p, "exited") \in [Procs -> ProcType] /\ Ended(p, "failed") \in [Procs -> ProcType]
    BY ProcUpdates
  <2>3. proc' \in [Procs -> ProcType]
    BY <2>1, <2>2
  <2> QED
    BY <1>0, <1>7, <2>3, TypeFrame DEF Ends
<1>4. CASE Monitor(p)
  <2>1. Reaped(p) \in GatewayType
    BY <1>0 DEF Reaped, GatewayType
  <2> QED
    BY <1>0, <1>4, <2>1, TypeFrame DEF Monitor
<1>5. CASE Ready(p)
  <2>1. \/ gw' = [gw EXCEPT !.status = "running", !.polled = TRUE]
        \/ gw' = [gw EXCEPT !.status = "running", !.polled = FALSE]
        \/ gw' = [gw EXCEPT !.polled = FALSE]
    BY <1>5 DEF Ready
  <2>2. gw' \in GatewayType
    BY <1>0, <2>1 DEF GatewayType
  <2> QED
    BY <1>0, <1>5, <2>2, TypeFrame DEF Ready
<1>6. CASE TurnBegins(p)
  <2>1. turns' = turns + 1 /\ turns' \in 0..LastTurn /\ turns' \in Begun'
    BY <1>6, GatewayConstants DEF TurnBegins, TypeOK, Begun
  <2>2. Versions' = Versions /\ GatewayType' = GatewayType /\ Tracked' = Tracked /\ Polled' = Polled
    BY <1>6 DEF TurnBegins, Versions, GatewayType, Tracked, Polled
  <2>3. \A t \in Begun : t \in Begun'
    BY <2>1 DEF Begun, TypeOK
  <2>4. \A q \in ProcType : q \in ProcType' /\ [q EXCEPT !.turn = turns'] \in ProcType'
    BY <2>1, <2>2, <2>3 DEF ProcType
  <2>5. \A x \in CallType : x \in CallType'
    BY <2>2, <2>3 DEF CallType, Lines
  <2>6. proc' \in [Procs -> ProcType'] /\ call' \in [Calls -> CallType']
    BY <1>0, <1>6, <2>4, <2>5 DEF TurnBegins
  <2> QED
    BY <1>0, <1>6, <2>1, <2>2, <2>6 DEF TurnBegins, TypeOK
<1> QED
  BY <1>1, <1>2, <1>3, <1>4, <1>5, <1>6, <1>7 DEF ProcStep

LEMMA TypeStep == TypeOK /\ [Next]_vars => TypeOK'
<1> SUFFICES ASSUME TypeOK, [Next]_vars PROVE TypeOK'
  OBVIOUS
<1>r. Ranges
  BY RangesHold
<1>0. /\ call \in [Calls -> CallType] /\ gw \in GatewayType /\ token \in Tracked /\ proc \in [Procs -> ProcType]
      /\ park \in [waits : BOOLEAN, error : BOOLEAN, supervised : BOOLEAN, applying : BOOLEAN]
      /\ restart \in [running : BOOLEAN, waiters : SUBSET Calls] /\ attempts \in Nat
      /\ None \in Tracked /\ None \in Versions
  BY <1>r DEF TypeOK, Ranges
<1>i. UNCHANGED <<saved, turns>> /\ Input /\ call' \in [Calls -> CallType] /\ gw' \in GatewayType
      /\ token' \in Tracked /\ proc' \in [Procs -> ProcType] /\ UNCHANGED <<park, restart, attempts>>
      => TypeOK'
  <2>1. UNCHANGED <<saved, turns>> => ProcType' = ProcType /\ GatewayType' = GatewayType
                                     /\ CallType' = CallType /\ Tracked' = Tracked
    BY DEF Versions, Begun, ProcType, GatewayType, CallType, Tracked, Polled, Lines
  <2> QED
    BY <2>1, GatewayConstants DEF TypeOK, Input
<1>1. ASSUME NEW c \in Requests, Save(c) PROVE TypeOK'
  <2>1. saved' \in 1..(1 + inputs') /\ saved' = saved + 1 /\ inputs' \in 0..LastInput
    BY <1>1, GatewayConstants DEF Save, Input, TypeOK
  <2>2. Begun' = Begun /\ Tracked' = Tracked /\ Polled' = Polled /\ CallType' = CallType
    BY <1>1 DEF Save, Begun, Tracked, Polled, CallType, Lines
  <2>3. \A v \in Versions : v \in Versions'
    BY <2>1 DEF Versions, TypeOK
  <2>4. \A q \in ProcType : q \in ProcType'
    BY <2>2, <2>3 DEF ProcType
  <2>5. \A g \in GatewayType : g \in GatewayType'
    BY <2>2, <2>3 DEF GatewayType
  <2>6. c \in Calls /\ \A l \in Lines : [Resting EXCEPT !.pc = l] \in CallType
    BY <1>1, <1>r, CallAt DEF Calls
  <2>7. call' \in [Calls -> CallType]
    BY <1>0, <1>1, <2>6 DEF Save, Lines
  <2> QED
    BY <1>0, <1>1, <2>1, <2>2, <2>4, <2>5, <2>7 DEF Save, TypeOK
<1>2. CASE StartOrder
  <2>1. gw' \in GatewayType /\ token' \in Tracked /\ proc' \in [Procs -> ProcType]
    <3>1. PICK p \in PidReads :
            \/ gw' = Adopted(p) /\ UNCHANGED <<proc, token>>
            \/ Spawn("starting")
            \/ gw' = [gw EXCEPT !.cmd = None, !.polled = FALSE, !.status = "stopped"]
               /\ token' \in {token, None} /\ UNCHANGED proc
      BY <1>2 DEF StartOrder
    <3>2. Adopted(p) \in GatewayType
      BY <1>r, GatewayUpdates DEF Ranges
    <3>3. [gw EXCEPT !.cmd = None, !.polled = FALSE, !.status = "stopped"] \in GatewayType
      BY <1>0 DEF GatewayType
    <3>4. CASE Spawn("starting")
      <4>1. PICK q \in Procs :
              /\ proc' = [proc EXCEPT ![q] = [Unborn EXCEPT !.st = "spawned"]]
              /\ gw' = [cmd |-> q, owned |-> TRUE, polled |-> TRUE, status |-> "starting", sig |-> saved]
              /\ token' = q
        BY <3>4 DEF Spawn
      <4>2. gw' \in GatewayType /\ token' \in Tracked
        BY <1>r, <4>1 DEF Ranges, GatewayType
      <4>3. proc' \in [Procs -> ProcType]
        BY <1>r, <4>1, ProcUpdates
      <4> QED
        BY <4>2, <4>3
    <3> QED
      BY <1>0, <3>1, <3>2, <3>3, <3>4
  <2> QED
    BY <1>0, <1>2, <1>i, <2>1 DEF StartOrder
<1>3. CASE StopOrder
  <2>1. proc' \in [Procs -> ProcType]
    BY <1>3, <1>r, ProcUpdates DEF StopOrder, Alive, TypeOK, GatewayType, Tracked
  <2>2. gw' \in GatewayType
    BY <1>0, <1>3 DEF StopOrder, GatewayType
  <2> QED
    BY <1>0, <1>3, <1>i, <2>1, <2>2 DEF StopOrder
<1>4. CASE RestartOrder
  <2>1. [Resting EXCEPT !.pc = "prepare"] \in CallType
    BY <1>r, CallAt DEF Lines
  <2>2. call' \in [Calls -> CallType]
    BY <1>0, <1>4, <2>1 DEF RestartOrder
  <2> QED
    BY <1>0, <1>4, <1>i, <2>2 DEF RestartOrder
<1>5. CASE StatusPoll
  <2>1. PICK p \in PidReads :
          gw' = IF p = None THEN Degraded(gw) ELSE [Reconciled(p) EXCEPT !.status = "running"]
    BY <1>5 DEF StatusPoll
  <2>2. Degraded(gw) \in GatewayType /\ Reconciled(p) \in GatewayType
    BY <1>r, GatewayUpdates DEF Ranges
  <2>3. [Reconciled(p) EXCEPT !.status = "running"] \in GatewayType
    BY <2>2 DEF GatewayType
  <2> QED
    BY <1>0, <1>5, <2>1, <2>2, <2>3, TypeFrame DEF StatusPoll
<1>6. CASE UNCHANGED vars
  BY <1>0, <1>6, TypeFrame DEF vars
<1> QED
  BY <1>r, <1>1, <1>2, <1>3, <1>4, <1>5, <1>6, CallStepType, ProcStepType DEF Next

\* The variables stay in their ranges.
THEOREM TypeCorrect == Spec => []TypeOK
  BY TypeInit, TypeStep, PTL DEF Spec

-----------------------------------------------------------------------------
(* The processes and the signature *)

\* The ways in which a step changes the processes.
LEMMA ProcChanges ==
  ASSUME TypeOK, [Next]_vars
  PROVE  \/ UNCHANGED proc
         \/ \E p \in Procs : Alive(p) /\ proc' = Terminated(p)
         \/ \E p \in Procs : Alive(p) /\ \E st \in {"failed", "exited"} : proc' = Ended(p, st)
         \/ \E p \in Procs : proc' = [proc EXCEPT ![p] = [Unborn EXCEPT !.st = "spawned"]]
         \/ \E p \in Procs : proc' = [proc EXCEPT ![p].note = FALSE]
         \/ \E p \in Procs : Serve(p) \/ TurnBegins(p) \/ TurnEnds(p)
<1>1. \A p \in Tracked : Alive(p) => p \in Procs
  BY DEF Alive, Tracked
<1>2. \A c \in Calls : call[c].prev \in Tracked
  BY CallMoves DEF CallType
<1>3. gw.cmd \in Tracked
  BY DEF TypeOK, GatewayType
<1>4. ASSUME NEW c \in Calls, CallStep(c)
      PROVE  \/ UNCHANGED proc
             \/ \E p \in Procs : Alive(p) /\ proc' \in {Terminated(p), Ended(p, "failed")}
             \/ \E p \in Procs : proc' = [proc EXCEPT ![p] = [Unborn EXCEPT !.st = "spawned"]]
  BY <1>1, <1>2, <1>4
     DEF CallStep, Ask, AskBusy, Park, Request, Wait, Probe, Prepare, Signal, Exited, StopFails, Start,
         Leave, Report, Supervise, Spawn
<1>5. ASSUME NEW p \in Procs, ProcStep(p)
      PROVE  \/ UNCHANGED proc
             \/ Alive(p) /\ \E st \in {"failed", "exited"} : proc' = Ended(p, st)
             \/ proc' = [proc EXCEPT ![p].note = FALSE]
             \/ Serve(p) \/ TurnBegins(p) \/ TurnEnds(p)
  <2>1. Holders = {q \in Procs : proc[q].st \in {"serving", "closing"}} /\ p # None
    BY DEF Holders, Procs, None
  <2> QED
    BY <1>5, <2>1 DEF ProcStep, Notified, Ends, Monitor, Ready, Alive
<1>6. CASE StartOrder \/ StopOrder
  BY <1>1, <1>3, <1>6 DEF StartOrder, StopOrder, Spawn
<1> QED
  BY <1>4, <1>5, <1>6 DEF Next, Save, RestartOrder, StatusPoll, vars

\* Who has the port had it before, or was alone when it took it; who has a turn has
\* the port.
HoldsOn ==
  \A p \in Holders' :
    \/ p \in Holders /\ proc'[p].boot = proc[p].boot
    \/ Holders = {} /\ proc'[p].boot = saved /\ \A q \in Procs \ {p} : proc'[q] = proc[q]
TurnsMove ==
  \A p \in Procs : proc'[p].turn # None =>
    p \in Holders' /\ (proc'[p].turn = proc[p].turn \/ proc'[p].turn = turns + 1)

LEMMA ProcMoves ==
  ASSUME TypeOK, OneHolder, [Next]_vars
  PROVE  HoldsOn /\ TurnsMove
<1>0. /\ proc \in [Procs -> ProcType] /\ Unborn \in ProcType /\ Unborn.turn = None
      /\ \A p \in Procs : proc[p] \in ProcType
  BY RangesHold DEF TypeOK, Ranges, Unborn
<1>1. /\ Holders = {p \in Procs : proc[p].st \in {"serving", "closing"}}
      /\ Holders' = {p \in Procs : proc'[p].st \in {"serving", "closing"}}
  BY DEF Holders
<1>2. \A p \in Procs : proc[p].turn # None => proc[p].st \in {"serving", "closing"}
  BY <1>1 DEF OneHolder
<1>3. CASE UNCHANGED proc
  BY <1>1, <1>2, <1>3 DEF HoldsOn, TurnsMove
<1>4. ASSUME NEW q \in Procs, proc' = [proc EXCEPT ![q].st = "closing"], q \in Holders
      PROVE  HoldsOn /\ TurnsMove
  <2>1. /\ \A p \in Procs \ {q} : proc'[p] = proc[p]
        /\ proc'[q].st = "closing" /\ proc'[q].boot = proc[q].boot /\ proc'[q].turn = proc[q].turn
    BY <1>0, <1>4 DEF ProcType
  <2> QED
    BY <1>1, <1>2, <1>4, <2>1 DEF HoldsOn, TurnsMove
<1>5. ASSUME NEW q \in Procs, NEW st \in {"failed", "exited"}, proc' = Ended(q, st)
      PROVE  HoldsOn /\ TurnsMove
  <2>1. /\ \A p \in Procs \ {q} : proc'[p] = proc[p]
        /\ proc'[q].st = st /\ proc'[q].turn = None
    BY <1>0, <1>5 DEF ProcType, Ended
  <2> QED
    BY <1>1, <1>2, <2>1 DEF HoldsOn, TurnsMove
<1>6. ASSUME NEW q \in Procs, proc' = [proc EXCEPT ![q] = [Unborn EXCEPT !.st = "spawned"]]
      PROVE  HoldsOn /\ TurnsMove
  <2>1. /\ \A p \in Procs \ {q} : proc'[p] = proc[p]
        /\ proc'[q].st = "spawned" /\ proc'[q].turn = None
    BY <1>0, <1>6 DEF ProcType
  <2> QED
    BY <1>1, <1>2, <2>1 DEF HoldsOn, TurnsMove
<1>7. ASSUME NEW q \in Procs, proc' = [proc EXCEPT ![q].note = FALSE]
      PROVE  HoldsOn /\ TurnsMove
  <2>1. /\ \A p \in Procs \ {q} : proc'[p] = proc[p]
        /\ proc'[q].st = proc[q].st /\ proc'[q].boot = proc[q].boot /\ proc'[q].turn = proc[q].turn
    BY <1>0, <1>7 DEF ProcType
  <2> QED
    BY <1>1, <1>2, <2>1 DEF HoldsOn, TurnsMove
<1>8. ASSUME NEW q \in Procs, Serve(q)
      PROVE  HoldsOn /\ TurnsMove
  <2>1. CASE Holders # {}
    BY <1>5, <1>8, <2>1 DEF Serve
  <2>2. CASE Holders = {}
    <3>1. /\ \A p \in Procs \ {q} : proc'[p] = proc[p]
          /\ proc'[q].st = "serving" /\ proc'[q].boot = saved /\ proc'[q].turn = proc[q].turn
      BY <1>0, <1>8, <2>2 DEF Serve, ProcType
    <3> QED
      BY <1>1, <1>2, <2>2, <3>1 DEF HoldsOn, TurnsMove
  <2> QED
    BY <2>1, <2>2
<1>9. ASSUME NEW q \in Procs, TurnBegins(q)
      PROVE  HoldsOn /\ TurnsMove
  <2>1. /\ \A p \in Procs \ {q} : proc'[p] = proc[p]
        /\ proc'[q].st = "serving" /\ proc[q].st = "serving"
        /\ proc'[q].boot = proc[q].boot /\ proc'[q].turn = turns + 1
    BY <1>0, <1>9 DEF TurnBegins, ProcType
  <2> QED
    BY <1>1, <1>2, <2>1 DEF HoldsOn, TurnsMove
<1>10. ASSUME NEW q \in Procs, TurnEnds(q)
       PROVE  HoldsOn /\ TurnsMove
  <2>1. /\ \A p \in Procs \ {q} : proc'[p] = proc[p]
        /\ proc'[q].st = proc[q].st /\ proc'[q].boot = proc[q].boot /\ proc'[q].turn = None
    BY <1>0, <1>10 DEF TurnEnds, ProcType
  <2> QED
    BY <1>1, <1>2, <2>1 DEF HoldsOn, TurnsMove
<1>11. ASSUME NEW q \in Procs, Alive(q), proc' = Terminated(q)
       PROVE  HoldsOn /\ TurnsMove
  <2>1. CASE proc[q].st = "spawned"
    BY <1>5, <1>11, <2>1 DEF Terminated
  <2>2. CASE proc[q].st # "spawned"
    <3>1. q \in Holders /\ proc' = [proc EXCEPT ![q].st = "closing"]
      BY <1>1, <1>11, <2>2 DEF Alive, Terminated
    <3> QED
      BY <1>4, <3>1
  <2> QED
    BY <2>1, <2>2
<1> QED
  BY <1>3, <1>5, <1>6, <1>7, <1>8, <1>9, <1>10, <1>11, ProcChanges

LEMMA OneHolderInit == Init => OneHolder
<1> SUFFICES ASSUME Init PROVE OneHolder
  OBVIOUS
<1>1. TypeOK /\ Ranges
  BY TypeInit, RangesHold
<1>2. Unborn.st = "none" /\ Unborn.turn = None /\ Unborn \in ProcType
  BY <1>1 DEF Unborn, Ranges
<1>3. \A p \in Procs : proc[p].turn = None /\ (p # 1 => proc[p].st = "none")
  <2>1. CASE proc = [p \in Procs |-> Unborn]
    BY <1>2, <2>1
  <2>2. CASE proc = [p \in Procs |-> IF p = 1 THEN [Unborn EXCEPT !.st = "serving", !.boot = 1] ELSE Unborn]
    <3>1. [Unborn EXCEPT !.st = "serving", !.boot = 1].turn = None
      BY <1>2 DEF ProcType
    <3> QED
      BY <1>2, <2>2, <3>1
  <2> QED
    BY <2>1, <2>2 DEF Init
<1> QED
  BY <1>3 DEF OneHolder, Holders

LEMMA OneHolderStep == TypeOK /\ OneHolder /\ [Next]_vars => OneHolder'
<1> SUFFICES ASSUME TypeOK, OneHolder, [Next]_vars PROVE OneHolder'
  OBVIOUS
<1>1. HoldsOn /\ TurnsMove
  BY ProcMoves
<1>2. ASSUME NEW p \in Holders', NEW q \in Holders' PROVE p = q
  <2>1. CASE Holders = {}
    <3>1. \A r \in Procs \ {p} : proc'[r] = proc[r]
      BY <1>1, <2>1 DEF HoldsOn
    <3> QED
      BY <2>1, <3>1 DEF Holders
  <2>2. CASE Holders # {}
    BY <1>1, <2>2 DEF HoldsOn, OneHolder
  <2> QED
    BY <2>1, <2>2
<1> QED
  BY <1>1, <1>2 DEF TurnsMove, OneHolder

\* A signature is that of the process it was taken for, or of none.
SignatureMoves ==
  gw'.owned =>
    \/ gw.owned /\ gw'.cmd \in {gw.cmd, None} /\ gw'.sig \in {gw.sig, None}
    \/ gw'.cmd \notin Holders'

LEMMA SignatureKept ==
  ASSUME TypeOK, [Next]_vars
  PROVE  SignatureMoves
<1>0. gw \in GatewayType /\ Ranges
  BY RangesHold DEF TypeOK
<1>1. ASSUME NEW g \in GatewayType, g.owned => gw.owned /\ g.cmd \in {gw.cmd, None} /\ g.sig \in {gw.sig, None},
             \/ gw' = g \/ gw' = [g EXCEPT !.cmd = None, !.owned = FALSE, !.polled = FALSE, !.sig = None]
             \/ \E st \in {"stopped", "starting", "running", "restarting", "error"} : gw' = [g EXCEPT !.status = st]
      PROVE  SignatureMoves
  BY <1>1 DEF SignatureMoves, GatewayType
<1>2. ASSUME NEW p \in Tracked
      PROVE  /\ Reconciled(p) \in GatewayType
             /\ Reconciled(p).owned => /\ gw.owned /\ Reconciled(p).cmd \in {gw.cmd, None}
                                       /\ Reconciled(p).sig \in {gw.sig, None}
  BY <1>0, GatewayUpdates DEF Reconciled, Adopted, TypeOK
<1>3. ASSUME NEW p \in Tracked, LookAt(p) PROVE SignatureMoves
  BY <1>1, <1>2, <1>3 DEF LookAt, Degraded
<1>4. ASSUME NEW st \in {"starting", "restarting"}, Spawn(st) PROVE SignatureMoves
  <2>1. PICK p \in Procs :
          /\ proc' = [proc EXCEPT ![p] = [Unborn EXCEPT !.st = "spawned"]]
          /\ gw' = [cmd |-> p, owned |-> TRUE, polled |-> TRUE, status |-> st, sig |-> saved]
    BY <1>4 DEF Spawn
  <2>3. gw'.cmd = p
    BY <2>1
  <2>2. proc'[p].st = "spawned"
    <3>1. proc \in [Procs -> ProcType] /\ Unborn \in ProcType
      BY <1>0 DEF TypeOK, Ranges
    <3> QED
      BY <2>1, <3>1 DEF ProcType
  <2> QED
    BY <2>2, <2>3 DEF SignatureMoves, Holders
<1>g. /\ gw.owned => gw.owned /\ gw.cmd \in {gw.cmd, None} /\ gw.sig \in {gw.sig, None}
      /\ \A p \in PidReads : p \in Tracked
  BY <1>0 DEF Ranges
<1>c. ASSUME \E st \in {"stopped", "error"} : gw' = [gw EXCEPT !.cmd = None, !.polled = FALSE, !.status = st]
      PROVE  SignatureMoves
  BY <1>0, <1>c DEF SignatureMoves, GatewayType
<1>5. ASSUME NEW c \in Calls, CallStep(c) PROVE SignatureMoves
  <2>1. CASE \E p \in PidReads : LookAt(p)
    BY <1>3, <1>g, <2>1
  <2>2. CASE Prepare(c)
    <3>1. PICK p \in PidReads : gw' = Reconciled(p) \/ gw' = [Reconciled(p) EXCEPT !.status = "restarting"]
      BY <2>2 DEF Prepare
    <3>2. p \in Tracked
      BY <1>g
    <3> QED
      BY <1>1, <1>2, <3>1, <3>2
  <2>3. CASE StopFails(c)
    BY <1>0, <1>1, <1>g, <2>3 DEF StopFails
  <2>4. CASE Start(c)
    BY <1>4, <1>c, <2>4 DEF Start
  <2>5. UNCHANGED gw \/ (\E p \in PidReads : LookAt(p)) \/ Prepare(c) \/ StopFails(c) \/ Start(c)
    BY <1>5 DEF CallStep, Ask, AskBusy, Park, Request, Wait, Probe, Signal, Exited, Leave, Report, Supervise
  <2> QED
    BY <2>1, <2>2, <2>3, <2>4, <2>5 DEF SignatureMoves
<1>6. ASSUME NEW p \in Procs, ProcStep(p) PROVE SignatureMoves
  <2>1. CASE Monitor(p)
    <3>1. gw'.sig = None
      BY <1>0, <2>1 DEF Monitor, Reaped, GatewayType
    <3>2. gw'.owned = gw.owned /\ gw'.cmd = None
      BY <1>0, <2>1 DEF Monitor, Reaped, GatewayType
    <3> QED
      BY <3>1, <3>2 DEF SignatureMoves
  <2>2. CASE Ready(p)
    <3>1. \/ gw' = [gw EXCEPT !.status = "running", !.polled = TRUE]
          \/ gw' = [gw EXCEPT !.status = "running", !.polled = FALSE]
          \/ gw' = [gw EXCEPT !.polled = FALSE]
      BY <2>2 DEF Ready
    <3>2. gw'.sig = gw.sig /\ gw'.owned = gw.owned /\ gw'.cmd = gw.cmd
      BY <1>0, <3>1 DEF GatewayType
    <3> QED
      BY <3>2 DEF SignatureMoves
  <2> QED
    BY <1>6, <2>1, <2>2 DEF ProcStep, Notified, Serve, TurnBegins, TurnEnds, Ends, SignatureMoves
<1>7. CASE StartOrder
  <2>1. PICK p \in PidReads :
          \/ gw' = Adopted(p)
          \/ Spawn("starting")
          \/ gw' = [gw EXCEPT !.cmd = None, !.polled = FALSE, !.status = "stopped"]
    BY <1>7 DEF StartOrder
  <2>2. CASE gw' = Adopted(p)
    BY <2>2 DEF Adopted, SignatureMoves
  <2> QED
    BY <1>4, <1>c, <2>1, <2>2
<1>8. CASE StopOrder
  BY <1>0, <1>8 DEF StopOrder, SignatureMoves, GatewayType
<1>9. CASE StatusPoll
  <2>1. PICK p \in PidReads :
          gw' = IF p = None THEN Degraded(gw) ELSE [Reconciled(p) EXCEPT !.status = "running"]
    BY <1>9 DEF StatusPoll
  <2>2. CASE gw' = Degraded(gw)
    BY <1>0, <1>1, <1>g, <2>2 DEF Degraded
  <2>3. CASE gw' = [Reconciled(p) EXCEPT !.status = "running"]
    <3>1. p \in Tracked
      BY <1>g
    <3> QED
      BY <1>1, <1>2, <2>3, <3>1
  <2> QED
    BY <2>1, <2>2, <2>3
<1>10. CASE UNCHANGED gw
  BY <1>10 DEF SignatureMoves
<1> QED
  BY <1>5, <1>6, <1>7, <1>8, <1>9, <1>10 DEF Next, Save, RestartOrder, vars

LEMMA SignatureStep == TypeOK /\ OneHolder /\ SignatureInv /\ [Next]_vars => SignatureInv'
<1> SUFFICES ASSUME TypeOK, OneHolder, SignatureInv, [Next]_vars, NEW p \in Holders', Tracks(p)'
             PROVE  gw'.sig <= proc'[p].boot
  BY DEF SignatureInv
<1>1. HoldsOn /\ SignatureMoves
  BY ProcMoves, SignatureKept
<1>2. gw'.cmd = p /\ gw'.owned /\ p \in Procs /\ p # None
  BY DEF Tracks, Holders, Procs, None
<1>3. gw.owned /\ gw.cmd = p /\ gw'.sig \in {gw.sig, None}
  BY <1>1, <1>2 DEF SignatureMoves
<1>4. gw.sig \in 0..saved /\ saved \in Nat /\ proc'[p].boot \in Nat
  <2>1. gw \in GatewayType /\ saved \in Nat /\ TypeOK'
    BY TypeStep DEF TypeOK
  <2>2. proc' \in [Procs -> ProcType'] /\ saved' \in Nat
    BY <2>1 DEF TypeOK
  <2>3. proc'[p].boot \in Versions'
    BY <1>2, <2>2 DEF ProcType
  <2> QED
    BY <2>1, <2>2, <2>3 DEF GatewayType, Versions
<1>5. CASE p \in Holders /\ proc'[p].boot = proc[p].boot
  BY <1>3, <1>4, <1>5 DEF SignatureInv, Tracks, None
<1> QED
  BY <1>1, <1>3, <1>4, <1>5 DEF HoldsOn, None

LEMMA SignatureInit == Init => SignatureInv
<1> SUFFICES ASSUME Init PROVE SignatureInv
  OBVIOUS
<1>1. Nothing.owned = FALSE /\ Nothing \in GatewayType
  BY TypeInit, RangesHold DEF Nothing, Ranges
<1>2. gw = Nothing \/ gw = [Nothing EXCEPT !.cmd = 1, !.status = "running", !.sig = 1]
  BY DEF Init
<1>3. ~gw.owned
  BY <1>1, <1>2 DEF GatewayType
<1> QED
  BY <1>3 DEF SignatureInv, Tracks

\* A gateway this launcher spawned and that runs an older configuration than the
\* saved one shows as in need of a restart: its signature was taken before it read the
\* configuration (startGatewayLocked), and every save after that is newer.
THEOREM StaleShownCorrect == Spec => []StaleShown
<1>1. Init => TypeOK /\ OneHolder /\ SignatureInv
  BY TypeInit, OneHolderInit, SignatureInit
<1>2. TypeOK /\ OneHolder /\ SignatureInv /\ [Next]_vars => (TypeOK /\ OneHolder /\ SignatureInv)'
  BY TypeStep, OneHolderStep, SignatureStep
<1>3. TypeOK /\ SignatureInv => StaleShown
  <2> SUFFICES ASSUME TypeOK, SignatureInv, NEW p \in Holders, Tracks(p), proc[p].boot # saved
               PROVE  gw.sig # saved
    BY DEF StaleShown
  <2>1. proc[p].boot \in 0..saved /\ gw.sig \in 0..saved /\ saved \in Nat
    BY DEF TypeOK, ProcType, GatewayType, Versions, Holders
  <2> QED
    BY <2>1 DEF SignatureInv
<1> QED
  BY <1>1, <1>2, <1>3, PTL DEF Spec

-----------------------------------------------------------------------------
(* Spared work *)

\* A step leaves the other calls where they are, answers them or wakes the supervisor.
LEMMA OthersRest ==
  ASSUME TypeOK, NEW c \in Calls, NEW d \in Calls \ {c}, CallStep(d)
  PROVE  call'[c] = call[c] \/ call'[c].pc \in {"idle", "report", "check"}
<1>0. /\ call \in [Calls -> CallType] /\ Resting.pc = "idle"
      /\ [Resting EXCEPT !.pc = "report", !.res = call[d].res].pc = "report"
      /\ [Resting EXCEPT !.pc = "check"].pc = "check"
  BY DEF TypeOK, Resting
<1>1. CASE Leave(d)
  BY <1>0, <1>1 DEF Leave
<1>2. CASE Park(d)
  BY <1>0, <1>2 DEF Park
<1>3. CASE ~Leave(d) /\ ~Park(d)
  <2>1. CASE Again /\ d = "supervisor"
    BY <1>0, <2>1 DEF Again
  <2>3. CASE Prepare(d)
    BY <1>0, <2>3 DEF Prepare, Over
  <2>4. CASE Ask(d) \/ AskBusy(d) \/ Request(d) \/ Wait(d) \/ Probe(d)
    BY <1>0, <2>1, <2>4 DEF Ask, AskBusy, IdleNow, NotIdleNow, Go, Request, Wait, Probe, Outcome
  <2>5. CASE Signal(d) \/ Exited(d) \/ StopFails(d) \/ Start(d) \/ Report(d) \/ (d = "supervisor" /\ Supervise)
    BY <1>0, <2>1, <2>5 DEF Signal, Exited, StopFails, Start, Over, Report, Supervise, Go
  <2> QED
    BY <1>3, <2>1, <2>3, <2>4, <2>5 DEF CallStep
<1> QED
  BY <1>1, <1>2, <1>3

\* A call is about to stop a process after it asked, and only while it found nobody
\* busy.
Asks(c) ==
  \/ /\ call[c].pc \in {"prepare", "signal"}
     /\ call'[c].saw = call[c].saw /\ call'[c].asked = call[c].asked
  \/ call'[c].pc = "prepare" /\ call'[c].asked = turns /\ "idle" \in Answers /\ UNCHANGED <<proc, turns>>
LEMMA OwnStep ==
  ASSUME TypeOK, NEW c \in Calls, CallStep(c), call'[c].pc \in {"prepare", "signal"}, call'[c].saw # "down"
  PROVE  Asks(c) /\ UNCHANGED <<proc, turns>>
<1>0. call \in [Calls -> CallType] /\ call[c] \in CallType /\ Ranges /\ Resting.pc = "idle"
  BY RangesHold DEF TypeOK, Resting
<1>1. CASE Prepare(c)
  <2>1. CASE Over(c, "failed")
    <3>1. Resting \in CallType /\ [Resting EXCEPT !.pc = "leave", !.res = "failed"].pc = "leave"
      BY <1>0 DEF Ranges, CallType
    <3> QED
      BY <1>0, <2>1, <3>1 DEF Over
  <2>2. CASE call' = [call EXCEPT ![c].pc = "signal", ![c].prev = gw'.cmd]
    <3>1. call'[c].saw = call[c].saw /\ call'[c].asked = call[c].asked
      BY <1>0, <2>2 DEF CallType
    <3> QED
      BY <1>1, <3>1 DEF Prepare, Asks
  <2> QED
    BY <1>1, <2>1, <2>2 DEF Prepare
<1>o. ASSUME NEW o \in {"down", "idle", "busy_timeout", "unverified"}, Outcome(c, o), o = "idle" => "idle" \in Answers,
             UNCHANGED <<proc, turns>>
      PROVE  Asks(c)
  <2>1. Resting \in CallType
    BY <1>0 DEF Ranges
  <2>2. CASE o \in {"down", "idle"}
    <3>1. call' = [call EXCEPT ![c] = [Resting EXCEPT !.pc = "prepare", !.saw = o, !.asked = turns]]
      BY <1>o, <2>2 DEF Outcome, CanRestart
    <3>2. call'[c] = [Resting EXCEPT !.pc = "prepare", !.saw = o, !.asked = turns]
      BY <1>0, <3>1
    <3>3. call'[c].pc = "prepare" /\ call'[c].saw = o /\ call'[c].asked = turns
      BY <2>1, <3>2 DEF CallType
    <3> QED
      BY <1>o, <2>2, <3>3 DEF Asks
  <2>3. CASE o \notin {"down", "idle"}
    <3>1. call' = [call EXCEPT ![c] = [Resting EXCEPT !.pc = "park", !.res = "busy"]]
      BY <1>o, <2>3 DEF Outcome, CanRestart
    <3>2. call'[c].pc = "park"
      BY <1>0, <2>1, <3>1 DEF CallType
    <3> QED
      BY <3>2
  <2> QED
    BY <2>2, <2>3
<1>2. CASE Wait(c)
  <2>1. CASE Go(c, "probe")
    BY <1>0, <2>1 DEF Go, CallType
  <2> QED
    BY <1>o, <1>2, <2>1 DEF Wait
<1>3. CASE Probe(c)
  <2>1. CASE \E a \in Answers : SaysIdle(a) /\ Outcome(c, "idle")
    BY <1>o, <1>3, <2>1 DEF Probe, SaysIdle
  <2>2. CASE call' = [call EXCEPT ![c].pc = "wait", ![c].polls = @ + 1]
    BY <1>0, <2>2 DEF CallType
  <2> QED
    BY <1>o, <1>3, <2>1, <2>2 DEF Probe
<1>4. ~Ask(c) /\ ~Exited(c)
  BY <1>0 DEF Ask, IdleNow, Exited, Go, CallType
<1>5. ~(Again /\ c = "supervisor") /\ ~Leave(c)
  <2>1. Resting \in CallType /\ "supervisor" \in Calls
    BY <1>0 DEF Ranges
  <2>2. ~(Again /\ c = "supervisor")
    BY <1>0, <2>1 DEF Again, CallType
  <2>3. CASE Leave(c)
    <3>1. call'[c] \in {Resting, [Resting EXCEPT !.pc = "report", !.res = call[c].res]}
      BY <2>3 DEF Leave
    <3> QED
      BY <1>0, <2>1, <3>1 DEF CallType
  <2> QED
    BY <2>2, <2>3
<1>6. ~AskBusy(c) /\ ~Request(c)
  <2>1. \A l \in {"claim", "request", "park", "joined"} : ~Go(c, l)
    BY <1>0 DEF Go, CallType
  <2>2. call'[c] # [Resting EXCEPT !.pc = "wait"]
    BY <1>0 DEF Ranges, CallType
  <2> QED
    BY <1>0, <1>5, <2>1, <2>2 DEF AskBusy, IdleNow, NotIdleNow, Request
<1>7. ~Report(c) /\ ~(c = "supervisor" /\ Supervise)
  BY <1>0, <1>5 DEF Report, Supervise, Go, CallType
<1>8. ~Park(c)
  BY <1>0 DEF Park, Ranges, CallType
<1>9. ASSUME NEW r, Over(c, r) PROVE FALSE
  <2>1. call'[c] \in {Resting, [Resting EXCEPT !.pc = "leave", !.res = r]}
    BY <1>0, <1>9 DEF Over
  <2> QED
    BY <1>0, <2>1 DEF Ranges, CallType
<1>10. CASE Signal(c)
  <2>1. CASE Go(c, "start")
    BY <1>0, <2>1 DEF Go, CallType
  <2>2. CASE call'[c] = [Resting EXCEPT !.pc = "exit", !.prev = call[c].prev]
    BY <1>0, <2>2 DEF Ranges, CallType
  <2> QED
    BY <1>0, <1>10, <2>1, <2>2 DEF Signal
<1> QED
  BY <1>1, <1>2, <1>3, <1>4, <1>5, <1>6, <1>7, <1>8, <1>9, <1>10
     DEF CallStep, Prepare, Wait, Probe, StopFails, Start

\* Of a call that is not the user's and that is about to stop a process: it stays as
\* it is, or this is its step.
LEMMA AskedBefore ==
  ASSUME TypeOK, [Next]_vars, NEW c \in Requests \cup Appliers,
         call'[c].pc \in {"prepare", "signal"}, call'[c].saw # "down"
  PROVE  call'[c] = call[c] \/ (Asks(c) /\ UNCHANGED <<proc, turns>>)
<1>0. /\ call \in [Calls -> CallType] /\ call[c] \in CallType /\ Ranges /\ Resting \in CallType
      /\ c \in Calls /\ c # "manual"
  BY RangesHold DEF TypeOK, Ranges, Calls, Requests, Appliers
<1>1. ASSUME NEW d \in Calls, CallStep(d) PROVE call'[c] = call[c] \/ (Asks(c) /\ UNCHANGED <<proc, turns>>)
  BY <1>0, <1>1, OthersRest, OwnStep
<1>2. ASSUME NEW d \in Calls, NEW l \in {"ask", "request"}, call' = [call EXCEPT ![d] = [Resting EXCEPT !.pc = l]]
      PROVE  call'[c] = call[c]
  BY <1>0, <1>2 DEF CallType
<1>3. ASSUME NEW d \in Requests, Save(d) PROVE call'[c] = call[c]
  BY <1>2, <1>3 DEF Save, Calls
<1>4. ASSUME NEW p \in Procs, ProcStep(p) PROVE call'[c] = call[c]
  BY <1>0, <1>2, <1>4
     DEF ProcStep, Notified, Serve, TurnBegins, TurnEnds, Ends, Monitor, Ready, Ranges
<1>5. CASE RestartOrder
  BY <1>0, <1>5 DEF RestartOrder
<1> QED
  BY <1>1, <1>3, <1>4, <1>5 DEF Next, StartOrder, StopOrder, StatusPoll, vars

LEMMA SparedStep == TypeOK /\ OneHolder /\ SparedInv /\ [Next]_vars => SparedInv'
<1> SUFFICES ASSUME TypeOK, OneHolder, SparedInv, [Next]_vars, NEW c \in Requests \cup Appliers,
                    call'[c].pc \in {"prepare", "signal"}, call'[c].saw # "down",
                    NEW p \in Procs, proc'[p].turn # None
             PROVE  proc'[p].turn > call'[c].asked
  BY DEF SparedInv
<1>1. proc'[p].turn = proc[p].turn \/ proc'[p].turn = turns + 1
  BY ProcMoves DEF TurnsMove
<1>2. turns \in Nat /\ call[c].asked \in 0..turns /\ proc[p].turn \in 0..turns
  BY CallMoves DEF TypeOK, CallType, ProcType, Begun, Calls
<1>3. "idle" \in Answers => proc[p].turn = None
  BY DEF Answers, OneHolder
<1>4. CASE call'[c] = call[c]
  BY <1>1, <1>2, <1>4 DEF SparedInv
<1>5. CASE Asks(c) /\ UNCHANGED <<proc, turns>>
  BY <1>2, <1>3, <1>5 DEF Asks, SparedInv
<1> QED
  BY <1>4, <1>5, AskedBefore

LEMMA SparedInit == Init => SparedInv
  BY DEF Init, SparedInv, Resting, Calls

\* Only a process is stopped.
LEMMA StopsAsked ==
  ASSUME TypeOK, [Next]_vars, NEW c \in Requests \cup Appliers,
         call[c].pc = "signal", call'[c].pc = "exit"
  PROVE  call[c].prev \in Procs
<1>0. call \in [Calls -> CallType] /\ call[c] \in CallType /\ Ranges /\ Resting \in CallType /\ c \in Calls
  BY RangesHold DEF TypeOK, Ranges, Calls, Requests, Appliers
<1>1. call[c].prev \in Tracked
  BY <1>0 DEF CallType
<1>2. ASSUME Signal(c) PROVE call[c].prev \in Procs
  <2>1. CASE Alive(call[c].prev)
    BY <1>1, <2>1 DEF Alive, Tracked
  <2>2. CASE Go(c, "start")
    BY <1>0, <2>2 DEF Go, CallType
  <2> QED
    BY <1>2, <2>1, <2>2 DEF Signal
<1>3. ASSUME NEW d \in Calls, CallStep(d) PROVE call[c].prev \in Procs
  <2>1. d = c
    BY <1>0, <1>3, OthersRest
  <2> QED
    BY <1>0, <1>2, <1>3, <2>1
       DEF CallStep, Ask, AskBusy, Park, Request, Wait, Probe, Prepare, Exited, StopFails, Start, Leave,
           Report, Supervise
<1>4. ASSUME NEW d \in Requests, Save(d) PROVE FALSE
  BY <1>0, <1>4 DEF Save, CallType, Calls
<1>5. ASSUME NEW p \in Procs, ProcStep(p) PROVE FALSE
  BY <1>0, <1>5 DEF ProcStep, Notified, Serve, TurnBegins, TurnEnds, Ends, Monitor, Ready, CallType, Ranges
<1> QED
  BY <1>3, <1>4, <1>5, <1>0 DEF Next, RestartOrder, StartOrder, StopOrder, StatusPoll, vars

\* A restart for a configuration that found the gateway running cuts no turn short that
\* had begun when it asked: one process at a time has turns, and it had none when it
\* answered that it is idle.
THEOREM WorkSparedCorrect == Spec => WorkSpared
<1> DEFINE Inv == TypeOK /\ OneHolder /\ SparedInv
           Spares == \A c \in Requests \cup Appliers :
                       /\ call[c].pc = "signal" /\ call'[c].pc = "exit" /\ call[c].saw # "down"
                       => proc[call[c].prev].turn = None \/ proc[call[c].prev].turn > call[c].asked
<1>1. Init => Inv
  BY TypeInit, OneHolderInit, SparedInit
<1>2. Inv /\ [Next]_vars => Inv'
  BY TypeStep, OneHolderStep, SparedStep
<1>3. Inv /\ [Next]_vars => [Spares]_vars
  BY StopsAsked DEF SparedInv
<1> HIDE DEF Inv, Spares
<1>4. Spec => [][Spares]_vars
  BY <1>1, <1>2, <1>3, PTL DEF Spec
<1> QED
  BY <1>4 DEF WorkSpared, Spares

-----------------------------------------------------------------------------
(* Answered waiters *)

\* The lines and results a call goes through by itself, the end of a restart apart.
Moves(c, l, m, r) == call[c].pc = l /\ call'[c].pc = m /\ call'[c].res = r
Asking(c) ==
  \/ \E m \in {"askBusy", "claim", "request"} : Moves(c, "ask", m, call[c].res)
  \/ \E m \in {"claim", "request"} : Moves(c, "askBusy", m, call[c].res)
  \/ c # "supervisor" /\ Moves(c, "askBusy", "park", call[c].res)
  \/ c = "supervisor" /\ \E l \in {"askBusy", "report"}, m \in {"check", "last"} : Moves(c, l, m, "none")
  \/ c # "supervisor" /\ Moves(c, "report", "idle", "none")
Waiting(c) ==
  \/ Moves(c, "wait", "probe", call[c].res) \/ Moves(c, "probe", "wait", call[c].res)
  \/ \E l \in {"wait", "probe"} : Moves(c, l, "prepare", "none") \/ Moves(c, l, "park", "busy")
Stopping(c) ==
  \/ Moves(c, "prepare", "signal", call[c].res)
  \/ Moves(c, "signal", "exit", "none") \/ Moves(c, "signal", "start", call[c].res)
  \/ Moves(c, "exit", "start", call[c].res)
  \/ \E l \in {"prepare", "exit", "start"} :
       \/ c = "manual" /\ Moves(c, l, "idle", "none")
       \/ c # "manual" /\ \E r \in {"ok", "failed"} : Moves(c, l, "leave", r)
Looping(c) ==
  /\ c = "supervisor"
  /\ \/ \E l \in {"check", "claim", "last"}, m \in {"ask", "request", "clear"} : Moves(c, l, m, call[c].res)
     \/ Moves(c, "clear", "idle", "none")

LEMMA LinesOf ==
  ASSUME TypeOK, NEW c \in Calls, CallStep(c), ~Leave(c), ~Request(c), ~Park(c)
  PROVE  /\ Asking(c) \/ Waiting(c) \/ Stopping(c) \/ Looping(c)
         /\ UNCHANGED restart
<1>0. call \in [Calls -> CallType] /\ call[c] \in CallType /\ Ranges /\ Resting \in CallType
  BY RangesHold DEF TypeOK, Ranges
<1>r. Resting.pc = "idle" /\ Resting.res = "none"
  BY DEF Resting
<1>g. ASSUME NEW l, Go(c, l) PROVE Moves(c, call[c].pc, l, call[c].res)
  BY <1>0, <1>g DEF Go, Moves, CallType
<1>a. ASSUME Again, c = "supervisor"
      PROVE  Moves(c, call[c].pc, "check", "none") \/ Moves(c, call[c].pc, "last", "none")
  <2>1. PICK m \in {"check", "last"} : call'[c] = [Resting EXCEPT !.pc = m]
    BY <1>0, <1>a DEF Again, Ranges
  <2> QED
    BY <1>0, <1>r, <2>1 DEF Moves, CallType
<1>o. ASSUME NEW o, Outcome(c, o)
      PROVE  Moves(c, call[c].pc, "prepare", "none") \/ Moves(c, call[c].pc, "park", "busy")
  <2>1. \/ call'[c] = [Resting EXCEPT !.pc = "prepare", !.saw = o, !.asked = turns]
        \/ call'[c] = [Resting EXCEPT !.pc = "park", !.res = "busy"]
    BY <1>0, <1>o DEF Outcome
  <2> QED
    BY <1>0, <1>r, <2>1 DEF Moves, CallType
<1>v. ASSUME NEW r \in {"ok", "failed"}, Over(c, r)
      PROVE  \/ c = "manual" /\ Moves(c, call[c].pc, "idle", "none")
             \/ c # "manual" /\ Moves(c, call[c].pc, "leave", r)
  <2>1. \/ c = "manual" /\ call'[c] = Resting
        \/ c # "manual" /\ call'[c] = [Resting EXCEPT !.pc = "leave", !.res = r]
    BY <1>0, <1>v DEF Over
  <2> QED
    BY <1>0, <1>r, <2>1 DEF Moves, CallType
<1>1. CASE Ask(c)
  BY <1>1, <1>g DEF Ask, IdleNow, Asking, Moves
<1>2. CASE AskBusy(c)
  BY <1>2, <1>g, <1>a DEF AskBusy, IdleNow, NotIdleNow, Asking, Moves
<1>3. CASE Wait(c)
  BY <1>3, <1>g, <1>o DEF Wait, Waiting, Moves
<1>4. CASE Probe(c)
  <2>1. CASE call' = [call EXCEPT ![c].pc = "wait", ![c].polls = @ + 1]
    BY <1>0, <1>4, <2>1 DEF Probe, Waiting, Moves, CallType
  <2> QED
    BY <1>4, <1>o, <2>1 DEF Probe, Waiting, Moves
<1>5. CASE Prepare(c)
  <2>1. CASE call' = [call EXCEPT ![c].pc = "signal", ![c].prev = gw'.cmd]
    BY <1>0, <1>5, <2>1 DEF Prepare, Stopping, Moves, CallType
  <2> QED
    BY <1>5, <1>v, <2>1 DEF Prepare, Stopping, Moves
<1>6. CASE Signal(c)
  <2>1. CASE call'[c] = [Resting EXCEPT !.pc = "exit", !.prev = call[c].prev]
    BY <1>0, <1>r, <1>6, <2>1 DEF Signal, Stopping, Moves, CallType
  <2> QED
    BY <1>0, <1>6, <1>g, <2>1 DEF Signal, Stopping, Moves
<1>7. CASE Exited(c) \/ StopFails(c) \/ Start(c)
  BY <1>7, <1>g, <1>v DEF Exited, StopFails, Start, Stopping, Moves
<1>8. CASE Report(c)
  BY <1>0, <1>r, <1>8, <1>a DEF Report, Asking, Moves
<1>9. CASE c = "supervisor" /\ Supervise
  BY <1>0, <1>r, <1>9, <1>g DEF Supervise, Looping, Moves
<1> QED
  BY <1>1, <1>2, <1>3, <1>4, <1>5, <1>6, <1>7, <1>8, <1>9 DEF CallStep

\* What a call does to the others, the end of a restart apart: it may wake the supervisor.
LEMMA OthersWoken ==
  ASSUME TypeOK, CallInv, NEW c \in Calls, CallStep(c), ~Leave(c), NEW d \in Calls \ {c}
  PROVE  \/ call'[d] = call[d] /\ (Park(c) /\ d = "supervisor" => park.supervised)
         \/ Park(c) /\ d = "supervisor" /\ ~park.supervised /\ call'[d].pc = "check" /\ call'[d].res = "none"
<1>0. call \in [Calls -> CallType] /\ call[c] \in CallType /\ Ranges /\ Resting \in CallType /\ Resting.res = "none"
  BY RangesHold DEF TypeOK, Ranges, Resting
<1>1. CASE Park(c)
  <2>1. \/ call'[d] = call[d] /\ (d = "supervisor" => park.supervised)
        \/ d = "supervisor" /\ ~park.supervised /\ call'[d] = [Resting EXCEPT !.pc = "check"]
    BY <1>0, <1>1 DEF Park
  <2> QED
    BY <1>0, <1>1, <2>1 DEF CallType
<1>2. ASSUME Again, c = "supervisor" PROVE call'[d] = call[d]
  BY <1>0, <1>2 DEF Again
<1>3. Prepare(c) => call'[d] = call[d]
  BY <1>0 DEF Prepare, Over
<1>4. Ask(c) \/ AskBusy(c) \/ Request(c) \/ Wait(c) \/ Probe(c) => call'[d] = call[d]
  BY <1>0, <1>2 DEF Ask, AskBusy, IdleNow, NotIdleNow, Go, Request, Wait, Probe, Outcome
<1>5. Signal(c) \/ Exited(c) \/ StopFails(c) \/ Start(c) \/ Report(c) \/ (c = "supervisor" /\ Supervise)
      => call'[d] = call[d]
  BY <1>0, <1>2 DEF Signal, Exited, StopFails, Start, Over, Report, Supervise, Go
<1> QED
  BY <1>1, <1>3, <1>4, <1>5 DEF CallStep

\* A call that parks a change or asks for a restart.
LEMMA ParkLine ==
  ASSUME TypeOK, CallInv, NEW c \in Calls, Park(c)
  PROVE  /\ Moves(c, "park", IF call[c].res = "busy" THEN "leave" ELSE "idle", call[c].res)
         /\ park'.supervised /\ UNCHANGED restart
<1>0. call \in [Calls -> CallType] /\ call[c] \in CallType /\ "supervisor" \in Calls
  BY RangesHold DEF TypeOK, Ranges
<1>1. park'.supervised
  BY <1>0 DEF Park, TypeOK
<1>2. park.supervised \/ c # "supervisor"
  BY DEF CallInv, CallOK, Park
<1>3. call'[c] = [call[c] EXCEPT !.pc = IF call[c].res = "busy" THEN "leave" ELSE "idle"]
  BY <1>0, <1>2 DEF Park
<1> QED
  BY <1>0, <1>1, <1>3 DEF Park, Moves, CallType

LEMMA RequestLine ==
  ASSUME TypeOK, NEW c \in Calls, Request(c)
  PROVE  /\ restart.running => /\ Moves(c, "request", "joined", call[c].res) /\ restart'.running
                               /\ restart'.waiters = restart.waiters \cup {c}
         /\ ~restart.running => /\ Moves(c, "request", "wait", "none") /\ restart'.running
                                /\ restart'.waiters = restart.waiters
         /\ UNCHANGED park
<1>0. call \in [Calls -> CallType] /\ call[c] \in CallType /\ Resting \in CallType /\ Resting.res = "none"
  BY RangesHold DEF TypeOK, Ranges, Resting
<1>1. CASE restart.running
  BY <1>0, <1>1 DEF Request, Go, Moves, CallType, TypeOK
<1>2. CASE ~restart.running
  <2>1. call'[c] = [Resting EXCEPT !.pc = "wait"]
    BY <1>0, <1>2 DEF Request
  <2> QED
    BY <1>0, <1>2, <2>1 DEF Request, Moves, CallType, TypeOK
<1> QED
  BY <1>1, <1>2 DEF Request

\* The end of a restart.
LEMMA LeaveLine ==
  ASSUME TypeOK, CallInv, WorkInv, NEW c \in Calls, Leave(c), NEW d \in Calls
  PROVE  /\ \/ call'[d] = call[d] /\ d \notin restart.waiters /\ d # c
            \/ d \in restart.waiters \cup {c} /\ d # "manual" /\ d \in Appliers /\ call'[d].pc = "report"
            \/ d \in restart.waiters \cup {c} /\ d # "manual" /\ d \notin Appliers /\ call'[d].pc = "idle" /\ call'[d].res = "none"
         /\ ~restart'.running /\ restart'.waiters = {} /\ UNCHANGED park
<1>0. call \in [Calls -> CallType] /\ call[c] \in CallType /\ Resting \in CallType
      /\ Resting.res = "none" /\ Resting.pc = "idle"
  BY RangesHold DEF TypeOK, Ranges, Resting
<1>1. d \in restart.waiters \cup {c} => d # "manual"
  BY DEF CallInv, CallOK, WorkInv, Leave
<1>2. \/ call'[d] = call[d] /\ d \notin restart.waiters /\ d # c
      \/ d \in restart.waiters \cup {c} /\ d # "manual" /\ d \in Appliers /\ call'[d] = [Resting EXCEPT !.pc = "report", !.res = call[c].res]
      \/ d \in restart.waiters \cup {c} /\ d # "manual" /\ d \notin Appliers /\ call'[d] = Resting
  BY <1>0, <1>1 DEF Leave
<1> QED
  BY <1>0, <1>2 DEF Leave, CallType

LEMMA FlagOf ==
  ASSUME TypeOK, NEW c \in Calls, CallStep(c), ~Leave(c), ~Request(c), ~Park(c)
  PROVE  IF c = "supervisor" /\ call[c].pc = "clear" THEN ~park'.supervised
         ELSE park'.supervised = park.supervised
<1>0. /\ park \in [waits : BOOLEAN, error : BOOLEAN, supervised : BOOLEAN, applying : BOOLEAN]
      /\ call \in [Calls -> CallType]
  BY DEF TypeOK
<1>1. CASE c = "supervisor" /\ Supervise
  BY <1>0, <1>1 DEF Supervise, Claimed
<1>2. CASE Report(c)
  BY <1>0, <1>2 DEF Report
<1>3. call[c].pc = "clear" => c = "supervisor" /\ Supervise
  BY DEF CallStep, Ask, AskBusy, Park, Request, Wait, Probe, Prepare, Signal, Exited, StopFails, Start,
         Leave, Report
<1>4. UNCHANGED park \/ Report(c) \/ (c = "supervisor" /\ Supervise)
  BY DEF CallStep, Ask, AskBusy, Wait, Probe, Prepare, Signal, Exited, StopFails, Start
<1> QED
  BY <1>1, <1>2, <1>3, <1>4

LEMMA CallOKStep ==
  ASSUME TypeOK, CallInv, WorkInv, NEW c \in Calls, CallStep(c)
  PROVE  CallInv'
<1> SUFFICES ASSUME NEW d \in Calls PROVE CallOK(d)'
  BY DEF CallInv
<1>0. CallOK(c) /\ CallOK(d)
  BY DEF CallInv
<1>1. CASE Leave(c)
  <2>1. call[c].pc = "leave" /\ \A e \in restart.waiters : call[e].pc = "joined"
    BY <1>1 DEF Leave, WorkInv
  <2>2. d \in restart.waiters \cup {c} => call[d].pc # "idle"
    BY <2>1
  <2>3. UNCHANGED park
    BY <1>1 DEF Leave
  <2>4. CASE call'[d] = call[d]
    BY <1>0, <2>3, <2>4 DEF CallOK
  <2>5. CASE call'[d].pc = "report" /\ d # "manual" /\ d \in restart.waiters \cup {c}
    BY <1>0, <2>2, <2>3, <2>5 DEF CallOK
  <2>6. CASE call'[d].pc = "idle" /\ call'[d].res = "none" /\ d \notin Appliers
    BY <1>0, <2>3, <2>6 DEF CallOK, Appliers
  <2> QED
    BY <1>1, <2>4, <2>5, <2>6, LeaveLine
<1>2. CASE Request(c)
  <2>1. CASE d = c
    BY <1>0, <1>2, <2>1, RequestLine DEF CallOK, Moves
  <2>2. CASE d # c
    <3>1. call'[d] = call[d]
      BY <1>2, <2>2, OthersWoken DEF Request, Park, Leave
    <3> QED
      BY <1>0, <1>2, <3>1, RequestLine DEF CallOK
  <2> QED
    BY <2>1, <2>2
<1>3. CASE Park(c)
  <2>a. ~Leave(c)
    BY <1>3 DEF Park, Leave
  <2>1. CASE d = c
    BY <1>0, <1>3, <2>1, ParkLine DEF CallOK, Moves
  <2>2. CASE d # c
    <3>1. d # "supervisor" => call'[d] = call[d]
      BY <2>2, <2>a, OthersWoken
    <3>2. d = "supervisor" => call'[d].pc # "idle" /\ (call'[d] = call[d] \/ (call'[d].pc = "check" /\ call'[d].res = "none"))
      BY <1>0, <1>3, <2>2, <2>a, OthersWoken DEF CallOK
    <3> QED
      BY <1>0, <1>3, <3>1, <3>2, ParkLine DEF CallOK
  <2> QED
    BY <2>1, <2>2
<1>4. CASE ~Leave(c) /\ ~Request(c) /\ ~Park(c)
  <2>1. CASE d = c
    <3>1. Asking(c) \/ Waiting(c) \/ Stopping(c) \/ Looping(c)
      BY <1>4, LinesOf
    <3>2. IF c = "supervisor" /\ call[c].pc = "clear" THEN ~park'.supervised
          ELSE park'.supervised = park.supervised
      BY <1>4, FlagOf
    <3>3. CASE Asking(c)
      BY <1>0, <2>1, <3>2, <3>3 DEF Asking, Moves, CallOK
    <3>4. CASE Waiting(c)
      BY <1>0, <2>1, <3>2, <3>4 DEF Waiting, Moves, CallOK
    <3>5. CASE Stopping(c)
      BY <1>0, <2>1, <3>2, <3>5 DEF Stopping, Moves, CallOK
    <3>6. CASE Looping(c)
      BY <1>0, <2>1, <3>2, <3>6 DEF Looping, Moves, CallOK
    <3> QED
      BY <3>1, <3>3, <3>4, <3>5, <3>6
  <2>2. CASE d # c
    <3>1. call'[d] = call[d]
      BY <1>4, <2>2, OthersWoken
    <3>2. d = "supervisor" => park'.supervised = park.supervised
      BY <1>4, <2>2, FlagOf
    <3> QED
      BY <1>0, <3>1, <3>2 DEF CallOK
  <2> QED
    BY <2>1, <2>2
<1> QED
  BY <1>1, <1>2, <1>3, <1>4

\* A step that neither begins nor ends a restart changes neither who is at work nor who
\* has joined.
SameWork ==
  /\ UNCHANGED restart
  /\ \A d \in Calls : (AtWork(d)' <=> AtWork(d)) /\ (call'[d].pc = "joined" <=> call[d].pc = "joined")

LEMMA SameWorkSame == WorkInv /\ SameWork => WorkInv'
<1> SUFFICES ASSUME WorkInv, SameWork PROVE WorkInv'
  OBVIOUS
<1>1. restart'.running <=> \E d \in Calls : AtWork(d)'
  BY DEF WorkInv, SameWork
<1>2. \A c, d \in Calls : AtWork(c)' /\ AtWork(d)' => c = d
  BY DEF WorkInv, SameWork
<1>3. /\ restart'.waiters = {d \in Calls : call'[d].pc = "joined"}
      /\ restart'.waiters # {} => restart'.running
  BY DEF WorkInv, SameWork
<1> QED
  BY <1>1, <1>2, <1>3 DEF WorkInv

LEMMA KeptSame ==
  ASSUME NEW d, call'[d] = call[d]
  PROVE  (AtWork(d)' <=> AtWork(d)) /\ (call'[d].pc = "joined" <=> call[d].pc = "joined")
  BY DEF AtWork

LEMMA WorkStep ==
  ASSUME TypeOK, CallInv, WorkInv, NEW c \in Calls, CallStep(c)
  PROVE  WorkInv'
<1>0. CallOK(c)
  BY DEF CallInv
<1>1. CASE Leave(c)
  <2>1. AtWork(c)
    BY <1>1 DEF Leave, AtWork
  <2>2. ASSUME NEW d \in Calls PROVE ~AtWork(d)' /\ call'[d].pc # "joined"
    <3>1. CASE call'[d] = call[d] /\ d \notin restart.waiters /\ d # c
      BY <2>1, <3>1, KeptSame DEF WorkInv
    <3>2. CASE call'[d].pc \in {"report", "idle"}
      BY <3>2 DEF AtWork
    <3> QED
      BY <1>1, <3>1, <3>2, LeaveLine
  <2>3. ~restart'.running /\ restart'.waiters = {}
    BY <1>1, LeaveLine
  <2> QED
    BY <2>2, <2>3 DEF WorkInv
<1>2. CASE Request(c)
  <2>1. ASSUME NEW d \in Calls \ {c} PROVE call'[d] = call[d]
    BY <1>2, OthersWoken DEF Request, Park, Leave
  <2>2. ~AtWork(c) /\ call[c].pc # "joined"
    BY <1>2 DEF Request, AtWork
  <2>3. CASE restart.running
    <3>1. ~AtWork(c)' /\ call'[c].pc = "joined" /\ restart'.running /\ restart'.waiters = restart.waiters \cup {c}
      BY <1>2, <2>3, RequestLine DEF AtWork, Moves
    <3>2. \A d \in Calls : AtWork(d)' <=> AtWork(d)
      BY <2>1, <2>2, <3>1, KeptSame
    <3>3. restart'.waiters = {d \in Calls : call'[d].pc = "joined"}
      BY <2>1, <3>1 DEF WorkInv
    <3> QED
      BY <2>3, <3>1, <3>2, <3>3 DEF WorkInv
  <2>4. CASE ~restart.running
    <3>1. AtWork(c)' /\ call'[c].pc # "joined" /\ restart'.running /\ restart'.waiters = restart.waiters
      BY <1>2, <2>4, RequestLine DEF AtWork, Moves
    <3>2. \A d \in Calls : AtWork(d)' <=> d = c
      BY <2>1, <2>4, <3>1, KeptSame DEF WorkInv
    <3>3. restart'.waiters = {d \in Calls : call'[d].pc = "joined"}
      BY <2>1, <2>2, <3>1 DEF WorkInv
    <3> QED
      BY <3>1, <3>2, <3>3 DEF WorkInv
  <2> QED
    BY <2>3, <2>4
<1>3. CASE Park(c)
  <2>1. ~Leave(c)
    BY <1>3 DEF Park, Leave
  <2>2. (AtWork(c)' <=> AtWork(c)) /\ (call'[c].pc = "joined" <=> call[c].pc = "joined")
    BY <1>0, <1>3, ParkLine DEF AtWork, Moves, CallOK
  <2>3. ASSUME NEW d \in Calls \ {c}
        PROVE  (AtWork(d)' <=> AtWork(d)) /\ (call'[d].pc = "joined" <=> call[d].pc = "joined")
    <3>1. CASE call'[d] = call[d]
      BY <3>1, KeptSame
    <3>2. CASE d = "supervisor" /\ ~park.supervised /\ call'[d].pc = "check"
      <4>1. call[d].pc = "idle"
        BY <3>2 DEF CallInv, CallOK
      <4> QED
        BY <3>2, <4>1 DEF AtWork
    <3> QED
      BY <2>1, <3>1, <3>2, OthersWoken
  <2> QED
    BY <1>3, <2>2, <2>3, ParkLine, SameWorkSame DEF SameWork
<1>4. CASE ~Leave(c) /\ ~Request(c) /\ ~Park(c)
  <2>1. UNCHANGED restart /\ (Asking(c) \/ Waiting(c) \/ Stopping(c) \/ Looping(c))
    BY <1>4, LinesOf
  <2>2. (AtWork(c)' <=> AtWork(c)) /\ (call'[c].pc = "joined" <=> call[c].pc = "joined")
    <3>1. CASE Asking(c)
      BY <1>0, <3>1 DEF Asking, Moves, CallOK, AtWork
    <3>2. CASE Waiting(c)
      BY <1>0, <3>2 DEF Waiting, Moves, CallOK, AtWork
    <3>3. CASE Stopping(c)
      BY <1>0, <3>3 DEF Stopping, Moves, CallOK, AtWork
    <3>4. CASE Looping(c)
      BY <1>0, <3>4 DEF Looping, Moves, CallOK, AtWork
    <3> QED
      BY <2>1, <3>1, <3>2, <3>3, <3>4
  <2>3. \A d \in Calls \ {c} : call'[d] = call[d]
    BY <1>4, OthersWoken
  <2> QED
    BY <2>1, <2>2, <2>3, KeptSame, SameWorkSame DEF SameWork
<1> QED
  BY <1>1, <1>2, <1>3, <1>4

LEMMA WaitersStep == TypeOK /\ CallInv /\ WorkInv /\ [Next]_vars => (CallInv /\ WorkInv)'
<1> SUFFICES ASSUME TypeOK, CallInv, WorkInv, [Next]_vars PROVE CallInv' /\ WorkInv'
  OBVIOUS
<1>0. /\ call \in [Calls -> CallType] /\ \A d \in Calls : call[d] \in CallType
      /\ Resting \in CallType /\ Resting.res = "none" /\ \A d \in Calls : CallOK(d)
      /\ "notified" \in Calls /\ "manual" \in Calls
  BY RangesHold DEF TypeOK, Ranges, Resting, CallInv
<1>1. ASSUME NEW c \in Calls, CallStep(c) PROVE CallInv' /\ WorkInv'
  BY <1>1, CallOKStep, WorkStep
<1>2. ASSUME UNCHANGED restart, park'.supervised = park.supervised,
             \A d \in Calls :
               \/ call'[d] = call[d]
               \/ /\ d # "supervisor" /\ call[d].pc = "idle" /\ call'[d].res = "none"
                  /\ \/ d # "manual" /\ call'[d].pc \in {"ask", "request"}
                     \/ d = "manual" /\ call'[d].pc = "prepare"
      PROVE  CallInv' /\ WorkInv'
  <2>1. ASSUME NEW d \in Calls PROVE CallOK(d)'
    BY <1>0, <1>2 DEF CallOK
  <2>2. SameWork
    BY <1>2, KeptSame DEF SameWork, AtWork
  <2> QED
    BY <2>1, <2>2, SameWorkSame DEF CallInv
<1>3. ASSUME NEW c \in Calls \ {"supervisor"}, call[c].pc = "idle", NEW l \in {"ask", "request", "prepare"},
             l = "prepare" <=> c = "manual",
             call' = [call EXCEPT ![c] = [Resting EXCEPT !.pc = l]], UNCHANGED restart,
             park'.supervised = park.supervised
      PROVE  CallInv' /\ WorkInv'
  <2>1. \A d \in Calls \ {c} : call'[d] = call[d]
    BY <1>0, <1>3
  <2>2. call'[c] = [Resting EXCEPT !.pc = l]
    BY <1>0, <1>3
  <2>3. call'[c].pc = l /\ call'[c].res = "none"
    BY <1>0, <2>2 DEF CallType
  <2> QED
    BY <1>2, <1>3, <2>1, <2>3
<1>4. ASSUME NEW c \in Requests, Save(c) PROVE CallInv' /\ WorkInv'
  <2>1. PICK l \in {"ask", "request"} : call' = [call EXCEPT ![c] = [Resting EXCEPT !.pc = l]]
    BY <1>4 DEF Save
  <2>2. call[c].pc = "idle" /\ UNCHANGED <<restart, park>> /\ c \in Calls \ {"supervisor", "manual"}
    BY <1>4 DEF Save, Calls, Requests, Appliers
  <2> QED
    BY <1>3, <2>1, <2>2
<1>5. CASE RestartOrder
  <2>1. /\ call["manual"].pc = "idle" /\ UNCHANGED <<restart, park>>
        /\ call' = [call EXCEPT !["manual"] = [Resting EXCEPT !.pc = "prepare"]]
    BY <1>5 DEF RestartOrder
  <2> QED
    BY <1>0, <1>3, <2>1
<1>6. ASSUME NEW p \in Procs, Notified(p) PROVE CallInv' /\ WorkInv'
  <2>1. CASE UNCHANGED <<park, call>>
    BY <1>2, <1>6, <2>1 DEF Notified
  <2>2. CASE /\ call["notified"].pc = "idle" /\ park' = Claimed
             /\ call' = [call EXCEPT !["notified"] = [Resting EXCEPT !.pc = "request"]]
    <3>1. park'.supervised = park.supervised
      BY <2>2 DEF Claimed, TypeOK
    <3> QED
      BY <1>0, <1>3, <1>6, <2>2, <3>1 DEF Notified
  <2> QED
    BY <1>6, <2>1, <2>2 DEF Notified
<1>7. CASE UNCHANGED <<restart, park, call>>
  BY <1>2, <1>7
<1> QED
  BY <1>1, <1>4, <1>5, <1>6, <1>7
     DEF Next, ProcStep, Serve, TurnBegins, TurnEnds, Ends, Monitor, Ready, StartOrder, StopOrder,
         StatusPoll, vars

LEMMA WaitersInit == Init => CallInv /\ WorkInv
<1> SUFFICES ASSUME Init PROVE CallInv /\ WorkInv
  OBVIOUS
<1>1. \A c \in Calls : call[c].pc = "idle" /\ call[c].res = "none"
  BY DEF Init, Resting
<1>2. CallInv
  BY <1>1 DEF CallInv, CallOK, Init
<1>3. \A c \in Calls : ~AtWork(c)
  BY <1>1 DEF AtWork
<1> QED
  BY <1>1, <1>2, <1>3 DEF WorkInv, Init

\* One call at a time restarts the gateway for a configuration, and none waits for a
\* result that nobody will send: who joins does so while the turn is taken, and who gives
\* it up answers the whole list.
THEOREM WaitersAnsweredCorrect == Spec => []WaitersAnswered
<1>1. Init => TypeOK /\ CallInv /\ WorkInv
  BY TypeInit, WaitersInit
<1>2. TypeOK /\ CallInv /\ WorkInv /\ [Next]_vars => (TypeOK /\ CallInv /\ WorkInv)'
  BY TypeStep, WaitersStep
<1>3. ASSUME TypeOK, WorkInv PROVE WaitersAnswered
  <2>1. CASE restart.running
    <3>1. PICK c \in Calls : AtWork(c)
      BY <1>3, <2>1 DEF WorkInv
    <3>2. {d \in Calls : AtWork(d)} = {c}
      BY <1>3, <3>1 DEF WorkInv
    <3>3. Cardinality({c}) = 1
      BY FS_Singleton
    <3> QED
      BY <1>3, <2>1, <3>2, <3>3 DEF WaitersAnswered, WorkInv
  <2>2. CASE ~restart.running
    <3>1. {d \in Calls : AtWork(d)} = {}
      BY <1>3, <2>2 DEF WorkInv
    <3>2. Cardinality({}) = 0
      BY FS_EmptySet
    <3> QED
      BY <1>3, <2>2, <3>1, <3>2 DEF WaitersAnswered, WorkInv
  <2> QED
    BY <2>1, <2>2
<1> QED
  BY <1>1, <1>2, <1>3, PTL DEF Spec
=============================================================================
