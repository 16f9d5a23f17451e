------------------------- MODULE GatewaySupervision -------------------------
(***************************************************************************)
(* How the launcher (src/core/src/web/backend/api/gateway.go,              *)
(* gateway_config_restart.go, gateway_idle_bridge.go) keeps one gateway    *)
(* process and makes a saved configuration live in it: by a restart when   *)
(* the gateway is idle, and otherwise by parking the change until the      *)
(* gateway reports that it has become idle, or a supervisor finds out.     *)
(*                                                                         *)
(* Each goroutine of the launcher that may end in a restart is a call: the *)
(* two kinds of saving request, the supervisor, the apply started by a     *)
(* notification, and the manual restart.  A call takes one step for each   *)
(* stretch it runs under a mutex and for each probe of the gateway.        *)
(***************************************************************************)
EXTENDS Integers, FiniteSets

CONSTANTS LastProc,   \* bound: gateway processes 1..LastProc are ever spawned
          LastTurn,   \* bound: number of turns the gateways handle
          Attempts,   \* pendingApplySupervisorAttempts
          Polls,      \* bound: polls of waitForGatewayIdle before its time-outs
          LastInput   \* bound: number of saves and orders together

ASSUME GatewayConstants ==
  /\ LastProc \in Nat \ {0} /\ LastTurn \in Nat
  /\ Attempts \in Nat \ {0} /\ Polls \in Nat /\ LastInput \in Nat

Procs == 1..LastProc
None == 0
Requests == {"telegram", "apply"}
Appliers == {"supervisor", "notified"}
Calls == Requests \cup Appliers \cup {"manual"}

VARIABLES
  saved,     \* the configuration on disk, counted from 1
  proc,      \* the gateway processes
  turns,     \* number of turns begun in any gateway
  gw,        \* gateway: the command tracked, whether spawned here (and then whether its
             \* readiness is still polled), the status, the signature
  token,     \* gatewayIdleAuth: the process whose notification is accepted
  park,      \* pendingConfigApply: a change waits, the error, supervised, applying
  restart,   \* configRestart: one is running, the calls that wait for its result
  call,      \* the goroutines
  attempts,  \* attempts of the supervisor
  inputs     \* number of saves and orders

vars == <<saved, proc, turns, gw, token, park, restart, call, attempts, inputs>>

Resting == [pc |-> "idle", prev |-> None, saw |-> "none", asked |-> 0, polls |-> 0, res |-> "none"]
Unborn == [st |-> "none", boot |-> None, turn |-> None, note |-> FALSE]

Nothing == [cmd |-> None, owned |-> FALSE, polled |-> FALSE, status |-> "stopped", sig |-> None]

\* The launcher before it starts a gateway, or with one that was there and that
\* TryAutoStartGateway adopted; its other start is StartOrder.
Init ==
  /\ saved = 1 /\ turns = 0 /\ attempts = 0 /\ inputs = 0 /\ token = None
  /\ park = [waits |-> FALSE, error |-> FALSE, supervised |-> FALSE, applying |-> FALSE]
  /\ restart = [running |-> FALSE, waiters |-> {}]
  /\ call = [c \in Calls |-> Resting]
  /\ \/ proc = [p \in Procs |-> Unborn] /\ gw = Nothing
     \/ /\ proc = [p \in Procs |-> IF p = 1 THEN [Unborn EXCEPT !.st = "serving", !.boot = 1] ELSE Unborn]
        /\ gw = [Nothing EXCEPT !.cmd = 1, !.status = "running", !.sig = 1]

-----------------------------------------------------------------------------
(* What the launcher can tell of the processes. *)

Alive(p) == p # None /\ proc[p].st \in {"spawned", "serving", "closing"}

\* The process that has the port and whose PID the record names.
Holders == {p \in Procs : proc[p].st \in {"serving", "closing"}}
Holder == IF Holders = {} THEN None ELSE CHOOSE p \in Holders : TRUE

\* The record as the launcher accepts it: of a process it did not spawn it may
\* be unable to tell that it is a gateway.
PidReads == {Holder} \cup (IF gw.owned /\ gw.cmd = Holder THEN {} ELSE {None})

Adopted(p) == [cmd |-> p, owned |-> FALSE, polled |-> FALSE, status |-> "running", sig |-> saved]
Reconciled(p) == IF p \in {None, gw.cmd} THEN gw ELSE Adopted(p)

Running(g) == g.status = "running" /\ Alive(g.cmd)
Degraded(g) ==
  IF g.status = "running" /\ ~Alive(g.cmd)
  THEN [g EXCEPT !.cmd = None, !.owned = FALSE, !.polled = FALSE, !.sig = None] ELSE g

\* gatewayProcessRunning
LookAt(p) == gw' = Degraded(Reconciled(p))

\* Mutant: an answer that cannot be read counts as idle.
NotBusy(answer) == answer # "busy"

\* What /health says, if it answers.
Answers == {"unknown"} \cup {IF proc[p].turn = None THEN "idle" ELSE "busy" : p \in Holders}
SaysIdle(answer) == answer = "idle"
CanRestart(outcome) == outcome \in {"down", "idle"}

Pending == park.waits \/ park.applying

Ended(p, st) == [proc EXCEPT ![p] = [Unborn EXCEPT !.st = st, !.note = proc[p].note]]
Terminated(p) ==
  IF proc[p].st = "spawned" THEN Ended(p, "failed") ELSE [proc EXCEPT ![p].st = "closing"]

\* startGatewayLocked of a new process, a new token with it (a start that fails later may
\* have changed the token already).  The launcher reads the configuration for the
\* signature before, the process reads it for itself after.
Spawn(status) ==
  \E p \in Procs :
    /\ proc[p].st = "none" /\ \A q \in 1..(p - 1) : proc[q].st # "none"
    /\ proc' = [proc EXCEPT ![p] = [Unborn EXCEPT !.st = "spawned"]]
    /\ gw' = [cmd |-> p, owned |-> TRUE, polled |-> TRUE, status |-> status, sig |-> saved]
    /\ token' = p

Input == inputs < LastInput /\ inputs' = inputs + 1
Go(c, pc) == call' = [call EXCEPT ![c].pc = pc]

\* The next attempt of the supervisor, if there is one.
Again ==
  /\ attempts' = attempts + 1
  /\ call' = [call EXCEPT !["supervisor"] =
                [Resting EXCEPT !.pc = IF attempts' < Attempts THEN "check" ELSE "last"]]

-----------------------------------------------------------------------------
(* A request saves a configuration and has it applied.  The Telegram form   *)
(* only asks once whether the gateway is idle; the other waits for it.      *)

Save(c) ==
  /\ Input /\ call[c].pc = "idle"
  /\ saved' = saved + 1
  /\ call' = [call EXCEPT ![c] = [Resting EXCEPT !.pc = IF c = "telegram" THEN "ask" ELSE "request"]]
  /\ UNCHANGED <<proc, turns, gw, token, park, restart, attempts>>

\* gatewayIdleNow, also asked by the supervisor.
IdleNow(c) == Go(c, IF c = "supervisor" THEN "claim" ELSE "request") /\ UNCHANGED attempts
NotIdleNow(c) ==
  IF c = "supervisor" THEN Again ELSE Go(c, "park") /\ UNCHANGED attempts

Ask(c) ==
  /\ call[c].pc = "ask"
  /\ \E p \in PidReads : LookAt(p)
  /\ IF Running(gw') THEN Go(c, "askBusy") /\ UNCHANGED attempts ELSE IdleNow(c)
  /\ UNCHANGED <<saved, proc, turns, token, park, restart, inputs>>

AskBusy(c) ==
  /\ call[c].pc = "askBusy"
  /\ \E a \in Answers : IF SaysIdle(a) THEN IdleNow(c) ELSE NotIdleNow(c)
  /\ UNCHANGED <<saved, proc, turns, gw, token, park, restart, inputs>>

\* markConfigApplyPending, then startPendingApplySupervisor.
Park(c) ==
  /\ call[c].pc = "park"
  /\ park' = [park EXCEPT !.waits = TRUE, !.error = FALSE, !.supervised = TRUE]
  /\ LET parked == [call EXCEPT ![c].pc = IF call[c].res = "busy" THEN "leave" ELSE "idle"]
     IN  IF park.supervised
         THEN call' = parked /\ UNCHANGED attempts
         ELSE /\ call' = [parked EXCEPT !["supervisor"] = [Resting EXCEPT !.pc = "check"]]
              /\ attempts' = 0
  /\ UNCHANGED <<saved, proc, turns, gw, token, restart, inputs>>

-----------------------------------------------------------------------------
(* RestartGatewayForConfigChange: one restart at a time, the others join it. *)

Request(c) ==
  /\ call[c].pc = "request"
  /\ IF restart.running
     THEN /\ restart' = [restart EXCEPT !.waiters = @ \cup {c}]
          /\ Go(c, "joined")
     ELSE /\ restart' = [restart EXCEPT !.running = TRUE]
          /\ call' = [call EXCEPT ![c] = [Resting EXCEPT !.pc = "wait"]]
  /\ UNCHANGED <<saved, proc, turns, gw, token, park, attempts, inputs>>

\* waitForGatewayIdle: look for the process, then probe it, until a deadline.
Outcome(c, o) ==
  call' = [call EXCEPT ![c] =
             IF CanRestart(o) THEN [Resting EXCEPT !.pc = "prepare", !.saw = o, !.asked = turns]
             ELSE [Resting EXCEPT !.pc = "park", !.res = "busy"]]

Wait(c) ==
  /\ call[c].pc = "wait"
  /\ \E p \in PidReads : LookAt(p)
  /\ IF Running(gw') THEN Go(c, "probe") ELSE Outcome(c, "down")
  /\ UNCHANGED <<saved, proc, turns, token, park, restart, attempts, inputs>>

Probe(c) ==
  /\ call[c].pc = "probe"
  /\ \E a \in Answers :
       \/ SaysIdle(a) /\ Outcome(c, "idle")
       \/ ~SaysIdle(a) /\ Outcome(c, IF a = "busy" THEN "busy_timeout" ELSE "unverified")
       \/ ~SaysIdle(a) /\ call[c].polls < Polls
            /\ call' = [call EXCEPT ![c].pc = "wait", ![c].polls = @ + 1]
  /\ UNCHANGED <<saved, proc, turns, gw, token, park, restart, attempts, inputs>>

\* RestartGateway is over: back to RestartGatewayForConfigChange, or to the user.
Over(c, res) ==
  call' = [call EXCEPT ![c] =
             IF c = "manual" THEN Resting ELSE [Resting EXCEPT !.pc = "leave", !.res = res]]

Prepare(c) ==
  /\ call[c].pc = "prepare"
  /\ \E p \in PidReads :
       \/ /\ gw' = [Reconciled(p) EXCEPT !.status = "restarting"]
          /\ call' = [call EXCEPT ![c].pc = "signal", ![c].prev = gw'.cmd]
       \/ gw' = Reconciled(p) /\ Over(c, "failed")      \* the configuration cannot be read
  /\ UNCHANGED <<saved, proc, turns, token, park, restart, attempts, inputs>>

\* stopGatewayProcessForRestart, without the lock: SIGTERM, wait, SIGKILL, wait.
Signal(c) ==
  /\ call[c].pc = "signal"
  /\ IF Alive(call[c].prev)
     THEN /\ proc' = Terminated(call[c].prev)
          /\ call' = [call EXCEPT ![c] = [Resting EXCEPT !.pc = "exit", !.prev = call[c].prev]]
     ELSE Go(c, "start") /\ UNCHANGED proc
  /\ UNCHANGED <<saved, turns, gw, token, park, restart, attempts, inputs>>

Exited(c) ==
  /\ call[c].pc = "exit"
  /\ proc' = IF Alive(call[c].prev) THEN Ended(call[c].prev, "failed") ELSE proc
  /\ Go(c, "start")
  /\ UNCHANGED <<saved, turns, gw, token, park, restart, attempts, inputs>>

StopFails(c) ==
  /\ call[c].pc = "exit" /\ Alive(call[c].prev)
  /\ gw' = IF gw.cmd = call[c].prev THEN [gw EXCEPT !.status = "running"] ELSE gw
  /\ Over(c, "failed")
  /\ UNCHANGED <<saved, proc, turns, token, park, restart, attempts, inputs>>

Start(c) ==
  /\ call[c].pc = "start"
  /\ \/ Spawn("restarting") /\ Over(c, "ok")
     \/ /\ gw' = [gw EXCEPT !.cmd = None, !.polled = FALSE, !.status = "error"]
        /\ Over(c, "failed")
        /\ token' \in {token, None} /\ UNCHANGED proc
  /\ UNCHANGED <<saved, turns, park, restart, attempts, inputs>>

\* Mutant: the list of those that joined is not emptied.
ListStays(c) ==
  /\ call[c].pc = "leave"
  /\ restart' = [restart EXCEPT !.running = FALSE]
  /\ call' = [d \in Calls |->
                IF d \in restart.waiters \cup {c}
                THEN IF d \in Appliers
                     THEN [Resting EXCEPT !.pc = "report", !.res = call[c].res] ELSE Resting
                ELSE call[d]]
  /\ UNCHANGED <<saved, proc, turns, gw, token, park, attempts, inputs>>

\* The result goes to the call and to those that joined.
Leave(c) ==
  /\ call[c].pc = "leave"
  /\ restart' = [running |-> FALSE, waiters |-> {}]
  /\ call' = [d \in Calls |->
                IF d \in restart.waiters \cup {c}
                THEN IF d \in Appliers
                     THEN [Resting EXCEPT !.pc = "report", !.res = call[c].res] ELSE Resting
                ELSE call[d]]
  /\ UNCHANGED <<saved, proc, turns, gw, token, park, attempts, inputs>>

-----------------------------------------------------------------------------
(* Applying a parked change. *)

Claimed == [park EXCEPT !.waits = FALSE, !.applying = park.waits \/ @]

\* Mutant: the supervisor returns after its apply.
ReportAndReturn(c) ==
  /\ call[c].pc = "report"
  /\ park' = [park EXCEPT !.error = call[c].res # "ok", !.applying = FALSE]
  /\ call' = [call EXCEPT ![c] = [Resting EXCEPT !.pc = IF c = "supervisor" THEN "clear" ELSE "idle"]]
  /\ UNCHANGED <<saved, proc, turns, gw, token, restart, attempts, inputs>>

\* The end of applyPendingConfigRestart; the supervisor goes on.
Report(c) ==
  /\ call[c].pc = "report"
  /\ park' = [park EXCEPT !.error = call[c].res # "ok", !.applying = FALSE]
  /\ IF c = "supervisor" THEN Again
     ELSE call' = [call EXCEPT ![c] = Resting] /\ UNCHANGED attempts
  /\ UNCHANGED <<saved, proc, turns, gw, token, restart, inputs>>

\* supervisePendingConfigApply, up to its deferred stopPendingApplySupervisor.
Supervise ==
  LET c == "supervisor"
      at(pc) == call[c].pc = pc
  IN  /\ \/ at("check") /\ Go(c, IF Pending THEN "ask" ELSE "clear") /\ UNCHANGED <<park, attempts>>
         \/ at("claim") /\ park' = Claimed /\ Go(c, IF park.waits THEN "request" ELSE "clear")
              /\ UNCHANGED attempts
         \/ at("last") /\ park' = [park EXCEPT !.error = Pending \/ @] /\ Go(c, "clear")
              /\ UNCHANGED attempts
         \/ at("clear") /\ park' = [park EXCEPT !.supervised = FALSE]
              /\ call' = [call EXCEPT ![c] = Resting] /\ attempts' = 0
      /\ UNCHANGED <<saved, proc, turns, gw, token, restart, inputs>>

\* The notification of p arrives, or not.  One apply of this kind at a time.
Notified(p) ==
  /\ proc[p].note
  /\ proc' = [proc EXCEPT ![p].note = FALSE]
  /\ \/ /\ p = token /\ park.waits /\ call["notified"].pc = "idle"
        /\ park' = Claimed
        /\ call' = [call EXCEPT !["notified"] = [Resting EXCEPT !.pc = "request"]]
     \/ UNCHANGED <<park, call>>
  /\ UNCHANGED <<saved, turns, gw, token, restart, attempts, inputs>>

-----------------------------------------------------------------------------
(* Orders of the user, and the status the console polls. *)

StartOrder ==
  /\ Input
  /\ \E p \in PidReads :
       \/ p # None /\ gw' = Adopted(p) /\ UNCHANGED <<proc, token>>
       \/ p = None /\ Spawn("starting")
       \/ /\ p = None /\ gw.cmd # None
          /\ gw' = [gw EXCEPT !.cmd = None, !.polled = FALSE, !.status = "stopped"]
          /\ token' \in {token, None} /\ UNCHANGED proc
  /\ UNCHANGED <<saved, turns, park, restart, call, attempts>>

StopOrder ==
  /\ Input
  /\ Alive(gw.cmd)
  /\ proc' = Terminated(gw.cmd)
  /\ gw' = [gw EXCEPT !.cmd = None, !.owned = FALSE, !.polled = FALSE, !.status = "stopped"]
  /\ token' = None
  /\ UNCHANGED <<saved, turns, park, restart, call, attempts>>

RestartOrder ==
  /\ Input
  /\ call["manual"].pc = "idle"
  /\ call' = [call EXCEPT !["manual"] = [Resting EXCEPT !.pc = "prepare"]]
  /\ UNCHANGED <<saved, proc, turns, gw, token, park, restart, attempts>>

StatusPoll ==
  /\ \E p \in PidReads :
       gw' = IF p = None THEN Degraded(gw) ELSE [Reconciled(p) EXCEPT !.status = "running"]
  /\ UNCHANGED <<saved, proc, turns, token, park, restart, call, attempts, inputs>>

-----------------------------------------------------------------------------
(* The gateway processes, and the two goroutines the launcher keeps for each. *)

\* Run: reads the configuration, opens the port, writes its record; or gives up.
Serve(p) ==
  /\ proc[p].st = "spawned"
  /\ proc' = IF Holders = {} THEN [proc EXCEPT ![p].st = "serving", ![p].boot = saved]
             ELSE Ended(p, "failed")
  /\ UNCHANGED <<saved, turns, gw, token, park, restart, call, attempts, inputs>>

TurnBegins(p) ==
  /\ proc[p].st = "serving" /\ proc[p].turn = None /\ turns < LastTurn
  /\ turns' = turns + 1
  /\ proc' = [proc EXCEPT ![p].turn = turns']
  /\ UNCHANGED <<saved, gw, token, park, restart, call, attempts, inputs>>

TurnEnds(p) ==
  /\ p \in Holders /\ proc[p].turn # None
  /\ proc' = [proc EXCEPT ![p].turn = None, ![p].note = TRUE]
  /\ UNCHANGED <<saved, turns, gw, token, park, restart, call, attempts, inputs>>

\* It ends after a SIGTERM, or by itself.
Ends(p) ==
  /\ p \in Holders
  /\ proc' = Ended(p, IF proc[p].st = "closing" THEN "exited" ELSE "failed")
  /\ UNCHANGED <<saved, turns, gw, token, park, restart, call, attempts, inputs>>

\* A command that was adopted is another object: the goroutines leave it alone.
Tracks(p) == gw.cmd = p /\ gw.owned

Reaped(p) ==
  [gw EXCEPT !.cmd = None, !.polled = FALSE, !.sig = None,
             !.status = CASE @ = "restarting" -> @
                          [] @ = "starting" /\ proc[p].st = "failed" -> "error"
                          [] OTHER -> "stopped"]

Monitor(p) ==
  /\ Tracks(p) /\ proc[p].st \in {"exited", "failed"}
  /\ gw' = Reaped(p)
  /\ UNCHANGED <<saved, proc, turns, token, park, restart, call, attempts, inputs>>

\* Mutant: the signature is taken when the gateway is ready.
ReadySigned(p) ==
  /\ Tracks(p) /\ gw.polled
  /\ gw' \in {[gw EXCEPT !.status = "running", !.polled = FALSE, !.sig = saved] : q \in Holders}
              \cup {[gw EXCEPT !.polled = FALSE]}
  /\ UNCHANGED <<saved, proc, turns, token, park, restart, call, attempts, inputs>>

\* The record of p, or someone's answer to a health probe; or the polls are over.
Ready(p) ==
  /\ Tracks(p) /\ gw.polled
  /\ gw' \in {[gw EXCEPT !.status = "running", !.polled = p \notin Holders] : q \in Holders}
              \cup {[gw EXCEPT !.polled = FALSE]}
  /\ UNCHANGED <<saved, proc, turns, token, park, restart, call, attempts, inputs>>

-----------------------------------------------------------------------------
CallStep(c) ==
  \/ Ask(c) \/ AskBusy(c) \/ Park(c) \/ Request(c) \/ Wait(c) \/ Probe(c)
  \/ Prepare(c) \/ Signal(c) \/ Exited(c) \/ StopFails(c) \/ Start(c) \/ Leave(c)
  \/ Report(c)
  \/ c = "supervisor" /\ Supervise

ProcStep(p) ==
  \/ Notified(p) \/ Serve(p) \/ TurnBegins(p) \/ TurnEnds(p) \/ Ends(p) \/ Monitor(p) \/ Ready(p)

Next ==
  \/ \E c \in Requests : Save(c)
  \/ \E c \in Calls : CallStep(c)
  \/ \E p \in Procs : ProcStep(p)
  \/ StartOrder \/ StopOrder \/ RestartOrder \/ StatusPoll

Spec == Init /\ [][Next]_vars

\* The goroutines of the launcher run on; no process, user or turn is assumed to move.
FairSpec == Spec /\ \A c \in Calls : WF_vars(CallStep(c))

-----------------------------------------------------------------------------
(* Properties *)

Lines == {"idle", "ask", "askBusy", "park", "request", "joined", "wait", "probe", "prepare",
          "signal", "exit", "start", "leave", "report", "check", "claim", "last", "clear"}

Versions == 0..saved
Begun == 0..turns
Tracked == Procs \cup {None}
Polled == 0..Polls
ProcType == [st : {"none", "spawned", "serving", "closing", "exited", "failed"},
             boot : Versions, turn : Begun, note : BOOLEAN]
GatewayType == [cmd : Tracked, owned : BOOLEAN, polled : BOOLEAN, sig : Versions,
                status : {"stopped", "starting", "running", "restarting", "error"}]
CallType == [pc : Lines, prev : Tracked, saw : {"none", "down", "idle"},
             asked : Begun, polls : Polled, res : {"none", "busy", "ok", "failed"}]

\* The variables stay in their ranges.
TypeOK ==
  /\ saved \in 1..(1 + inputs) /\ turns \in 0..LastTurn /\ token \in Tracked
  /\ attempts \in Nat /\ inputs \in 0..LastInput
  /\ proc \in [Procs -> ProcType] /\ gw \in GatewayType /\ call \in [Calls -> CallType]
  /\ park \in [waits : BOOLEAN, error : BOOLEAN, supervised : BOOLEAN, applying : BOOLEAN]
  /\ restart \in [running : BOOLEAN, waiters : SUBSET Calls]

\* A restart for a configuration that found the gateway running cuts no turn short
\* that had begun when it asked (waitForGatewayIdle: neither an unreadable answer nor
\* a time-out is permission to interrupt).
WorkSpared ==
  [][\A c \in Requests \cup Appliers :
       /\ call[c].pc = "signal" /\ call'[c].pc = "exit" /\ call[c].saw # "down"
       => proc[call[c].prev].turn = None \/ proc[call[c].prev].turn > call[c].asked]_vars

\* A gateway this launcher spawned and that runs an older configuration than the one
\* saved shows as in need of a restart (gatewayRestartRequiredBySignature), whatever was
\* saved while it was starting.
StaleShown ==
  \A p \in Holders : Tracks(p) /\ proc[p].boot # saved => gw.sig # saved

\* One call at a time restarts the gateway for a configuration, and a call that joined it
\* is on the list of those it will answer: none waits for a result that nobody will send
\* (RestartGatewayForConfigChange takes the list and gives up its turn in one step).
AtWork(c) ==
  \/ call[c].pc \in {"wait", "probe", "leave"}
  \/ call[c].pc = "park" /\ call[c].res = "busy"
  \/ call[c].pc \in {"prepare", "signal", "exit", "start"} /\ c # "manual"
WaitersAnswered ==
  /\ Cardinality({c \in Calls : AtWork(c)}) = IF restart.running THEN 1 ELSE 0
  /\ restart.waiters = {c \in Calls : call[c].pc = "joined"}
  /\ restart.waiters # {} => restart.running

\* A change parked while the supervisor is in its loop is taken up or reported, even
\* if the gateway never says that it is idle and no notification arrives.
InLoop == call["supervisor"].pc \notin {"idle", "last", "clear"}
ParkedSettles == park.waits /\ InLoop ~> ~park.waits \/ park.error
=============================================================================
