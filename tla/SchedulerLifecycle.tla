-------------------------- MODULE SchedulerLifecycle --------------------------
(***************************************************************************)
(* The lifecycle of the background scheduler (daemon/scheduler.js): one    *)
(* JavaScript process whose starts and stops are serialized by a promise   *)
(* queue while their first, synchronous part takes effect at once; a       *)
(* generation number that invalidates whatever was under way; one timer;   *)
(* a timer cycle, a run started by hand, the retry after a failed start    *)
(* and the restart that waits for idle; and the settings request of        *)
(* main.js that stops the scheduler, saves and starts it again.  A step    *)
(* stands for the code between two awaits.                                 *)
(***************************************************************************)
EXTENDS Naturals, Sequences

CONSTANTS MaxUser,   \* bound: settings requests, manual runs and shutdowns
          MaxFault   \* bound: failed loads, timed-out waits, aborted requests

ASSUME BoundsAssumption == MaxUser \in Nat /\ MaxFault \in Nat

VARIABLES
    gen,         \* schedulerGeneration
    terminal,    \* schedulerTerminalShutdown
    stopReqs,    \* schedulerStopRequestsPending
    queue,       \* schedulerLifecycleQueue: operations not begun
    exec,        \* the operation in progress (schedulerLifecycleTransition)
    timer,       \* the pending timer and the generation its callback captured
    enabled, timerActive,  \* state.enabled, state.timer_active
    cycle,       \* the timer cycle (activeTimerCyclePromise)
    manual,      \* the run started by hand (activeRunLease)
    idle,        \* schedulerIdleRestart: its generation
    on,          \* the saved setting scheduler.enabled
    client,      \* the settings request and the generation of its stop
    recover,     \* requests about to restart the scheduler if it is runnable
    gaveUp,      \* ghost: the code left the scheduler off on its own account
    users, faults
vars == <<gen, terminal, stopReqs, queue, exec, timer, enabled, timerActive,
          cycle, manual, idle, on, client, recover, gaveUp, users, faults>>

NoTimer == [kind |-> "none", gen |-> 0]
NoExec == [kind |-> "none", pc |-> "none", gen |-> 0, by |-> "none", aborted |-> FALSE]
NoCycle == [pc |-> "idle", gen |-> 0, on |-> FALSE]
NoRun == [pc |-> "idle", gen |-> 0]
NoIdle == [set |-> FALSE, gen |-> 0]
NoClient == [pc |-> "idle", gen |-> 0]
Op(kind, by) == [kind |-> kind, gen |-> gen, by |-> by, aborted |-> FALSE]

\* by: "client" is the request's first stop and its start, "save" a stop after
\* its save.
Operation == [kind : {"start", "stop"}, gen : Nat, by : {"client", "save", "other"},
              aborted : BOOLEAN]

TypeOK ==
    /\ gen \in Nat /\ terminal \in BOOLEAN /\ stopReqs \in Nat
    /\ queue \in Seq(Operation)
    /\ exec \in [kind : {"none", "start", "stop"},
                 pc : {"none", "drain", "load", "setup", "disable", "recheck", "persist"},
                 gen : Nat, by : {"none", "client", "save", "other"}, aborted : BOOLEAN]
    /\ timer \in [kind : {"none", "tick", "retry"}, gen : Nat]
    /\ enabled \in BOOLEAN /\ timerActive \in BOOLEAN
    /\ cycle \in [pc : {"idle", "run", "disabled", "load", "setup", "disable", "recheck",
                        "persist"},
                  gen : Nat, on : BOOLEAN]
    /\ manual \in [pc : {"idle", "run", "disabled"}, gen : Nat]
    /\ idle \in [set : BOOLEAN, gen : Nat]
    /\ on \in BOOLEAN
    /\ client \in [pc : {"idle", "stopping", "saving", "saved", "restopping", "checking",
                         "starting"}, gen : Nat]
    /\ recover \in Nat
    /\ gaveUp \in BOOLEAN
    /\ users \in 0..MaxUser /\ faults \in 0..MaxFault

\* main() starts the scheduler once.
Init ==
    /\ gen = 0 /\ terminal = FALSE /\ stopReqs = 0
    /\ queue = <<[kind |-> "start", gen |-> 0, by |-> "other", aborted |-> FALSE]>>
    /\ exec = NoExec /\ timer = NoTimer
    /\ enabled = FALSE /\ timerActive = FALSE
    /\ cycle = NoCycle /\ manual = NoRun /\ idle = NoIdle
    /\ on \in BOOLEAN /\ client = NoClient /\ recover = 0 /\ gaveUp = FALSE
    /\ users = 0 /\ faults = 0

user == <<users, faults>>
Fault == faults < MaxFault /\ faults' = faults + 1 /\ UNCHANGED users
User == users < MaxUser /\ users' = users + 1 /\ UNCHANGED faults

Activity == cycle.pc # "idle" \/ manual.pc # "idle"
CanPublish(g) == ~terminal /\ g = gen

\* An operation begins in a microtask: no timer and no request comes between.
Settled == queue = <<>> \/ exec # NoExec

\* Mutated: the timer is not cleared.
StopRuntimeKeepsTimer(advance) ==
    /\ gen' = IF advance THEN gen + 1 ELSE gen
    /\ UNCHANGED timer
    /\ enabled' = FALSE /\ timerActive' = FALSE

\* schedulerStopRuntimeNow; the runs it aborts see it at their next check.
StopRuntimeNow(advance) ==
    /\ gen' = IF advance THEN gen + 1 ELSE gen
    /\ timer' = NoTimer
    /\ enabled' = FALSE /\ timerActive' = FALSE

\* markSchedulerRuntimeBlocked with retry: the recovery timer, if still current.
RetryLater(g) ==
    IF CanPublish(g)
      THEN /\ timer' = [kind |-> "retry", gen |-> g]
           /\ enabled' = TRUE /\ timerActive' = TRUE
      ELSE UNCHANGED <<timer, enabled, timerActive>>

\* scheduleNext up to the write of the runtime state ...
ScheduleNext(g) ==
    IF CanPublish(g)
      THEN timer' = NoTimer /\ timerActive' = TRUE
      ELSE UNCHANGED <<timer, timerActive>>

\* Mutated: the generation is not compared after the write.
ArmTimerAlways(g) == timer' = [kind |-> "tick", gen |-> g]

\* ... and after it.
ArmTimer(g) ==
    timer' = IF CanPublish(g) THEN [kind |-> "tick", gen |-> g] ELSE timer

-----------------------------------------------------------------------------
(* The queue *)

\* A start that was queued before the last stop, or after the shutdown, or
\* whose request is gone does nothing; otherwise it first stops what runs.
BeginStart ==
    /\ exec = NoExec /\ queue # <<>>
    /\ Head(queue).kind = "start"
    /\ queue' = Tail(queue)
    /\ LET op == Head(queue) IN
         IF CanPublish(op.gen) /\ ~op.aborted
           THEN /\ StopRuntimeNow(TRUE)
                /\ exec' = [kind |-> "start", pc |-> "drain", gen |-> 0,
                            by |-> op.by, aborted |-> FALSE]
                /\ gaveUp' = FALSE
                /\ UNCHANGED client
           ELSE /\ client' = IF op.by = "client" /\ ~op.aborted THEN NoClient ELSE client
                /\ UNCHANGED <<gen, timer, enabled, timerActive, exec, gaveUp>>
    /\ UNCHANGED <<terminal, stopReqs, cycle, manual, idle, recover, on, user>>

\* Mutated: the stop relies on what was done when it was asked for.
BeginStopOnce ==
    /\ exec = NoExec /\ queue # <<>>
    /\ Head(queue).kind = "stop"
    /\ queue' = Tail(queue)
    /\ exec' = [kind |-> "stop", pc |-> "drain", gen |-> Head(queue).gen,
                by |-> Head(queue).by, aborted |-> FALSE]
    /\ UNCHANGED <<gen, timer, enabled, timerActive, terminal, stopReqs, cycle,
                   manual, idle, recover, on, client, gaveUp, user>>

\* A stop was applied when it was asked for; it is applied again in its turn.
BeginStop ==
    /\ exec = NoExec /\ queue # <<>>
    /\ Head(queue).kind = "stop"
    /\ queue' = Tail(queue)
    /\ StopRuntimeNow(FALSE)
    /\ exec' = [kind |-> "stop", pc |-> "drain", gen |-> Head(queue).gen,
                by |-> Head(queue).by, aborted |-> FALSE]
    /\ UNCHANGED <<terminal, stopReqs, cycle, manual, idle, recover, on, client, gaveUp, user>>

\* The settings request fails; a restart waits for idle and another one follows.
ClientRefused ==
    /\ client' = NoClient
    /\ idle' = IF terminal THEN idle ELSE [set |-> TRUE, gen |-> gen]
    /\ recover' = recover + 1

EndExec ==
    /\ exec' = NoExec
    /\ client' = IF exec.kind = "start" /\ exec.by = "client" /\ ~exec.aborted
                   THEN NoClient ELSE client

\* After its save the request goes on to the start; when the output directory
\* changed and the old run has not ended, nothing is started (main.js 20094).
GoesOn ==
    /\ client' = [client EXCEPT !.pc = "checking"] /\ UNCHANGED gaveUp
LeavesStopped ==
    /\ Activity /\ Fault
    /\ client' = NoClient /\ gaveUp' = TRUE

\* The stop is done: what ran has ended, or five seconds were not enough, or a
\* stop after a save did not wait.  The settings request goes on, or is refused
\* before its save and leaves a restart behind.
StopDone ==
    /\ exec.kind = "stop"
    /\ exec' = NoExec
    /\ stopReqs' = stopReqs - 1
    /\ \/ /\ exec.by = "client" /\ client = [pc |-> "stopping", gen |-> exec.gen]
          /\ IF Activity
               THEN Fault /\ ClientRefused
               ELSE /\ client' = [client EXCEPT !.pc = "saving"]
                    /\ UNCHANGED <<idle, recover, user>>
          /\ UNCHANGED gaveUp
       \/ /\ exec.by = "save" /\ client = [pc |-> "restopping", gen |-> exec.gen]
          /\ (GoesOn /\ UNCHANGED user) \/ LeavesStopped
          /\ UNCHANGED <<idle, recover>>
       \/ /\ client \notin [pc : {"stopping", "restopping"}, gen : {exec.gen}]
          /\ IF Activity /\ exec.by # "save" THEN Fault ELSE UNCHANGED user
          /\ UNCHANGED <<client, idle, recover, gaveUp>>
    /\ UNCHANGED <<gen, terminal, queue, timer, enabled, timerActive, cycle, manual, on>>

-----------------------------------------------------------------------------
(* A start in progress *)

Starting(pc) == exec.kind = "start" /\ exec.pc = pc
GotoExec(pc) == exec' = [exec EXCEPT !.pc = pc] /\ UNCHANGED client
Blocked == terminal \/ exec.aborted

\* What ran has ended: the start works for the generation of this moment.
Drained ==
    /\ Starting("drain") /\ ~Activity /\ ~Blocked
    /\ exec' = [exec EXCEPT !.pc = "load", !.gen = gen]
    /\ UNCHANGED <<gen, terminal, stopReqs, queue, timer, enabled, timerActive,
                   cycle, manual, idle, recover, on, client, gaveUp, user>>

\* It has not: the start is refused, and nothing will try again.
DrainTimesOut ==
    /\ Starting("drain") /\ Activity /\ ~Blocked
    /\ Fault
    /\ enabled' = FALSE /\ timerActive' = FALSE
    /\ gaveUp' = TRUE
    /\ EndExec
    /\ UNCHANGED <<gen, terminal, stopReqs, queue, timer, cycle, manual, idle, recover, on>>

\* The shutdown, the caller's signal or a newer generation ends the start.
StartDropped ==
    /\ exec.kind = "start" /\ exec.pc # "persist"
    /\ Blocked \/ (exec.pc # "drain" /\ exec.gen # gen)
    /\ EndExec
    /\ UNCHANGED <<gen, terminal, stopReqs, queue, timer, enabled, timerActive,
                   cycle, manual, idle, recover, on, gaveUp, user>>

StartLoads ==
    /\ Starting("load") /\ ~Blocked /\ exec.gen = gen
    /\ enabled' = on /\ timerActive' = FALSE
    /\ IF on THEN GotoExec("setup") ELSE EndExec
    /\ UNCHANGED <<gen, terminal, stopReqs, queue, timer, cycle, manual, idle, recover, on,
                   gaveUp, user>>

\* The settings or the account list cannot be read: a retry is armed.
StartBlocked ==
    /\ exec.kind = "start" /\ exec.pc \in {"load", "setup", "disable", "recheck"} /\ ~Blocked
    /\ Fault
    /\ RetryLater(exec.gen)
    /\ EndExec
    /\ UNCHANGED <<gen, terminal, stopReqs, queue, cycle, manual, idle, recover, on, gaveUp>>

StartReady ==
    /\ Starting("setup") /\ ~Blocked /\ exec.gen = gen
    /\ ScheduleNext(exec.gen)
    /\ GotoExec("persist")
    /\ UNCHANGED <<gen, terminal, stopReqs, queue, enabled, cycle, manual, idle, recover, on,
                   gaveUp, user>>

StartNeedsSetup ==
    /\ Starting("setup") /\ ~Blocked
    /\ GotoExec("disable")
    /\ UNCHANGED <<gen, terminal, stopReqs, queue, timer, enabled, timerActive,
                   cycle, manual, idle, recover, on, gaveUp, user>>

\* disablePersistedSchedulerForSetup: the setting is switched off or was off ...
StartDisables ==
    /\ Starting("disable") /\ ~Blocked
    /\ on' = FALSE
    /\ enabled' = IF exec.gen = gen THEN FALSE ELSE enabled
    /\ EndExec
    /\ UNCHANGED <<gen, terminal, stopReqs, queue, timer, timerActive, cycle, manual,
                   idle, recover, gaveUp, user>>

\* ... or it is left on, for its latest check found nothing missing, ...
StartStaysOn ==
    /\ Starting("disable") /\ ~Blocked /\ exec.gen = gen
    /\ on
    /\ enabled' = TRUE
    /\ GotoExec("recheck")
    /\ UNCHANGED <<gen, terminal, stopReqs, queue, timer, timerActive, cycle, manual,
                   idle, recover, on, gaveUp, user>>

\* ... and the third check agrees, ...
StartNeedsNone ==
    /\ Starting("recheck") /\ ~Blocked /\ exec.gen = gen
    /\ ScheduleNext(exec.gen)
    /\ GotoExec("persist")
    /\ UNCHANGED <<gen, terminal, stopReqs, queue, enabled, cycle, manual, idle, recover, on,
                   gaveUp, user>>

\* ... or does not: nothing is scheduled and the saved setting stays on ...
StartStillNeedsSetup ==
    /\ Starting("recheck") /\ ~Blocked
    /\ enabled' = FALSE
    /\ gaveUp' = (gaveUp \/ exec.gen = gen)
    /\ EndExec
    /\ UNCHANGED <<gen, terminal, stopReqs, queue, timer, timerActive, cycle, manual,
                   idle, recover, on, user>>

\* ... or switching it off fails.
StartDisableFails ==
    /\ Starting("disable") /\ ~Blocked
    /\ Fault
    /\ IF exec.gen = gen THEN enabled' = FALSE /\ timerActive' = FALSE /\ gaveUp' = TRUE
                         ELSE UNCHANGED <<enabled, timerActive, gaveUp>>
    /\ EndExec
    /\ UNCHANGED <<gen, terminal, stopReqs, queue, timer, cycle, manual, idle, recover, on>>

StartArms ==
    /\ Starting("persist")
    /\ ArmTimer(exec.gen)
    /\ EndExec
    /\ UNCHANGED <<gen, terminal, stopReqs, queue, enabled, timerActive, cycle, manual,
                   idle, recover, on, gaveUp, user>>

-----------------------------------------------------------------------------
(* The timer, its cycle and the run by hand *)

\* The callback runs nothing when a run, a stop or a transition is under way;
\* the cycle then only schedules the next one.
TickFires ==
    /\ Settled
    /\ timer.kind = "tick" /\ CanPublish(timer.gen)
    /\ timer' = NoTimer /\ timerActive' = FALSE
    /\ cycle' = [pc |-> IF manual = NoRun /\ stopReqs = 0 /\ exec = NoExec
                          THEN "run" ELSE "load",
                 gen |-> timer.gen, on |-> FALSE]
    /\ UNCHANGED <<gen, terminal, stopReqs, queue, exec, enabled, manual, idle, recover, on,
                   client, gaveUp, user>>

RetryFires ==
    /\ Settled
    /\ timer.kind = "retry" /\ CanPublish(timer.gen)
    /\ timer' = NoTimer /\ timerActive' = FALSE
    /\ queue' = Append(queue, Op("start", "other"))
    /\ UNCHANGED <<gen, terminal, stopReqs, exec, enabled, cycle, manual, idle, recover, on,
                   client, gaveUp, user>>

control == <<gen, terminal, stopReqs, queue, exec, idle, client>>
lifecycle == <<control, recover, gaveUp>>

\* stopSchedulerRuntimeAfterPersistedDisable
StopsRuntime(g) ==
    IF CanPublish(g)
      THEN timer' = NoTimer /\ enabled' = FALSE /\ timerActive' = FALSE
      ELSE UNCHANGED <<timer, enabled, timerActive>>

CycleAt(pc) == cycle.pc = pc
CycleCurrent == CanPublish(cycle.gen)

CycleRunEnds ==
    /\ CycleAt("run")
    /\ cycle' = [cycle EXCEPT !.pc = "load"]
    /\ UNCHANGED <<lifecycle, timer, enabled, timerActive, manual, on, user>>

CycleStale ==
    /\ cycle.pc \in {"load", "setup", "disable", "recheck"} /\ ~CycleCurrent
    /\ cycle' = NoCycle
    /\ UNCHANGED <<lifecycle, timer, enabled, timerActive, manual, on, user>>

CycleLoads ==
    /\ CycleAt("load") /\ CycleCurrent
    /\ cycle' = [cycle EXCEPT !.pc = "setup", !.on = on]
    /\ UNCHANGED <<lifecycle, timer, enabled, timerActive, manual, on, user>>

CycleBlocked ==
    /\ cycle.pc \in {"load", "setup", "disable", "recheck"} /\ CycleCurrent
    /\ Fault
    /\ RetryLater(cycle.gen)
    /\ cycle' = NoCycle
    /\ UNCHANGED <<lifecycle, manual, on>>

CycleReschedules ==
    /\ CycleAt("setup") /\ CycleCurrent /\ cycle.on
    /\ ScheduleNext(cycle.gen)
    /\ cycle' = [cycle EXCEPT !.pc = "persist"]
    /\ UNCHANGED <<lifecycle, enabled, manual, on, user>>

\* The setting is off.
CycleEnds ==
    /\ CycleAt("setup") /\ CycleCurrent /\ ~cycle.on
    /\ enabled' = FALSE /\ timerActive' = FALSE
    /\ cycle' = NoCycle
    /\ UNCHANGED <<lifecycle, timer, manual, on, user>>

CycleNeedsSetup ==
    /\ CycleAt("setup") /\ CycleCurrent /\ cycle.on
    /\ cycle' = [cycle EXCEPT !.pc = "disable"]
    /\ UNCHANGED <<lifecycle, timer, enabled, timerActive, manual, on, user>>

\* The setting is switched off or was off, or is left on as in a start; the
\* accounts are read again in either case.
CycleDisables ==
    /\ CycleAt("disable")
    /\ on' \in {FALSE, on}
    /\ cycle' = [cycle EXCEPT !.pc = "recheck", !.on = on']
    /\ UNCHANGED <<lifecycle, timer, enabled, timerActive, manual, user>>

CycleNeedsNone ==
    /\ CycleAt("recheck") /\ CycleCurrent /\ cycle.on
    /\ ScheduleNext(cycle.gen)
    /\ cycle' = [cycle EXCEPT !.pc = "persist"]
    /\ UNCHANGED <<lifecycle, enabled, manual, on, user>>

CycleStops ==
    /\ CycleAt("recheck") /\ CycleCurrent
    /\ enabled' = FALSE /\ timerActive' = FALSE
    /\ gaveUp' = (gaveUp \/ cycle.on)
    /\ cycle' = NoCycle
    /\ UNCHANGED <<control, recover, timer, manual, on, user>>

CycleDisableFails ==
    /\ CycleAt("disable") /\ CycleCurrent
    /\ Fault
    /\ enabled' = FALSE /\ timerActive' = FALSE /\ gaveUp' = TRUE
    /\ cycle' = NoCycle
    /\ UNCHANGED <<gen, terminal, stopReqs, queue, exec, idle, recover, client, timer,
                   manual, on>>

CycleArms ==
    /\ CycleAt("persist")
    /\ ArmTimer(cycle.gen)
    /\ cycle' = NoCycle
    /\ UNCHANGED <<lifecycle, enabled, timerActive, manual, on, user>>

\* Mutated: a timer cycle does not keep a run by hand out.
ManualRunAnyway ==
    /\ Settled /\ User
    /\ ~terminal /\ manual = NoRun /\ stopReqs = 0 /\ exec = NoExec
    /\ manual' = [pc |-> "run", gen |-> gen]
    /\ UNCHANGED <<lifecycle, timer, enabled, timerActive, cycle, on>>

\* runSchedulerOnce from the API.
ManualRun ==
    /\ Settled /\ User
    /\ ~terminal /\ ~Activity /\ stopReqs = 0 /\ exec = NoExec
    /\ manual' = [pc |-> "run", gen |-> gen]
    /\ UNCHANGED <<lifecycle, timer, enabled, timerActive, cycle, on>>

\* The request that started it restarts the scheduler if nothing is scheduled.
ManualEnds ==
    /\ manual.pc = "run"
    /\ manual' = NoRun /\ recover' = recover + 1
    /\ UNCHANGED <<control, gaveUp, timer, enabled, timerActive, cycle, on, user>>

\* A run of either kind finds that the setting cannot work: it switches it off ...
RunDisables ==
    /\ on
    /\ \/ cycle.pc = "run" /\ CanPublish(cycle.gen)
          /\ cycle' = [cycle EXCEPT !.pc = "disabled"] /\ UNCHANGED manual
       \/ manual.pc = "run" /\ CanPublish(manual.gen)
          /\ manual' = [manual EXCEPT !.pc = "disabled"] /\ UNCHANGED cycle
    /\ on' = FALSE
    /\ UNCHANGED <<lifecycle, timer, enabled, timerActive, user>>

\* ... and stops the runtime, if it is still the current one, and ends,
RunStops ==
    /\ \/ cycle.pc = "disabled" /\ cycle' = [cycle EXCEPT !.pc = "load"]
          /\ StopsRuntime(cycle.gen) /\ UNCHANGED <<manual, recover>>
       \/ manual.pc = "disabled" /\ manual' = NoRun /\ recover' = recover + 1
          /\ StopsRuntime(manual.gen) /\ UNCHANGED cycle
    /\ UNCHANGED <<control, gaveUp, on, user>>

\* or cannot save that: the status says disabled, a pending timer stays.
RunDisableFails ==
    /\ on
    /\ Fault
    /\ \/ cycle.pc = "run" /\ CanPublish(cycle.gen)
          /\ cycle' = [cycle EXCEPT !.pc = "load"] /\ UNCHANGED <<manual, recover>>
       \/ manual.pc = "run" /\ CanPublish(manual.gen)
          /\ manual' = NoRun /\ recover' = recover + 1 /\ UNCHANGED cycle
    /\ enabled' = FALSE /\ timerActive' = FALSE /\ gaveUp' = TRUE
    /\ UNCHANGED <<control, timer, on>>

\* Mutated: the waiting restart is given up when something still runs.
IdleRestartOnce ==
    /\ idle.set
    /\ \/ (~CanPublish(idle.gen) \/ Activity) /\ UNCHANGED queue
       \/ /\ CanPublish(idle.gen) /\ ~Activity
          /\ queue' = Append(queue, Op("start", "other"))
    /\ idle' = NoIdle
    /\ UNCHANGED <<gen, terminal, stopReqs, exec, timer, enabled, timerActive, cycle,
                   manual, on, client, recover, gaveUp, user>>

\* scheduleSchedulerRestartWhenIdle, once nothing runs or it has been overtaken.
IdleRestart ==
    /\ idle.set
    /\ \/ ~CanPublish(idle.gen) /\ UNCHANGED queue
       \/ /\ CanPublish(idle.gen) /\ ~Activity
          /\ queue' = Append(queue, Op("start", "other"))
    /\ idle' = NoIdle
    /\ UNCHANGED <<gen, terminal, stopReqs, exec, timer, enabled, timerActive, cycle,
                   manual, on, client, recover, gaveUp, user>>

-----------------------------------------------------------------------------
(* The settings request and the shutdown *)

AskStop(by) ==
    /\ StopRuntimeNow(TRUE)
    /\ stopReqs' = stopReqs + 1
    /\ queue' = Append(queue, [Op("stop", by) EXCEPT !.gen = gen + 1])

ClientStops ==
    /\ Settled /\ User
    /\ client = NoClient /\ ~terminal
    /\ AskStop("client")
    /\ client' = [pc |-> "stopping", gen |-> gen + 1]
    /\ UNCHANGED <<terminal, exec, cycle, manual, idle, recover, on, gaveUp>>

\* A stop that waits is not even begun after five seconds: the request is refused
\* before its save; after it, it goes on unless a run is still seen.
ClientTimesOut ==
    /\ Settled
    /\ \/ client.pc = "stopping" /\ Fault /\ ClientRefused /\ UNCHANGED gaveUp
       \/ client.pc = "restopping" /\ ~Activity /\ Fault /\ GoesOn /\ UNCHANGED <<idle, recover>>
       \/ client.pc = "restopping" /\ LeavesStopped /\ UNCHANGED <<idle, recover>>
    /\ UNCHANGED <<gen, terminal, stopReqs, queue, exec, timer, enabled, timerActive,
                   cycle, manual, on>>

\* The settings are saved ...
ClientSaves ==
    /\ Settled
    /\ client.pc = "saving"
    /\ on' \in BOOLEAN
    /\ client' = [client EXCEPT !.pc = "saved"]
    /\ UNCHANGED <<gen, terminal, stopReqs, queue, exec, timer, enabled, timerActive, cycle,
                   manual, idle, recover, gaveUp, user>>

\* ... or are not: both handlers of the failure restart what was stopped.
ClientSaveFails ==
    /\ Settled /\ Fault
    /\ client.pc = "saving"
    /\ client' = NoClient
    /\ recover' = recover + 2
    /\ UNCHANGED <<gen, terminal, stopReqs, queue, exec, timer, enabled, timerActive, cycle,
                   manual, idle, on, gaveUp>>

\* The save changed what the scheduler works with: it is stopped once more ...
ClientRestops ==
    /\ Settled
    /\ client.pc = "saved"
    /\ AskStop("save")
    /\ client' = [pc |-> "restopping", gen |-> gen + 1]
    /\ UNCHANGED <<terminal, exec, cycle, manual, idle, recover, on, gaveUp, user>>

\* ... and started again ...
ClientStarts ==
    /\ Settled
    /\ client.pc \in {"saved", "checking"}
    /\ queue' = Append(queue, Op("start", "client"))
    /\ client' = [client EXCEPT !.pc = "starting"]
    /\ UNCHANGED <<gen, terminal, stopReqs, exec, timer, enabled, timerActive, cycle,
                   manual, idle, recover, on, gaveUp, user>>

\* ... or, when the saved settings cannot work, stopped for good.
ClientNeedsSetup ==
    /\ Settled /\ ~terminal
    /\ client.pc \in {"saved", "checking"}
    /\ AskStop("save")
    /\ client' = NoClient /\ gaveUp' = TRUE
    /\ UNCHANGED <<terminal, exec, cycle, manual, idle, recover, on, user>>

AbortOps(q) == [i \in DOMAIN q |->
                  IF q[i].by = "client" /\ q[i].kind = "start"
                    THEN [q[i] EXCEPT !.aborted = TRUE] ELSE q[i]]

\* After the save the request's time is up, or a step of it fails: its signal
\* aborts the start, and restartPersistedSchedulerIfRunnable goes on.
ClientAborts ==
    /\ Settled /\ Fault
    /\ client.pc \in {"saved", "checking", "starting"}
    /\ client' = NoClient
    /\ exec' = IF exec.kind = "start" /\ exec.by = "client"
                 THEN [exec EXCEPT !.aborted = TRUE] ELSE exec
    /\ queue' = AbortOps(queue)
    /\ recover' = recover + 1
    /\ UNCHANGED <<gen, terminal, stopReqs, timer, enabled, timerActive, cycle, manual,
                   idle, on, gaveUp>>

\* restartPersistedSchedulerIfRunnable.  It takes a status that claims a timer for
\* one that stays, also when a stop asked for earlier waits to clear it.
Restart ==
    /\ Settled
    /\ recover > 0
    /\ recover' = recover - 1
    /\ \/ /\ ~terminal /\ on /\ ~Activity /\ ~timerActive
          /\ queue' = Append(queue, Op("start", "other"))
          /\ UNCHANGED <<idle, gaveUp>>
       \/ /\ ~terminal /\ on /\ Activity
          /\ idle' = [set |-> TRUE, gen |-> gen]
          /\ UNCHANGED <<queue, gaveUp>>
       \/ /\ ~terminal /\ on /\ timerActive /\ ~Activity
          /\ gaveUp' = (gaveUp \/ stopReqs > 0)
          /\ UNCHANGED <<queue, idle>>
       \/ /\ terminal \/ ~on
          /\ UNCHANGED <<queue, idle, gaveUp>>
    /\ UNCHANGED <<gen, terminal, stopReqs, exec, timer, enabled, timerActive, cycle,
                   manual, on, client, user>>

\* closeSchedulerAdmission, then the terminal stop.
Shutdown ==
    /\ Settled /\ User
    /\ ~terminal
    /\ terminal' = TRUE
    /\ AskStop("other")
    /\ UNCHANGED <<exec, cycle, manual, idle, recover, on, client, gaveUp>>

-----------------------------------------------------------------------------
QueueStep == BeginStart \/ BeginStop \/ StopDone
StartStep ==
    \/ Drained \/ DrainTimesOut \/ StartDropped \/ StartLoads \/ StartBlocked
    \/ StartReady \/ StartNeedsSetup \/ StartDisables \/ StartStaysOn \/ StartNeedsNone
    \/ StartStillNeedsSetup \/ StartDisableFails \/ StartArms
CycleStep ==
    \/ CycleRunEnds \/ CycleStale \/ CycleLoads \/ CycleBlocked \/ CycleReschedules
    \/ CycleEnds \/ CycleNeedsSetup \/ CycleDisables \/ CycleNeedsNone
    \/ CycleStops \/ CycleDisableFails \/ CycleArms
RunStep == RunDisables \/ RunStops \/ RunDisableFails
TimerFires == TickFires \/ RetryFires
ClientStep == ClientSaves \/ ClientRestops \/ ClientStarts \/ ClientNeedsSetup
UserStep ==
    \/ ManualRun \/ ClientStops \/ ClientTimesOut \/ ClientSaveFails \/ ClientAborts
    \/ Shutdown

Next ==
    \/ QueueStep \/ StartStep \/ CycleStep \/ RunStep \/ TimerFires \/ ManualEnds
    \/ IdleRestart \/ Restart \/ ClientStep \/ UserStep

Spec == Init /\ [][Next]_vars

\* Promises settle and timers fire.
FairSpec ==
    /\ Spec
    /\ WF_vars(QueueStep) /\ WF_vars(StartStep) /\ WF_vars(CycleStep)
    /\ WF_vars(RunStops) /\ WF_vars(TimerFires) /\ WF_vars(ManualEnds) /\ WF_vars(IdleRestart)
    /\ WF_vars(Restart) /\ WF_vars(ClientStep)

-----------------------------------------------------------------------------
(* Properties *)

\* One run at a time, whoever started it.
OneRun == ~(manual # NoRun /\ cycle.pc \in {"run", "disabled"})

\* A pending timer belongs to the current generation and there is none after a
\* shutdown: no overtaken start, cycle or retry leaves a timer behind.
TimerIsCurrent == timer # NoTimer => timer.gen = gen /\ ~terminal

\* While a regular timer is pending no timer cycle is in progress, so that cycles
\* cannot overlap, and a run by hand is of the timer's generation: a restart waits
\* for the old run or is refused.
NoOldRunUnderTimer ==
    timer.kind = "tick" => cycle = NoCycle /\ (manual # NoRun => manual.gen = gen)

\* The status claims a timer only when there is one or its state is being saved.
TimerActiveIsTrue ==
    timerActive => \/ timer # NoTimer
                   \/ Starting("persist") \/ CycleAt("persist")

\* The four together: what the code may assume of its timer and of the status.
TimerSound == TypeOK /\ TimerIsCurrent /\ NoOldRunUnderTimer /\ TimerActiveIsTrue

\* When a stop completes, nothing is scheduled, although starts admitted before
\* it may have gone on in the meantime.
StopLeavesNothing ==
    [][StopDone => timer' = NoTimer /\ ~enabled' /\ ~timerActive']_vars

\* While scheduler.enabled is saved, there is a timer again and again, unless the
\* code left the scheduler off on its own account since the last start began: the
\* old run did not end in time, switching off failed, setup was found missing by a
\* request or although the setting had been left on, or the last request to restart
\* met a stop that had yet to clear the status.  No overtaken start, failed load,
\* aborted request or other stop may lose the timer.
KeepsWaking == []<>(timer # NoTimer \/ ~on \/ terminal \/ gaveUp)

\* After a shutdown the scheduler comes to rest for good.
ShutdownQuiesces ==
    terminal ~> [](timer = NoTimer /\ ~Activity /\ queue = <<>> /\ exec = NoExec)
=============================================================================
