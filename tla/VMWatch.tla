------------------------------- MODULE VMWatch -------------------------------
(***************************************************************************)
(* The supervision of VMWatch inside one enable process (main/vmWatch.go): *)
(* the goroutine of executeVMWatch starts VMWatch in cycles of attempts;   *)
(* for every attempt one goroutine waits for the process and another one   *)
(* watches its heartbeat; the signal goroutine of main kills it; and the   *)
(* health loop learns about it from an unbuffered channel that it reads    *)
(* once per iteration.  Of the health loop only the skeleton is kept: what *)
(* it decides about the application is the subject of HealthLoop.  Around  *)
(* them run VMWatch itself, the children it forks, and the shim of a       *)
(* command that stops enable and VMWatch (misc/applicationhealth-shim).    *)
(*                                                                         *)
(* An attempt is a pair <<cycle, attempt>>, and names the exec.Cmd and the *)
(* VMWatch process of that attempt.                                        *)
(***************************************************************************)
EXTENDS Integers, FiniteSets

CONSTANTS
  MaxCycles,          \* VMWatchMaxRetryCycles
  AttemptsPerCycle,   \* VMWatchMaxProcessAttempts
  SuccessTicks,       \* heartbeat ticks in successThreshold
  MayStop,            \* the agent may run a command that stops enable
  None                \* no command

ASSUME CyclesAssumption == MaxCycles \in Nat \ {0}
ASSUME AttemptsAssumption == AttemptsPerCycle \in Nat \ {0}
ASSUME TicksAssumption == SuccessTicks \in Nat \ {0}
ASSUME StopAssumption == MayStop \in BOOLEAN

Attempts == (1..MaxCycles) \X (1..AttemptsPerCycle)

ASSUME NoneAssumption == None \notin Attempts

VARIABLES
  setting,          \* what the settings say about VMWatch
  host,             \* what the machine offers
  loop,             \* where the health loop is
  vmWatchResult,    \* the health loop's latest result
  substatus,        \* the type of the VMWatch substatus in the status file
  shutdown,
  sig,              \* where the signal goroutine is
  stop,             \* where the shim of a command other than enable is
  sup,              \* where the supervisor is
  retryCycle, attempt, totalAttempts,           \* its locals
  vmWatchCurrentCycle, vmWatchTotalAttempts,    \* the global retry counters
  vmWatchCommand,   \* the command main can kill
  proc,             \* the VMWatch process of every attempt
  waiter,           \* the goroutine in Wait
  held,             \* a child of VMWatch holds the output pipe of the attempt
  monitor,          \* the goroutine of monitorHeartBeat
  tick,             \* a tick waits in the ticker's channel
  ticks,            \* ticks since startTime, up to SuccessTicks
  beatAge,          \* ticks since the heartbeat file was written, up to 2
  retryResetDone,
  sinceReset        \* history: attempts since the retry counters were reset

fixed == <<setting, host>>
loopVars == <<loop, vmWatchResult, substatus>>
sigVars == <<shutdown, sig, stop>>
retryVars == <<retryCycle, attempt, totalAttempts, sinceReset>>
counters == <<vmWatchCurrentCycle, vmWatchTotalAttempts>>
monitorLocals == <<tick, ticks, beatAge, retryResetDone>>
watchVars == <<waiter, held, monitor, monitorLocals>>
vars == <<fixed, loopVars, sigVars, sup, retryVars, counters, vmWatchCommand, proc, watchVars>>

-----------------------------------------------------------------------------
VMWatchStatus == {"NotRunning", "Disabled", "Running", "Failed"}

(* The error of a result: of one attempt, the nil error of a supervisor    *)
(* that was shut down before its first attempt, the final one, or that of  *)
(* a closed channel.                                                       *)
Errors == {"none", "attempt", "nil", "exhausted", "closed"}
VMWatchResult == [status: VMWatchStatus, error: Errors]
Result(s, e) == [status |-> s, error |-> e]

StatusTypes == {"none", "success", "warning", "error"}
GetStatusType(s) ==
  CASE s = "Disabled" -> "warning" [] s = "Failed" -> "error" [] OTHER -> "success"

(* Who limits the resources of VMWatch: systemd-run, or the extension by   *)
(* means of cgroups, which it must or (in a dev container) need not manage *)
(* to do.                                                                  *)
Hosts == {"systemd", "cgroups", "cgroupsOptional"}

\* A process that has ended is reaped by Wait, which sets ProcessState.
ProcStates == {"none", "live", "hung", "exited", "reaped"}
Alive(a) == proc[a] \in {"live", "hung"}

Up == loop # "exited"
Current == <<retryCycle, attempt>>

\* The supervisor is blocked in a send.
Sending == {"sendRunning", "sendFailed", "sendExhausted", "sendStopped"}

Init ==
  /\ setting \in {"absent", "disabled", "enabled"}
  /\ host \in Hosts
  /\ loop = "top"
  /\ vmWatchResult = Result(IF setting = "enabled" THEN "NotRunning" ELSE "Disabled", "none")
  /\ substatus = "none"
  /\ shutdown = FALSE /\ sig = "idle" /\ stop = "none"
  /\ sup = IF setting = "enabled" THEN "begin" ELSE "off"
  /\ retryCycle = 1 /\ attempt = 1 /\ totalAttempts = 0
  /\ vmWatchCurrentCycle = 1 /\ vmWatchTotalAttempts = 0
  /\ vmWatchCommand = None
  /\ proc = [a \in Attempts |-> "none"]
  /\ waiter = "off" /\ held = FALSE /\ monitor = "off"
  /\ tick = FALSE /\ ticks = 0 /\ beatAge = 1 /\ retryResetDone = FALSE
  /\ sinceReset = 0

\* The locals of monitorHeartBeat, before it starts and after it has ended.
NewMonitor == tick' = FALSE /\ ticks' = 0 /\ beatAge' = 1 /\ retryResetDone' = FALSE

\* enable ends, and with it all its goroutines, what they had in memory and
\* its ends of the pipes.
Gone ==
  /\ loop' = "exited"
  /\ vmWatchResult' = Result("NotRunning", "none")
  /\ sup' = "off" /\ waiter' = "off" /\ held' = FALSE /\ monitor' = "off" /\ NewMonitor
  /\ retryCycle' = 1 /\ attempt' = 1 /\ totalAttempts' = 0 /\ sinceReset' = 0
  /\ vmWatchCurrentCycle' = 1 /\ vmWatchTotalAttempts' = 0
  /\ vmWatchCommand' = None
  /\ shutdown' = FALSE /\ sig' = "idle"
  /\ UNCHANGED <<fixed, substatus, proc>>

\* killVMWatch(a): nothing to do for a process that is not running.
Kill(a) == proc' = IF a # None /\ Alive(a) THEN [proc EXCEPT ![a] = "exited"] ELSE proc

resetVMWatchRetryCounters ==
  vmWatchCurrentCycle' = 1 /\ vmWatchTotalAttempts' = 0 /\ sinceReset' = 0

-----------------------------------------------------------------------------
(* executeVMWatch and executeRetryLogic. *)

\* getVMWatchRetryCounters: once, before the cycles.
BeginRetries ==
  /\ Up /\ sup = "begin"
  /\ retryCycle' = vmWatchCurrentCycle /\ totalAttempts' = vmWatchTotalAttempts
  /\ sup' = "cycle"
  /\ UNCHANGED <<fixed, loopVars, sigVars, attempt, sinceReset, counters, vmWatchCommand, proc,
                 watchVars>>

\* Mutant: one cycle too many.
CycleTest_OneMore ==
  /\ Up /\ sup = "cycle"
  /\ IF retryCycle <= MaxCycles + 1 /\ ~shutdown
     THEN sup' = "attempt" /\ attempt' = 1
     ELSE sup' = "conclude" /\ UNCHANGED attempt
  /\ UNCHANGED <<fixed, loopVars, sigVars, retryCycle, totalAttempts, sinceReset, counters,
                 vmWatchCommand, proc, watchVars>>

\* Mutant: one cycle too few.
CycleTest_OneFewer ==
  /\ Up /\ sup = "cycle"
  /\ IF retryCycle < MaxCycles /\ ~shutdown
     THEN sup' = "attempt" /\ attempt' = 1
     ELSE sup' = "conclude" /\ UNCHANGED attempt
  /\ UNCHANGED <<fixed, loopVars, sigVars, retryCycle, totalAttempts, sinceReset, counters,
                 vmWatchCommand, proc, watchVars>>

CycleTest ==
  /\ Up /\ sup = "cycle"
  /\ IF retryCycle <= MaxCycles /\ ~shutdown
     THEN sup' = "attempt" /\ attempt' = 1
     ELSE sup' = "conclude" /\ UNCHANGED attempt
  /\ UNCHANGED <<fixed, loopVars, sigVars, retryCycle, totalAttempts, sinceReset, counters,
                 vmWatchCommand, proc, watchVars>>

\* Mutant: an attempt is not announced.
AttemptTest_Unannounced ==
  /\ Up /\ sup = "attempt"
  /\ sup' = IF attempt <= AttemptsPerCycle /\ ~shutdown THEN "setup" ELSE "update"
  /\ UNCHANGED <<fixed, loopVars, sigVars, retryVars, counters, vmWatchCommand, proc, watchVars>>

AttemptTest ==
  /\ Up /\ sup = "attempt"
  /\ sup' = IF attempt <= AttemptsPerCycle /\ ~shutdown THEN "sendRunning" ELSE "update"
  /\ UNCHANGED <<fixed, loopVars, sigVars, retryVars, counters, vmWatchCommand, proc, watchVars>>

\* updateVMWatchRetryCounters, and the test for the wait between cycles.
UpdateCounters ==
  /\ Up /\ sup = "update"
  /\ vmWatchCurrentCycle' = retryCycle /\ vmWatchTotalAttempts' = totalAttempts
  /\ sup' = IF retryCycle < MaxCycles /\ ~shutdown THEN "backoff" ELSE "nextCycle"
  /\ UNCHANGED <<fixed, loopVars, sigVars, retryVars, vmWatchCommand, proc, watchVars>>

\* The wait of retryCycle times BaseWaitHours, which nothing interrupts.
Backoff ==
  /\ Up /\ sup = "backoff"
  /\ sup' = "nextCycle"
  /\ UNCHANGED <<fixed, loopVars, sigVars, retryVars, counters, vmWatchCommand, proc, watchVars>>

NextCycle ==
  /\ Up /\ sup = "nextCycle"
  /\ retryCycle' = retryCycle + 1
  /\ sup' = "cycle"
  /\ UNCHANGED <<fixed, loopVars, sigVars, attempt, totalAttempts, sinceReset, counters,
                 vmWatchCommand, proc, watchVars>>

\* executeRetryLogic has returned without success; the final message.
Conclude ==
  /\ Up /\ sup = "conclude"
  /\ sup' = IF shutdown THEN "sendStopped" ELSE "sendExhausted"
  /\ UNCHANGED <<fixed, loopVars, sigVars, retryVars, counters, vmWatchCommand, proc, watchVars>>

CloseChannel ==
  /\ Up /\ sup = "close"
  /\ sup' = "closed"
  /\ UNCHANGED <<fixed, loopVars, sigVars, retryVars, counters, vmWatchCommand, proc, watchVars>>

-----------------------------------------------------------------------------
(* executeVMWatchHelper: one attempt.  It never returns nil, so that the   *)
(* early return of executeRetryLogic on success is never taken.            *)

\* setupVMWatchCommand; a failure also clears vmWatchCommand.
Setup(ok) ==
  /\ Up /\ sup = "setup"
  /\ vmWatchCommand' = IF ok THEN Current ELSE None
  /\ sup' = IF ok THEN "start" ELSE "sendFailed"
  /\ UNCHANGED <<fixed, loopVars, sigVars, retryVars, counters, proc, watchVars>>

\* systemd-run applies the limits itself; without it they are still to come.
Start(ok) ==
  /\ Up /\ sup = "start"
  /\ proc' = IF ok THEN [proc EXCEPT ![Current] = "live"] ELSE proc
  /\ sup' = IF ~ok THEN "sendFailed" ELSE IF host = "systemd" THEN "spawn" ELSE "govern"
  /\ UNCHANGED <<fixed, loopVars, sigVars, retryVars, counters, vmWatchCommand, watchVars>>

\* Mutant: VMWatch is not killed when the limits cannot be applied.
ApplyResourceGovernance_NoKill(ok) ==
  /\ Up /\ sup = "govern"
  /\ sup' = IF ok \/ host = "cgroupsOptional" THEN "spawn" ELSE "sendFailed"
  /\ UNCHANGED <<fixed, loopVars, sigVars, retryVars, counters, vmWatchCommand, proc, watchVars>>

\* applyResourceGovernance; VMWatch does not run without limits.  Nobody waits
\* for the pipe of a command that is given up here.
ApplyResourceGovernance(ok) ==
  /\ Up /\ sup = "govern"
  /\ \/ /\ ok \/ host = "cgroupsOptional"
        /\ sup' = "spawn" /\ UNCHANGED <<proc, held>>
     \/ /\ ~ok /\ host = "cgroups"
        /\ sup' = "sendFailed" /\ Kill(vmWatchCommand) /\ held' = FALSE
  /\ UNCHANGED <<fixed, loopVars, sigVars, retryVars, counters, vmWatchCommand,
                 waiter, monitor, monitorLocals>>

\* The two goroutines of the attempt start; startTime is now.
SpawnWatchers ==
  /\ Up /\ sup = "spawn"
  /\ waiter' = "waiting" /\ monitor' = "watching"
  /\ sup' = "wait"
  /\ UNCHANGED <<fixed, loopVars, sigVars, retryVars, counters, vmWatchCommand, proc,
                 held, monitorLocals>>

WaitGroupDone ==
  /\ Up /\ sup = "wait"
  /\ waiter = "off" /\ monitor = "off"
  /\ sup' = "sendFailed"
  /\ UNCHANGED <<fixed, loopVars, sigVars, retryVars, counters, vmWatchCommand, proc, watchVars>>

-----------------------------------------------------------------------------
(* The two goroutines of an attempt. *)

\* vmWatchCommand.Wait reaps the process, and sets ProcessState ...
Reap ==
  /\ Up /\ waiter = "waiting" /\ proc[vmWatchCommand] = "exited"
  /\ proc' = [proc EXCEPT ![vmWatchCommand] = "reaped"]
  /\ waiter' = "draining"
  /\ UNCHANGED <<fixed, loopVars, sigVars, sup, retryVars, counters, vmWatchCommand,
                 held, monitor, monitorLocals>>

\* ... and returns when the copying of combinedOutput has met the end of the
\* pipe: when everyone who inherited the other end has gone.
WaitReturns ==
  /\ Up /\ waiter = "draining" /\ ~held
  /\ waiter' = "sending"
  /\ UNCHANGED <<fixed, loopVars, sigVars, sup, retryVars, counters, vmWatchCommand, proc,
                 held, monitor, monitorLocals>>

\* Both goroutines meet on processDone and end.
ProcessDone ==
  /\ Up /\ waiter = "sending" /\ monitor = "watching"
  /\ waiter' = "off" /\ monitor' = "off" /\ NewMonitor
  /\ IF ~retryResetDone /\ ticks >= SuccessTicks
     THEN resetVMWatchRetryCounters
     ELSE UNCHANGED <<counters, sinceReset>>
  /\ UNCHANGED <<fixed, loopVars, sigVars, sup, retryCycle, attempt, totalAttempts,
                 vmWatchCommand, proc, held>>

\* 180 seconds have passed.
Tick ==
  /\ Up /\ monitor = "watching" /\ ~tick
  /\ tick' = TRUE
  /\ ticks' = IF ticks < SuccessTicks THEN ticks + 1 ELSE ticks
  /\ beatAge' = IF beatAge < 2 THEN beatAge + 1 ELSE beatAge
  /\ UNCHANGED <<fixed, loopVars, sigVars, sup, retryVars, counters, vmWatchCommand, proc,
                 waiter, held, monitor, retryResetDone>>

\* Mutant: a hung VMWatch is only logged.
HandleTick_NoKill ==
  /\ Up /\ monitor = "watching" /\ tick
  /\ tick' = FALSE
  /\ UNCHANGED <<fixed, loopVars, sigVars, sup, retryVars, counters, vmWatchCommand, proc,
                 waiter, held, monitor, ticks, beatAge, retryResetDone>>

\* Mutant: the monitor ends when it has killed VMWatch.
HandleTick_Returns ==
  /\ Up /\ monitor = "watching" /\ tick
  /\ tick' = FALSE
  /\ IF beatAge = 2 THEN Kill(vmWatchCommand) /\ monitor' = "off"
     ELSE UNCHANGED <<proc, monitor>>
  /\ UNCHANGED <<fixed, loopVars, sigVars, sup, retryVars, counters, vmWatchCommand,
                 waiter, held, ticks, beatAge, retryResetDone>>

\* The heartbeat file was written within the last 180 seconds, or was not.
HandleTick ==
  /\ Up /\ monitor = "watching" /\ tick
  /\ tick' = FALSE
  /\ \/ /\ beatAge < 2 /\ ~retryResetDone /\ ticks >= SuccessTicks
        /\ resetVMWatchRetryCounters /\ retryResetDone' = TRUE /\ UNCHANGED proc
     \/ /\ beatAge < 2 /\ (retryResetDone \/ ticks < SuccessTicks)
        /\ UNCHANGED <<counters, sinceReset, retryResetDone, proc>>
     \/ /\ beatAge = 2
        /\ Kill(vmWatchCommand) /\ UNCHANGED <<counters, sinceReset, retryResetDone>>
  /\ UNCHANGED <<fixed, loopVars, sigVars, sup, retryCycle, attempt, totalAttempts,
                 vmWatchCommand, waiter, held, monitor, ticks, beatAge>>

-----------------------------------------------------------------------------
(* The health loop. *)

\* A newer sequence number ends the loop, and leaves VMWatch alone.
LoopTop(superseded) ==
  /\ loop = "top"
  /\ loop' = IF superseded THEN "returned" ELSE "probe"
  /\ UNCHANGED <<fixed, vmWatchResult, substatus, sigVars, sup, retryVars, counters,
                 vmWatchCommand, proc, watchVars>>

LoopProbe ==
  /\ loop = "probe"
  /\ loop' = IF shutdown THEN "returned" ELSE "select"
  /\ UNCHANGED <<fixed, vmWatchResult, substatus, sigVars, sup, retryVars, counters,
                 vmWatchCommand, proc, watchVars>>

\* The select on vmWatchResultChannel; every case goes on to the report.
Select ==
  /\ loop = "select" /\ loop' = "report"
  /\ UNCHANGED <<fixed, substatus, sigVars, retryCycle, counters, vmWatchCommand, proc,
                 watchVars>>

\* Mutant: the channel is not read before VMWatch runs.
ReceiveRunning_NotRead ==
  /\ sup = "sendRunning" /\ Select
  /\ UNCHANGED <<vmWatchResult, totalAttempts, sinceReset, sup, attempt>>

\* The supervisor has announced an attempt, which now begins.
ReceiveRunning ==
  /\ sup = "sendRunning" /\ Select
  /\ vmWatchResult' = Result("Running", "none")
  /\ totalAttempts' = totalAttempts + 1 /\ sinceReset' = sinceReset + 1
  /\ sup' = "setup"
  /\ UNCHANGED attempt

\* Mutant: the failed attempt is not counted.
ReceiveFailed_NotCounted ==
  /\ sup = "sendFailed" /\ Select
  /\ vmWatchResult' = Result("Failed", "attempt")
  /\ sup' = "attempt"
  /\ UNCHANGED <<attempt, totalAttempts, sinceReset>>

ReceiveFailed ==
  /\ sup = "sendFailed" /\ Select
  /\ vmWatchResult' = Result("Failed", "attempt")
  /\ attempt' = attempt + 1
  /\ sup' = "attempt"
  /\ UNCHANGED <<totalAttempts, sinceReset>>

\* The result sent by the deferred function of executeVMWatch.
ReceiveFinal ==
  /\ sup \in {"sendExhausted", "sendStopped"} /\ Select
  /\ vmWatchResult' = Result("Failed", CASE sup = "sendExhausted" -> "exhausted"
                                         [] totalAttempts > 0     -> "attempt"
                                         [] OTHER                 -> "nil")
  /\ sup' = "close"
  /\ UNCHANGED <<attempt, totalAttempts, sinceReset>>

\* Mutant: the zero value of a closed channel is taken for a result.
ReceiveClosed_ZeroValue ==
  /\ sup = "closed" /\ Select
  /\ vmWatchResult' = Result("", "none")
  /\ UNCHANGED <<sup, attempt, totalAttempts, sinceReset>>

ReceiveClosed ==
  /\ sup = "closed" /\ Select
  /\ vmWatchResult' = Result("Failed", "closed")
  /\ UNCHANGED <<sup, attempt, totalAttempts, sinceReset>>

ReceiveNothing ==
  /\ sup \notin Sending \cup {"closed"} /\ Select
  /\ UNCHANGED <<sup, vmWatchResult, attempt, totalAttempts, sinceReset>>

\* The substatus is there only if the settings mention VMWatch.
ReportStatus(saved) ==
  /\ loop = "report"
  /\ loop' = "sleep"
  /\ substatus' = IF saved /\ setting # "absent"
                  THEN GetStatusType(vmWatchResult.status) ELSE substatus
  /\ UNCHANGED <<fixed, vmWatchResult, sigVars, sup, retryVars, counters, vmWatchCommand,
                 proc, watchVars>>

Sleep ==
  /\ loop = "sleep"
  /\ loop' = IF shutdown THEN "returned" ELSE "top"
  /\ UNCHANGED <<fixed, vmWatchResult, substatus, sigVars, sup, retryVars, counters,
                 vmWatchCommand, proc, watchVars>>

\* main reports and exits; every goroutine ends with it.
Exit ==
  /\ loop = "returned"
  /\ Gone /\ UNCHANGED stop

-----------------------------------------------------------------------------
(* The signal goroutine of main. *)

ReceiveSignal ==
  /\ Up /\ sig = "idle"
  /\ shutdown' = TRUE /\ sig' = "kill"
  /\ UNCHANGED <<fixed, loopVars, stop, sup, retryVars, counters, vmWatchCommand, proc,
                 watchVars>>

KillOnSignal ==
  /\ Up /\ sig = "kill"
  /\ Kill(vmWatchCommand) /\ sig' = "done"
  /\ UNCHANGED <<fixed, loopVars, shutdown, stop, sup, retryVars, counters, vmWatchCommand,
                 watchVars>>

-----------------------------------------------------------------------------
(* The VMWatch process, a program of its own. *)

WriteHeartbeat(a) ==
  /\ proc[a] = "live" /\ monitor = "watching" /\ beatAge' = 0
  /\ UNCHANGED <<fixed, loopVars, sigVars, sup, retryVars, counters, vmWatchCommand, proc,
                 waiter, held, monitor, tick, ticks, retryResetDone>>

\* It forks a child, which inherits its output and may outlive it.
ForkChild(a) ==
  /\ Up /\ proc[a] = "live" /\ ~held /\ held' = TRUE
  /\ UNCHANGED <<fixed, loopVars, sigVars, sup, retryVars, counters, vmWatchCommand, proc,
                 waiter, monitor, monitorLocals>>

ChildrenEnd ==
  /\ held /\ held' = FALSE
  /\ UNCHANGED <<fixed, loopVars, sigVars, sup, retryVars, counters, vmWatchCommand, proc,
                 waiter, monitor, monitorLocals>>

\* It ends by itself, or hangs.
Fail(a, how) ==
  /\ proc[a] = "live" /\ proc' = [proc EXCEPT ![a] = how]
  /\ UNCHANGED <<fixed, loopVars, sigVars, sup, retryVars, counters, vmWatchCommand, watchVars>>

\* Mutant: VMWatch is not told.
ParentDied_NoSignal(a) ==
  /\ ~Up /\ proc[a] = "live" /\ UNCHANGED vars

\* Pdeathsig: SIGTERM when enable is gone, which ends a VMWatch that works.
ParentDied(a) ==
  /\ ~Up /\ proc[a] = "live" /\ proc' = [proc EXCEPT ![a] = "reaped"]
  /\ UNCHANGED <<fixed, loopVars, sigVars, sup, retryVars, counters, vmWatchCommand, watchVars>>

\* enable is killed (SIGKILL, out of memory).
Crash == Up /\ Gone /\ UNCHANGED stop

-----------------------------------------------------------------------------
(* The shim of a command other than enable: it ends the enable process,    *)
(* then VMWatch.  Both times it sends SIGTERM, waits for 33 seconds and    *)
(* sends SIGKILL to whoever is left.                                       *)

NoneAlive == \A a \in Attempts : ~Alive(a)

\* Mutant: the shim does not wait for enable to end.
StopEnable_NoWait ==
  /\ MayStop /\ stop = "none"
  /\ stop' = "endVMWatch"
  /\ shutdown' = IF Up THEN TRUE ELSE shutdown
  /\ sig' = IF Up /\ sig = "idle" THEN "kill" ELSE sig
  /\ UNCHANGED <<fixed, loopVars, sup, retryVars, counters, vmWatchCommand, proc, watchVars>>

\* A second signal changes nothing: the goroutine reads one.
StopEnable ==
  /\ MayStop /\ stop = "none"
  /\ stop' = IF Up THEN "awaitEnable" ELSE "endVMWatch"
  /\ shutdown' = IF Up THEN TRUE ELSE shutdown
  /\ sig' = IF Up /\ sig = "idle" THEN "kill" ELSE sig
  /\ UNCHANGED <<fixed, loopVars, sup, retryVars, counters, vmWatchCommand, proc, watchVars>>

SeeEnableEnded ==
  /\ stop = "awaitEnable" /\ ~Up
  /\ stop' = "endVMWatch"
  /\ UNCHANGED <<fixed, loopVars, shutdown, sig, sup, retryVars, counters, vmWatchCommand,
                 proc, watchVars>>

\* The last ps still lists enable.
SeeEnableOverdue ==
  /\ stop = "awaitEnable" /\ Up
  /\ stop' = "forceEnable"
  /\ UNCHANGED <<fixed, loopVars, shutdown, sig, sup, retryVars, counters, vmWatchCommand,
                 proc, watchVars>>

\* pkill -9 fails if enable has ended since then, and set -e ends the shim.
ForceEnable ==
  /\ stop = "forceEnable"
  /\ \/ Up /\ Gone /\ stop' = "endVMWatch"
     \/ ~Up /\ stop' = "aborted" /\ UNCHANGED <<fixed, loopVars, shutdown, sig, sup, retryVars,
                                             counters, vmWatchCommand, proc, watchVars>>

\* SIGTERM ends the processes that work; a hung one is still there in the end.
StopVMWatch ==
  /\ stop = "endVMWatch"
  /\ proc' = [a \in Attempts |-> IF proc[a] = "live" THEN "reaped" ELSE proc[a]]
  /\ stop' = IF \E a \in Attempts : proc[a] = "hung" THEN "forceVMWatch" ELSE "done"
  /\ UNCHANGED <<fixed, loopVars, shutdown, sig, sup, retryVars, counters, vmWatchCommand,
                 watchVars>>

ForceVMWatch ==
  /\ stop = "forceVMWatch"
  /\ proc' = [a \in Attempts |-> IF Alive(a) THEN "reaped" ELSE proc[a]]
  /\ stop' = "done"
  /\ UNCHANGED <<fixed, loopVars, shutdown, sig, sup, retryVars, counters, vmWatchCommand,
                 watchVars>>

-----------------------------------------------------------------------------
Supervisor ==
  \/ BeginRetries \/ CycleTest \/ AttemptTest \/ UpdateCounters \/ Backoff \/ NextCycle
  \/ Conclude \/ CloseChannel
  \/ \E ok \in BOOLEAN : Setup(ok) \/ Start(ok) \/ ApplyResourceGovernance(ok)
  \/ SpawnWatchers \/ WaitGroupDone

Loop ==
  \/ \E superseded \in BOOLEAN : LoopTop(superseded)
  \/ LoopProbe
  \/ ReceiveRunning \/ ReceiveFailed \/ ReceiveFinal \/ ReceiveClosed \/ ReceiveNothing
  \/ \E saved \in BOOLEAN : ReportStatus(saved)
  \/ Sleep \/ Exit

VMWatchProcess ==
  \/ \E a \in Attempts :
       \/ WriteHeartbeat(a) \/ ForkChild(a)
       \/ \E how \in {"exited", "hung"} : Fail(a, how)
  \/ ChildrenEnd

Shim ==
  \/ StopEnable \/ SeeEnableEnded \/ SeeEnableOverdue \/ ForceEnable
  \/ StopVMWatch \/ ForceVMWatch

Next ==
  \/ Supervisor \/ Reap \/ WaitReturns \/ ProcessDone \/ Tick \/ HandleTick
  \/ Loop
  \/ ReceiveSignal \/ KillOnSignal
  \/ VMWatchProcess \/ (\E a \in Attempts : ParentDied(a)) \/ Crash
  \/ Shim

Spec == Init /\ [][Next]_vars

(* Every goroutine is scheduled, sleeps and tickers of the runtime elapse, *)
(* and the kernel delivers the signal of a parent's death.  Nothing is     *)
(* assumed of VMWatch, its children, signals to enable, crashes or stops.  *)
FairSpec ==
  /\ Spec
  /\ WF_vars(Supervisor) /\ WF_vars(Loop)
  /\ WF_vars(Reap) /\ WF_vars(WaitReturns) /\ WF_vars(ProcessDone)
  /\ WF_vars(Tick) /\ WF_vars(HandleTick)
  /\ WF_vars(KillOnSignal)
  /\ \A a \in Attempts : WF_vars(ParentDied(a))

-----------------------------------------------------------------------------
(* Properties. *)

SupStates == {"off", "begin", "cycle", "attempt", "setup", "start", "govern", "spawn", "wait",
              "update", "backoff", "nextCycle", "conclude", "close", "closed"} \cup Sending

StopStates == {"none", "awaitEnable", "forceEnable", "endVMWatch", "forceVMWatch", "done",
               "aborted"}

\* Inside an attempt: the pair of counters names it.
InAttempt == sup \in {"sendRunning", "setup", "start", "govern", "spawn", "wait", "sendFailed"}

TypeOK ==
  /\ setting \in {"absent", "disabled", "enabled"}
  /\ host \in Hosts
  /\ loop \in {"top", "probe", "select", "report", "sleep", "returned", "exited"}
  /\ vmWatchResult \in VMWatchResult
  /\ substatus \in StatusTypes
  /\ shutdown \in BOOLEAN /\ sig \in {"idle", "kill", "done"}
  /\ stop \in StopStates
  /\ sup \in SupStates
  /\ retryCycle \in 1..(MaxCycles + 1) /\ attempt \in 1..(AttemptsPerCycle + 1)
  /\ InAttempt => Current \in Attempts
  /\ totalAttempts \in Nat /\ sinceReset \in Nat
  /\ vmWatchCurrentCycle \in 1..MaxCycles /\ vmWatchTotalAttempts \in Nat
  /\ vmWatchCommand \in Attempts \cup {None}
  /\ proc \in [Attempts -> ProcStates]
  /\ waiter \in {"off", "waiting", "draining", "sending"} /\ held \in BOOLEAN
  /\ monitor \in {"off", "watching"}
  /\ tick \in BOOLEAN /\ ticks \in 0..SuccessTicks /\ beatAge \in 0..2
  /\ retryResetDone \in BOOLEAN

(***************************************************************************)
(* Never are two VMWatch processes alive: an attempt begins only after the *)
(* process of the previous one has ended, whichever way that attempt       *)
(* failed and whoever killed it.                                           *)
(***************************************************************************)
AtMostOneVMWatch ==
  \A a, b \in Attempts : Alive(a) /\ Alive(b) => a = b

(***************************************************************************)
(* While a VMWatch process is alive under enable, the health loop holds    *)
(* the result Running: the announcement comes before the start and the     *)
(* failure after the end, although only the unbuffered channel orders the  *)
(* two goroutines.                                                         *)
(***************************************************************************)
AliveIsReportedRunning ==
  \A a \in Attempts : Up /\ Alive(a) => vmWatchResult.status = "Running"

(***************************************************************************)
(* The two goroutines of an attempt come and go together, and none of an   *)
(* earlier attempt is left behind: the waiter always finds the monitor     *)
(* still listening on the unbuffered processDone, and what either of them  *)
(* takes from the global vmWatchCommand, to wait for it or to kill it, is  *)
(* the command of its own attempt.  No VMWatch runs under enable without   *)
(* someone waiting for it, or about to.                                    *)
(***************************************************************************)
WatchersPaired ==
  /\ waiter = "off" <=> monitor = "off"
  /\ waiter # "off" => sup = "wait" /\ vmWatchCommand = Current
  /\ \A a \in Attempts : Up /\ Alive(a) =>
       sup \in {"govern", "spawn"} \/ (waiter = "waiting" /\ a = vmWatchCommand)

(***************************************************************************)
(* VMWatch is started at most MaxCycles times AttemptsPerCycle times in    *)
(* the life of an enable process, whatever resets the retry counters in    *)
(* between.                                                                *)
(***************************************************************************)
AttemptsBounded == totalAttempts <= MaxCycles * AttemptsPerCycle

(***************************************************************************)
(* A VMWatch process that hangs is killed, as long as enable lives: by the *)
(* heartbeat monitor, by the signal goroutine, or for want of limits.      *)
(***************************************************************************)
HungIsKilled ==
  \A a \in Attempts : proc[a] = "hung" ~> (~Alive(a) \/ ~Up)

(***************************************************************************)
(* The supervisor is never stuck: it comes to watch a process or to its    *)
(* end, although each attempt blocks twice on a channel that the health    *)
(* loop reads once per iteration and not at all after it has returned.     *)
(***************************************************************************)
SupervisorGoesOn ==
  (sup # "off") ~> (sup \in {"wait", "closed"} \/ ~Up)

(***************************************************************************)
(* The end of VMWatch is reported: once its children are gone too, the     *)
(* health loop comes to hold the result Failed, although the waiter can    *)
(* only pass the news to a monitor that may be killing VMWatch just then.  *)
(***************************************************************************)
EndIsReported ==
  (sup = "wait" /\ NoneAlive /\ ~held) ~> (vmWatchResult.status = "Failed" \/ ~Up)

(***************************************************************************)
(* A stop that was carried through leaves neither enable nor any VMWatch   *)
(* process, not even a hung one, although the supervisor may be past its   *)
(* test of shutdown and start VMWatch while the shim waits.                *)
(***************************************************************************)
StopIsClean == stop = "done" => ~Up /\ NoneAlive

(* Refinement mapping: an attempt is announced once the health loop has    *)
(* received Running, runs while its process is alive and has ended when    *)
(* the process has, or when there will be none.                            *)
Phase ==
  IF ~Up THEN "gone"
  ELSE IF sup = "off" THEN "off"
  ELSE IF sup \in {"setup", "start"} THEN "announced"
  ELSE IF sup \in {"govern", "spawn", "wait"} THEN IF NoneAlive THEN "ended" ELSE "running"
  ELSE IF sup = "sendFailed" THEN "ended"
  ELSE IF sup \in {"close", "closed"} THEN "givenUp"
  ELSE "idle"

Abstract == INSTANCE Supervision WITH
  MaxAttempts <- MaxCycles * AttemptsPerCycle,
  phase <- Phase,
  reported <- vmWatchResult.status,
  attempts <- totalAttempts,
  stopping <- shutdown

(***************************************************************************)
(* The goroutines together keep the promises of Supervision: what the      *)
(* health loop holds is announced and failed attempts in turn, at most     *)
(* MaxCycles * AttemptsPerCycle of them, never Failed while VMWatch is     *)
(* alive, and VMWatch is given up only after all attempts or in a          *)
(* shutdown, wherever signals, kills and resets of the counters fall.      *)
(***************************************************************************)
ImplementsSupervision == Abstract!Spec

SavesSucceed == []<><<ReportStatus(TRUE)>>_vars

(***************************************************************************)
(* Once the supervisor has given VMWatch up, the status file comes to say  *)
(* error about it and keeps saying so, if saving succeeds again and again, *)
(* although from then on every iteration reads a closed channel.           *)
(***************************************************************************)
GivenUpIsPublished ==
  SavesSucceed => (sup = "closed" ~> [](substatus = "error" \/ ~Up))

(***************************************************************************)
(* After a shutdown signal enable exits and no VMWatch process that works  *)
(* outlives it, not even one that was started behind the signal's back.    *)
(***************************************************************************)
ShutdownEndsVMWatch ==
  shutdown ~> [](~Up /\ \A a \in Attempts : proc[a] # "live")

(***************************************************************************)
(* What the heartbeat monitor logs after an hour of success: the retry     *)
(* counters are reset.  VMWatch is then given up only after all cycles of  *)
(* attempts have failed since.                                             *)
(***************************************************************************)
ResetRestartsCycles ==
  sup = "sendExhausted" => sinceReset >= MaxCycles * AttemptsPerCycle

=============================================================================
