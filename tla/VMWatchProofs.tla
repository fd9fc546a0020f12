---------------------------- MODULE VMWatchProofs ----------------------------
(***************************************************************************)
(* Proofs about the supervision of VMWatch, for any number of cycles,      *)
(* attempts and ticks.                                                     *)
(***************************************************************************)
EXTENDS VMWatch, TLAPS

(* Where the supervisor is inside a cycle; within an attempt after it was  *)
(* announced; and where a process of the current attempt may be alive.     *)
InCycle == InAttempt \/ sup \in {"attempt", "update", "backoff", "nextCycle"}
Announced == sup \in {"setup", "start", "govern", "spawn", "wait"}
MayBeAlive == sup \in {"govern", "spawn", "wait"}

CycleInv == InCycle => retryCycle <= MaxCycles

VTypeInv == TypeOK /\ CycleInv

-----------------------------------------------------------------------------
(* Type correctness, with the bound on the cycle that it rests on: the     *)
(* test at the head of a cycle keeps the supervisor out of cycle           *)
(* MaxCycles + 1.                                                          *)

LEMMA VInit == Init => VTypeInv
<1>1. SUFFICES ASSUME Init PROVE VTypeInv OBVIOUS
<1>2. proc \in [Attempts -> ProcStates] BY <1>1 DEF Init, ProcStates
<1>3. vmWatchResult \in VMWatchResult
  BY <1>1 DEF Init, VMWatchResult, VMWatchStatus, Errors, Result
<1>4. sup \in {"off", "begin"} BY <1>1 DEF Init
<1>5. CycleInv BY <1>4 DEF CycleInv, InCycle, InAttempt
<1>b. shutdown \in BOOLEAN /\ held \in BOOLEAN /\ tick \in BOOLEAN /\ retryResetDone \in BOOLEAN
  BY <1>1, Zenon DEF Init
<1>6. TypeOK
  BY <1>1, <1>2, <1>3, <1>4, <1>b, CyclesAssumption, AttemptsAssumption, TicksAssumption
  DEF Init, TypeOK, SupStates, StopStates, StatusTypes, InAttempt
<1> QED BY <1>5, <1>6 DEF VTypeInv

LEMMA KillTypes ==
  ASSUME NEW a \in Attempts \cup {None}, TypeOK, Kill(a)
  PROVE  proc' \in [Attempts -> ProcStates]
<1>1. proc \in [Attempts -> ProcStates] BY DEF TypeOK
<1> QED BY <1>1, NoneAssumption DEF Kill, ProcStates

LEMMA VNext == VTypeInv /\ [Next]_vars => VTypeInv'
<1> SUFFICES ASSUME VTypeInv, [Next]_vars PROVE VTypeInv' OBVIOUS
<1> USE CyclesAssumption, AttemptsAssumption, TicksAssumption
<1>t. TypeOK /\ CycleInv BY DEF VTypeInv
<1>g. ASSUME Gone, stop' \in StopStates PROVE VTypeInv'
  <2>1. /\ shutdown' \in BOOLEAN /\ held' \in BOOLEAN /\ tick' \in BOOLEAN
        /\ retryResetDone' \in BOOLEAN
    BY <1>g, Zenon DEF Gone, NewMonitor
  <2> QED
    BY <1>t, <1>g, <2>1
    DEF Gone, NewMonitor, VTypeInv, TypeOK, CycleInv, InCycle, InAttempt, Result, VMWatchResult,
        VMWatchStatus, Errors, SupStates, fixed
<1>1. CASE Supervisor
  <2>1. CASE BeginRetries
    BY <1>t, <2>1
    DEF BeginRetries, VTypeInv, TypeOK, CycleInv, InCycle, InAttempt, Current, SupStates, fixed,
        loopVars, sigVars, counters, watchVars, monitorLocals
  <2>2. CASE CycleTest
    BY <1>t, <2>2
    DEF CycleTest, VTypeInv, TypeOK, CycleInv, InCycle, InAttempt, Current, SupStates, fixed,
        loopVars, sigVars, counters, watchVars, monitorLocals
  <2>3. CASE AttemptTest
    BY <1>t, <2>3
    DEF AttemptTest, VTypeInv, TypeOK, CycleInv, InCycle, InAttempt, Current, SupStates,
        Sending, Attempts, fixed, loopVars, sigVars, counters, watchVars, monitorLocals,
        retryVars
  <2>4. CASE UpdateCounters
    BY <1>t, <2>4
    DEF UpdateCounters, VTypeInv, TypeOK, CycleInv, InCycle, InAttempt, Current, SupStates,
        fixed, loopVars, sigVars, watchVars, monitorLocals, retryVars
  <2>5. CASE Backoff
    BY <1>t, <2>5
    DEF Backoff, VTypeInv, TypeOK, CycleInv, InCycle, InAttempt, Current, SupStates, fixed,
        loopVars, sigVars, counters, watchVars, monitorLocals, retryVars
  <2>6. CASE NextCycle
    BY <1>t, <2>6
    DEF NextCycle, VTypeInv, TypeOK, CycleInv, InCycle, InAttempt, Current, SupStates, fixed,
        loopVars, sigVars, counters, watchVars, monitorLocals
  <2>7. CASE Conclude
    BY <1>t, <2>7
    DEF Conclude, VTypeInv, TypeOK, CycleInv, InCycle, InAttempt, Current, SupStates, Sending,
        fixed, loopVars, sigVars, counters, watchVars, monitorLocals, retryVars
  <2>8. CASE CloseChannel
    BY <1>t, <2>8
    DEF CloseChannel, VTypeInv, TypeOK, CycleInv, InCycle, InAttempt, Current, SupStates, fixed,
        loopVars, sigVars, counters, watchVars, monitorLocals, retryVars
  <2>9. ASSUME NEW ok \in BOOLEAN, Setup(ok) PROVE VTypeInv'
    BY <1>t, <2>9
    DEF Setup, VTypeInv, TypeOK, CycleInv, InCycle, InAttempt, Current, SupStates, Sending,
        fixed, loopVars, sigVars, counters, watchVars, monitorLocals, retryVars
  <2>10. ASSUME NEW ok \in BOOLEAN, Start(ok) PROVE VTypeInv'
    <3>1. proc' \in [Attempts -> ProcStates]
      BY <1>t, <2>10 DEF Start, TypeOK, ProcStates
    <3> QED
      BY <1>t, <2>10, <3>1
      DEF Start, VTypeInv, TypeOK, CycleInv, InCycle, InAttempt, Current, SupStates, Sending,
          fixed, loopVars, sigVars, counters, watchVars, monitorLocals, retryVars
  <2>11. ASSUME NEW ok \in BOOLEAN, ApplyResourceGovernance(ok) PROVE VTypeInv'
    <3>1. proc' \in [Attempts -> ProcStates]
      BY <1>t, <2>11, KillTypes DEF ApplyResourceGovernance, TypeOK
    <3>2. held \in BOOLEAN BY <1>t DEF TypeOK
    <3>3. held' \in BOOLEAN BY <2>11, <3>2, Zenon DEF ApplyResourceGovernance
    <3> QED
      BY <1>t, <2>11, <3>1, <3>3
      DEF ApplyResourceGovernance, VTypeInv, TypeOK, CycleInv, InCycle, InAttempt, Current,
          SupStates, Sending, fixed, loopVars, sigVars, counters, watchVars, monitorLocals,
          retryVars
  <2>12. CASE SpawnWatchers
    BY <1>t, <2>12
    DEF SpawnWatchers, VTypeInv, TypeOK, CycleInv, InCycle, InAttempt, Current, SupStates,
        fixed, loopVars, sigVars, counters, monitorLocals, retryVars
  <2>13. CASE WaitGroupDone
    BY <1>t, <2>13
    DEF WaitGroupDone, VTypeInv, TypeOK, CycleInv, InCycle, InAttempt, Current, SupStates,
        Sending, fixed, loopVars, sigVars, counters, watchVars, monitorLocals, retryVars
  <2> QED
    BY <1>1, <2>1, <2>2, <2>3, <2>4, <2>5, <2>6, <2>7, <2>8, <2>9, <2>10, <2>11, <2>12, <2>13
    DEF Supervisor
<1>2. CASE Reap
  <2>1. proc' \in [Attempts -> ProcStates] BY <1>t, <1>2 DEF Reap, TypeOK, ProcStates
  <2> QED
    BY <1>t, <1>2, <2>1
    DEF Reap, VTypeInv, TypeOK, CycleInv, InCycle, InAttempt, Current, fixed, loopVars, sigVars,
        counters, monitorLocals, retryVars
<1>2a. CASE WaitReturns
  BY <1>t, <1>2a
  DEF WaitReturns, VTypeInv, TypeOK, CycleInv, InCycle, InAttempt, Current, fixed, loopVars,
      sigVars, counters, monitorLocals, retryVars
<1>3. CASE ProcessDone
  <2>1. tick' \in BOOLEAN /\ retryResetDone' \in BOOLEAN BY <1>3, Zenon DEF ProcessDone,
        NewMonitor
  <2> QED
    BY <1>t, <1>3, <2>1
    DEF ProcessDone, NewMonitor, resetVMWatchRetryCounters, VTypeInv, TypeOK, CycleInv, InCycle,
        InAttempt, Current, fixed, loopVars, sigVars, counters
<1>4. CASE Tick
  BY <1>t, <1>4
  DEF Tick, VTypeInv, TypeOK, CycleInv, InCycle, InAttempt, Current, fixed, loopVars, sigVars,
      counters, retryVars
<1>5. CASE HandleTick
  <2>1. proc' \in [Attempts -> ProcStates] BY <1>t, <1>5, KillTypes DEF HandleTick, TypeOK
  <2>2. retryResetDone \in BOOLEAN BY <1>t DEF TypeOK
  <2>3. tick' \in BOOLEAN /\ retryResetDone' \in BOOLEAN BY <1>5, <2>2, Zenon DEF HandleTick
  <2> QED
    BY <1>t, <1>5, <2>1, <2>3
    DEF HandleTick, resetVMWatchRetryCounters, VTypeInv, TypeOK, CycleInv, InCycle, InAttempt,
        Current, fixed, loopVars, sigVars, counters
<1>6. CASE Loop
  <2>1. ASSUME NEW b \in BOOLEAN, LoopTop(b) \/ LoopProbe \/ Sleep PROVE VTypeInv'
    BY <1>t, <2>1
    DEF LoopTop, LoopProbe, Sleep, VTypeInv, TypeOK, CycleInv, InCycle, InAttempt, Current,
        fixed, sigVars, counters, watchVars, monitorLocals, retryVars
  <2>2. ASSUME NEW b \in BOOLEAN, ReportStatus(b) PROVE VTypeInv'
    <3>1. GetStatusType(vmWatchResult.status) \in StatusTypes BY DEF GetStatusType, StatusTypes
    <3> QED
      BY <1>t, <2>2, <3>1
      DEF ReportStatus, VTypeInv, TypeOK, CycleInv, InCycle, InAttempt, Current, fixed, sigVars,
          counters, watchVars, monitorLocals, retryVars
  <2>3. CASE ReceiveRunning
    BY <1>t, <2>3
    DEF ReceiveRunning, Select, VTypeInv, TypeOK, CycleInv, InCycle, InAttempt, Current,
        SupStates, Result, VMWatchResult, VMWatchStatus, Errors, fixed, sigVars, counters,
        watchVars, monitorLocals
  <2>4. CASE ReceiveFailed
    <3>1. attempt \in 1..AttemptsPerCycle BY <1>t, <2>4 DEF ReceiveFailed, TypeOK, InAttempt,
          Current, Attempts
    <3> QED
      BY <1>t, <2>4, <3>1
      DEF ReceiveFailed, Select, VTypeInv, TypeOK, CycleInv, InCycle, InAttempt, Current,
          SupStates, Result, VMWatchResult, VMWatchStatus, Errors, fixed, sigVars, counters,
          watchVars, monitorLocals
  <2>5. CASE ReceiveFinal
    <3>1. vmWatchResult' \in VMWatchResult
      BY <2>5 DEF ReceiveFinal, Result, VMWatchResult, VMWatchStatus, Errors
    <3> QED
      BY <1>t, <2>5, <3>1
      DEF ReceiveFinal, Select, VTypeInv, TypeOK, CycleInv, InCycle, InAttempt, Current,
          SupStates, fixed, sigVars, counters, watchVars, monitorLocals
  <2>6. CASE ReceiveClosed
    BY <1>t, <2>6
    DEF ReceiveClosed, Select, VTypeInv, TypeOK, CycleInv, InCycle, InAttempt, Current,
        SupStates, Result, VMWatchResult, VMWatchStatus, Errors, fixed, sigVars, counters,
        watchVars, monitorLocals
  <2>7. CASE ReceiveNothing
    BY <1>t, <2>7
    DEF ReceiveNothing, Select, VTypeInv, TypeOK, CycleInv, InCycle, InAttempt, Current,
        SupStates, fixed, sigVars, counters, watchVars, monitorLocals
  <2>8. CASE Exit BY <1>t, <1>g, <2>8 DEF Exit, TypeOK
  <2> QED BY <1>6, <2>1, <2>2, <2>3, <2>4, <2>5, <2>6, <2>7, <2>8 DEF Loop
<1>7. CASE ReceiveSignal
  BY <1>t, <1>7
  DEF ReceiveSignal, VTypeInv, TypeOK, CycleInv, InCycle, InAttempt, Current, fixed, loopVars,
      counters, watchVars, monitorLocals, retryVars
<1>8. CASE KillOnSignal
  <2>1. proc' \in [Attempts -> ProcStates] BY <1>t, <1>8, KillTypes DEF KillOnSignal, TypeOK
  <2> QED
    BY <1>t, <1>8, <2>1
    DEF KillOnSignal, VTypeInv, TypeOK, CycleInv, InCycle, InAttempt, Current, fixed, loopVars,
        counters, watchVars, monitorLocals, retryVars
<1>9. CASE VMWatchProcess
  <2>1. ASSUME NEW a \in Attempts, WriteHeartbeat(a) PROVE VTypeInv'
    BY <1>t, <2>1
    DEF WriteHeartbeat, VTypeInv, TypeOK, CycleInv, InCycle, InAttempt, Current, fixed,
        loopVars, sigVars, counters, retryVars
  <2>2. ASSUME NEW a \in Attempts, NEW how \in {"exited", "hung"}, Fail(a, how) PROVE VTypeInv'
    <3>1. proc' \in [Attempts -> ProcStates] BY <1>t, <2>2 DEF Fail, TypeOK, ProcStates
    <3> QED
      BY <1>t, <2>2, <3>1
      DEF Fail, VTypeInv, TypeOK, CycleInv, InCycle, InAttempt, Current, fixed, loopVars,
          sigVars, counters, watchVars, monitorLocals, retryVars
  <2>3. ASSUME NEW a \in Attempts, ForkChild(a) \/ ChildrenEnd PROVE VTypeInv'
    <3>1. held' \in BOOLEAN BY <2>3, Zenon DEF ForkChild, ChildrenEnd
    <3> QED
      BY <1>t, <2>3, <3>1
      DEF ForkChild, ChildrenEnd, VTypeInv, TypeOK, CycleInv, InCycle, InAttempt, Current, fixed,
          loopVars, sigVars, counters, monitorLocals, retryVars
  <2>4. CASE ChildrenEnd
    <3>1. <<1, 1>> \in Attempts BY DEF Attempts
    <3> QED BY <2>3, <2>4, <3>1
  <2> QED BY <1>9, <2>1, <2>2, <2>3, <2>4 DEF VMWatchProcess
<1>10. ASSUME NEW a \in Attempts, ParentDied(a) PROVE VTypeInv'
  <2>1. proc' \in [Attempts -> ProcStates] BY <1>t, <1>10 DEF ParentDied, TypeOK, ProcStates
  <2> QED
    BY <1>t, <1>10, <2>1
    DEF ParentDied, VTypeInv, TypeOK, CycleInv, InCycle, InAttempt, Current, fixed, loopVars,
        sigVars, counters, watchVars, monitorLocals, retryVars
<1>11. CASE Crash BY <1>t, <1>g, <1>11 DEF Crash, TypeOK
<1>12. CASE UNCHANGED vars
  BY <1>t, <1>12
  DEF vars, VTypeInv, TypeOK, CycleInv, InCycle, InAttempt, Current, fixed, loopVars, sigVars,
      counters, watchVars, monitorLocals, retryVars
<1>13. CASE Shim
  <2>1. CASE StopEnable
    <3>0. shutdown \in BOOLEAN BY <1>t DEF TypeOK
    <3>1. shutdown' \in BOOLEAN BY <2>1, <3>0, Zenon DEF StopEnable
    <3>2. stop' \in StopStates /\ sig' \in {"idle", "kill", "done"}
      BY <1>t, <2>1 DEF StopEnable, TypeOK, StopStates
    <3>3. UNCHANGED <<fixed, loopVars, sup, retryVars, counters, vmWatchCommand, proc, watchVars>>
      BY <2>1 DEF StopEnable
    <3> QED
      BY <1>t, <3>1, <3>2, <3>3
      DEF VTypeInv, TypeOK, CycleInv, InCycle, InAttempt, Current, fixed, loopVars, counters,
          watchVars, monitorLocals, retryVars
  <2>2. CASE SeeEnableEnded \/ SeeEnableOverdue \/ (ForceEnable /\ ~Up)
    BY <1>t, <2>2
    DEF SeeEnableEnded, SeeEnableOverdue, ForceEnable, VTypeInv, TypeOK, CycleInv, InCycle,
        InAttempt, Current, StopStates, fixed, loopVars, counters, watchVars, monitorLocals,
        retryVars
  <2>3. CASE ForceEnable /\ Up BY <1>g, <2>3 DEF ForceEnable, StopStates
  <2>4. CASE StopVMWatch \/ ForceVMWatch
    <3>1. proc' \in [Attempts -> ProcStates]
      BY <1>t, <2>4 DEF StopVMWatch, ForceVMWatch, TypeOK, ProcStates
    <3> QED
      BY <1>t, <2>4, <3>1
      DEF StopVMWatch, ForceVMWatch, VTypeInv, TypeOK, CycleInv, InCycle, InAttempt, Current,
          StopStates, fixed, loopVars, counters, watchVars, monitorLocals, retryVars
  <2> QED BY <1>13, <2>1, <2>2, <2>3, <2>4 DEF Shim
<1> QED
  BY <1>1, <1>2, <1>2a, <1>3, <1>4, <1>5, <1>6, <1>7, <1>8, <1>9, <1>10, <1>11, <1>12, <1>13
  DEF Next

(***************************************************************************)
(* The supervision is type correct; in particular no attempt lies outside  *)
(* the cycles and attempts that the constants of main/constants.go allow.  *)
(***************************************************************************)
THEOREM VMWatchTypeCorrect == Spec => []TypeOK
<1>1. VTypeInv => TypeOK BY DEF VTypeInv
<1> QED BY VInit, VNext, <1>1, PTL DEF Spec

-----------------------------------------------------------------------------
(* The process and who knows about it.  While enable lives, a VMWatch      *)
(* process is alive only in the stages of its own attempt that follow its  *)
(* start, when the result Running has been received and vmWatchCommand     *)
(* names it; once its waiter has seen it end, it is not alive.             *)

AliveInv == \A a \in Attempts : Up /\ Alive(a) => MayBeAlive /\ a = Current
NoticeInv == Announced => vmWatchResult.status = "Running"
CmdInv == MayBeAlive \/ sup = "start" => vmWatchCommand = Current
WatchInv ==
  /\ waiter # "off" => sup = "wait"
  /\ sup = "wait" /\ waiter # "waiting" => \A a \in Attempts : ~Alive(a)

ProcInv == AliveInv /\ NoticeInv /\ CmdInv /\ WatchInv /\ AtMostOneVMWatch

LEMMA PInit == Init => ProcInv
<1> SUFFICES ASSUME Init PROVE ProcInv OBVIOUS
<1>1. \A a \in Attempts : ~Alive(a) BY DEF Init, Alive
<1>2. sup \in {"off", "begin"} /\ waiter = "off" BY DEF Init
<1> QED
  BY <1>1, <1>2
  DEF ProcInv, AliveInv, NoticeInv, CmdInv, WatchInv, AtMostOneVMWatch, MayBeAlive, Announced

LEMMA KillEnds ==
  ASSUME TypeOK, NEW c \in Attempts \cup {None}, Kill(c)
  PROVE  /\ \A a \in Attempts : Alive(a)' => Alive(a)
         /\ c \in Attempts => ~Alive(c)'
<1>1. proc \in [Attempts -> ProcStates] BY DEF TypeOK
<1> QED BY <1>1, NoneAssumption DEF Kill, Alive

(* A step that starts no process and leaves the supervisor, the waiter and *)
(* the results alone keeps the invariant.                                  *)
LEMMA Quiet ==
  ASSUME ProcInv,
         \A a \in Attempts : Alive(a)' => Alive(a),
         Up' => Up,
         UNCHANGED <<sup, waiter, retryCycle, attempt, vmWatchCommand, vmWatchResult>>
  PROVE  ProcInv'
BY
DEF ProcInv, AliveInv, NoticeInv, CmdInv, WatchInv, AtMostOneVMWatch, MayBeAlive, Announced,
    Current

(* The same for a step of the supervisor to a place from which no process  *)
(* has been announced, or within the cycle when none is alive.             *)
LEMMA Idle ==
  ASSUME ProcInv, proc' = proc, Up' => Up, waiter' = waiter,
         ~MayBeAlive, sup' \notin {"setup", "start", "govern", "spawn", "wait"}, Up
  PROVE  ProcInv'
<1>1. \A a \in Attempts : ~Alive(a) BY DEF ProcInv, AliveInv
<1>2. \A a \in Attempts : ~Alive(a)' BY <1>1 DEF Alive
<1>3. waiter = "off" BY DEF ProcInv, WatchInv, MayBeAlive
<1> QED
  BY <1>2, <1>3
  DEF ProcInv, AliveInv, NoticeInv, CmdInv, WatchInv, AtMostOneVMWatch, MayBeAlive, Announced

LEMMA PNext == VTypeInv /\ ProcInv /\ [Next]_vars => ProcInv'
<1> SUFFICES ASSUME VTypeInv, ProcInv, [Next]_vars PROVE ProcInv' OBVIOUS
<1>t. TypeOK BY DEF VTypeInv
<1>c. vmWatchCommand \in Attempts \cup {None} BY <1>t DEF TypeOK
<1>p. proc \in [Attempts -> ProcStates] BY <1>t DEF TypeOK
<1>g. ASSUME Gone PROVE ProcInv'
  <2>1. proc' = proc /\ ~Up' /\ sup' = "off" /\ waiter' = "off" BY <1>g DEF Gone, Up
  <2>2. \A a \in Attempts : Alive(a)' <=> Alive(a) BY <2>1 DEF Alive
  <2> QED
    BY <2>1, <2>2
    DEF ProcInv, AliveInv, NoticeInv, CmdInv, WatchInv, AtMostOneVMWatch, MayBeAlive, Announced
<1>1. CASE Supervisor
  <2>1. CASE BeginRetries \/ CycleTest \/ AttemptTest \/ UpdateCounters \/ Backoff \/ NextCycle
             \/ Conclude \/ CloseChannel
    <3>1. /\ proc' = proc /\ Up' = Up /\ Up /\ waiter' = waiter
          /\ ~MayBeAlive /\ sup' \notin {"setup", "start", "govern", "spawn", "wait"}
      BY <2>1
      DEF BeginRetries, CycleTest, AttemptTest, UpdateCounters, Backoff, NextCycle, Conclude,
          CloseChannel, MayBeAlive, Up, loopVars, watchVars
    <3> QED BY <3>1, Idle
  <2>2. ASSUME NEW ok \in BOOLEAN, Setup(ok) PROVE ProcInv'
    <3>1. \A a \in Attempts : ~Alive(a) BY <2>2 DEF Setup, ProcInv, AliveInv, MayBeAlive
    <3>2. \A a \in Attempts : ~Alive(a)' BY <2>2, <3>1 DEF Setup, Alive
    <3>3. waiter' = "off" BY <2>2 DEF Setup, ProcInv, WatchInv, watchVars
    <3> QED
      BY <2>2, <3>2, <3>3
      DEF Setup, ProcInv, AliveInv, NoticeInv, CmdInv, WatchInv, AtMostOneVMWatch, MayBeAlive,
          Announced, Current, retryVars, loopVars
  <2>3. ASSUME NEW ok \in BOOLEAN, Start(ok) PROVE ProcInv'
    <3>1. \A a \in Attempts : ~Alive(a) BY <2>3 DEF Start, ProcInv, AliveInv, MayBeAlive
    <3>2. \A a \in Attempts : Alive(a)' => ok /\ a = Current
      BY <2>3, <3>1, <1>p DEF Start, Alive
    <3>3. waiter' = "off" BY <2>3 DEF Start, ProcInv, WatchInv, watchVars
    <3>4. /\ Current' = Current /\ vmWatchCommand' = Current
          /\ vmWatchResult' = vmWatchResult /\ vmWatchResult.status = "Running"
      BY <2>3 DEF Start, ProcInv, CmdInv, NoticeInv, Announced, Current, retryVars, loopVars
    <3>5. sup' \in {"sendFailed", "spawn", "govern"} /\ (ok => sup' \in {"spawn", "govern"})
      BY <2>3 DEF Start
    <3> QED
      BY <3>2, <3>3, <3>4, <3>5
      DEF ProcInv, AliveInv, NoticeInv, CmdInv, WatchInv, AtMostOneVMWatch, MayBeAlive,
          Announced
  <2>4. ASSUME NEW ok \in BOOLEAN, ApplyResourceGovernance(ok) PROVE ProcInv'
    <3>1. waiter' = "off" /\ UNCHANGED <<retryCycle, attempt, vmWatchCommand, vmWatchResult,
          loop>>
      BY <2>4 DEF ApplyResourceGovernance, ProcInv, WatchInv, watchVars, retryVars, loopVars
    <3>2. vmWatchCommand = Current BY <2>4 DEF ApplyResourceGovernance, ProcInv, CmdInv,
          MayBeAlive
    <3>3. CASE sup' = "spawn" /\ UNCHANGED proc
      <4>1. \A a \in Attempts : Alive(a)' => Alive(a) BY <3>3 DEF Alive
      <4> QED
        BY <2>4, <3>1, <3>3, <4>1
        DEF ApplyResourceGovernance, ProcInv, AliveInv, NoticeInv, CmdInv, WatchInv,
            AtMostOneVMWatch, MayBeAlive, Announced, Current, Up
    <3>4. CASE sup' = "sendFailed" /\ Kill(vmWatchCommand)
      <4>1. \A a \in Attempts : Alive(a) => a = vmWatchCommand
        BY <2>4, <3>2 DEF ApplyResourceGovernance, ProcInv, AliveInv
      <4>2. \A a \in Attempts : ~Alive(a)' BY <4>1, <3>4, <1>t, <1>c, KillEnds
      <4> QED
        BY <3>1, <3>4, <4>2
        DEF ProcInv, AliveInv, NoticeInv, CmdInv, WatchInv, AtMostOneVMWatch, MayBeAlive,
            Announced
    <3> QED BY <2>4, <3>3, <3>4 DEF ApplyResourceGovernance
  <2>5. CASE SpawnWatchers
    <3>1. \A a \in Attempts : Alive(a)' => Alive(a) BY <2>5 DEF SpawnWatchers, Alive
    <3> QED
      BY <2>5, <3>1
      DEF SpawnWatchers, ProcInv, AliveInv, NoticeInv, CmdInv, WatchInv, AtMostOneVMWatch,
          MayBeAlive, Announced, Current, Up, retryVars, loopVars
  <2>6. CASE WaitGroupDone
    <3>1. \A a \in Attempts : ~Alive(a) BY <2>6 DEF WaitGroupDone, ProcInv, WatchInv
    <3>2. \A a \in Attempts : ~Alive(a)' BY <2>6, <3>1 DEF WaitGroupDone, Alive
    <3> QED
      BY <2>6, <3>2
      DEF WaitGroupDone, ProcInv, AliveInv, NoticeInv, CmdInv, WatchInv, AtMostOneVMWatch,
          MayBeAlive, Announced, watchVars
  <2> QED BY <1>1, <2>1, <2>2, <2>3, <2>4, <2>5, <2>6 DEF Supervisor
<1>2a. CASE WaitReturns
  <2>1. sup = "wait" /\ \A a \in Attempts : ~Alive(a) BY <1>2a DEF WaitReturns, ProcInv, WatchInv
  <2>2. \A a \in Attempts : ~Alive(a)' BY <1>2a, <2>1 DEF WaitReturns, Alive
  <2> QED
    BY <1>2a, <2>1, <2>2
    DEF WaitReturns, ProcInv, AliveInv, NoticeInv, CmdInv, WatchInv, AtMostOneVMWatch,
        MayBeAlive, Announced, Current, retryVars, loopVars
<1>2. CASE Reap
  <2>1. sup = "wait" BY <1>2 DEF Reap, ProcInv, WatchInv
  <2>2. \A a \in Attempts : Alive(a) => a = vmWatchCommand
    BY <1>2, <2>1 DEF Reap, ProcInv, AliveInv, CmdInv, MayBeAlive
  <2>3. \A a \in Attempts : ~Alive(a)' BY <1>2, <2>2, <1>p DEF Reap, Alive
  <2> QED
    BY <1>2, <2>1, <2>3
    DEF Reap, ProcInv, AliveInv, NoticeInv, CmdInv, WatchInv, AtMostOneVMWatch, MayBeAlive,
        Announced, Current, retryVars, loopVars
<1>3. CASE ProcessDone
  <2>1. sup = "wait" /\ \A a \in Attempts : ~Alive(a) BY <1>3 DEF ProcessDone, ProcInv, WatchInv
  <2>2. \A a \in Attempts : ~Alive(a)' BY <1>3, <2>1 DEF ProcessDone, Alive
  <2> QED
    BY <1>3, <2>1, <2>2
    DEF ProcessDone, ProcInv, AliveInv, NoticeInv, CmdInv, WatchInv, AtMostOneVMWatch,
        MayBeAlive, Announced, Current, loopVars
<1>4. CASE Tick
  <2>1. UNCHANGED <<sup, waiter, retryCycle, attempt, vmWatchCommand, vmWatchResult, loop, proc>>
    BY <1>4 DEF Tick, loopVars, retryVars
  <2> QED BY <2>1, Quiet DEF Up, Alive
<1>5. CASE HandleTick
  <2>1. UNCHANGED <<sup, waiter, retryCycle, attempt, vmWatchCommand, vmWatchResult, loop>>
    BY <1>5 DEF HandleTick, loopVars
  <2>2. \A a \in Attempts : Alive(a)' => Alive(a)
    <3>1. CASE UNCHANGED proc BY <3>1 DEF Alive
    <3>2. CASE Kill(vmWatchCommand) BY <3>2, <1>t, <1>c, KillEnds
    <3> QED BY <1>5, <3>1, <3>2 DEF HandleTick
  <2> QED BY <2>1, <2>2, Quiet DEF Up
<1>6. CASE Loop
  <2>1. ASSUME NEW b \in BOOLEAN,
        LoopTop(b) \/ LoopProbe \/ ReportStatus(b) \/ Sleep PROVE ProcInv'
    <3>1. /\ UNCHANGED <<sup, waiter, retryCycle, attempt, vmWatchCommand, vmWatchResult, proc>>
          /\ Up
      BY <2>1 DEF LoopTop, LoopProbe, ReportStatus, Sleep, Up, retryVars, watchVars
    <3> QED BY <3>1, Quiet DEF Alive
  <2>2. CASE ReceiveRunning
    <3>1. \A a \in Attempts : ~Alive(a)
      BY <2>2 DEF ReceiveRunning, Select, ProcInv, AliveInv, MayBeAlive, Up
    <3>2. \A a \in Attempts : ~Alive(a)' BY <2>2, <3>1 DEF ReceiveRunning, Select, Alive
    <3>3. waiter' = "off" BY <2>2 DEF ReceiveRunning, Select, ProcInv, WatchInv, watchVars
    <3> QED
      BY <2>2, <3>2, <3>3
      DEF ReceiveRunning, Result, ProcInv, AliveInv, NoticeInv, CmdInv, WatchInv,
          AtMostOneVMWatch, MayBeAlive, Announced
  <2>3. CASE ReceiveFailed \/ ReceiveFinal \/ ReceiveClosed
    <3>1. /\ proc' = proc /\ waiter' = waiter /\ Up
          /\ ~MayBeAlive /\ sup' \notin {"setup", "start", "govern", "spawn", "wait"}
      BY <2>3 DEF ReceiveFailed, ReceiveFinal, ReceiveClosed, Select, MayBeAlive, Up, watchVars
    <3> QED BY <3>1, Idle
  <2>4. CASE ReceiveNothing
    <3>1. /\ UNCHANGED <<sup, waiter, retryCycle, attempt, vmWatchCommand, vmWatchResult, proc>>
          /\ Up
      BY <2>4 DEF ReceiveNothing, Select, Up, watchVars
    <3> QED BY <3>1, Quiet DEF Alive
  <2>5. CASE Exit BY <1>g, <2>5 DEF Exit
  <2> QED BY <1>6, <2>1, <2>2, <2>3, <2>4, <2>5 DEF Loop
<1>7. CASE ReceiveSignal
  <2>1. UNCHANGED <<sup, waiter, retryCycle, attempt, vmWatchCommand, vmWatchResult, loop, proc>>
    BY <1>7 DEF ReceiveSignal, loopVars, retryVars, watchVars
  <2> QED BY <2>1, Quiet DEF Up, Alive
<1>8. CASE KillOnSignal
  <2>1. UNCHANGED <<sup, waiter, retryCycle, attempt, vmWatchCommand, vmWatchResult, loop>>
    BY <1>8 DEF KillOnSignal, loopVars, retryVars, watchVars
  <2>2. \A a \in Attempts : Alive(a)' => Alive(a) BY <1>8, <1>t, <1>c, KillEnds DEF KillOnSignal
  <2> QED BY <2>1, <2>2, Quiet DEF Up
<1>9. CASE VMWatchProcess
  <2>1. ASSUME NEW a \in Attempts, WriteHeartbeat(a) PROVE ProcInv'
    <3>1. UNCHANGED <<sup, waiter, retryCycle, attempt, vmWatchCommand, vmWatchResult, loop,
          proc>>
      BY <2>1 DEF WriteHeartbeat, loopVars, retryVars
    <3> QED BY <3>1, Quiet DEF Up, Alive
  <2>2. ASSUME NEW a \in Attempts, NEW how \in {"exited", "hung"}, Fail(a, how) PROVE ProcInv'
    <3>1. UNCHANGED <<sup, waiter, retryCycle, attempt, vmWatchCommand, vmWatchResult, loop>>
      BY <2>2 DEF Fail, loopVars, retryVars, watchVars
    <3>2. \A b \in Attempts : Alive(b)' => Alive(b) BY <2>2, <1>p DEF Fail, Alive
    <3> QED BY <3>1, <3>2, Quiet DEF Up
  <2>3. CASE ChildrenEnd \/ \E a \in Attempts : ForkChild(a)
    <3>1. UNCHANGED <<sup, waiter, retryCycle, attempt, vmWatchCommand, vmWatchResult, loop,
          proc>>
      BY <2>3 DEF ChildrenEnd, ForkChild, loopVars, retryVars
    <3> QED BY <3>1, Quiet DEF Up, Alive
  <2> QED BY <1>9, <2>1, <2>2, <2>3 DEF VMWatchProcess
<1>10. ASSUME NEW a \in Attempts, ParentDied(a) PROVE ProcInv'
  <2>1. UNCHANGED <<sup, waiter, retryCycle, attempt, vmWatchCommand, vmWatchResult, loop>>
    BY <1>10 DEF ParentDied, loopVars, retryVars, watchVars
  <2>2. \A b \in Attempts : Alive(b)' => Alive(b) BY <1>10, <1>p DEF ParentDied, Alive
  <2> QED BY <2>1, <2>2, Quiet DEF Up
<1>11. CASE Crash BY <1>g, <1>11 DEF Crash
<1>12. CASE UNCHANGED vars
  <2>1. UNCHANGED <<sup, waiter, retryCycle, attempt, vmWatchCommand, vmWatchResult, loop, proc>>
    BY <1>12 DEF vars, loopVars, retryVars, watchVars
  <2> QED BY <2>1, Quiet DEF Up, Alive
<1>13. CASE Shim
  <2>1. CASE ForceEnable /\ Up BY <1>g, <2>1 DEF ForceEnable
  <2>2. CASE ~(ForceEnable /\ Up)
    <3>1. UNCHANGED <<sup, waiter, retryCycle, attempt, vmWatchCommand, vmWatchResult, loop>>
      BY <1>13, <2>2
      DEF Shim, StopEnable, SeeEnableEnded, SeeEnableOverdue, ForceEnable, StopVMWatch,
          ForceVMWatch, loopVars, retryVars, watchVars
    <3>2. \A a \in Attempts : Alive(a)' => Alive(a)
      BY <1>13, <2>2
      DEF Shim, StopEnable, SeeEnableEnded, SeeEnableOverdue, ForceEnable, StopVMWatch,
          ForceVMWatch, Alive
    <3> QED BY <3>1, <3>2, Quiet DEF Up
  <2> QED BY <2>1, <2>2
<1> QED
  BY <1>1, <1>2, <1>2a, <1>3, <1>4, <1>5, <1>6, <1>7, <1>8, <1>9, <1>10, <1>11, <1>12, <1>13
  DEF Next

(***************************************************************************)
(* Two VMWatch processes are never alive, however attempts fail and        *)
(* whoever kills them.                                                     *)
(***************************************************************************)
THEOREM OneVMWatch == Spec => []AtMostOneVMWatch
<1>1. ProcInv => AtMostOneVMWatch BY DEF ProcInv
<1> QED BY VInit, VNext, PInit, PNext, <1>1, PTL DEF Spec

(***************************************************************************)
(* While a VMWatch process is alive under enable, the health loop holds    *)
(* the result Running.                                                     *)
(***************************************************************************)
THEOREM RunningReported == Spec => []AliveIsReportedRunning
<1>1. ProcInv => AliveIsReportedRunning
  BY DEF ProcInv, AliveInv, NoticeInv, MayBeAlive, Announced, AliveIsReportedRunning
<1> QED BY VInit, VNext, PInit, PNext, <1>1, PTL DEF Spec

-----------------------------------------------------------------------------
(* The two goroutines of an attempt. *)

PairInv == waiter = "off" <=> monitor = "off"

LEMMA PairNext == PairInv /\ [Next]_vars => PairInv'
<1> SUFFICES ASSUME PairInv, [Next]_vars PROVE PairInv' OBVIOUS
<1> USE DEF PairInv
<1>1. CASE UNCHANGED <<waiter, monitor>> BY <1>1
<1>2. CASE Gone BY <1>2 DEF Gone
<1>3. CASE SpawnWatchers BY <1>3 DEF SpawnWatchers
<1>4. CASE Reap \/ WaitReturns BY <1>4 DEF Reap, WaitReturns
<1>5. CASE ProcessDone BY <1>5 DEF ProcessDone
<1>6. Supervisor => SpawnWatchers \/ UNCHANGED <<waiter, monitor>>
  BY
  DEF Supervisor, BeginRetries, CycleTest, AttemptTest, UpdateCounters, Backoff, NextCycle,
      Conclude, CloseChannel, Setup, Start, ApplyResourceGovernance, WaitGroupDone, watchVars
<1>7. Loop => Gone \/ UNCHANGED <<waiter, monitor>>
  BY
  DEF Loop, LoopTop, LoopProbe, ReceiveRunning, ReceiveFailed, ReceiveFinal, ReceiveClosed,
      ReceiveNothing, Select, ReportStatus, Sleep, Exit, watchVars
<1>8. Tick \/ HandleTick \/ ReceiveSignal \/ KillOnSignal => UNCHANGED <<waiter, monitor>>
  BY DEF Tick, HandleTick, ReceiveSignal, KillOnSignal, watchVars
<1>9. VMWatchProcess \/ (\E a \in Attempts : ParentDied(a)) => UNCHANGED <<waiter, monitor>>
  BY DEF VMWatchProcess, WriteHeartbeat, ForkChild, Fail, ChildrenEnd, ParentDied, watchVars
<1>10. Crash \/ Shim => Gone \/ UNCHANGED <<waiter, monitor>>
  BY
  DEF Crash, Shim, StopEnable, SeeEnableEnded, SeeEnableOverdue, ForceEnable, StopVMWatch,
      ForceVMWatch, watchVars
<1>11. UNCHANGED vars => UNCHANGED <<waiter, monitor>> BY DEF vars, watchVars
<1> QED
  BY <1>1, <1>2, <1>3, <1>4, <1>5, <1>6, <1>7, <1>8, <1>9, <1>10, <1>11 DEF Next

(***************************************************************************)
(* The waiter and the monitor are always a pair, of the current attempt,   *)
(* and whatever VMWatch runs under enable is waited for.                   *)
(***************************************************************************)
THEOREM PairedWatchers == Spec => []WatchersPaired
<1>1. Init => PairInv BY DEF Init, PairInv
<1>2. ProcInv /\ PairInv => WatchersPaired
  BY DEF ProcInv, AliveInv, CmdInv, WatchInv, MayBeAlive, PairInv, WatchersPaired
<1> QED BY VInit, VNext, PInit, PNext, PairNext, <1>1, <1>2, PTL DEF Spec

-----------------------------------------------------------------------------
(* The number of attempts, accounted for by the cycles that are over and   *)
(* the attempts of the present one.                                        *)

Budget(c) == (c - 1) * AttemptsPerCycle

LEMMA BudgetFacts ==
  /\ Budget(1) = 0
  /\ MaxCycles * AttemptsPerCycle \in Nat
  /\ \A c \in 1..(MaxCycles + 1) :
       /\ Budget(c) \in Nat
       /\ Budget(c + 1) = Budget(c) + AttemptsPerCycle
       /\ Budget(c) <= MaxCycles * AttemptsPerCycle
       /\ c <= MaxCycles => Budget(c) + AttemptsPerCycle <= MaxCycles * AttemptsPerCycle
BY CyclesAssumption, AttemptsAssumption DEF Budget

CountInv ==
  /\ sup = "begin" => vmWatchCurrentCycle = 1 /\ vmWatchTotalAttempts = 0
  /\ sup = "cycle" => totalAttempts <= Budget(retryCycle)
  /\ sup \in {"attempt", "sendRunning"} => totalAttempts <= Budget(retryCycle) + attempt - 1
  /\ Announced \/ sup = "sendFailed" => totalAttempts <= Budget(retryCycle) + attempt
  /\ sup \in {"update", "backoff", "nextCycle"} =>
       totalAttempts <= Budget(retryCycle) + AttemptsPerCycle
  /\ AttemptsBounded

LEMMA CInit == Init => CountInv
<1> SUFFICES ASSUME Init PROVE CountInv OBVIOUS
<1>1. /\ sup \in {"off", "begin"} /\ totalAttempts = 0
      /\ vmWatchCurrentCycle = 1 /\ vmWatchTotalAttempts = 0
  BY DEF Init
<1>2. AttemptsBounded BY <1>1, BudgetFacts DEF AttemptsBounded
<1> QED BY <1>1, <1>2 DEF CountInv, Announced

(* A step that neither moves the supervisor nor touches its counts; the    *)
(* global counters may be reset.                                           *)
LEMMA CQuiet ==
  ASSUME CountInv,
         UNCHANGED <<sup, retryCycle, attempt, totalAttempts>>,
         \/ UNCHANGED counters
         \/ vmWatchCurrentCycle' = 1 /\ vmWatchTotalAttempts' = 0
  PROVE  CountInv'
<1>1. Announced' = Announced BY DEF Announced
<1>2. AttemptsBounded' BY DEF CountInv, AttemptsBounded
<1>3. Budget(retryCycle)' = Budget(retryCycle) BY DEF Budget
<1> QED BY <1>1, <1>2, <1>3 DEF CountInv, counters

LEMMA CNext == VTypeInv /\ CountInv /\ [Next]_vars => CountInv'
<1> SUFFICES ASSUME VTypeInv, CountInv, [Next]_vars PROVE CountInv' OBVIOUS
<1>t. /\ retryCycle \in 1..(MaxCycles + 1) /\ attempt \in 1..(AttemptsPerCycle + 1)
      /\ totalAttempts \in Nat /\ vmWatchTotalAttempts \in Nat
      /\ InCycle => retryCycle <= MaxCycles
      /\ InAttempt => attempt <= AttemptsPerCycle
  <2>1. TypeOK /\ CycleInv BY DEF VTypeInv
  <2>2. InAttempt => attempt \in 1..AttemptsPerCycle BY <2>1 DEF TypeOK, Current, Attempts
  <2> QED BY <2>1, <2>2, CyclesAssumption, AttemptsAssumption DEF TypeOK, CycleInv
<1>f. /\ Budget(retryCycle) \in Nat
      /\ Budget(retryCycle + 1) = Budget(retryCycle) + AttemptsPerCycle
      /\ Budget(retryCycle) <= MaxCycles * AttemptsPerCycle
      /\ InCycle => Budget(retryCycle) + AttemptsPerCycle <= MaxCycles * AttemptsPerCycle
      /\ MaxCycles * AttemptsPerCycle \in Nat
  BY <1>t, BudgetFacts
<1>b. totalAttempts' = totalAttempts => AttemptsBounded' BY DEF CountInv, AttemptsBounded
<1> USE CyclesAssumption, AttemptsAssumption
<1>g. ASSUME Gone PROVE CountInv'
  <2>1. sup' = "off" /\ totalAttempts' = 0 BY <1>g DEF Gone
  <2>2. AttemptsBounded' BY <2>1, <1>f DEF AttemptsBounded
  <2> QED BY <2>1, <2>2 DEF CountInv, Announced
<1>1. CASE Supervisor
  <2>1. CASE BeginRetries
    <3>1. sup' = "cycle" /\ retryCycle' = 1 /\ totalAttempts' = 0 BY <2>1 DEF BeginRetries,
          CountInv
    <3>2. AttemptsBounded' BY <3>1, <1>f DEF AttemptsBounded
    <3>3. totalAttempts' <= Budget(retryCycle') BY <3>1, BudgetFacts
    <3> QED BY <3>1, <3>2, <3>3 DEF CountInv, Announced, Budget
  <2>2. CASE CycleTest
    <3>1. totalAttempts <= Budget(retryCycle) BY <2>2 DEF CycleTest, CountInv
    <3>2. /\ sup' \in {"attempt", "conclude"}
          /\ totalAttempts' = totalAttempts /\ retryCycle' = retryCycle
          /\ sup' = "attempt" => attempt' = 1
      BY <2>2 DEF CycleTest
    <3>3. sup' = "attempt" => totalAttempts' <= Budget(retryCycle)' + attempt' - 1
      BY <3>1, <3>2, <1>t, <1>f DEF Budget
    <3> QED BY <3>2, <3>3, <1>b DEF CountInv, Announced
  <2>3. CASE AttemptTest
    <3>1. totalAttempts <= Budget(retryCycle) + attempt - 1 BY <2>3 DEF AttemptTest, CountInv
    <3>2. sup' \in {"sendRunning", "update"} /\ UNCHANGED <<totalAttempts, retryCycle, attempt>>
      BY <2>3 DEF AttemptTest, retryVars
    <3>3. totalAttempts' <= Budget(retryCycle)' + attempt' - 1 BY <3>1, <3>2 DEF Budget
    <3>4. totalAttempts' <= Budget(retryCycle)' + AttemptsPerCycle
      <4>1. totalAttempts <= Budget(retryCycle) + AttemptsPerCycle BY <3>1, <1>t, <1>f
      <4> QED BY <4>1, <3>2 DEF Budget
    <3> QED BY <3>2, <3>3, <3>4, <1>b DEF CountInv, Announced
  <2>4. CASE UpdateCounters \/ Backoff
    <3>1. totalAttempts <= Budget(retryCycle) + AttemptsPerCycle
      BY <2>4 DEF UpdateCounters, Backoff, CountInv
    <3>2. sup' \in {"backoff", "nextCycle"} /\ UNCHANGED <<totalAttempts, retryCycle, attempt>>
      BY <2>4 DEF UpdateCounters, Backoff, retryVars
    <3>3. totalAttempts' <= Budget(retryCycle)' + AttemptsPerCycle BY <3>1, <3>2 DEF Budget
    <3> QED BY <3>2, <3>3, <1>b DEF CountInv, Announced
  <2>5. CASE NextCycle
    <3>1. totalAttempts <= Budget(retryCycle + 1) BY <2>5, <1>f DEF NextCycle, CountInv
    <3>2. sup' = "cycle" /\ totalAttempts' = totalAttempts /\ retryCycle' = retryCycle + 1
      BY <2>5 DEF NextCycle
    <3>3. totalAttempts' <= Budget(retryCycle)' BY <3>1, <3>2 DEF Budget
    <3> QED BY <3>2, <3>3, <1>b DEF CountInv, Announced
  <2>6. CASE Conclude \/ CloseChannel
    <3>1. sup' \in {"sendStopped", "sendExhausted", "closed"} /\ totalAttempts' = totalAttempts
      BY <2>6 DEF Conclude, CloseChannel, retryVars
    <3> QED BY <3>1, <1>b DEF CountInv, Announced
  <2>7. CASE SpawnWatchers \/ WaitGroupDone
             \/ \E ok \in BOOLEAN : Setup(ok) \/ Start(ok) \/ ApplyResourceGovernance(ok)
    <3>1. /\ Announced /\ sup' \in {"start", "govern", "spawn", "wait", "sendFailed"}
          /\ UNCHANGED <<totalAttempts, retryCycle, attempt>>
      BY <2>7
      DEF Setup, Start, ApplyResourceGovernance, SpawnWatchers, WaitGroupDone, Announced,
          retryVars
    <3>2. totalAttempts' <= Budget(retryCycle)' + attempt' BY <3>1 DEF CountInv, Budget
    <3> QED BY <3>1, <3>2, <1>b DEF CountInv, Announced
  <2> QED BY <1>1, <2>1, <2>2, <2>3, <2>4, <2>5, <2>6, <2>7 DEF Supervisor
<1>2. CASE Reap \/ WaitReturns \/ Tick
  BY <1>2, CQuiet DEF Reap, WaitReturns, Tick, retryVars
<1>3. CASE ProcessDone \/ HandleTick
  <2>1. UNCHANGED <<sup, retryCycle, attempt, totalAttempts>> BY <1>3 DEF ProcessDone, HandleTick
  <2>2. \/ UNCHANGED counters
        \/ vmWatchCurrentCycle' = 1 /\ vmWatchTotalAttempts' = 0
    BY <1>3 DEF ProcessDone, HandleTick, resetVMWatchRetryCounters
  <2> QED BY <2>1, <2>2, CQuiet
<1>4. CASE Loop
  <2>1. ASSUME NEW b \in BOOLEAN,
        LoopTop(b) \/ LoopProbe \/ ReportStatus(b) \/ Sleep PROVE CountInv'
    BY <2>1, CQuiet DEF LoopTop, LoopProbe, ReportStatus, Sleep, retryVars
  <2>2. CASE ReceiveRunning
    <3>1. totalAttempts <= Budget(retryCycle) + attempt - 1 BY <2>2 DEF ReceiveRunning, CountInv
    <3>2. /\ sup' = "setup" /\ totalAttempts' = totalAttempts + 1
          /\ UNCHANGED <<retryCycle, attempt>>
      BY <2>2 DEF ReceiveRunning, Select
    <3>3. InAttempt /\ InCycle BY <2>2 DEF ReceiveRunning, InAttempt, InCycle
    <3>4. totalAttempts + 1 <= Budget(retryCycle) + attempt BY <3>1, <1>t, <1>f
    <3>5. AttemptsBounded' BY <3>2, <3>3, <3>4, <1>t, <1>f DEF AttemptsBounded
    <3>6. totalAttempts' <= Budget(retryCycle)' + attempt' BY <3>2, <3>4 DEF Budget
    <3> QED BY <3>2, <3>5, <3>6 DEF CountInv, Announced
  <2>3. CASE ReceiveFailed
    <3>1. totalAttempts <= Budget(retryCycle) + attempt BY <2>3 DEF ReceiveFailed, CountInv
    <3>2. /\ sup' = "attempt" /\ totalAttempts' = totalAttempts
          /\ retryCycle' = retryCycle /\ attempt' = attempt + 1
      BY <2>3 DEF ReceiveFailed, Select
    <3>3. totalAttempts <= Budget(retryCycle) + (attempt + 1) - 1 BY <3>1, <1>t, <1>f
    <3>4. totalAttempts' <= Budget(retryCycle)' + attempt' - 1 BY <3>2, <3>3 DEF Budget
    <3> QED BY <3>2, <3>4, <1>b DEF CountInv, Announced
  <2>4. CASE ReceiveFinal
    <3>1. sup' = "close" /\ totalAttempts' = totalAttempts BY <2>4 DEF ReceiveFinal
    <3> QED BY <3>1, <1>b DEF CountInv, Announced
  <2>5. CASE ReceiveClosed \/ ReceiveNothing
    BY <2>5, CQuiet DEF ReceiveClosed, ReceiveNothing, Select
  <2>6. CASE Exit BY <1>g, <2>6 DEF Exit
  <2> QED BY <1>4, <2>1, <2>2, <2>3, <2>4, <2>5, <2>6 DEF Loop
<1>5. CASE ReceiveSignal \/ KillOnSignal \/ VMWatchProcess \/ \E a \in Attempts : ParentDied(a)
  BY <1>5, CQuiet
  DEF ReceiveSignal, KillOnSignal, VMWatchProcess, WriteHeartbeat, ForkChild, ChildrenEnd, Fail,
      ParentDied, retryVars
<1>6. CASE Crash BY <1>g, <1>6 DEF Crash
<1>7. CASE UNCHANGED vars BY <1>7, CQuiet DEF vars, retryVars
<1>8. CASE Shim
  <2>1. CASE ForceEnable /\ Up BY <1>g, <2>1 DEF ForceEnable
  <2>2. CASE ~(ForceEnable /\ Up)
    BY <1>8, <2>2, CQuiet
    DEF Shim, StopEnable, SeeEnableEnded, SeeEnableOverdue, ForceEnable, StopVMWatch,
        ForceVMWatch, retryVars
  <2> QED BY <2>1, <2>2
<1> QED BY <1>1, <1>2, <1>3, <1>4, <1>5, <1>6, <1>7, <1>8 DEF Next

(***************************************************************************)
(* VMWatch is started at most MaxCycles * AttemptsPerCycle times by one    *)
(* enable process; resets of the retry counters do not add to that.        *)
(***************************************************************************)
THEOREM BoundedAttempts == Spec => []AttemptsBounded
<1>1. CountInv => AttemptsBounded BY DEF CountInv
<1> QED BY VInit, VNext, CInit, CNext, <1>1, PTL DEF Spec

-----------------------------------------------------------------------------
(* A stop.  The shim turns to VMWatch only when enable is gone, and        *)
(* without enable nothing starts VMWatch any more.                         *)

StopInv ==
  /\ stop \in {"endVMWatch", "forceVMWatch", "done"} => ~Up
  /\ stop = "done" => NoneAlive

LEMMA SNext == VTypeInv /\ StopInv /\ [Next]_vars => StopInv'
<1> SUFFICES ASSUME VTypeInv, StopInv, [Next]_vars PROVE StopInv' OBVIOUS
<1>p. proc \in [Attempts -> ProcStates] BY DEF VTypeInv, TypeOK
<1>g. ASSUME Gone, stop' = stop \/ stop' = "endVMWatch" PROVE StopInv'
  <2>1. ~Up' /\ proc' = proc BY <1>g DEF Gone, Up
  <2>2. NoneAlive => NoneAlive' BY <2>1 DEF NoneAlive, Alive
  <2> QED BY <1>g, <2>1, <2>2 DEF StopInv
<1>u. ASSUME Up, stop' = stop PROVE StopInv'
  BY <1>u DEF StopInv
<1>d. ASSUME ~Up, UNCHANGED <<loop, stop>>, \A a \in Attempts : Alive(a)' => Alive(a)
      PROVE  StopInv'
  BY <1>d DEF StopInv, Up, NoneAlive
<1>1. CASE Supervisor \/ Reap \/ WaitReturns \/ ProcessDone \/ Tick \/ HandleTick
  <2>1. Up /\ stop' = stop
    BY <1>1
    DEF Supervisor, BeginRetries, CycleTest, AttemptTest, UpdateCounters, Backoff, NextCycle,
        Conclude, CloseChannel, Setup, Start, ApplyResourceGovernance, SpawnWatchers,
        WaitGroupDone, Reap, WaitReturns, ProcessDone, Tick, HandleTick, sigVars
  <2> QED BY <2>1, <1>u
<1>2. CASE Loop
  <2>1. CASE Exit BY <2>1, <1>g DEF Exit
  <2>2. CASE ~Exit
    <3>1. Up /\ stop' = stop
      BY <1>2, <2>2
      DEF Loop, LoopTop, LoopProbe, ReceiveRunning, ReceiveFailed, ReceiveFinal, ReceiveClosed,
          ReceiveNothing, Select, ReportStatus, Sleep, Up, sigVars
    <3> QED BY <3>1, <1>u
  <2> QED BY <2>1, <2>2
<1>3. CASE ReceiveSignal \/ KillOnSignal
  BY <1>3, <1>u DEF ReceiveSignal, KillOnSignal
<1>4. CASE VMWatchProcess \/ \E a \in Attempts : ParentDied(a)
  <2>1. /\ UNCHANGED <<loop, stop>>
        /\ \A a \in Attempts : Alive(a)' => Alive(a)
    BY <1>4, <1>p
    DEF VMWatchProcess, WriteHeartbeat, ForkChild, ChildrenEnd, Fail, ParentDied, Alive, sigVars,
        loopVars
  <2> QED BY <2>1, <1>u, <1>d
<1>5. CASE Crash BY <1>5, <1>g DEF Crash
<1>6. CASE Shim
  <2>1. CASE StopEnable BY <2>1 DEF StopEnable, StopInv, Up, loopVars
  <2>2. CASE SeeEnableEnded \/ SeeEnableOverdue
    BY <2>2 DEF SeeEnableEnded, SeeEnableOverdue, StopInv, Up, loopVars
  <2>3. CASE ForceEnable
    <3>1. CASE Up BY <2>3, <3>1, <1>g DEF ForceEnable
    <3>2. CASE ~Up BY <2>3, <3>2 DEF ForceEnable, StopInv
    <3> QED BY <3>1, <3>2
  <2>4. CASE StopVMWatch
    <3>1. ~Up' BY <2>4 DEF StopVMWatch, StopInv, Up, loopVars
    <3>2. stop' = "done" => NoneAlive' BY <2>4, <1>p DEF StopVMWatch, NoneAlive, Alive, ProcStates
    <3> QED BY <3>1, <3>2 DEF StopInv
  <2>5. CASE ForceVMWatch
    <3>1. ~Up' BY <2>5 DEF ForceVMWatch, StopInv, Up, loopVars
    <3>2. NoneAlive' BY <2>5, <1>p DEF ForceVMWatch, NoneAlive, Alive, ProcStates
    <3> QED BY <3>1, <3>2 DEF StopInv
  <2> QED BY <1>6, <2>1, <2>2, <2>3, <2>4, <2>5 DEF Shim
<1>7. CASE UNCHANGED vars
  BY <1>7, <1>u, <1>d DEF vars, loopVars, sigVars, Alive
<1> QED BY <1>1, <1>2, <1>3, <1>4, <1>5, <1>6, <1>7 DEF Next

(***************************************************************************)
(* A stop that was carried through leaves neither enable nor any VMWatch   *)
(* process, working or hung.                                               *)
(***************************************************************************)
THEOREM CleanStop == Spec => []StopIsClean
<1>1. Init => StopInv BY DEF Init, StopInv
<1>2. StopInv => StopIsClean BY DEF StopInv, StopIsClean
<1> QED BY VInit, VNext, SNext, <1>1, <1>2, PTL DEF Spec

=============================================================================
