-------------------------- MODULE SupervisionProofs --------------------------
(***************************************************************************)
(* The goroutines of VMWatch.tla implement Supervision, for any number of  *)
(* cycles, attempts and ticks.                                             *)
(***************************************************************************)
EXTENDS VMWatchProofs

Total == MaxCycles * AttemptsPerCycle

(* The exact number of attempts: a cycle that no shutdown has cut short    *)
(* uses all its attempts.                                                  *)
ExactInv ==
  /\ sup = "cycle" /\ ~shutdown => totalAttempts = Budget(retryCycle)
  /\ sup \in {"attempt", "sendRunning"} => totalAttempts = Budget(retryCycle) + attempt - 1
  /\ Announced \/ sup = "sendFailed" => totalAttempts = Budget(retryCycle) + attempt
  /\ sup \in {"update", "backoff", "nextCycle"} /\ ~shutdown =>
       totalAttempts = Budget(retryCycle) + AttemptsPerCycle
  /\ sup \in {"conclude", "sendExhausted", "sendStopped"} /\ ~shutdown => totalAttempts = Total

(* A process that is gone has nothing in memory; a supervisor that has     *)
(* delivered its last result has delivered Failed.                         *)
GoneInv == ~Up => sup = "off" /\ shutdown = FALSE
LastInv == sup \in {"close", "closed"} => vmWatchResult.status = "Failed"

\* Nothing has been counted before the cycles begin.
BeginInv == sup = "begin" => totalAttempts = 0

MemInv == ExactInv /\ GoneInv /\ LastInv /\ BeginInv

LEMMA MInit == Init => MemInv
<1> SUFFICES ASSUME Init PROVE MemInv OBVIOUS
<1>1. sup \in {"off", "begin"} /\ Up /\ totalAttempts = 0 BY DEF Init, Up
<1> QED BY <1>1 DEF MemInv, ExactInv, GoneInv, LastInv, BeginInv, Announced

(* A step that leaves the supervisor, its counts and the results alone.    *)
LEMMA MQuiet ==
  ASSUME MemInv,
         UNCHANGED <<sup, retryCycle, attempt, totalAttempts, vmWatchResult>>,
         Up' = Up,
         shutdown' = shutdown \/ (Up /\ shutdown' = TRUE)
  PROVE  MemInv'
<1>1. Budget(retryCycle)' = Budget(retryCycle) BY DEF Budget
<1>2. Announced' = Announced BY DEF Announced
<1>3. ExactInv' BY <1>1, <1>2 DEF MemInv, ExactInv
<1>4. GoneInv' BY DEF MemInv, GoneInv
<1>5. LastInv' /\ BeginInv' BY DEF MemInv, LastInv, BeginInv
<1> QED BY <1>3, <1>4, <1>5 DEF MemInv

LEMMA MNext == VTypeInv /\ CountInv /\ MemInv /\ [Next]_vars => MemInv'
<1> SUFFICES ASSUME VTypeInv, CountInv, MemInv, [Next]_vars PROVE MemInv' OBVIOUS
<1>t. /\ retryCycle \in 1..(MaxCycles + 1) /\ attempt \in 1..(AttemptsPerCycle + 1)
      /\ totalAttempts \in Nat
      /\ InCycle => retryCycle <= MaxCycles
      /\ InAttempt => attempt <= AttemptsPerCycle
  <2>1. TypeOK /\ CycleInv BY DEF VTypeInv
  <2>2. InAttempt => attempt \in 1..AttemptsPerCycle BY <2>1 DEF TypeOK, Current, Attempts
  <2> QED BY <2>1, <2>2, CyclesAssumption, AttemptsAssumption DEF TypeOK, CycleInv
<1>f. /\ Budget(retryCycle) \in Nat
      /\ Budget(retryCycle + 1) = Budget(retryCycle) + AttemptsPerCycle
  BY <1>t, BudgetFacts
<1>m. Budget(MaxCycles + 1) = Total BY CyclesAssumption, AttemptsAssumption DEF Budget, Total
<1> USE CyclesAssumption, AttemptsAssumption
<1>g. ASSUME Gone PROVE MemInv'
  <2>1. sup' = "off" /\ shutdown' = FALSE BY <1>g DEF Gone
  <2> QED BY <2>1 DEF MemInv, ExactInv, GoneInv, LastInv, BeginInv, Announced
<1>1. CASE Supervisor
  <2>u. Up /\ Up' /\ shutdown' = shutdown
    BY <1>1
    DEF Supervisor, BeginRetries, CycleTest, AttemptTest, UpdateCounters, Backoff, NextCycle,
        Conclude, CloseChannel, Setup, Start, ApplyResourceGovernance, SpawnWatchers,
        WaitGroupDone, sigVars, loopVars, Up
  <2>g. GoneInv' BY <2>u DEF GoneInv
  <2>1. CASE BeginRetries
    <3>1. sup' = "cycle" /\ retryCycle' = 1 /\ totalAttempts' = 0 BY <2>1 DEF BeginRetries,
          CountInv
    <3>2. Budget(retryCycle)' = 0 BY <3>1 DEF Budget
    <3> QED BY <2>g, <3>1, <3>2 DEF MemInv, ExactInv, LastInv, BeginInv, Announced
  <2>2. CASE CycleTest
    <3>1. CASE retryCycle <= MaxCycles /\ ~shutdown
      <4>1. sup' = "attempt" /\ attempt' = 1 /\ UNCHANGED <<retryCycle, totalAttempts>>
        BY <2>2, <3>1 DEF CycleTest
      <4>2. totalAttempts = Budget(retryCycle) BY <2>2, <3>1 DEF CycleTest, MemInv, ExactInv
      <4>3. totalAttempts' = Budget(retryCycle)' + attempt' - 1
        BY <1>t, <1>f, <4>1, <4>2 DEF Budget
      <4> QED BY <2>g, <4>1, <4>3 DEF MemInv, ExactInv, LastInv, BeginInv, Announced
    <3>2. CASE ~(retryCycle <= MaxCycles /\ ~shutdown)
      <4>1. sup' = "conclude" /\ UNCHANGED <<retryCycle, totalAttempts>>
        BY <2>2, <3>2 DEF CycleTest
      <4>2. ~shutdown => totalAttempts = Budget(retryCycle) /\ retryCycle = MaxCycles + 1
        BY <2>2, <3>2, <1>t DEF CycleTest, MemInv, ExactInv
      <4>3. ~shutdown' => totalAttempts' = Total BY <4>1, <4>2, <1>m, <2>u
      <4> QED BY <2>g, <4>1, <4>3 DEF MemInv, ExactInv, LastInv, BeginInv, Announced
    <3> QED BY <3>1, <3>2
  <2>3. CASE AttemptTest
    <3>1. totalAttempts = Budget(retryCycle) + attempt - 1
      BY <2>3 DEF AttemptTest, MemInv, ExactInv
    <3>2. /\ sup' \in {"sendRunning", "update"} /\ UNCHANGED <<totalAttempts, retryCycle, attempt>>
          /\ sup' = "update" /\ ~shutdown => attempt = AttemptsPerCycle + 1
      BY <2>3, <1>t DEF AttemptTest, retryVars
    <3>3. totalAttempts' = Budget(retryCycle)' + attempt' - 1 BY <3>1, <3>2 DEF Budget
    <3>4. sup' = "update" /\ ~shutdown => totalAttempts' = Budget(retryCycle)' + AttemptsPerCycle
      <4>1. attempt = AttemptsPerCycle + 1 => totalAttempts = Budget(retryCycle) + AttemptsPerCycle
        BY <3>1, <1>t, <1>f
      <4> QED BY <4>1, <3>2 DEF Budget
    <3> QED BY <2>g, <2>u, <3>2, <3>3, <3>4 DEF MemInv, ExactInv, LastInv, BeginInv, Announced
  <2>4. CASE UpdateCounters \/ Backoff
    <3>1. ~shutdown => totalAttempts = Budget(retryCycle) + AttemptsPerCycle
      BY <2>4 DEF UpdateCounters, Backoff, MemInv, ExactInv
    <3>2. sup' \in {"backoff", "nextCycle"} /\ UNCHANGED <<totalAttempts, retryCycle, attempt>>
      BY <2>4 DEF UpdateCounters, Backoff, retryVars
    <3>3. ~shutdown' => totalAttempts' = Budget(retryCycle)' + AttemptsPerCycle
      BY <3>1, <3>2, <2>u DEF Budget
    <3> QED BY <2>g, <3>2, <3>3 DEF MemInv, ExactInv, LastInv, BeginInv, Announced
  <2>5. CASE NextCycle
    <3>1. ~shutdown => totalAttempts = Budget(retryCycle + 1)
      BY <2>5, <1>f DEF NextCycle, MemInv, ExactInv
    <3>2. sup' = "cycle" /\ totalAttempts' = totalAttempts /\ retryCycle' = retryCycle + 1
      BY <2>5 DEF NextCycle
    <3>3. ~shutdown' => totalAttempts' = Budget(retryCycle)' BY <3>1, <3>2, <2>u DEF Budget
    <3> QED BY <2>g, <3>2, <3>3 DEF MemInv, ExactInv, LastInv, BeginInv, Announced
  <2>6. CASE Conclude
    <3>1. sup' \in {"sendStopped", "sendExhausted"} /\ totalAttempts' = totalAttempts
      BY <2>6 DEF Conclude, retryVars
    <3>2. ~shutdown' => totalAttempts' = Total BY <2>6, <2>u, <3>1 DEF Conclude, MemInv, ExactInv
    <3> QED BY <2>g, <3>1, <3>2 DEF MemInv, ExactInv, LastInv, BeginInv, Announced
  <2>7. CASE CloseChannel
    <3>1. sup' = "closed" /\ vmWatchResult.status = "Failed" /\ vmWatchResult' = vmWatchResult
      BY <2>7 DEF CloseChannel, MemInv, LastInv, loopVars
    <3> QED BY <2>g, <3>1 DEF MemInv, ExactInv, LastInv, BeginInv, Announced
  <2>8. CASE SpawnWatchers \/ WaitGroupDone
             \/ \E ok \in BOOLEAN : Setup(ok) \/ Start(ok) \/ ApplyResourceGovernance(ok)
    <3>1. /\ Announced /\ sup' \in {"start", "govern", "spawn", "wait", "sendFailed"}
          /\ UNCHANGED <<totalAttempts, retryCycle, attempt>>
      BY <2>8
      DEF Setup, Start, ApplyResourceGovernance, SpawnWatchers, WaitGroupDone, Announced,
          retryVars
    <3>2. totalAttempts' = Budget(retryCycle)' + attempt' BY <3>1 DEF MemInv, ExactInv, Budget
    <3> QED BY <2>g, <3>1, <3>2 DEF MemInv, ExactInv, LastInv, BeginInv, Announced
  <2> QED BY <1>1, <2>1, <2>2, <2>3, <2>4, <2>5, <2>6, <2>7, <2>8 DEF Supervisor
<1>2. CASE Reap \/ WaitReturns \/ Tick \/ ProcessDone \/ HandleTick
  BY <1>2, MQuiet
  DEF Reap, WaitReturns, Tick, ProcessDone, HandleTick, retryVars, loopVars, sigVars, Up
<1>3. CASE Loop
  <2>1. ASSUME NEW b \in BOOLEAN,
        LoopTop(b) \/ LoopProbe \/ ReportStatus(b) \/ Sleep PROVE MemInv'
    BY <2>1, MQuiet DEF LoopTop, LoopProbe, ReportStatus, Sleep, retryVars, sigVars, Up
  <2>u. ASSUME Select PROVE Up /\ Up' /\ shutdown' = shutdown /\ retryCycle' = retryCycle
    BY <2>u DEF Select, Up, sigVars
  <2>2. CASE ReceiveRunning
    <3>1. totalAttempts = Budget(retryCycle) + attempt - 1
      BY <2>2 DEF ReceiveRunning, MemInv, ExactInv
    <3>2. /\ sup' = "setup" /\ totalAttempts' = totalAttempts + 1
          /\ UNCHANGED <<retryCycle, attempt>> /\ Up'
      BY <2>2, <2>u DEF ReceiveRunning
    <3>3. totalAttempts + 1 = Budget(retryCycle) + attempt BY <3>1, <1>t, <1>f
    <3>4. totalAttempts' = Budget(retryCycle)' + attempt' BY <3>2, <3>3 DEF Budget
    <3> QED BY <3>2, <3>4 DEF MemInv, ExactInv, GoneInv, LastInv, BeginInv, Announced
  <2>3. CASE ReceiveFailed
    <3>1. totalAttempts = Budget(retryCycle) + attempt BY <2>3 DEF ReceiveFailed, MemInv, ExactInv
    <3>2. /\ sup' = "attempt" /\ totalAttempts' = totalAttempts
          /\ retryCycle' = retryCycle /\ attempt' = attempt + 1 /\ Up'
      BY <2>3, <2>u DEF ReceiveFailed
    <3>3. totalAttempts = Budget(retryCycle) + (attempt + 1) - 1 BY <3>1, <1>t, <1>f
    <3>4. totalAttempts' = Budget(retryCycle)' + attempt' - 1 BY <3>2, <3>3 DEF Budget
    <3> QED BY <3>2, <3>4 DEF MemInv, ExactInv, GoneInv, LastInv, BeginInv, Announced
  <2>4. CASE ReceiveFinal
    <3>1. sup' = "close" /\ vmWatchResult'.status = "Failed" /\ Up'
      BY <2>4, <2>u DEF ReceiveFinal, Result
    <3> QED BY <3>1 DEF MemInv, ExactInv, GoneInv, LastInv, BeginInv, Announced
  <2>5. CASE ReceiveClosed
    <3>1. sup' = "closed" /\ vmWatchResult'.status = "Failed" /\ Up'
      BY <2>5, <2>u DEF ReceiveClosed, Result
    <3> QED BY <3>1 DEF MemInv, ExactInv, GoneInv, LastInv, BeginInv, Announced
  <2>6. CASE ReceiveNothing
    BY <2>6, <2>u, MQuiet DEF ReceiveNothing
  <2>7. CASE Exit BY <1>g, <2>7 DEF Exit
  <2> QED BY <1>3, <2>1, <2>2, <2>3, <2>4, <2>5, <2>6, <2>7 DEF Loop
<1>4. CASE ReceiveSignal \/ KillOnSignal
  BY <1>4, MQuiet DEF ReceiveSignal, KillOnSignal, retryVars, loopVars, Up
<1>5. CASE VMWatchProcess \/ \E a \in Attempts : ParentDied(a)
  BY <1>5, MQuiet
  DEF VMWatchProcess, WriteHeartbeat, ForkChild, ChildrenEnd, Fail, ParentDied, retryVars,
      loopVars, sigVars, Up
<1>6. CASE Crash BY <1>g, <1>6 DEF Crash
<1>7. CASE Shim
  <2>1. CASE ForceEnable /\ Up BY <1>g, <2>1 DEF ForceEnable
  <2>2. CASE StopEnable
    <3>1. UNCHANGED <<sup, retryCycle, attempt, totalAttempts, vmWatchResult>> /\ Up' = Up
      BY <2>2 DEF StopEnable, retryVars, loopVars, Up
    <3>2. shutdown' = shutdown \/ (Up /\ shutdown' = TRUE)
      BY <2>2 DEF StopEnable, MemInv, GoneInv
    <3> QED BY <3>1, <3>2, MQuiet
  <2>3. CASE ~(ForceEnable /\ Up) /\ ~StopEnable
    <3>1. UNCHANGED <<sup, retryCycle, attempt, totalAttempts, vmWatchResult, loop, shutdown>>
      BY <1>7, <2>3
      DEF Shim, SeeEnableEnded, SeeEnableOverdue, ForceEnable, StopVMWatch, ForceVMWatch,
          retryVars, loopVars
    <3> QED BY <3>1, MQuiet DEF Up
  <2> QED BY <2>1, <2>2, <2>3
<1>8. CASE UNCHANGED vars
  BY <1>8, MQuiet DEF vars, retryVars, loopVars, sigVars, Up
<1> QED BY <1>1, <1>2, <1>3, <1>4, <1>5, <1>6, <1>7, <1>8 DEF Next

-----------------------------------------------------------------------------
(* Every step of the goroutines is a step of Supervision, or none.         *)

(* The step is none of Supervision's if the phase, the status held by the  *)
(* health loop, the number of attempts and shutdown stay the same.         *)
LEMMA Stutter ==
  ASSUME Phase' = Phase, UNCHANGED <<vmWatchResult, totalAttempts, shutdown>>
  PROVE  [Abstract!Next]_(Abstract!svars)
BY DEF Abstract!svars

(* A process may end, by whatever hand, while the rest stays the same.     *)
LEMMA Ending ==
  ASSUME UNCHANGED <<sup, vmWatchResult, totalAttempts, shutdown>>,
         Up' = Up,
         \A a \in Attempts : Alive(a)' => Alive(a)
  PROVE  [Abstract!Next]_(Abstract!svars)
<1>1. NoneAlive => NoneAlive' BY DEF NoneAlive
<1>2. CASE Phase' = Phase BY <1>2, Stutter
<1>3. CASE Phase' # Phase
  <2>1. Phase = "running" /\ Phase' = "ended" BY <1>1, <1>3 DEF Phase
  <2>2. Abstract!End BY <2>1 DEF Abstract!End
  <2> QED BY <2>2 DEF Abstract!Next
<1> QED BY <1>2, <1>3

LEMMA RNext == VTypeInv /\ ProcInv /\ MemInv /\ CountInv /\ [Next]_vars
               => [Abstract!Next]_(Abstract!svars)
<1> SUFFICES ASSUME VTypeInv, ProcInv, MemInv, CountInv, [Next]_vars
             PROVE  [Abstract!Next]_(Abstract!svars)
  OBVIOUS
<1>t. TypeOK BY DEF VTypeInv
<1>c. vmWatchCommand \in Attempts \cup {None} BY <1>t DEF TypeOK
<1>p. proc \in [Attempts -> ProcStates] BY <1>t DEF TypeOK
<1>g. ASSUME Gone, Up PROVE [Abstract!Next]_(Abstract!svars)
  <2>1. Phase # "gone" BY <1>g DEF Phase
  <2>2. /\ Phase' = "gone" /\ vmWatchResult'.status = "NotRunning" /\ totalAttempts' = 0
        /\ shutdown' = FALSE
    BY <1>g DEF Gone, Phase, Up, Result
  <2>3. Abstract!Vanish BY <2>1, <2>2 DEF Abstract!Vanish
  <2> QED BY <2>3 DEF Abstract!Next
<1>1. CASE Supervisor
  <2>u. Up /\ Up' /\ UNCHANGED <<shutdown, vmWatchResult>>
    BY <1>1
    DEF Supervisor, BeginRetries, CycleTest, AttemptTest, UpdateCounters, Backoff, NextCycle,
        Conclude, CloseChannel, Setup, Start, ApplyResourceGovernance, SpawnWatchers,
        WaitGroupDone, sigVars, loopVars, Up
  <2>1. CASE BeginRetries
    <3>1. Phase = "idle" /\ Phase' = "idle" BY <2>1, <2>u DEF BeginRetries, Phase
    <3>2. totalAttempts' = totalAttempts
      BY <2>1 DEF BeginRetries, CountInv, MemInv, BeginInv
    <3> QED BY <2>u, <3>1, <3>2, Stutter
  <2>2. CASE CycleTest \/ AttemptTest \/ UpdateCounters \/ Backoff \/ NextCycle \/ Conclude
    <3>1. Phase = "idle" /\ Phase' = "idle" /\ totalAttempts' = totalAttempts
      BY <2>2, <2>u
      DEF CycleTest, AttemptTest, UpdateCounters, Backoff, NextCycle, Conclude, Phase, retryVars
    <3> QED BY <2>u, <3>1, Stutter
  <2>3. CASE CloseChannel
    <3>1. Phase' = Phase /\ totalAttempts' = totalAttempts
      BY <2>3, <2>u DEF CloseChannel, Phase, retryVars
    <3> QED BY <2>u, <3>1, Stutter
  <2>4. ASSUME NEW ok \in BOOLEAN, Setup(ok) PROVE [Abstract!Next]_(Abstract!svars)
    <3>1. Phase = "announced" /\ totalAttempts' = totalAttempts
      BY <2>4, <2>u DEF Setup, Phase, retryVars
    <3>2. Phase' = IF ok THEN "announced" ELSE "ended" BY <2>4, <2>u DEF Setup, Phase
    <3>3. CASE ok BY <2>u, <3>1, <3>2, <3>3, Stutter
    <3>4. CASE ~ok
      <4>1. Abstract!End BY <2>u, <3>1, <3>2, <3>4 DEF Abstract!End
      <4> QED BY <4>1 DEF Abstract!Next
    <3> QED BY <3>3, <3>4
  <2>5. ASSUME NEW ok \in BOOLEAN, Start(ok) PROVE [Abstract!Next]_(Abstract!svars)
    <3>1. Phase = "announced" /\ totalAttempts' = totalAttempts
      BY <2>5, <2>u DEF Start, Phase, retryVars
    <3>2. CASE ok
      <4>1. Current \in Attempts BY <2>5, <1>t DEF Start, TypeOK, InAttempt
      <4>2. Alive(Current)' BY <2>5, <3>2, <4>1, <1>p DEF Start, Alive, Current, retryVars
      <4>3. ~NoneAlive'
        <5>1. Current' = Current BY <2>5 DEF Start, Current, retryVars
        <5> QED BY <4>1, <4>2, <5>1 DEF NoneAlive
      <4>4. Phase' = "running" BY <2>5, <2>u, <3>2, <4>3 DEF Start, Phase
      <4>5. Abstract!Launch BY <2>u, <3>1, <4>4 DEF Abstract!Launch
      <4> QED BY <4>5 DEF Abstract!Next
    <3>3. CASE ~ok
      <4>1. Phase' = "ended" BY <2>5, <2>u, <3>3 DEF Start, Phase
      <4>2. Abstract!End BY <2>u, <3>1, <4>1 DEF Abstract!End
      <4> QED BY <4>2 DEF Abstract!Next
    <3> QED BY <3>2, <3>3
  <2>6. ASSUME NEW ok \in BOOLEAN, ApplyResourceGovernance(ok)
        PROVE  [Abstract!Next]_(Abstract!svars)
    <3>1. totalAttempts' = totalAttempts /\ vmWatchCommand = Current
      BY <2>6 DEF ApplyResourceGovernance, retryVars, ProcInv, CmdInv, MayBeAlive
    <3>2. CASE sup' = "spawn" /\ UNCHANGED proc
      <4>1. NoneAlive' = NoneAlive BY <3>2 DEF NoneAlive, Alive
      <4>2. Phase' = Phase BY <2>6, <2>u, <3>2, <4>1 DEF ApplyResourceGovernance, Phase
      <4> QED BY <2>u, <3>1, <4>2, Stutter
    <3>3. CASE sup' = "sendFailed"
      <4>1. Phase \in {"running", "ended"} BY <2>6, <2>u DEF ApplyResourceGovernance, Phase
      <4>2. Phase' = "ended" BY <2>u, <3>3 DEF Phase
      <4>3. CASE Phase = "ended" BY <2>u, <3>1, <4>2, <4>3, Stutter
      <4>4. CASE Phase = "running"
        <5>1. Abstract!End BY <2>u, <3>1, <4>2, <4>4 DEF Abstract!End
        <5> QED BY <5>1 DEF Abstract!Next
      <4> QED BY <4>1, <4>3, <4>4
    <3> QED BY <2>6, <3>2, <3>3 DEF ApplyResourceGovernance
  <2>7. CASE SpawnWatchers
    <3>1. NoneAlive' = NoneAlive BY <2>7 DEF SpawnWatchers, NoneAlive, Alive
    <3>2. Phase' = Phase /\ totalAttempts' = totalAttempts
      BY <2>7, <2>u, <3>1 DEF SpawnWatchers, Phase, retryVars
    <3> QED BY <2>u, <3>2, Stutter
  <2>8. CASE WaitGroupDone
    <3>1. NoneAlive BY <2>8 DEF WaitGroupDone, ProcInv, WatchInv, NoneAlive
    <3>2. Phase = "ended" /\ Phase' = "ended" /\ totalAttempts' = totalAttempts
      BY <2>8, <2>u, <3>1 DEF WaitGroupDone, Phase, retryVars
    <3> QED BY <2>u, <3>2, Stutter
  <2> QED BY <1>1, <2>1, <2>2, <2>3, <2>4, <2>5, <2>6, <2>7, <2>8 DEF Supervisor
<1>2. CASE Reap \/ WaitReturns \/ Tick \/ ProcessDone \/ HandleTick
  <2>1. UNCHANGED <<sup, vmWatchResult, totalAttempts, shutdown>> /\ Up' = Up
    BY <1>2
    DEF Reap, WaitReturns, Tick, ProcessDone, HandleTick, retryVars, loopVars, sigVars, Up
  <2>2. \A a \in Attempts : Alive(a)' => Alive(a)
    <3>1. CASE UNCHANGED proc BY <3>1 DEF Alive
    <3>2. CASE Reap BY <3>2, <1>p DEF Reap, Alive
    <3>3. CASE Kill(vmWatchCommand) BY <3>3, <1>t, <1>c, KillEnds
    <3> QED BY <1>2, <3>1, <3>2, <3>3 DEF WaitReturns, Tick, ProcessDone, HandleTick
  <2> QED BY <2>1, <2>2, Ending
<1>3. CASE Loop
  <2>1. ASSUME NEW b \in BOOLEAN, LoopTop(b) \/ LoopProbe \/ ReportStatus(b) \/ Sleep
        PROVE  [Abstract!Next]_(Abstract!svars)
    <3>1. UNCHANGED <<sup, vmWatchResult, totalAttempts, shutdown, proc>> /\ Up' = Up
      BY <2>1 DEF LoopTop, LoopProbe, ReportStatus, Sleep, retryVars, sigVars, Up
    <3> QED BY <3>1, Ending DEF Alive
  <2>u. ASSUME Select PROVE Up /\ Up' /\ shutdown' = shutdown /\ proc' = proc
    BY <2>u DEF Select, Up, sigVars
  <2>2. CASE ReceiveRunning
    <3>1. Phase = "idle" /\ Phase' = "announced" BY <2>2, <2>u DEF ReceiveRunning, Phase
    <3>2. /\ totalAttempts' = totalAttempts + 1 /\ vmWatchResult'.status = "Running"
          /\ shutdown' = shutdown
      BY <2>2, <2>u DEF ReceiveRunning, Result
    <3>3. totalAttempts < MaxCycles * AttemptsPerCycle
      <4>1. totalAttempts <= Budget(retryCycle) + attempt - 1
        BY <2>2 DEF ReceiveRunning, CountInv
      <4>2. InAttempt /\ InCycle BY <2>2 DEF ReceiveRunning, InAttempt, InCycle
      <4>3. /\ retryCycle \in 1..MaxCycles /\ attempt \in 1..AttemptsPerCycle
            /\ totalAttempts \in Nat
        BY <1>t, <4>2 DEF TypeOK, Current, Attempts
      <4>4. /\ Budget(retryCycle) \in Nat /\ MaxCycles * AttemptsPerCycle \in Nat
            /\ Budget(retryCycle) + AttemptsPerCycle <= MaxCycles * AttemptsPerCycle
        BY <4>3, BudgetFacts, CyclesAssumption
      <4> QED BY <4>1, <4>3, <4>4, AttemptsAssumption
    <3>4. Abstract!Announce BY <3>1, <3>2, <3>3 DEF Abstract!Announce
    <3> QED BY <3>4 DEF Abstract!Next
  <2>3. CASE ReceiveFailed
    <3>1. Phase = "ended" /\ Phase' = "idle" BY <2>3, <2>u DEF ReceiveFailed, Phase
    <3>2. vmWatchResult'.status = "Failed" /\ UNCHANGED <<totalAttempts, shutdown>>
      BY <2>3, <2>u DEF ReceiveFailed, Result
    <3>3. Abstract!ReportFailure BY <3>1, <3>2 DEF Abstract!ReportFailure
    <3> QED BY <3>3 DEF Abstract!Next
  <2>4. CASE ReceiveFinal
    <3>1. Phase = "idle" /\ Phase' = "givenUp" BY <2>4, <2>u DEF ReceiveFinal, Phase
    <3>2. vmWatchResult'.status = "Failed" /\ UNCHANGED <<totalAttempts, shutdown>>
      BY <2>4, <2>u DEF ReceiveFinal, Result
    <3>3. totalAttempts = MaxCycles * AttemptsPerCycle \/ shutdown
      BY <2>4 DEF ReceiveFinal, MemInv, ExactInv, Total
    <3>4. Abstract!GiveUp BY <3>1, <3>2, <3>3 DEF Abstract!GiveUp
    <3> QED BY <3>4 DEF Abstract!Next
  <2>5. CASE ReceiveClosed
    <3>1. Phase = "givenUp" /\ Phase' = "givenUp" BY <2>5, <2>u DEF ReceiveClosed, Phase
    <3>2. /\ vmWatchResult.status = "Failed" /\ vmWatchResult'.status = "Failed"
          /\ UNCHANGED <<totalAttempts, shutdown>>
      BY <2>5, <2>u DEF ReceiveClosed, Result, MemInv, LastInv
    <3> QED BY <3>1, <3>2 DEF Abstract!svars
  <2>6. CASE ReceiveNothing
    <3>1. UNCHANGED <<sup, vmWatchResult, totalAttempts, shutdown, proc>> /\ Up' = Up
      BY <2>6, <2>u DEF ReceiveNothing
    <3> QED BY <3>1, Ending DEF Alive
  <2>7. CASE Exit BY <1>g, <2>7 DEF Exit, Up
  <2> QED BY <1>3, <2>1, <2>2, <2>3, <2>4, <2>5, <2>6, <2>7 DEF Loop
<1>s. ASSUME Up, shutdown' = TRUE, UNCHANGED <<sup, vmWatchResult, totalAttempts, loop, proc>>
      PROVE  [Abstract!Next]_(Abstract!svars)
  <2>1. Phase' = Phase /\ Phase # "gone"
    <3>1. NoneAlive' = NoneAlive /\ Up' BY <1>s DEF NoneAlive, Alive, Up
    <3> QED BY <1>s, <3>1 DEF Phase
  <2>2. Abstract!Shutdown BY <1>s, <2>1 DEF Abstract!Shutdown
  <2> QED BY <2>2 DEF Abstract!Next
<1>4. CASE ReceiveSignal
  BY <1>4, <1>s DEF ReceiveSignal, retryVars, loopVars
<1>5. CASE KillOnSignal
  <2>1. UNCHANGED <<sup, vmWatchResult, totalAttempts, shutdown>> /\ Up' = Up
    BY <1>5 DEF KillOnSignal, retryVars, loopVars, Up
  <2>2. \A a \in Attempts : Alive(a)' => Alive(a) BY <1>5, <1>t, <1>c, KillEnds DEF KillOnSignal
  <2> QED BY <2>1, <2>2, Ending
<1>6. CASE VMWatchProcess \/ \E a \in Attempts : ParentDied(a)
  <2>1. UNCHANGED <<sup, vmWatchResult, totalAttempts, shutdown>> /\ Up' = Up
    BY <1>6
    DEF VMWatchProcess, WriteHeartbeat, ForkChild, ChildrenEnd, Fail, ParentDied, retryVars,
        loopVars, sigVars, Up
  <2>2. \A a \in Attempts : Alive(a)' => Alive(a)
    BY <1>6, <1>p
    DEF VMWatchProcess, WriteHeartbeat, ForkChild, ChildrenEnd, Fail, ParentDied, Alive
  <2> QED BY <2>1, <2>2, Ending
<1>7. CASE Crash BY <1>g, <1>7 DEF Crash
<1>8. CASE Shim
  <2>1. CASE ForceEnable /\ Up BY <1>g, <2>1 DEF ForceEnable
  <2>2. CASE StopEnable
    <3>1. UNCHANGED <<sup, vmWatchResult, totalAttempts, loop, proc>>
      BY <2>2 DEF StopEnable, retryVars, loopVars
    <3>2. CASE Up BY <2>2, <3>1, <3>2, <1>s DEF StopEnable
    <3>3. CASE ~Up
      <4>1. shutdown' = shutdown BY <2>2, <3>3 DEF StopEnable, MemInv, GoneInv
      <4> QED BY <3>1, <4>1, Ending DEF Alive, Up
    <3> QED BY <3>2, <3>3
  <2>3. CASE ~(ForceEnable /\ Up) /\ ~StopEnable
    <3>1. UNCHANGED <<sup, vmWatchResult, totalAttempts, loop, shutdown>>
      BY <1>8, <2>3
      DEF Shim, SeeEnableEnded, SeeEnableOverdue, ForceEnable, StopVMWatch, ForceVMWatch,
          retryVars, loopVars
    <3>2. \A a \in Attempts : Alive(a)' => Alive(a)
      BY <1>8, <2>3, <1>p
      DEF Shim, SeeEnableEnded, SeeEnableOverdue, ForceEnable, StopVMWatch, ForceVMWatch, Alive
    <3> QED BY <3>1, <3>2, Ending DEF Up
  <2> QED BY <2>1, <2>2, <2>3
<1>9. CASE UNCHANGED vars
  <2>1. UNCHANGED <<sup, vmWatchResult, totalAttempts, shutdown, loop, proc>>
    BY <1>9 DEF vars, loopVars, retryVars, sigVars
  <2> QED BY <2>1, Ending DEF Alive, Up
<1> QED BY <1>1, <1>2, <1>3, <1>4, <1>5, <1>6, <1>7, <1>8, <1>9 DEF Next

(***************************************************************************)
(* The supervision of VMWatch keeps its promises, whatever the number of   *)
(* cycles and attempts and wherever signals, kills, crashes and resets of  *)
(* the retry counters fall.                                                *)
(***************************************************************************)
THEOREM SupervisionRefinement == Spec => ImplementsSupervision
<1>1. Init => Abstract!Init
  BY DEF Init, Abstract!Init, Phase, Up, Result
<1> QED
  BY VInit, VNext, PInit, PNext, CInit, CNext, MInit, MNext, RNext, <1>1, PTL
  DEF Spec, ImplementsSupervision, Abstract!Spec

=============================================================================
