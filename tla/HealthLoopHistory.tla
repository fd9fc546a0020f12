-------------------------- MODULE HealthLoopHistory --------------------------
(***************************************************************************)
(* The health loop with history variables: they record what the code       *)
(* itself forgets and never restrict a step of it.                         *)
(***************************************************************************)
EXTENDS HealthLoop

VARIABLES
  streak,          \* the current run of equal observations
  lateWork,        \* probes made and status files saved after shutdown was set
  lateTime,        \* seconds since shutdown was set
  overrun,         \* seconds the grace period has been honoured beyond its end
  promptHealthy    \* every probe was Healthy and shorter than the interval

hvars == <<vars, streak, lateWork, lateTime, overrun, promptHealthy>>

Verdict == INSTANCE HealthVerdict WITH
  rule <- [probes |-> NumberOfProbes, after |-> AfterGrace],
  verdict <- committedState,
  grace <- honorGracePeriod,
  streak <- streak

HInit ==
  /\ Init
  /\ streak = [state |-> Empty, len |-> 0]
  /\ lateWork = 0
  /\ lateTime = 0 /\ overrun = 0
  /\ promptHealthy = TRUE

\* An observation extends the streak; the one dropped at expiry ends it.
RecordStreak ==
  streak' = IF pc = "decide" /\ pc' = "report"
            THEN IF GraceExpired
                 THEN [state |-> AfterGrace, len |-> 0]
                 ELSE Verdict!Extend(streak, response.state, NumberOfProbes)
            ELSE streak

\* Counting stops at 2, which already breaks the bound.
RecordLateWork ==
  lateWork' = IF /\ <<pc, pc'>> \in {<<"evaluate", "decide">>, <<"report", "sleep">>}
                 /\ shutdown /\ lateWork < 2
              THEN lateWork + 1 ELSE lateWork

\* The seconds a step takes: a probe, or the rest of the interval.
Rest == IF spent < Interval THEN Interval - spent ELSE 0

StepTime ==
  IF pc = "evaluate" /\ pc' = "decide" THEN spent'
  ELSE IF pc = "sleep" /\ pc' \in {"top", "done"} THEN Rest ELSE 0

\* Counting stops here, which already breaks both bounds.
AtMost(t) == IF t < Interval + probeTimeout THEN t ELSE Interval + probeTimeout

RecordLateTime ==
  lateTime' = IF shutdown THEN AtMost(lateTime + StepTime) ELSE 0

\* What Saturate cuts off from elapsed.
RecordOverrun ==
  overrun' = IF honorGracePeriod'
             THEN AtMost(overrun + (elapsed + StepTime - elapsed')) ELSE 0

RecordPromptHealthy ==
  promptHealthy' = (promptHealthy /\
    (pc = "evaluate" /\ pc' = "decide" =>
       response'.state = "Healthy" /\ spent' < Interval))

HNext ==
  /\ Next
  /\ RecordStreak /\ RecordLateWork /\ RecordLateTime /\ RecordOverrun /\ RecordPromptHealthy

HSpec == HInit /\ [][HNext]_hvars

\* The fairness of HealthLoop; history variables stutter with the loop.
HFairSpec == HSpec /\ WF_vars(Process)

-----------------------------------------------------------------------------
(***************************************************************************)
(* The loop implements the streak rule: its counter, which wraps at        *)
(* numberOfProbes and is set to 1 for an observation nobody made when the  *)
(* grace period expires, publishes exactly the verdicts of an observer who *)
(* remembers the whole streak.                                             *)
(***************************************************************************)
ImplementsVerdict == Verdict!Spec

(***************************************************************************)
(* After shutdown was set, enable completes at most one more probe or      *)
(* saves at most one more status file, and never does both: the two tests  *)
(* of shutdown are where they cut an iteration in half.  Whoever sent the  *)
(* signal waits 5 seconds (main/process.go) or 33 (the shim) before it     *)
(* kills the process; a probe takes up to 30.                              *)
(***************************************************************************)
LateWorkBound == lateWork <= 1

(***************************************************************************)
(* After shutdown was set, enable returns within one interval or one probe *)
(* timeout, whichever is longer: neither the probe nor the sleep is        *)
(* interrupted, but it never has to sit out both.  The shim waits 33       *)
(* seconds before it sends SIGKILL, so that an enable with an interval of  *)
(* at most 33 still gets to report its end.                                *)
(***************************************************************************)
ReturnsInTime ==
  lateTime <= (IF Interval > probeTimeout THEN Interval ELSE probeTimeout)

(***************************************************************************)
(* Initializing is not published for much longer than the grace period:    *)
(* the loop looks at the clock only behind a probe, and the period it      *)
(* finds expired there ended less than one interval and one probe timeout  *)
(* ago, however short it is and wherever in an iteration it ended.         *)
(***************************************************************************)
GraceOverrunBound == overrun < Interval + probeTimeout

(***************************************************************************)
(* A grace period of at least numberOfProbes intervals, which the default  *)
(* is, is long enough: an application that always answers Healthy within   *)
(* the interval is never published as Unhealthy or Unknown.                *)
(***************************************************************************)
PromptHealthyNeverCondemned ==
  promptHealthy /\ GracePeriod >= Interval * NumberOfProbes
    => committedState \notin {"Unhealthy", "Unknown"}

=============================================================================
