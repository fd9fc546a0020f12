--------------------------- MODULE HealthLoopProofs ---------------------------
(***************************************************************************)
(* Proofs about the health loop, for every set of settings, every set of   *)
(* answers and every set of probe durations.                               *)
(***************************************************************************)
EXTENDS HealthLoopHistory, TLAPS

(***************************************************************************)
(* The accessors never return 0, whatever the settings leave out.          *)
(***************************************************************************)
LEMMA AccessorsPositive ==
  ASSUME NEW s \in PublicSettings
  PROVE  /\ intervalInSeconds(s) \in Nat \ {0}
         /\ numberOfProbes(s) \in Nat \ {0}
         /\ gracePeriod(s) \in Nat \ {0}
<1>1. intervalInSeconds(s) \in Nat \ {0}
  BY DEF PublicSettings, intervalInSeconds, Omitted, defaultIntervalInSeconds
<1>2. numberOfProbes(s) \in Nat \ {0}
  BY DEF PublicSettings, numberOfProbes, Omitted, defaultNumberOfProbes
<1>3. intervalInSeconds(s) * numberOfProbes(s) \in Nat \ {0}
  <2> DEFINE i == intervalInSeconds(s)
             n == numberOfProbes(s)
  <2>1. i \in Nat \ {0} /\ n \in Nat \ {0}
    BY <1>1, <1>2
  <2> HIDE DEF i, n
  <2>2. i * n \in Nat \ {0}
    BY <2>1, SMT
  <2> QED
    BY <2>2 DEF i, n
<1>4. gracePeriod(s) \in Nat \ {0}
  BY <1>3 DEF PublicSettings, gracePeriod, Omitted
<1> QED
  BY <1>1, <1>2, <1>4

(***************************************************************************)
(* A probe observes one of three states, and never the state Initializing. *)
(***************************************************************************)
LEMMA EvaluateType ==
  ASSUME NEW p \in Protocols, NEW a \in AllAnswers
  PROVE  evaluate(p, a) \in ProbeResponse
BY DEF evaluate, EvaluateTcp, EvaluateHttp, EvaluateDefault, IsHttp, Protocols,
       AllAnswers, AnswerKinds, Metrics, ProbeResponse, Observed

LEMMA AfterGraceType ==
  AfterGrace \in {"Unhealthy", "Unknown"}
BY DEF AfterGrace, healthStatusAfterGracePeriodExpires, IsHttp

(***************************************************************************)
(* What the settings of a process give its loop.                           *)
(***************************************************************************)
LEMMA CfgFacts ==
  ASSUME cfg \in Settings
  PROVE  /\ NumberOfProbes \in Nat \ {0}
         /\ Interval \in Nat \ {0}
         /\ GracePeriod \in Nat \ {0}
         /\ cfg.protocol \in Protocols
<1>1. cfg \in PublicSettings
  BY SettingsAssumption
<1> QED
  BY <1>1, AccessorsPositive DEF NumberOfProbes, Interval, GracePeriod, PublicSettings

LEMMA CfgFixed ==
  ASSUME cfg' = cfg
  PROVE  /\ NumberOfProbes' = NumberOfProbes
         /\ Interval' = Interval
         /\ GracePeriod' = GracePeriod
         /\ AfterGrace' = AfterGrace
         /\ Accepted(cfg)' = Accepted(cfg)
BY DEF NumberOfProbes, Interval, GracePeriod, AfterGrace

(***************************************************************************)
(* The loop's own variables after a decision: whichever way the grace      *)
(* period goes, the counter stays below numberOfProbes.                    *)
(***************************************************************************)
LEMMA DecideType ==
  ASSUME TypeOK, Decide
  PROVE  /\ honorGracePeriod' \in BOOLEAN
         /\ numConsecutiveProbes' \in 0..(NumberOfProbes - 1)
         /\ prevState' \in Observed
         /\ committedState' \in HealthStatus
<1>1. NumberOfProbes \in Nat \ {0} /\ response \in ProbeResponse
      /\ numConsecutiveProbes \in 0..(NumberOfProbes - 1)
      /\ committedState \in HealthStatus /\ honorGracePeriod \in BOOLEAN
  BY CfgFacts DEF TypeOK
<1>2. response.state \in Observed /\ AfterGrace \in Observed
  BY <1>1, AfterGraceType DEF ProbeResponse, Observed
<1>3. Counted \in 1..NumberOfProbes
  BY <1>1 DEF Counted
<1>4. ASSUME NEW n \in 1..NumberOfProbes, NEW s \in Observed \cup {"Initializing"},
             NEW c \in HealthStatus, Commit(n, s, c)
      PROVE  numConsecutiveProbes' \in 0..(NumberOfProbes - 1) /\ committedState' \in HealthStatus
  BY <1>1, <1>4 DEF Commit, HealthStatus
<1>5. CASE ExpireGracePeriod
  <2>1. 1 \in 1..NumberOfProbes /\ Empty \in HealthStatus
    BY <1>1 DEF HealthStatus
  <2> QED
    BY <1>2, <1>4, <1>5, <2>1 DEF ExpireGracePeriod
<1>6. CASE EarnGracePeriod
  BY <1>1, <1>2, <1>3, <1>4, <1>6 DEF EarnGracePeriod
<1>7. CASE StayInGracePeriod
  BY <1>1, <1>2, <1>3, <1>4, <1>7 DEF StayInGracePeriod
<1>8. CASE NoGracePeriod
  BY <1>1, <1>2, <1>3, <1>4, <1>8 DEF NoGracePeriod
<1> QED
  BY <1>5, <1>6, <1>7, <1>8 DEF Decide

LEMMA SaturateType ==
  ASSUME cfg \in Settings, NEW t \in Nat
  PROVE  Saturate(t) \in 0..GracePeriod
BY CfgFacts DEF Saturate

LEMMA SubstatusesType ==
  ASSUME TypeOK
  PROVE  Substatuses \in Report
<1>1. committedState \in HealthStatus /\ response.metrics \in Metrics
  BY DEF TypeOK, ProbeResponse
<1>2. GetStatusType(committedState) \in StatusType
  BY DEF GetStatusType, StatusType
<1>3. GetStatusTypeForAppHealthStatus(committedState) \in StatusType
  BY DEF GetStatusTypeForAppHealthStatus, StatusType
<1>4. MetricsStatusType(response.metrics) \in StatusType \cup {"none"}
  BY <1>1 DEF MetricsStatusType, StatusType, Metrics
<1> QED
  BY <1>1, <1>2, <1>3, <1>4 DEF Substatuses, Report

(***************************************************************************)
(* Every step of the loop and of the actors around it keeps the types; in  *)
(* particular the counter of consecutive probes never reaches              *)
(* numberOfProbes between two iterations.                                  *)
(***************************************************************************)
LEMMA TypeStep ==
  ASSUME TypeOK, [Next]_vars
  PROVE  TypeOK'
<1> USE DEF TypeOK
<1>0. cfg' = cfg
  BY DEF Next, Process, Environment, vars, ParseSettings, ReadSeqNum, Evaluate,
         TerminateAfterProbe, Decide, ReportStatus, Sleep, ReceiveSignal, StartNewer, ChangeAnswer
<1>1. /\ NumberOfProbes' = NumberOfProbes /\ GracePeriod' = GracePeriod
      /\ Accepted(cfg)' = Accepted(cfg)
  BY <1>0, CfgFixed
<1>2. CASE ParseSettings
  BY <1>0, <1>1, <1>2 DEF ParseSettings, Return, loopVars, envVars
<1>3. ASSUME NEW ok \in BOOLEAN, ReadSeqNum(ok) PROVE TypeOK'
  BY <1>0, <1>1, <1>3 DEF ReadSeqNum, Return, loopVars, envVars
<1>4. ASSUME NEW d \in ProbeDurations, Evaluate(d) PROVE TypeOK'
  <2>1. d \in 0..30 /\ d \in Nat /\ spent' = d
    BY <1>4, DurationsAssumption DEF Evaluate, probeTimeout
  <2>2. elapsed + d \in Nat
    BY <2>1, CfgFacts
  <2>3. elapsed' \in 0..GracePeriod
    BY <1>4, <2>2, SaturateType DEF Evaluate
  <2>4. response' \in ProbeResponse
    BY <1>4, EvaluateType, CfgFacts, AnswersAssumption DEF Evaluate
  <2> QED
    BY <1>0, <1>1, <1>4, <2>1, <2>3, <2>4 DEF Evaluate, loopVars, envVars, probeTimeout
<1>5. CASE TerminateAfterProbe
  BY <1>0, <1>1, <1>5 DEF TerminateAfterProbe, Return, loopVars, envVars
<1>6. CASE Decide
  <2>1. /\ pc = "decide" /\ pc' = "report"
        /\ UNCHANGED <<result, cfg, elapsed, spent, response, status, app, shutdown, newerStarted>>
    BY <1>6 DEF Decide, envVars
  <2> QED
    BY <1>0, <1>1, <1>6, <2>1, DecideType
<1>7. ASSUME NEW saved \in BOOLEAN, ReportStatus(saved) PROVE TypeOK'
  <2>1. status' \in Report
    BY <1>7, SubstatusesType DEF ReportStatus
  <2> QED
    BY <1>0, <1>1, <1>7, <2>1 DEF ReportStatus, loopVars, envVars
<1>8. CASE Sleep
  <2>1. (IF spent < Interval THEN Interval - spent ELSE 0) \in Nat
    BY CfgFacts DEF probeTimeout
  <2>2. elapsed + (IF spent < Interval THEN Interval - spent ELSE 0) \in Nat
    BY <2>1, CfgFacts
  <2>3. elapsed' \in 0..GracePeriod
    BY <1>8, <2>2, SaturateType DEF Sleep
  <2>4. response' \in ProbeResponse /\ spent' \in 0..probeTimeout
    BY <1>8 DEF Sleep, NoResponse, ProbeResponse, Observed, Metrics, probeTimeout
  <2>5. /\ pc = "sleep"
        /\ pc' \in {"top", "done"} /\ result' \in {result, "errTerminated"}
        /\ UNCHANGED <<honorGracePeriod, numConsecutiveProbes, prevState, committedState,
                       status, app, shutdown, newerStarted>>
    BY <1>8 DEF Sleep, Return, loopVars, envVars
  <2> QED
    BY <1>0, <1>1, <2>3, <2>4, <2>5
<1>9. CASE ReceiveSignal
  BY <1>0, <1>1, <1>9 DEF ReceiveSignal, loopVars
<1>10. CASE StartNewer
  BY <1>0, <1>1, <1>10 DEF StartNewer, loopVars
<1>11. ASSUME NEW a \in Answers, ChangeAnswer(a) PROVE TypeOK'
  BY <1>0, <1>1, <1>11 DEF ChangeAnswer, loopVars
<1>12. CASE UNCHANGED vars
  BY <1>0, <1>1, <1>12 DEF vars, loopVars, envVars
<1> QED
  BY <1>2, <1>3, <1>4, <1>5, <1>6, <1>7, <1>8, <1>9, <1>10, <1>11, <1>12
     DEF Next, Process, Environment

LEMMA GraceInit ==
  ASSUME Init
  PROVE  honorGracePeriod = TRUE /\ InitializingIffGrace
<1>1. GracePeriod > 0
  BY CfgFacts DEF Init
<1>2. honorGracePeriod = (GracePeriod > 0)
  BY DEF Init
<1>3. honorGracePeriod = TRUE
  BY <1>1, <1>2, Zenon
<1>4. committedState = Empty
  BY DEF Init
<1> QED
  BY <1>3, <1>4 DEF InitializingIffGrace

LEMMA TypeInit ==
  ASSUME Init
  PROVE  TypeOK
<1>1. cfg \in Settings
  BY DEF Init
<1>2. 0 \in 0..GracePeriod /\ 0 \in 0..(NumberOfProbes - 1) /\ honorGracePeriod \in BOOLEAN
  BY <1>1, CfgFacts, GraceInit
<1>3. response \in ProbeResponse
  BY DEF Init, NoResponse, ProbeResponse, Observed, Metrics
<1>4. status \in Report
  BY DEF Init, NoReport, Report, HealthStatus, StatusType
<1>5. /\ elapsed \in 0..GracePeriod /\ spent \in 0..probeTimeout
      /\ numConsecutiveProbes \in 0..(NumberOfProbes - 1)
  BY <1>2 DEF Init, probeTimeout
<1>6. /\ pc = "parse" /\ result = "none" /\ app \in Answers
      /\ prevState \in Observed \cup {Empty} /\ committedState \in HealthStatus
      /\ shutdown \in BOOLEAN /\ newerStarted \in BOOLEAN
  BY DEF Init, HealthStatus
<1> QED
  BY <1>1, <1>2, <1>3, <1>4, <1>5, <1>6 DEF TypeOK

(***************************************************************************)
(* Type correctness of the health loop, with the bound on its counter.     *)
(***************************************************************************)
THEOREM TypeCorrect == Spec => []TypeOK
<1>1. Init => TypeOK
  BY TypeInit
<1>2. TypeOK /\ [Next]_vars => TypeOK'
  BY TypeStep
<1> QED
  BY <1>1, <1>2, PTL DEF Spec

-----------------------------------------------------------------------------
(***************************************************************************)
(* A decision keeps the published state and the grace period in step.      *)
(***************************************************************************)
LEMMA GraceStep ==
  ASSUME TypeOK, InitializingIffGrace, [Next]_vars
  PROVE  InitializingIffGrace'
<1> USE DEF InitializingIffGrace
<1>1. CASE UNCHANGED loopVars
  BY <1>1 DEF loopVars
<1>2. CASE Decide
  <2>1. response.state \in Observed /\ AfterGrace \in Observed /\ honorGracePeriod \in BOOLEAN
    BY AfterGraceType DEF TypeOK, ProbeResponse, Observed
  <2>2. CASE ExpireGracePeriod
    BY <2>1, <2>2 DEF ExpireGracePeriod, Commit, Observed, Empty
  <2>3. CASE EarnGracePeriod
    BY <2>1, <2>3 DEF EarnGracePeriod, GraceEarned, Commit, Observed, Empty
  <2>4. CASE StayInGracePeriod
    BY <2>1, <2>4 DEF StayInGracePeriod, Commit, Observed, Empty
  <2>5. CASE NoGracePeriod
    BY <2>1, <2>5 DEF NoGracePeriod, Commit, Observed, Empty
  <2> QED
    BY <1>2, <2>2, <2>3, <2>4, <2>5 DEF Decide
<1> QED
  BY <1>1, <1>2 DEF Next, Process, Environment, vars, ParseSettings, ReadSeqNum, Evaluate,
     TerminateAfterProbe, ReportStatus, Sleep, ReceiveSignal, StartNewer, ChangeAnswer

(***************************************************************************)
(* Initializing is published exactly while the grace period is honoured,   *)
(* for every accepted configuration.                                       *)
(***************************************************************************)
THEOREM GraceCorrect == Spec => []InitializingIffGrace
<1>1. Init => InitializingIffGrace
  BY GraceInit
<1>2. TypeOK /\ InitializingIffGrace /\ [Next]_vars => InitializingIffGrace'
  BY GraceStep
<1> QED
  BY <1>1, <1>2, TypeCorrect, PTL DEF Spec

-----------------------------------------------------------------------------
(***************************************************************************)
(* The invariant behind the refinement.  The counter is the length of the  *)
(* streak, except where it has wrapped, and there it does not matter: the  *)
(* streak is of the state already committed, or of the state that cannot   *)
(* end the grace period.                                                   *)
(***************************************************************************)
StreakInv ==
  /\ streak \in [state: Observed \cup {Empty}, len: 0..NumberOfProbes]
  /\ prevState = streak.state
  /\ \/ honorGracePeriod /\ prevState = AfterGrace
     \/ ~honorGracePeriod /\ committedState = prevState
     \/ numConsecutiveProbes = streak.len /\ streak.len < NumberOfProbes

LoopInv == TypeOK /\ InitializingIffGrace /\ StreakInv

LEMMA LoopInvInit ==
  ASSUME HInit
  PROVE  LoopInv
<1>1. Init
  BY DEF HInit
<1>2. TypeOK /\ InitializingIffGrace
  BY <1>1, TypeInit, GraceInit
<1>3. NumberOfProbes \in Nat \ {0}
  BY <1>2, CfgFacts DEF TypeOK
<1>4. StreakInv
  BY <1>1, <1>3 DEF HInit, Init, StreakInv
<1> QED
  BY <1>2, <1>4 DEF LoopInv

(***************************************************************************)
(* One decision of the loop is one step of the abstract observer.          *)
(***************************************************************************)
LEMMA DecideRefines ==
  ASSUME LoopInv, Decide, RecordStreak
  PROVE  StreakInv' /\ Verdict!Next
<1> DEFINE s == response.state
           N == NumberOfProbes
           ext == Verdict!Extend(streak, s, N)
<1>1. /\ N \in Nat \ {0} /\ s \in Observed
      /\ AfterGrace \in {"Unhealthy", "Unknown"}
      /\ numConsecutiveProbes \in 0..(N - 1)
      /\ honorGracePeriod \in BOOLEAN
  BY CfgFacts, AfterGraceType DEF LoopInv, TypeOK, ProbeResponse
<1>0. elapsed \in Nat /\ GracePeriod \in Nat
  BY CfgFacts DEF LoopInv, TypeOK
<1>2. cfg' = cfg /\ N' = N /\ AfterGrace' = AfterGrace
      /\ pc = "decide" /\ pc' = "report"
  BY CfgFixed DEF Decide
<1>3. /\ streak.state \in Observed \cup {Empty} /\ streak.len \in 0..N
      /\ prevState = streak.state
      /\ \/ honorGracePeriod /\ prevState = AfterGrace
         \/ ~honorGracePeriod /\ committedState = prevState
         \/ numConsecutiveProbes = streak.len /\ streak.len < N
  BY DEF LoopInv, StreakInv
<1>4. honorGracePeriod <=> committedState \in {Empty, "Initializing"}
  BY DEF LoopInv, InitializingIffGrace
<1>5. /\ ext = [state |-> s, len |-> ext.len]
      /\ ext.state = s /\ ext.len \in 1..N
      /\ ext.len = IF prevState = s THEN IF streak.len < N THEN streak.len + 1 ELSE N ELSE 1
  BY <1>1, <1>3 DEF Verdict!Extend
<1>6. Counted = IF prevState = s THEN numConsecutiveProbes + 1 ELSE 1
  BY DEF Counted
<1> HIDE DEF s, N, ext
<1>7. CASE ExpireGracePeriod
  <2>1. streak' = [state |-> AfterGrace, len |-> 0]
    BY <1>2, <1>7 DEF RecordStreak, ExpireGracePeriod
  <2>2. /\ honorGracePeriod /\ honorGracePeriod' = FALSE
        /\ prevState' = AfterGrace /\ committedState' = AfterGrace
    BY <1>7 DEF ExpireGracePeriod, GraceExpired, Commit
  <2>3. StreakInv'
    BY <1>1, <1>2, <2>1, <2>2 DEF StreakInv, N, Observed
  <2>4. Verdict!Expire
    BY <1>1, <1>2, <2>1, <2>2 DEF Verdict!Expire, N
  <2> QED
    BY <2>3, <2>4 DEF Verdict!Next
<1>8. CASE ~ExpireGracePeriod
  <2>1. ~GraceExpired /\ streak' = ext /\ prevState' = s
    <3>1. ~GraceExpired
      BY <1>0, <1>8 DEF Decide, EarnGracePeriod, GraceEarned, StayInGracePeriod, NoGracePeriod,
         GraceExpired
    <3>2. streak' = ext
      BY <1>2, <3>1 DEF RecordStreak, ext, s, N
    <3>3. prevState' = s
      BY <1>8 DEF Decide, EarnGracePeriod, StayInGracePeriod, NoGracePeriod, s
    <3> QED
      BY <3>1, <3>2, <3>3
  <2>2. CASE EarnGracePeriod
    <3>1. /\ honorGracePeriod /\ honorGracePeriod' = FALSE /\ committedState' = s
          /\ Counted = N /\ s # AfterGrace
      BY <2>2 DEF EarnGracePeriod, GraceEarned, Commit, s, N
    <3>2. ext.len = N
      BY <1>1, <1>3, <1>5, <1>6, <3>1
    <3>3. StreakInv'
      BY <1>1, <1>2, <1>5, <2>1, <3>1 DEF StreakInv, N
    <3>4. Verdict!Follow(s)
      BY <1>1, <1>2, <1>5, <2>1, <3>1, <3>2 DEF Verdict!Follow, Verdict!Settled, N, ext
    <3> QED
      BY <1>1, <3>3, <3>4 DEF Verdict!Next, Verdict!States, Observed
  <2>3. CASE StayInGracePeriod
    <3>1. /\ honorGracePeriod /\ honorGracePeriod' = honorGracePeriod
          /\ ~(Counted = N /\ s # AfterGrace)
          /\ committedState' = "Initializing"
          /\ numConsecutiveProbes' = IF Counted = N THEN 0 ELSE Counted
      BY <1>0, <1>4, <2>3 DEF StayInGracePeriod, GraceEarned, GraceExpired, Commit, s, N
    <3>2. s # AfterGrace => ext.len = Counted /\ ext.len < N
      BY <1>1, <1>3, <1>5, <1>6, <3>1
    <3>3. StreakInv'
      BY <1>1, <1>2, <1>5, <2>1, <3>1, <3>2 DEF StreakInv, N
    <3>4. Verdict!Keep(s)
      BY <1>1, <1>2, <1>5, <2>1, <3>1, <3>2 DEF Verdict!Keep, Verdict!Settled, N, ext
    <3> QED
      BY <1>1, <3>3, <3>4 DEF Verdict!Next, Verdict!States, Observed
  <2>4. CASE NoGracePeriod
    <3>1. /\ ~honorGracePeriod /\ honorGracePeriod' = honorGracePeriod
          /\ committedState' = IF Counted = N THEN s ELSE committedState
          /\ numConsecutiveProbes' = IF Counted = N THEN 0 ELSE Counted
      BY <1>4, <2>4 DEF NoGracePeriod, Commit, s, N
    <3>2. committedState = s \/ (ext.len = Counted /\ Counted <= N)
      BY <1>1, <1>3, <1>5, <1>6, <3>1
    <3>3. committedState' = IF ext.len = N THEN s ELSE committedState
      BY <3>1, <3>2
    <3>4. StreakInv'
      BY <1>1, <1>2, <1>5, <2>1, <3>1, <3>2 DEF StreakInv, N
    <3>5. Verdict!Follow(s) \/ Verdict!Keep(s)
      BY <1>1, <1>2, <1>5, <2>1, <3>1, <3>3 DEF Verdict!Follow, Verdict!Keep, Verdict!Settled, N, ext
    <3> QED
      BY <1>1, <3>4, <3>5 DEF Verdict!Next, Verdict!States, Observed
  <2> QED
    BY <1>8, <2>2, <2>3, <2>4 DEF Decide
<1> QED
  BY <1>7, <1>8

(***************************************************************************)
(* Every other step leaves the observer where it is.                       *)
(***************************************************************************)
LEMMA LoopStep ==
  ASSUME LoopInv, [HNext]_hvars
  PROVE  LoopInv' /\ [Verdict!Next]_(Verdict!vars)
<1>1. [Next]_vars
  BY DEF HNext, hvars
<1>2. TypeOK' /\ InitializingIffGrace'
  BY <1>1, TypeStep, GraceStep DEF LoopInv
<1>3. CASE HNext /\ Decide
  BY <1>2, <1>3, DecideRefines DEF LoopInv, HNext
<1>4. CASE ~(HNext /\ Decide)
  <2>1. UNCHANGED <<honorGracePeriod, numConsecutiveProbes, prevState, committedState, cfg>>
        /\ streak' = streak
    <3>1. CASE UNCHANGED hvars
      BY <3>1 DEF hvars, vars, loopVars
    <3>2. CASE HNext /\ ~Decide
      BY <3>2 DEF HNext, RecordStreak, Next, Process, Environment, loopVars, ParseSettings, ReadSeqNum,
         Evaluate, TerminateAfterProbe, ReportStatus, Sleep, ReceiveSignal, StartNewer, ChangeAnswer,
         Return
    <3> QED
      BY <1>4, <3>1, <3>2
  <2>2. NumberOfProbes' = NumberOfProbes /\ AfterGrace' = AfterGrace
    BY <2>1, CfgFixed
  <2>3. StreakInv'
    BY <2>1, <2>2 DEF LoopInv, StreakInv
  <2>4. UNCHANGED Verdict!vars
    BY <2>1, <2>2 DEF Verdict!vars
  <2> QED
    BY <1>2, <2>3, <2>4 DEF LoopInv
<1> QED
  BY <1>3, <1>4

LEMMA VerdictInit ==
  ASSUME HInit
  PROVE  Verdict!Init
<1>1. Init /\ cfg \in Settings
  BY DEF HInit, Init
<1>2. NumberOfProbes \in Nat \ {0} /\ honorGracePeriod = TRUE
  BY <1>1, CfgFacts, GraceInit
<1> QED
  BY <1>1, <1>2, AfterGraceType DEF HInit, Init, Verdict!Init, Verdict!Rules, Empty

(***************************************************************************)
(* The health loop implements the streak rule of HealthVerdict, for every  *)
(* numberOfProbes, interval, grace period, protocol and stream of answers. *)
(***************************************************************************)
THEOREM Refinement == HSpec => ImplementsVerdict
<1>1. HInit => LoopInv /\ Verdict!Init
  BY LoopInvInit, VerdictInit
<1>2. LoopInv /\ [HNext]_hvars => LoopInv' /\ [Verdict!Next]_(Verdict!vars)
  BY LoopStep
<1> QED
  BY <1>1, <1>2, PTL DEF HSpec, ImplementsVerdict, Verdict!Spec

-----------------------------------------------------------------------------
(***************************************************************************)
(* The invariant behind the bound on late work: what was done after        *)
(* shutdown was set is followed by a test of shutdown and nothing else.    *)
(***************************************************************************)
LateInv ==
  \/ lateWork = 0
  \/ lateWork = 1 /\ shutdown = TRUE /\ pc \in {"decide", "sleep", "done"}

(* One more piece of work, done where none was done before. *)
LEMMA OneLateStep ==
  ASSUME LateInv, pc \in {"evaluate", "report"}, pc' \in {"decide", "sleep"},
         shutdown' = shutdown, RecordLateWork
  PROVE  LateInv'
<1>1. lateWork = 0
  BY DEF LateInv
<1>2. CASE shutdown = TRUE
  BY <1>1, <1>2 DEF LateInv, RecordLateWork
<1>3. CASE ~shutdown
  BY <1>1, <1>3 DEF LateInv, RecordLateWork
<1>4. CASE shutdown # TRUE /\ shutdown
  BY <1>4
<1> QED
  BY <1>2, <1>3, <1>4

LEMMA LateStep ==
  ASSUME LateInv, [HNext]_hvars
  PROVE  LateInv'
<1>1. CASE UNCHANGED hvars
  BY <1>1 DEF hvars, vars, envVars, LateInv
<1>2. CASE RecordLateWork /\ (\E saved \in BOOLEAN : ReportStatus(saved))
  BY <1>2, OneLateStep DEF ReportStatus, envVars
<1>3. CASE RecordLateWork /\ (\E d \in ProbeDurations : Evaluate(d))
  BY <1>3, OneLateStep DEF Evaluate, envVars
<1>4. CASE Sleep /\ RecordLateWork
  BY <1>4 DEF Sleep, Return, RecordLateWork, envVars, LateInv
<1>5. CASE (TerminateAfterProbe \/ Decide) /\ RecordLateWork
  BY <1>5 DEF TerminateAfterProbe, Decide, Return, RecordLateWork, envVars, LateInv
<1>6. CASE (ParseSettings \/ \E ok \in BOOLEAN : ReadSeqNum(ok)) /\ RecordLateWork
  BY <1>6 DEF RecordLateWork, ParseSettings, ReadSeqNum, Return, envVars, LateInv
<1>7. CASE Environment /\ RecordLateWork
  BY <1>7 DEF Environment, RecordLateWork, ReceiveSignal, StartNewer, ChangeAnswer, LateInv
<1> QED
  BY <1>1, <1>2, <1>3, <1>4, <1>5, <1>6, <1>7 DEF HNext, Next, Process

(***************************************************************************)
(* After shutdown was set, enable completes one probe or one report at     *)
(* most, whatever the settings and the answers.                            *)
(***************************************************************************)
THEOREM LateWork == HSpec => []LateWorkBound
<1>1. HInit => LateInv
  BY DEF HInit, LateInv
<1>2. LateInv /\ [HNext]_hvars => LateInv'
  BY LateStep
<1>3. LateInv => LateWorkBound
  BY DEF LateInv, LateWorkBound
<1> QED
  BY <1>1, <1>2, <1>3, PTL DEF HSpec

-----------------------------------------------------------------------------
(***************************************************************************)
(* The invariant behind the default grace period: as long as every probe   *)
(* was Healthy and prompt, the time elapsed is at most one interval for    *)
(* every probe counted.                                                    *)
(***************************************************************************)
PromptInv ==
  promptHealthy /\ GracePeriod >= Interval * NumberOfProbes =>
    /\ pc = "decide" => response.state = "Healthy" /\ spent < Interval
    /\ ~honorGracePeriod => prevState = "Healthy" /\ committedState = "Healthy"
    /\ honorGracePeriod =>
         /\ prevState = "Healthy" \/ (prevState = Empty /\ numConsecutiveProbes = 0)
         /\ pc \in {"parse", "top", "evaluate"} => elapsed <= numConsecutiveProbes * Interval
         /\ pc = "decide" => elapsed <= numConsecutiveProbes * Interval + spent
         /\ pc \in {"report", "sleep"} =>
              /\ numConsecutiveProbes >= 1 /\ spent < Interval
              /\ elapsed <= (numConsecutiveProbes - 1) * Interval + spent

LEMMA OneMoreInterval ==
  ASSUME NEW c \in Nat, NEW n \in Nat, NEW i \in Nat, c < n
  PROVE  /\ c * i + i <= n * i /\ (c + 1) * i = c * i + i
         /\ c >= 1 => (c - 1) * i + i = c * i
         /\ c * i \in Nat /\ n * i \in Nat
BY SMT

LEMMA PromptStep ==
  ASSUME TypeOK, PromptInv, [HNext]_hvars
  PROVE  PromptInv'
<1> DEFINE I == Interval
           N == NumberOfProbes
           c == numConsecutiveProbes
           enough == promptHealthy /\ GracePeriod >= Interval * NumberOfProbes
<1>1. /\ I \in Nat \ {0} /\ N \in Nat \ {0} /\ GracePeriod \in Nat
      /\ c \in Nat /\ c < N /\ elapsed \in Nat /\ spent \in Nat
      /\ honorGracePeriod \in BOOLEAN
  BY CfgFacts DEF TypeOK, probeTimeout
<1>2. cfg' = cfg
  BY DEF HNext, hvars, Next, Process, Environment, vars, ParseSettings, ReadSeqNum, Evaluate,
     TerminateAfterProbe, Decide, ReportStatus, Sleep, ReceiveSignal, StartNewer, ChangeAnswer
<1>3. I' = I /\ N' = N /\ GracePeriod' = GracePeriod /\ AfterGrace' = AfterGrace
  BY <1>2, CfgFixed
<1>4. /\ c * I + I <= N * I /\ (c + 1) * I = c * I + I
      /\ c >= 1 => (c - 1) * I + I = c * I
      /\ c * I \in Nat /\ N * I \in Nat /\ N * I = I * N
  BY <1>1, OneMoreInterval
<1>5. SUFFICES ASSUME promptHealthy', (GracePeriod >= I * N)'
               PROVE  PromptInv'
  BY DEF PromptInv
<1>6. enough
  BY <1>3, <1>5 DEF HNext, hvars, RecordPromptHealthy
<1>7. /\ pc = "decide" => response.state = "Healthy" /\ spent < I
      /\ ~honorGracePeriod => prevState = "Healthy" /\ committedState = "Healthy"
      /\ honorGracePeriod =>
           /\ prevState = "Healthy" \/ (prevState = Empty /\ c = 0)
           /\ pc \in {"parse", "top", "evaluate"} => elapsed <= c * I
           /\ pc = "decide" => elapsed <= c * I + spent
           /\ pc \in {"report", "sleep"} =>
                c >= 1 /\ spent < I /\ elapsed <= (c - 1) * I + spent
  BY <1>6 DEF PromptInv
<1>8. /\ I = Interval /\ N = NumberOfProbes /\ c = numConsecutiveProbes
      /\ I' = Interval' /\ N' = NumberOfProbes' /\ c' = numConsecutiveProbes'
  OBVIOUS
<1>18. GracePeriod >= N * I
  BY <1>4, <1>6
<1>9. ASSUME NEW x \in Nat, NEW t \in Nat, t <= x PROVE Saturate(t) <= x /\ Saturate(t) \in Nat
  BY <1>1, <1>9 DEF Saturate
<1> HIDE DEF I, N, enough
<1>10. CASE UNCHANGED vars
  BY <1>3, <1>7, <1>8, <1>10 DEF PromptInv, vars, loopVars
<1>11. CASE ParseSettings \/ \E ok \in BOOLEAN : ReadSeqNum(ok)
  BY <1>3, <1>7, <1>8, <1>11 DEF PromptInv, ParseSettings, ReadSeqNum, Return, loopVars
<1>12. ASSUME NEW d \in ProbeDurations, Evaluate(d) PROVE PromptInv'
  <2>1. d \in Nat
    BY DurationsAssumption DEF probeTimeout
  <2>2. /\ pc = "evaluate" /\ pc' = "decide" /\ spent' = d
        /\ elapsed' = Saturate(elapsed + d) /\ UNCHANGED loopVars
    BY <1>12 DEF Evaluate
  <2>3. HNext
    BY <2>2 DEF hvars, vars
  <2>4. response'.state = "Healthy" /\ d < I
    BY <1>5, <1>8, <2>2, <2>3 DEF HNext, RecordPromptHealthy
  <2>5. honorGracePeriod => elapsed' <= c * I + d
    BY <1>1, <1>4, <1>7, <1>9, <2>1, <2>2
  <2> QED
    BY <1>3, <1>7, <1>8, <2>2, <2>4, <2>5 DEF PromptInv, loopVars
<1>13. CASE TerminateAfterProbe
  BY <1>3, <1>7, <1>8, <1>13 DEF PromptInv, TerminateAfterProbe, Return, loopVars
<1>14. CASE Decide
  <2>1. /\ pc = "decide" /\ pc' = "report" /\ elapsed' = elapsed /\ spent' = spent
        /\ response.state = "Healthy" /\ spent < I
    BY <1>7, <1>14 DEF Decide
  <2>2. honorGracePeriod => elapsed < GracePeriod /\ Counted = c + 1
    <3> SUFFICES ASSUME honorGracePeriod PROVE elapsed < GracePeriod /\ Counted = c + 1
      OBVIOUS
    <3>1. elapsed <= c * I + spent
      BY <1>7, <2>1
    <3>2. elapsed < GracePeriod
      <4> DEFINE cI == c * I
                 NI == N * I
      <4>1. /\ cI \in Nat /\ NI \in Nat /\ cI + I <= NI /\ GracePeriod >= NI
            /\ elapsed <= cI + spent
        BY <1>4, <1>18, <3>1
      <4> HIDE DEF cI, NI
      <4> QED
        BY <1>1, <2>1, <4>1
    <3>3. prevState = "Healthy" \/ (prevState = Empty /\ c = 0)
      BY <1>7
    <3>4. Counted = c + 1
      <4>1. CASE prevState = "Healthy"
        BY <2>1, <4>1 DEF Counted
      <4>2. CASE prevState = Empty /\ c = 0
        <5>1. Counted = 1
          BY <2>1, <4>2 DEF Counted, Empty
        <5> QED
          BY <4>2, <5>1
      <4> QED
        BY <3>3, <4>1, <4>2
    <3> QED
      BY <3>2, <3>4
  <2>3. "Healthy" # AfterGrace
    BY AfterGraceType
  <2>4. CASE honorGracePeriod /\ c + 1 = N
    <3>0. ~GraceExpired /\ GraceEarned
      <4>1. elapsed < GracePeriod /\ ~(elapsed >= GracePeriod) /\ Counted = NumberOfProbes
        BY <1>1, <1>8, <2>2, <2>4
      <4> QED
        BY <2>1, <2>3, <2>4, <4>1 DEF GraceExpired, GraceEarned
    <3>1. EarnGracePeriod
      BY <1>14, <2>4, <3>0 DEF Decide, ExpireGracePeriod, StayInGracePeriod, NoGracePeriod
    <3>2. honorGracePeriod' = FALSE /\ prevState' = "Healthy" /\ committedState' = "Healthy"
      BY <1>8, <2>1, <2>2, <2>4, <3>1 DEF EarnGracePeriod, Commit
    <3> QED
      BY <2>1, <3>2 DEF PromptInv
  <2>5. CASE honorGracePeriod /\ c + 1 # N
    <3>0. ~GraceExpired /\ ~GraceEarned
      <4>1. ~(elapsed >= GracePeriod) /\ Counted # NumberOfProbes
        BY <1>1, <1>8, <2>2, <2>5
      <4> QED
        BY <4>1 DEF GraceExpired, GraceEarned
    <3>1. StayInGracePeriod
      BY <1>14, <2>5, <3>0 DEF Decide, ExpireGracePeriod, EarnGracePeriod, NoGracePeriod
    <3>2. /\ honorGracePeriod' = honorGracePeriod /\ prevState' = "Healthy"
          /\ numConsecutiveProbes' = c + 1
      BY <1>8, <2>1, <2>2, <2>5, <3>1 DEF StayInGracePeriod, Commit
    <3>3. (c + 1) - 1 = c /\ c + 1 >= 1
      BY <1>1
    <3>4. elapsed' <= ((c + 1) - 1) * I + spent
      BY <1>7, <2>1, <2>5, <3>3
    <3>5. numConsecutiveProbes' >= 1 /\ spent' < Interval'
          /\ elapsed' <= (numConsecutiveProbes' - 1) * Interval'
                           + spent'
      BY <1>3, <1>8, <2>1, <3>2, <3>3, <3>4
    <3>6. honorGracePeriod'
      BY <2>5, <3>2
    <3>7. pc' \notin {"parse", "top", "evaluate"} /\ pc' # "decide"
      BY <2>1
    <3> QED
      BY <3>2, <3>5, <3>6, <3>7 DEF PromptInv
  <2>6. CASE ~honorGracePeriod
    <3>1. NoGracePeriod
      BY <1>14, <2>6 DEF Decide, ExpireGracePeriod, EarnGracePeriod,
         StayInGracePeriod, GraceExpired, GraceEarned
    <3>2. honorGracePeriod' = honorGracePeriod /\ prevState' = "Healthy" /\ committedState' = "Healthy"
      BY <1>7, <2>1, <2>6, <3>1 DEF NoGracePeriod, Commit
    <3> QED
      BY <2>1, <2>6, <3>2 DEF PromptInv
  <2> QED
    BY <2>4, <2>5, <2>6
<1>15. CASE \E saved \in BOOLEAN : ReportStatus(saved)
  BY <1>3, <1>7, <1>8, <1>15 DEF PromptInv, ReportStatus, loopVars
<1>16. CASE Sleep
  <2> DEFINE rest == IF spent < Interval THEN Interval - spent ELSE 0
  <2>1. /\ pc = "sleep" /\ pc' \in {"top", "done"}
        /\ elapsed' = Saturate(elapsed + rest) /\ UNCHANGED loopVars
    BY <1>16 DEF Sleep, Return
  <2>2. honorGracePeriod => elapsed + rest <= c * I /\ elapsed + rest \in Nat
    BY <1>1, <1>4, <1>7, <1>8, <2>1
  <2>3. honorGracePeriod => elapsed' <= c * I
    BY <1>4, <1>9, <2>1, <2>2
  <2> QED
    BY <1>3, <1>7, <1>8, <2>1, <2>3 DEF PromptInv, loopVars
<1>17. CASE Environment
  BY <1>3, <1>7, <1>8, <1>17 DEF PromptInv, Environment, ReceiveSignal, StartNewer, ChangeAnswer, loopVars
<1> QED
  BY <1>10, <1>11, <1>12, <1>13, <1>14, <1>15, <1>16, <1>17 DEF HNext, hvars, Next, Process

(***************************************************************************)
(* With the default grace period, or a longer one, an application that is  *)
(* Healthy and prompt from the start is never published as anything worse. *)
(***************************************************************************)
THEOREM PromptHealthy == HSpec => []PromptHealthyNeverCondemned
<1>1. HInit => TypeOK /\ PromptInv
  <2> SUFFICES ASSUME HInit PROVE TypeOK /\ PromptInv
    OBVIOUS
  <2>1. Init
    BY DEF HInit
  <2>2. TypeOK /\ honorGracePeriod = TRUE
    BY <2>1, TypeInit, GraceInit
  <2>3. Interval \in Nat
    BY <2>2, CfgFacts DEF TypeOK
  <2> QED
    BY <2>1, <2>2, <2>3 DEF Init, PromptInv
<1>2. TypeOK /\ PromptInv /\ [HNext]_hvars => TypeOK' /\ PromptInv'
  <2>1. [HNext]_hvars => [Next]_vars
    BY DEF HNext, hvars
  <2> QED
    BY <2>1, TypeStep, PromptStep
<1>3. TypeOK /\ InitializingIffGrace /\ PromptInv => PromptHealthyNeverCondemned
  BY DEF TypeOK, InitializingIffGrace, PromptInv, PromptHealthyNeverCondemned, Empty
<1>4. HSpec => Spec
  <2>1. HInit => Init
    BY DEF HInit
  <2>2. [HNext]_hvars => [Next]_vars
    BY DEF HNext, hvars
  <2> QED
    BY <2>1, <2>2, PTL DEF HSpec, Spec
<1> QED
  BY <1>1, <1>2, <1>3, <1>4, GraceCorrect, PTL DEF HSpec

-----------------------------------------------------------------------------
(***************************************************************************)
(* What a step of the loop does to the clock, by the action it takes.      *)
(***************************************************************************)
LEMMA ClockStep ==
  ASSUME TypeOK, [HNext]_hvars
  PROVE  /\ cfg' = cfg
         /\ \/ UNCHANGED hvars
            \/ /\ HNext /\ StepTime = 0 /\ elapsed' = elapsed /\ shutdown' = shutdown
               /\ <<pc, pc'>> \in {<<"parse", "top">>, <<"parse", "done">>, <<"top", "evaluate">>,
                                   <<"top", "done">>, <<"decide", "done">>, <<"report", "sleep">>}
               /\ honorGracePeriod' = honorGracePeriod
            \/ /\ HNext /\ StepTime = 0 /\ Decide /\ ~shutdown
               /\ pc = "decide" /\ pc' = "report" /\ elapsed' = elapsed /\ shutdown' = shutdown
            \/ /\ HNext /\ StepTime = spent' /\ spent' \in 0..probeTimeout
               /\ pc = "evaluate" /\ pc' = "decide" /\ shutdown' = shutdown
               /\ elapsed' = Saturate(elapsed + spent')
               /\ honorGracePeriod' = honorGracePeriod
            \/ /\ HNext /\ StepTime = Rest /\ elapsed' = Saturate(elapsed + Rest)
               /\ pc = "sleep" /\ pc' = (IF shutdown THEN "done" ELSE "top")
               /\ shutdown' = shutdown /\ honorGracePeriod' = honorGracePeriod
            \/ /\ HNext /\ StepTime = 0 /\ elapsed' = elapsed /\ pc' = pc
               /\ shutdown => shutdown' = shutdown
               /\ honorGracePeriod' = honorGracePeriod
<1> USE DEF StepTime
<1>1. CASE UNCHANGED hvars
  BY <1>1 DEF hvars, vars
<1>2. CASE HNext /\ (ParseSettings \/ TerminateAfterProbe
                     \/ (\E ok \in BOOLEAN : ReadSeqNum(ok))
                     \/ (\E saved \in BOOLEAN : ReportStatus(saved)))
  BY <1>2 DEF ParseSettings, TerminateAfterProbe, ReadSeqNum, ReportStatus, Return, loopVars, envVars
<1>3. CASE HNext /\ Decide
  BY <1>3 DEF Decide, envVars
<1>4. CASE HNext /\ \E d \in ProbeDurations : Evaluate(d)
  BY <1>4, DurationsAssumption DEF Evaluate, loopVars, envVars
<1>5. CASE HNext /\ Sleep
  BY <1>5 DEF Sleep, Rest, Return, loopVars, envVars
<1>6. CASE HNext /\ Environment
  BY <1>6 DEF Environment, ReceiveSignal, StartNewer, ChangeAnswer, loopVars
<1> QED
  BY <1>1, <1>2, <1>3, <1>4, <1>5, <1>6 DEF HNext, Next, Process

LEMMA RestType ==
  ASSUME TypeOK
  PROVE  Rest \in 0..Interval
BY CfgFacts DEF TypeOK, Rest, probeTimeout

(***************************************************************************)
(* The invariant behind the bound on the time to return: time goes by with *)
(* shutdown set only in the one call that is under way when the signal     *)
(* comes, or in the probe ahead of the next test of shutdown.              *)
(***************************************************************************)
LateTimeInv ==
  /\ lateTime \in Nat
  /\ lateTime > 0 => shutdown = TRUE /\ pc \in {"decide", "done"}
  /\ ReturnsInTime

LEMMA LateTimeStep ==
  ASSUME TypeOK, LateTimeInv, [HNext]_hvars
  PROVE  LateTimeInv'
<1> DEFINE I == Interval
<1>1. /\ I \in Nat \ {0} /\ shutdown \in BOOLEAN /\ Rest \in 0..I
  BY CfgFacts, RestType DEF TypeOK
<1>2. cfg' = cfg /\ I' = I
  BY ClockStep, CfgFixed
<1>3. /\ lateTime \in Nat
      /\ lateTime > 0 => shutdown = TRUE /\ pc \in {"decide", "done"}
      /\ (lateTime <= I \/ lateTime <= 30)
  BY <1>1 DEF LateTimeInv, ReturnsInTime, probeTimeout
<1>4. SUFFICES /\ lateTime' \in Nat
               /\ lateTime' > 0 => shutdown' = TRUE /\ pc' \in {"decide", "done"}
               /\ lateTime' <= I \/ lateTime' <= 30
  BY <1>1, <1>2 DEF LateTimeInv, ReturnsInTime, probeTimeout
<1>5. ASSUME NEW t \in Nat, t <= I \/ t <= 30 PROVE AtMost(t) = t
  BY <1>1, <1>5 DEF AtMost, probeTimeout
<1>6. CASE UNCHANGED hvars
  BY <1>3, <1>6 DEF hvars, vars, envVars
<1>7. CASE HNext /\ shutdown = FALSE
  BY <1>7 DEF HNext, RecordLateTime
<1>8. CASE HNext /\ shutdown = TRUE
  <2>1. lateTime' = AtMost(lateTime + StepTime)
    BY <1>8 DEF HNext, RecordLateTime
  <2>2. CASE StepTime = 0
    <3>1. lateTime' = lateTime
      BY <1>3, <1>5, <2>1, <2>2
    <3>2. lateTime > 0 => shutdown' = TRUE /\ pc' \in {"decide", "done"}
      BY <1>1, <1>3, <1>8, <2>2, ClockStep DEF hvars, vars, envVars
    <3> QED
      BY <1>3, <3>1, <3>2
  <2>3. CASE StepTime # 0
    <3>1. \/ /\ StepTime \in 0..30 /\ pc = "evaluate" /\ pc' = "decide" /\ shutdown' = shutdown
          \/ /\ StepTime = Rest /\ pc = "sleep" /\ pc' = "done" /\ shutdown' = shutdown
          \/ UNCHANGED hvars
      BY <1>8, <2>3, ClockStep DEF probeTimeout
    <3>2. CASE UNCHANGED hvars
      BY <1>6, <3>2
    <3>3. CASE ~UNCHANGED hvars
      <4>1. lateTime = 0 /\ StepTime \in Nat /\ (StepTime <= I \/ StepTime <= 30)
        BY <1>1, <1>3, <3>1, <3>3
      <4>2. lateTime' = StepTime
        BY <1>5, <2>1, <4>1
      <4> QED
        BY <1>8, <3>1, <3>3, <4>1, <4>2
    <3> QED
      BY <3>2, <3>3
  <2> QED
    BY <2>2, <2>3
<1> QED
  BY <1>1, <1>6, <1>7, <1>8

(***************************************************************************)
(* From the signal to the return of enable it is at most one interval or   *)
(* one probe timeout, for every accepted configuration.                    *)
(***************************************************************************)
THEOREM ReturnInTime == HSpec => []ReturnsInTime
<1>1. HInit => TypeOK /\ LateTimeInv
  <2> SUFFICES ASSUME HInit PROVE TypeOK /\ LateTimeInv
    OBVIOUS
  <2>1. TypeOK /\ lateTime = 0
    BY TypeInit DEF HInit
  <2>2. Interval \in Nat
    BY <2>1, CfgFacts DEF TypeOK
  <2> QED
    BY <2>1, <2>2 DEF LateTimeInv, ReturnsInTime, probeTimeout
<1>2. TypeOK /\ LateTimeInv /\ [HNext]_hvars => TypeOK' /\ LateTimeInv'
  <2>1. [HNext]_hvars => [Next]_vars
    BY DEF HNext, hvars
  <2> QED
    BY <2>1, TypeStep, LateTimeStep
<1>3. LateTimeInv => ReturnsInTime
  BY DEF LateTimeInv
<1> QED
  BY <1>1, <1>2, <1>3, PTL DEF HSpec

-----------------------------------------------------------------------------
(***************************************************************************)
(* The invariant behind the bound on Initializing: behind a decision that  *)
(* kept it the period has not ended yet; the rest of the interval takes it *)
(* less than one interval past its end, and the next probe adds one probe  *)
(* timeout before the next decision.                                       *)
(***************************************************************************)
OverrunInv ==
  /\ overrun \in Nat
  /\ overrun > 0 => honorGracePeriod /\ elapsed = GracePeriod
  /\ pc \in {"report", "sleep"} /\ honorGracePeriod => elapsed < GracePeriod
  /\ pc \in {"parse", "report", "sleep"} => overrun = 0
  /\ pc \in {"top", "evaluate"} => overrun < Interval
  /\ GraceOverrunBound

LEMMA OverrunStep ==
  ASSUME TypeOK, OverrunInv, [HNext]_hvars
  PROVE  OverrunInv'
<1> DEFINE I == Interval
           G == GracePeriod
<1>1. /\ I \in Nat \ {0} /\ G \in Nat \ {0} /\ Rest \in 0..I
      /\ elapsed \in 0..G /\ honorGracePeriod \in BOOLEAN
  BY CfgFacts, RestType DEF TypeOK
<1>2. cfg' = cfg /\ I' = I /\ G' = G
  BY ClockStep, CfgFixed
<1>3. /\ overrun \in Nat
      /\ overrun > 0 => honorGracePeriod /\ elapsed = G
      /\ pc \in {"report", "sleep"} /\ honorGracePeriod => elapsed < G
      /\ pc \in {"parse", "report", "sleep"} => overrun = 0
      /\ pc \in {"top", "evaluate"} => overrun < I
      /\ overrun < I + 30
  BY DEF OverrunInv, GraceOverrunBound, probeTimeout
<1>4. SUFFICES /\ overrun' \in Nat
               /\ overrun' > 0 => honorGracePeriod' /\ elapsed' = G
               /\ pc' \in {"report", "sleep"} /\ honorGracePeriod' => elapsed' < G
               /\ pc' \in {"parse", "report", "sleep"} => overrun' = 0
               /\ pc' \in {"top", "evaluate"} => overrun' < I
               /\ overrun' < I + 30
  BY <1>2 DEF OverrunInv, GraceOverrunBound, probeTimeout
<1>5. ASSUME NEW t \in Nat, t < I + 30 PROVE AtMost(t) = t
  BY <1>1, <1>5 DEF AtMost, probeTimeout
<1>6. HNext => overrun' = IF honorGracePeriod'
                          THEN AtMost(overrun + (elapsed + StepTime - elapsed')) ELSE 0
  BY DEF HNext, RecordOverrun
<1>7. CASE UNCHANGED hvars
  BY <1>3, <1>7 DEF hvars, vars, loopVars
<1>8. CASE HNext /\ ~honorGracePeriod'
  <2>1. overrun' = 0
    BY <1>6, <1>8
  <2> QED
    BY <1>1, <1>8, <2>1
<1>9. CASE HNext /\ honorGracePeriod' /\ StepTime = 0 /\ elapsed' = elapsed
  <2>1. overrun' = overrun
    <3>1. overrun + (elapsed + StepTime - elapsed') = overrun
      BY <1>1, <1>3, <1>9
    <3> QED
      BY <1>3, <1>5, <1>6, <1>9, <3>1
  <2>2. CASE Decide /\ pc = "decide" /\ pc' = "report"
    <3>1. StayInGracePeriod
      BY <1>9, <2>2 DEF Decide, ExpireGracePeriod, EarnGracePeriod, NoGracePeriod
    <3>2. honorGracePeriod /\ elapsed < G
      BY <1>1, <3>1 DEF StayInGracePeriod, GraceExpired
    <3> QED
      BY <1>1, <1>3, <1>9, <2>1, <2>2, <3>2
  <2>3. CASE pc' = pc /\ honorGracePeriod' = honorGracePeriod
    BY <1>3, <1>9, <2>1, <2>3
  <2>4. CASE /\ <<pc, pc'>> \in {<<"parse", "top">>, <<"parse", "done">>, <<"top", "evaluate">>,
                                 <<"top", "done">>, <<"decide", "done">>, <<"report", "sleep">>}
             /\ honorGracePeriod' = honorGracePeriod
    BY <1>1, <1>3, <1>9, <2>1, <2>4
  <2>5. CASE pc = "evaluate" /\ pc' = "decide" /\ honorGracePeriod' = honorGracePeriod
    BY <1>1, <1>3, <1>9, <2>1, <2>5
  <2>6. CASE /\ pc = "sleep" /\ pc' = (IF shutdown THEN "done" ELSE "top")
             /\ honorGracePeriod' = honorGracePeriod
    BY <1>1, <1>3, <1>9, <2>1, <2>6
  <2> QED
    BY <1>7, <2>2, <2>3, <2>4, <2>5, <2>6, ClockStep
<1>13. overrun > 0 => elapsed = G
  BY <1>3
<1>14. overrun \in Nat /\ (pc \in {"evaluate", "sleep"} => overrun < I)
       /\ (pc = "sleep" => overrun = 0)
  BY <1>1, <1>3
<1>10. ASSUME NEW d \in 0..30, pc = "evaluate", StepTime = d,
              elapsed' = Saturate(elapsed + d),
              overrun' = AtMost(overrun + (elapsed + StepTime - elapsed'))
       PROVE  /\ overrun' \in Nat /\ overrun' < I + 30
              /\ overrun' > 0 => elapsed' = G
  <2>1. CASE elapsed + d < G
    <3>1. elapsed' = elapsed + d /\ overrun = 0
      BY <1>1, <1>13, <1>14, <1>10, <2>1 DEF Saturate
    <3>2. overrun + (elapsed + StepTime - elapsed') = 0
      BY <1>1, <1>10, <3>1
    <3> QED
      BY <1>1, <1>5, <1>10, <3>2
  <2>2. CASE elapsed + d >= G
    <3>1. elapsed' = G
      BY <1>1, <1>10, <2>2 DEF Saturate
    <3>2. /\ overrun + (elapsed + StepTime - elapsed') \in Nat
          /\ overrun + (elapsed + StepTime - elapsed') < I + 30
      BY <1>1, <1>13, <1>14, <1>10, <2>2, <3>1
    <3> QED
      BY <1>5, <1>10, <3>1, <3>2
  <2> QED
    BY <1>1, <1>10, <2>1, <2>2
<1>11. ASSUME pc = "sleep", elapsed < G, StepTime = Rest,
              elapsed' = Saturate(elapsed + Rest),
              overrun' = AtMost(overrun + (elapsed + StepTime - elapsed'))
       PROVE  /\ overrun' \in Nat /\ overrun' < I
              /\ overrun' > 0 => elapsed' = G
  <2>0. overrun = 0 /\ elapsed < G
    BY <1>14, <1>11
  <2>1. CASE elapsed + Rest < G
    <3>1. elapsed' = elapsed + Rest
      BY <1>1, <1>11, <2>1 DEF Saturate
    <3>2. overrun + (elapsed + StepTime - elapsed') = 0
      BY <1>1, <1>11, <2>0, <3>1
    <3> QED
      BY <1>1, <1>5, <1>11, <3>2
  <2>2. CASE elapsed + Rest >= G
    <3>1. elapsed' = G
      BY <1>1, <1>11, <2>2 DEF Saturate
    <3>2. /\ overrun + (elapsed + StepTime - elapsed') \in Nat
          /\ overrun + (elapsed + StepTime - elapsed') < I
          /\ overrun + (elapsed + StepTime - elapsed') < I + 30
      BY <1>1, <1>11, <2>0, <2>2, <3>1
    <3> QED
      BY <1>5, <1>11, <3>1, <3>2
  <2> QED
    BY <1>1, <1>11, <2>1, <2>2
<1>12. CASE HNext /\ honorGracePeriod' /\ ~(StepTime = 0 /\ elapsed' = elapsed)
  <2>0. overrun' = AtMost(overrun + (elapsed + StepTime - elapsed'))
    BY <1>6, <1>12
  <2>1. CASE /\ pc = "evaluate" /\ pc' = "decide"
             /\ StepTime = spent' /\ spent' \in 0..30 /\ elapsed' = Saturate(elapsed + spent')
    <3>1. /\ overrun' \in Nat /\ overrun' < I + 30
          /\ overrun' > 0 => elapsed' = G
      BY <1>10, <2>0, <2>1
    <3> QED
      BY <1>12, <2>1, <3>1
  <2>2. CASE /\ pc = "sleep" /\ pc' \in {"top", "done"}
             /\ StepTime = Rest /\ elapsed' = Saturate(elapsed + Rest)
             /\ honorGracePeriod' = honorGracePeriod
    <3>0. elapsed < G
      BY <1>3, <1>12, <2>2
    <3>1. /\ overrun' \in Nat /\ overrun' < I
          /\ overrun' > 0 => elapsed' = G
      BY <1>11, <2>0, <2>2, <3>0
    <3>2. overrun' < I + 30
      BY <1>1, <3>1
    <3> QED
      BY <1>12, <2>2, <3>1, <3>2
  <2> QED
    BY <1>7, <1>12, <2>1, <2>2, ClockStep DEF probeTimeout
<1> QED
  BY <1>7, <1>8, <1>9, <1>12

(***************************************************************************)
(* Initializing outlasts the grace period by less than one interval and    *)
(* one probe timeout, for every accepted configuration.                    *)
(***************************************************************************)
THEOREM GraceOverrun == HSpec => []GraceOverrunBound
<1>1. HInit => TypeOK /\ OverrunInv
  <2> SUFFICES ASSUME HInit PROVE TypeOK /\ OverrunInv
    OBVIOUS
  <2>1. TypeOK /\ overrun = 0 /\ pc = "parse"
    BY TypeInit DEF HInit, Init
  <2>2. Interval \in Nat
    BY <2>1, CfgFacts DEF TypeOK
  <2> QED
    BY <2>1, <2>2 DEF OverrunInv, GraceOverrunBound, probeTimeout
<1>2. TypeOK /\ OverrunInv /\ [HNext]_hvars => TypeOK' /\ OverrunInv'
  <2>1. [HNext]_hvars => [Next]_vars
    BY DEF HNext, hvars
  <2> QED
    BY <2>1, TypeStep, OverrunStep
<1>3. OverrunInv => GraceOverrunBound
  BY DEF OverrunInv
<1> QED
  BY <1>1, <1>2, <1>3, PTL DEF HSpec

-----------------------------------------------------------------------------
(***************************************************************************)
(* What accepted settings make the loop do.  The accessors run behind the  *)
(* validation, so no schema ever sees the defaults; yet the grace period   *)
(* computed for settings without one lies in the range the schema allows   *)
(* for one that is given, and no verdict takes longer to settle than       *)
(* maximumProbeSettleTime.                                                 *)
(***************************************************************************)
THEOREM AcceptedSettings ==
  ASSUME NEW s \in PublicSettings, Accepted(s)
  PROVE  /\ intervalInSeconds(s) \in 5..60
         /\ numberOfProbes(s) \in 1..24
         /\ intervalInSeconds(s) * numberOfProbes(s) \in 5..maximumProbeSettleTime
         /\ gracePeriod(s) \in gracePeriods
<1> DEFINE i == intervalInSeconds(s)
           n == numberOfProbes(s)
<1>1. i \in 5..60 /\ n \in 1..24
  BY DEF Accepted, SchemaValid, intervalInSeconds, numberOfProbes, Omitted,
         defaultIntervalInSeconds, defaultNumberOfProbes
<1>2. i * n <= maximumProbeSettleTime
  BY DEF Accepted, validate
<1>3. gracePeriod(s) = (IF s.gracePeriod = Omitted THEN i * n ELSE s.gracePeriod)
      /\ s.gracePeriod \in {Omitted} \cup gracePeriods
  BY DEF Accepted, SchemaValid, gracePeriod
<1> HIDE DEF i, n
<1>4. i * n \in Nat /\ i * n >= 5
  <2>1. i \in Nat /\ n \in Nat /\ i >= 5 /\ n >= 1
    BY <1>1
  <2> QED
    BY <2>1, SMT
<1>5. i * n \in 5..240 /\ i * n \in gracePeriods
  <2> DEFINE t == i * n
  <2>1. t \in Nat /\ t >= 5 /\ t <= 240
    BY <1>2, <1>4 DEF maximumProbeSettleTime
  <2> HIDE DEF t
  <2>2. t \in 5..240 /\ t \in 5..14400
    BY <2>1
  <2> QED
    BY <2>2 DEF t, gracePeriods
<1>6. gracePeriod(s) \in gracePeriods
  BY <1>3, <1>5
<1> QED
  BY <1>1, <1>5, <1>6 DEF i, n, maximumProbeSettleTime

(***************************************************************************)
(* Settings without a grace period get one that is long enough: a prompt   *)
(* and Healthy application is never condemned under them.                  *)
(***************************************************************************)
THEOREM DefaultGraceSuffices ==
  HSpec => [](promptHealthy /\ cfg.gracePeriod = Omitted
                => committedState \notin {"Unhealthy", "Unknown"})
<1>1. HSpec => Spec
  <2>1. HInit => Init
    BY DEF HInit
  <2>2. [HNext]_hvars => [Next]_vars
    BY DEF HNext, hvars
  <2> QED
    BY <2>1, <2>2, PTL DEF HSpec, Spec
<1>2. TypeOK /\ PromptHealthyNeverCondemned =>
        (promptHealthy /\ cfg.gracePeriod = Omitted
           => committedState \notin {"Unhealthy", "Unknown"})
  <2> SUFFICES ASSUME TypeOK, PromptHealthyNeverCondemned, promptHealthy, cfg.gracePeriod = Omitted
               PROVE  committedState \notin {"Unhealthy", "Unknown"}
    OBVIOUS
  <2>1. GracePeriod = Interval * NumberOfProbes
    BY DEF GracePeriod, gracePeriod, Interval, NumberOfProbes
  <2>2. GracePeriod \in Nat
    BY CfgFacts DEF TypeOK
  <2>3. GracePeriod >= Interval * NumberOfProbes
    BY <2>1, <2>2
  <2> QED
    BY <2>3 DEF PromptHealthyNeverCondemned
<1> QED
  BY <1>1, <1>2, TypeCorrect, PromptHealthy, PTL

=============================================================================
