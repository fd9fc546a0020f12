----------------------------- MODULE HealthLoop -----------------------------
(***************************************************************************)
(* The body of the enable command (enable in main/cmds.go): parse the      *)
(* settings, then probe the application for ever, turn the observations    *)
(* into a committed health state, and save that state to the status file.  *)
(*                                                                         *)
(* Around the loop run the actors it shares state with: the signal handler *)
(* of main.go, which sets shutdown at any moment; another enable process,  *)
(* which records a newer sequence number at any moment; the probed         *)
(* application, whose answer may be different at every probe; and time.    *)
(* VMWatch, which the loop also supervises, is not part of this module.    *)
(***************************************************************************)
EXTENDS HandlerSettings

CONSTANTS
  Settings,        \* the settings a configuration may hold, valid or not
  Answers,         \* what the application may answer to a probe
  ProbeDurations   \* the seconds one probe may take

VARIABLES
  pc,                    \* where enable is
  result,                \* the error enable returned with
  cfg,                   \* the parsed settings
  elapsed,               \* seconds since gracePeriodStartTime, saturated
  spent,                 \* seconds since startTime of this iteration
  honorGracePeriod,
  numConsecutiveProbes,
  prevState,
  committedState,
  response,              \* probeResponse of the latest probe
  status,                \* the health part of the status file
  app,                   \* what the application answers now
  shutdown,              \* set by the signal handler
  newerStarted           \* mrseq holds a newer sequence number

loopVars == <<honorGracePeriod, numConsecutiveProbes, prevState, committedState>>
envVars == <<app, shutdown, newerStarted>>
vars == <<pc, result, cfg, elapsed, spent, loopVars, response, status, envVars>>

-----------------------------------------------------------------------------
Empty == ""
Observed == {"Healthy", "Unhealthy", "Unknown"}
HealthStatus == Observed \cup {"Initializing", Empty}
StatusType == {"transitioning", "error", "success"}

(***************************************************************************)
(* An answer is the fate of one request: kind says how far the request     *)
(* got, metrics what the customMetrics key of the body holds.              *)
(*   refused      no connection, a timeout, or a broken body               *)
(*   badCode      an HTTP status outside 200..299                          *)
(*   badJson      a body that is not JSON                                  *)
(*   badType      JSON whose applicationHealthState is not a string        *)
(*   otherState   an applicationHealthState that is not allowed            *)
(*   healthy, unhealthy   the two states that are                          *)
(***************************************************************************)
AnswerKinds == {"refused", "badCode", "badJson", "badType", "otherState",
                "healthy", "unhealthy"}
Metrics == {"none", "valid", "invalid"}
AllAnswers == [kind: AnswerKinds, metrics: Metrics]

ProbeResponse == [state: Observed, metrics: Metrics]

\* probeResponse and startTime are local to an iteration of the loop: between
\* iterations they hold these placeholders.
NoResponse == [state |-> "Unknown", metrics |-> "none"]

Report == [health: HealthStatus, healthType: StatusType,
           appHealthType: StatusType, metricsType: StatusType \cup {"none"}]
NoReport == [health |-> Empty, healthType |-> "transitioning",
             appHealthType |-> "transitioning", metricsType |-> "none"]

\* The probe times out after 30 seconds (DialTimeout, http.Client.Timeout).
probeTimeout == 30

ASSUME SettingsAssumption == Settings \subseteq PublicSettings
ASSUME AnswersAssumption == Answers \subseteq AllAnswers
ASSUME DurationsAssumption == ProbeDurations \subseteq 0..probeTimeout

-----------------------------------------------------------------------------
(* The probes of main/health.go. *)

IsHttp(protocol) == protocol \in {"http", "https"}

EvaluateTcp(a) ==
  [state |-> IF a.kind = "refused" THEN "Unhealthy" ELSE "Healthy", metrics |-> "none"]

(* A body that fails to unmarshal because of a type has still filled in    *)
(* the other key; nothing is filled in when there is no JSON to read.      *)
EvaluateHttp(a) ==
  [state |-> CASE a.kind = "healthy"   -> "Healthy"
               [] a.kind = "unhealthy" -> "Unhealthy"
               [] OTHER                -> "Unknown",
   metrics |-> IF a.kind \in {"refused", "badCode", "badJson"} THEN "none" ELSE a.metrics]

EvaluateDefault == [state |-> "Healthy", metrics |-> "none"]

evaluate(protocol, a) ==
  IF protocol = "tcp" THEN EvaluateTcp(a)
  ELSE IF IsHttp(protocol) THEN EvaluateHttp(a) ELSE EvaluateDefault

healthStatusAfterGracePeriodExpires(protocol) ==
  IF IsHttp(protocol) THEN "Unknown" ELSE "Unhealthy"

-----------------------------------------------------------------------------
(* The substatuses a committed state is reported as. *)

GetStatusType(h) ==
  CASE h = "Initializing" -> "transitioning"
    [] h = "Unknown"      -> "error"
    [] OTHER              -> "success"

GetStatusTypeForAppHealthStatus(h) ==
  IF h \in {"Unhealthy", "Unknown"} THEN "error" ELSE "success"

MetricsStatusType(m) ==
  CASE m = "none" -> "none" [] m = "valid" -> "success" [] m = "invalid" -> "error"

Substatuses ==
  [health        |-> committedState,
   healthType    |-> GetStatusType(committedState),
   appHealthType |-> GetStatusTypeForAppHealthStatus(committedState),
   metricsType   |-> MetricsStatusType(response.metrics)]

-----------------------------------------------------------------------------
NumberOfProbes == numberOfProbes(cfg)
Interval == intervalInSeconds(cfg)
GracePeriod == gracePeriod(cfg)
AfterGrace == healthStatusAfterGracePeriodExpires(cfg.protocol)

\* elapsed is only ever compared with the grace period: it stops there.
Saturate(t) == IF t < GracePeriod THEN t ELSE GracePeriod

Init ==
  /\ pc = "parse" /\ result = "none"
  /\ cfg \in Settings
  /\ elapsed = 0 /\ spent = 0
  /\ honorGracePeriod = (GracePeriod > 0)
  /\ numConsecutiveProbes = 0
  /\ prevState = Empty /\ committedState = Empty
  /\ response = NoResponse
  /\ status = NoReport
  /\ app \in Answers
  /\ shutdown = FALSE /\ newerStarted = FALSE

Return(err) == pc' = "done" /\ result' = err

\* parseAndValidateSettings, and the error return when it refuses.
ParseSettings ==
  /\ pc = "parse"
  /\ \/ Accepted(cfg) /\ pc' = "top" /\ UNCHANGED result
     \/ ~Accepted(cfg) /\ Return("errConfiguration")
  /\ UNCHANGED <<cfg, elapsed, spent, loopVars, response, status, envVars>>

\* The check for a newer sequence number; a failed read only warns.
ReadSeqNum(ok) ==
  /\ pc = "top"
  /\ IF ok /\ newerStarted THEN Return("errSuperseded")
     ELSE pc' = "evaluate" /\ UNCHANGED result
  /\ UNCHANGED <<cfg, elapsed, spent, loopVars, response, status, envVars>>

\* Mutant: the request has no timeout.
Evaluate_NoTimeout(d) ==
  /\ pc = "evaluate" /\ app.kind # "refused"
  /\ response' = evaluate(cfg.protocol, app)
  /\ elapsed' = Saturate(elapsed + d)
  /\ spent' = d
  /\ pc' = "decide"
  /\ UNCHANGED <<result, cfg, loopVars, status, envVars>>

\* probe.evaluate, which takes d seconds.
Evaluate(d) ==
  /\ pc = "evaluate"
  /\ response' = evaluate(cfg.protocol, app)
  /\ elapsed' = Saturate(elapsed + d)
  /\ spent' = d
  /\ pc' = "decide"
  /\ UNCHANGED <<result, cfg, loopVars, status, envVars>>

\* The shutdown test right behind the probe.
TerminateAfterProbe ==
  /\ pc = "decide" /\ shutdown
  /\ Return("errTerminated")
  /\ UNCHANGED <<cfg, elapsed, spent, loopVars, response, status, envVars>>

-----------------------------------------------------------------------------
(* The decision: count the observation, apply the grace period, commit.    *)

\* Mutant: a new observation restarts the count at 0.
Counted_FromZero ==
  IF prevState = response.state THEN numConsecutiveProbes + 1 ELSE 0

\* A repeat of the previous observation counts up, a new one restarts at 1.
Counted ==
  IF prevState = response.state THEN numConsecutiveProbes + 1 ELSE 1

\* Mutant: the count is not reset.
Commit_NoReset(n, s, c) ==
  /\ committedState' = IF n = NumberOfProbes \/ c = Empty THEN s ELSE c
  /\ numConsecutiveProbes' = n

\* Commit state s after n consecutive probes when c is what is committed.
Commit(n, s, c) ==
  /\ committedState' = IF n = NumberOfProbes \/ c = Empty THEN s ELSE c
  /\ numConsecutiveProbes' = IF n = NumberOfProbes THEN 0 ELSE n

\* Mutant: the time of this iteration is compared, not the time since start.
GraceExpired_ThisProbe == honorGracePeriod /\ spent >= GracePeriod

GraceExpired == honorGracePeriod /\ elapsed >= GracePeriod

GraceEarned ==
  /\ honorGracePeriod /\ elapsed < GracePeriod
  /\ Counted = NumberOfProbes
  /\ response.state # AfterGrace

\* Mutant: committedState keeps Initializing.
ExpireGracePeriod_KeepsCommitted ==
  /\ GraceExpired
  /\ honorGracePeriod' = FALSE
  /\ prevState' = AfterGrace
  /\ Commit(1, AfterGrace, committedState)

\* The application did not initialise in time: the probe's answer is dropped.
ExpireGracePeriod ==
  /\ GraceExpired
  /\ honorGracePeriod' = FALSE
  /\ prevState' = AfterGrace
  /\ Commit(1, AfterGrace, Empty)

\* numberOfProbes consecutive valid observations end the grace period early.
EarnGracePeriod ==
  /\ GraceEarned
  /\ honorGracePeriod' = FALSE
  /\ prevState' = response.state
  /\ Commit(Counted, response.state, committedState)

StayInGracePeriod ==
  /\ honorGracePeriod /\ ~GraceExpired /\ ~GraceEarned
  /\ UNCHANGED honorGracePeriod
  /\ prevState' = response.state
  /\ Commit(Counted, "Initializing", committedState)

\* Mutant: a new observation is not remembered.
NoGracePeriod_Forgets ==
  /\ ~honorGracePeriod
  /\ UNCHANGED <<honorGracePeriod, prevState>>
  /\ Commit(Counted, response.state, committedState)

NoGracePeriod ==
  /\ ~honorGracePeriod
  /\ UNCHANGED honorGracePeriod
  /\ prevState' = response.state
  /\ Commit(Counted, response.state, committedState)

\* Mutant: the decision does not wait for the shutdown test.
Decide_IgnoresShutdown ==
  /\ pc = "decide"
  /\ \/ ExpireGracePeriod
     \/ EarnGracePeriod
     \/ StayInGracePeriod
     \/ NoGracePeriod
  /\ pc' = "report"
  /\ UNCHANGED <<result, cfg, elapsed, spent, response, status, envVars>>

Decide ==
  /\ pc = "decide" /\ ~shutdown
  /\ \/ ExpireGracePeriod
     \/ EarnGracePeriod
     \/ StayInGracePeriod
     \/ NoGracePeriod
  /\ pc' = "report"
  /\ UNCHANGED <<result, cfg, elapsed, spent, response, status, envVars>>

\* reportStatusWithSubstatuses; a failed save is logged and forgotten.
ReportStatus(saved) ==
  /\ pc = "report"
  /\ status' = IF saved THEN Substatuses ELSE status
  /\ pc' = "sleep"
  /\ UNCHANGED <<result, cfg, elapsed, spent, loopVars, response, envVars>>

\* Mutant: the sleep goes straight back to the top.
Sleep_NoTest ==
  /\ pc = "sleep"
  /\ elapsed' = Saturate(elapsed + (IF spent < Interval THEN Interval - spent ELSE 0))
  /\ spent' = 0 /\ response' = NoResponse
  /\ pc' = "top" /\ UNCHANGED result
  /\ UNCHANGED <<cfg, loopVars, status, envVars>>

\* Sleep out the interval, then look at shutdown again.
Sleep ==
  /\ pc = "sleep"
  /\ elapsed' = Saturate(elapsed + (IF spent < Interval THEN Interval - spent ELSE 0))
  /\ spent' = 0 /\ response' = NoResponse
  /\ IF shutdown THEN Return("errTerminated") ELSE pc' = "top" /\ UNCHANGED result
  /\ UNCHANGED <<cfg, loopVars, status, envVars>>

-----------------------------------------------------------------------------
(* The actors around the loop, while the process lives. *)

Running == pc # "done"

\* SIGTERM or SIGINT reaches the signal goroutine of main.
ReceiveSignal ==
  /\ Running /\ ~shutdown
  /\ shutdown' = TRUE
  /\ UNCHANGED <<pc, result, cfg, elapsed, spent, loopVars, response, status, app, newerStarted>>

\* Another enable process saves a newer sequence number.
StartNewer ==
  /\ Running /\ ~newerStarted
  /\ newerStarted' = TRUE
  /\ UNCHANGED <<pc, result, cfg, elapsed, spent, loopVars, response, status, app, shutdown>>

ChangeAnswer(a) ==
  /\ Running /\ a # app
  /\ app' = a
  /\ UNCHANGED <<pc, result, cfg, elapsed, spent, loopVars, response, status, shutdown, newerStarted>>

Process ==
  \/ ParseSettings
  \/ \E ok \in BOOLEAN : ReadSeqNum(ok)
  \/ \E d \in ProbeDurations : Evaluate(d)
  \/ TerminateAfterProbe
  \/ Decide
  \/ \E saved \in BOOLEAN : ReportStatus(saved)
  \/ Sleep

Environment ==
  \/ ReceiveSignal
  \/ StartNewer
  \/ \E a \in Answers : ChangeAnswer(a)

Next == Process \/ Environment

Spec == Init /\ [][Next]_vars

(* The goroutine of enable is scheduled and every call in the loop returns *)
(* (the probe has a timeout, the sleep is bounded).  Nothing is assumed of *)
(* the environment.                                                        *)
FairSpec == Spec /\ WF_vars(Process)

-----------------------------------------------------------------------------
(* Properties. *)

TypeOK ==
  /\ pc \in {"parse", "top", "evaluate", "decide", "report", "sleep", "done"}
  /\ result \in {"none", "errConfiguration", "errSuperseded", "errTerminated"}
  /\ cfg \in Settings
  /\ pc \notin {"parse", "done"} => Accepted(cfg)
  /\ elapsed \in 0..GracePeriod
  /\ spent \in 0..probeTimeout
  /\ honorGracePeriod \in BOOLEAN
  /\ numConsecutiveProbes \in 0..(NumberOfProbes - 1)
  /\ prevState \in Observed \cup {Empty}
  /\ committedState \in HealthStatus
  /\ response \in ProbeResponse
  /\ status \in Report
  /\ app \in Answers
  /\ shutdown \in BOOLEAN /\ newerStarted \in BOOLEAN

(***************************************************************************)
(* The committed state is Initializing, or not yet there, exactly while    *)
(* the grace period is honoured: no path through expiry, early success and *)
(* the wrapping counter leaves the process out of its grace period without *)
(* a verdict, or brings Initializing back afterwards.                      *)
(***************************************************************************)
InitializingIffGrace ==
  honorGracePeriod <=> committedState \in {Empty, "Initializing"}

(***************************************************************************)
(* Once the signal handler has set shutdown, enable returns: the flag is   *)
(* only looked at in two places of the loop and no path avoids both.       *)
(***************************************************************************)
ShutdownStops == shutdown ~> (pc = "done")

(***************************************************************************)
(* The grace period ends, whatever the application answers and however     *)
(* often the counter wraps: a process does not report Initializing for     *)
(* ever.                                                                   *)
(***************************************************************************)
GraceEnds == <>(~honorGracePeriod \/ pc = "done")

ObservedNow == evaluate(cfg.protocol, app).state
SavesSucceed == []<><<ReportStatus(TRUE)>>_vars

(***************************************************************************)
(* An application that settles on one answer is eventually reported with   *)
(* it, for good: in the committed state and, if saving the status file     *)
(* succeeds again and again, in the status file.  The loop counts modulo   *)
(* numberOfProbes and drops the answer seen when the grace period expires; *)
(* neither may lose a settled state.                                       *)
(***************************************************************************)
Responsive ==
  \A h \in Observed :
    <>[](Running /\ ObservedNow = h) =>
      /\ <>[](committedState = h)
      /\ SavesSucceed => <>[](status.health = h)

=============================================================================
