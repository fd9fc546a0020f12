------------------------------ MODULE HeartBeat ------------------------------
(***************************************************************************)
(* handler.log as evidence of life.  A polling process writes a heartbeat  *)
(* line when the previous one is five minutes old, but it looks at the     *)
(* clock only once per iteration (LogHeartBeat, main/health.go); a second  *)
(* enable of the same sequence number takes the process for stuck, and     *)
(* kills it, when the file was six minutes old (checkIdempotency,          *)
(* main/cmds.go).  The shim has read that age, in whole seconds, some time *)
(* before the second enable compares it.                                   *)
(*                                                                         *)
(* EnableProcesses assumes that a process that polls keeps its log fresh;  *)
(* this module is about the seconds behind that assumption.  Time is in    *)
(* seconds; what an iteration computes besides its probe takes none.       *)
(***************************************************************************)
EXTENDS HandlerSettings

CONSTANTS
  Settings,        \* the settings the process may have been given
  ProbeDurations,  \* the seconds one probe may take
  MaxStart         \* bound: seconds from the shim to the check of enable

VARIABLES
  interval,   \* intervalBetweenProbes of the polling process
  wait,       \* seconds until its next iteration
  sinceBeat,  \* seconds since timeOfLastAppHealthLog
  logAge,     \* seconds since handler.log was last written
  check,      \* the second enable: idle, starting, or what it concluded
  seen,       \* the age of the log as that enable sees it
  delay       \* seconds since its shim read the age

loopVars == <<interval, wait, sinceBeat>>
checkVars == <<check, seen, delay>>
vars == <<loopVars, logAge, checkVars>>

-----------------------------------------------------------------------------
RecordHeartBeatInterval == 5 * 60

\* Mutant: the threshold is the interval itself.
StaleThreshold_NoMargin == 5 * 60

StaleThreshold == 6 * 60

\* DialTimeout and http.Client.Timeout.
probeTimeout == 30

ASSUME SettingsAssumption == Settings \subseteq PublicSettings
ASSUME DurationsAssumption == ProbeDurations \subseteq 0..probeTimeout
ASSUME StartAssumption == MaxStart \in 0..4

\* timeOfLastAppHealthLog starts as the zero time, long ago.
Init ==
  /\ interval \in {intervalInSeconds(s) : s \in {t \in Settings : Accepted(t)}}
  /\ wait = 0 /\ sinceBeat = RecordHeartBeatInterval
  /\ logAge = 0
  /\ check = "idle" /\ seen = 0 /\ delay = 0

\* Mutant: the timestamp is renewed outside the test.
Iterate_RenewsTimestamp(d) ==
  /\ wait = 0
  /\ sinceBeat' = 0
  /\ logAge' = IF sinceBeat >= RecordHeartBeatInterval THEN 0 ELSE logAge
  /\ wait' = IF d < interval THEN interval ELSE d
  /\ UNCHANGED <<interval, checkVars>>

\* One iteration: LogHeartBeat, a probe of d seconds, the rest of the interval.
Iterate(d) ==
  /\ wait = 0
  /\ IF sinceBeat >= RecordHeartBeatInterval
       THEN sinceBeat' = 0 /\ logAge' = 0
       ELSE UNCHANGED <<sinceBeat, logAge>>
  /\ wait' = IF d < interval THEN interval ELSE d
  /\ UNCHANGED <<interval, checkVars>>

\* The process logs something else: a changed state, an error, VMWatch.
LogEvent ==
  /\ logAge' = 0
  /\ UNCHANGED <<loopVars, checkVars>>

\* stat -c %Y drops the fraction of a second; then the shim writes to the log.
CaptureLastWrite ==
  /\ check = "idle"
  /\ check' = "starting" /\ seen' = logAge + 1 /\ delay' = 0
  /\ logAge' = 0
  /\ UNCHANGED loopVars

\* checkIdempotency of the same sequence number, with a process found.
CheckIdempotency ==
  /\ check = "starting"
  /\ check' = IF seen < StaleThreshold THEN "idle" ELSE "takeOver"
  /\ seen' = 0 /\ delay' = 0
  /\ UNCHANGED <<loopVars, logAge>>

\* A second passes.
Tick ==
  /\ wait > 0
  /\ wait' = wait - 1
  /\ sinceBeat' = sinceBeat + 1
  /\ logAge' = logAge + 1
  /\ \/ check = "starting" /\ delay < MaxStart
        /\ seen' = seen + 1 /\ delay' = delay + 1
     \/ check # "starting" /\ UNCHANGED <<seen, delay>>
  /\ UNCHANGED <<interval, check>>

Next ==
  \/ \E d \in ProbeDurations : Iterate(d)
  \/ LogEvent \/ CaptureLastWrite \/ CheckIdempotency \/ Tick

Spec == Init /\ [][Next]_vars

-----------------------------------------------------------------------------
(* Properties. *)

TypeOK ==
  /\ interval \in 5..60
  /\ wait \in 0..60
  /\ sinceBeat \in 0..(RecordHeartBeatInterval + 60)
  /\ logAge \in 0..sinceBeat
  /\ check \in {"idle", "starting", "takeOver"}
  /\ delay \in 0..MaxStart
  /\ seen \in 0..(RecordHeartBeatInterval + 61 + delay)

(***************************************************************************)
(* A process that keeps polling is never taken for stuck: whatever its     *)
(* interval, however long its probes take and whenever a second enable     *)
(* reads the age of handler.log, the file is younger than the threshold    *)
(* when that enable compares it, up to four seconds later.  The margin of  *)
(* one minute between the two constants is used up but for five seconds:   *)
(* an interval of 59 seconds finds the heartbeat 295 seconds old, does not *)
(* write, and returns at 354.                                              *)
(***************************************************************************)
NoFalseTakeOver == check # "takeOver"

=============================================================================
