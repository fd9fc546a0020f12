# A TLA+ development of the Application Health extension for Linux

The Application Health extension runs on an Azure virtual machine. The guest agent starts it
with `enable`; from then on it probes an application over TCP or HTTP(S), turns the
observations into a health state, and saves that state to a status file that the platform
reads. Optionally it also starts and supervises a second program, VMWatch.

This directory models the parts of the extension that are hard to test: the decisions of the
health loop, the processes that replace one another when the agent enables the extension
again, the heartbeat by which they tell a stuck process from a working one, the goroutines that
supervise VMWatch, and the way of a configuration from the agent's folder to the limits VMWatch
runs under. The models are checked with TLC on small instances, and the safety properties
proved with TLAPS for every value of the constants. Paths below are relative to the repository.

## 1. Inventory

| Component | Source | State | Operations | Modelled in |
|---|---|---|---|---|
| Health loop | `main/cmds.go` (`enable`) | consecutive-probe counter, previous state, committed state, grace period, time | one iteration: check for a newer number, probe, decide, report, sleep | `HealthLoop` |
| Health probes | `main/health.go`, `main/probeResponse.go` | none | TCP, HTTP(S) and default probe; validation of the answer | `HealthLoop` |
| Heartbeat | `main/health.go` (`LogHeartBeat`), `main/cmds.go`, `main/process.go` | `timeOfLastAppHealthLog`, age of `handler.log` | write a line when five minutes are over; compare the age with six minutes | `HeartBeat` |
| Settings | `main/handlersettings.go`, `main/schema.go`, the vendored reader of the config folder | the config folder (the agent's) | choice of the file, ranges, defaults, logical validation | `HandlerSettings`, `SettingsFolder`, `ResourceLimits`, `Configuration` |
| Enable pre-check | `main/cmds.go` (`enablePre`, `checkIdempotency`) | a snapshot of `mrseq`, of `/proc`, of the age of `handler.log` | exit, reject, take over, proceed | `EnableProcesses` |
| Process discovery and termination | `main/process.go` | none | scan `/proc`, SIGTERM, wait 5 s, SIGKILL | `EnableProcesses` |
| Sequence number | `internal/seqno` and the vendored `seqno` | `mrseq` | find the number; read, truncate and write the file | `EnableProcesses`, `SettingsFolder`, `Configuration` |
| Status file | `main/reportstatus.go`, `main/status.go` | `N.status` | save | `HealthLoop`, `EnableProcesses`, `Configuration` |
| Shim | `misc/applicationhealth-shim` | `handler.log`, placeholder status | fork `enable`; terminate enable and VMWatch before every other command | `EnableProcesses`, `VMWatch`, `Configuration` |
| Signals and dispatch | `main/main.go` | `shutdown`, `vmWatchCommand` | set `shutdown`, kill VMWatch; number, pre-check, report, run, report | `HealthLoop`, `EnableProcesses`, `VMWatch`, `Configuration` |
| install, uninstall, update, disable | `main/cmds.go` | data directory | create or remove it | `EnableProcesses`, `VMWatch` (their effect on processes) |
| VMWatch supervision | `main/vmWatch.go`, `main/cmds.go` | retry counters, result channel, the child process | retry cycles, heartbeat monitor, kill | `VMWatch` |
| VMWatch limits | `main/vmWatch.go`, `main/schema.go` | the settings, `vmwatch.slice` | defaults, ranges, options of systemd-run, cgroups v1 and v2 | `ResourceLimits`, `Configuration` |
| Telemetry, logging, redaction, handler environment, manifest | `internal/`, `pkg/` | none another part depends on, except the age of `handler.log` | | no |
| Test web server | `integration-test/webserver` | | | no (the application may answer anything) |

How they interact. The agent writes `N.settings` and runs the shim; the shim forks
`enable` into the background and returns, so several `enable` processes can be alive. They
share only files (`mrseq`, `N.status`, `handler.log`), what they see of one another in
`/proc`, and signals. Inside a process the health loop, the signal goroutine and (with
VMWatch) a supervisor goroutine share global variables without locks.

What is hard:

* the counter of the loop wraps at `numberOfProbes`, restarts at 1, is shared between the
  grace period and the commit rule, and is set for an observation nobody made when the grace
  period expires;
* `shutdown` is set at any moment and read in two places of an iteration that may take 30 s;
* `mrseq`, `/proc` and the age of `handler.log` are read early and acted upon late, up to
  ten seconds later for every process that must be killed, while other processes do the same;
* a process may crash between any two steps, the write of `mrseq` included; may hang; may be
  killed while it reports;
* the scan of `/proc` and the save of the status file may fail, and both failures are only
  logged;
* the supervisor of VMWatch talks to the loop through an unbuffered channel that the loop reads
  once per iteration, copies the retry counters that the heartbeat monitor resets, and may be
  anywhere between its shutdown test and the start of a process when the signal comes; `Wait`
  returns only when the output pipe is closed, which children of VMWatch may keep open;
* shim, `main` and the reader of the settings each find out the number for themselves, at
  different times and by different rules, while the agent may publish the next configuration or
  write an earlier number again;
* of the minute between the period of the heartbeat and the threshold of staleness, an interval
  of 59 s uses up all but a few seconds;
* the limits of VMWatch are defaulted in place, checked twice, and applied in three different
  ways, some of them after VMWatch has started; the two checks do not see the same values, since
  the schema admits further keys and the decoder does not mind their case;
* the shim that stops the extension must end enable before VMWatch, and aborts on a failing
  `pkill`.

What makes each part correct:

* the loop publishes the state that the last `numberOfProbes` observations agree on, is
  Initializing exactly while it honours its grace period and not much longer than that period,
  does not condemn an application that was prompt and healthy, follows an application that
  settles, and ends soon after a signal;
* of the enable processes at most one serves, the recorded sequence number only grows,
  cleanup kills only older processes, an idempotent exit is covered by a process of the same
  configuration, nobody but a serving process itself saves the status file of its number, the
  service passes from one process to the next as if one supervisor handed it over, and an
  enable is eventually answered by a process with its settings;
* a process that polls is never taken for stuck;
* of the VMWatch processes at most one is alive, and the loop takes it for running as long as
  it is; each is waited for and monitored by the goroutines of its own attempt; the number of
  attempts is bounded; a hung VMWatch is killed; the end of VMWatch is
  reported; the supervisor does not stay blocked on its channel; giving up is published; a
  shutdown leaves no VMWatch at work, and a stop none at all;
* the number for which the shim leaves a placeholder is the one that the enable it forks takes up,
  and VMWatch runs under the limits of its configuration, within the bounds of the code, on every
  host.

`PROJECT.json` lists the hazards with their lines and the properties that address each.

## 2. Modules

| Module | Role |
|---|---|
| `HandlerSettings` | settings, defaults, schema and logical validation, as operators |
| `HealthLoop` | the body of `enable`, with its environment (signal, newer number, application, time) |
| `HealthVerdict` | abstract specification: the streak rule |
| `HealthLoopHistory` | `HealthLoop` with history variables; the refinement mapping to `HealthVerdict` |
| `HealthLoopProofs` | theorems about the two |
| `HealthInstances`, `MCHealthLoop` | instances for TLC |
| `HeartBeat` | the heartbeat in `handler.log` against the staleness threshold, in seconds |
| `HeartBeatProofs` | theorems about it |
| `MCHeartBeat` | instance for TLC |
| `Succession` | abstract specification: how the enable processes hand the service over |
| `EnableProcesses` | the enable processes of one machine, the shim and the agent; the mapping to `Succession` |
| `EnableProcessesProofs` | theorems about them, with overlapping starts |
| `EnableSequentialProofs` | theorems about them, one start after the other |
| `MCEnableProcesses` | instances for TLC |
| `Supervision` | abstract specification: what the supervision of VMWatch promises to the loop |
| `VMWatch` | the supervision of VMWatch inside one enable process; the mapping to `Supervision` |
| `VMWatchProofs`, `SupervisionProofs` | theorems about it; the refinement |
| `MCVMWatch` | instances for TLC |
| `SettingsFolder` | which number shim, `main` and settings reader find, as operators |
| `ResourceLimits` | limits of VMWatch: schema, defaults, systemd, cgroups, as operators |
| `Configuration` | agent, shim, enable and launches of VMWatch around those operators |
| `ConfigurationProofs` | theorems about it |
| `MCConfiguration` | instance for TLC |

`HealthLoop`, `EnableProcesses`, `VMWatch` and `Configuration` are four views of one system.
They meet in the numbers, the files and the signals: what one of them treats as a step of
its environment (a newer number, a signal, the end of a process, a fresh log) is a step of
another.

### HealthLoop

Variables carry the names of the locals of `enable` (`honorGracePeriod`,
`numConsecutiveProbes`, `prevState`, `committedState`) and of the global `shutdown`. `pc`
cuts an iteration where another actor can act in a way the loop notices: before the
sequence-number check, before the probe, before the decision, before the save and before the
sleep. The decision itself touches only locals and is one step with four exclusive cases
(`ExpireGracePeriod`, `EarnGracePeriod`, `StayInGracePeriod`, `NoGracePeriod`).

Time is in seconds. `elapsed` (since `gracePeriodStartTime`) is only compared with the grace
period and saturates there; `spent` is the time since `startTime` of the iteration. A probe
takes any duration of the constant `ProbeDurations`, at most the 30 s of its timeout.

An answer of the application is the fate of a request (refused, bad code, bad body, a state
that is or is not allowed) and the validity of its custom metrics; the probes map it to a
state exactly as `evaluate` does, a body that fails to unmarshal only because of a wrong type
included. The text of messages and the JSON of the status are left out; the status types of
the substatuses are kept.

### HealthVerdict

Says without counters and without time what the loop promises: the verdict follows a streak
of equal observations as soon as it is `numberOfProbes` long; in the grace period it is
Initializing; the period ends with such a streak of a state other than the one that expiry
leads to, or by expiring. `HealthLoopHistory` records the current streak, which the code does
not keep, and `ImplementsVerdict` says that the wrapping counter publishes what the observer
who remembers the whole streak would.

The other history variables of `HealthLoopHistory` measure: `lateWork` counts probes and saves
after the signal, `lateTime` the seconds of probes and sleeps after it, `overrun` the seconds for
which Initializing outlasts the grace period (what the saturating `elapsed` cuts off), and
`promptHealthy` remembers whether every probe so far was Healthy within the interval.

### Succession

Says without `/proc`, `mrseq` and signals what the enable processes of a machine amount to: at most
one instance is in service; it begins under a number not lower than any recorded before, when the
previous one is out of service; it adopts, once, the newest configuration there is; a newer
number may be recorded while the old instance is still at work (`Announce`). `Service` in
`EnableProcesses` is the refinement mapping: the processes from `announce` to their end, with
their number and, once they have parsed them, the number of their settings. `recorded` is mapped
to `mrseq` and `issued` to `goal`.

### EnableProcesses

One member of `Proc` is one invocation of `enable`, used once. `pc` runs through the shim
(`shim`, `placeholder`), the start of the binary (`boot`: not yet subscribed to SIGTERM), the
pre-check (`read`, `scan`, `decide`, `killStale`, `truncate`, `write`, `killOld`), and what
follows (`announce`, `parse`, the four points of the loop, `fail`). Each `pc` value
is a point where another process can change something the process reads or has read.

* The agent runs one shim at a time (`AgentIdle`), publishes configurations with increasing
  numbers, may repeat an `enable` of an earlier number, and may issue another command. The
  constant `Overlap` says whether it runs an `enable` while the pre-check of the previous
  one, which is in the background by then, is still going on. Nothing in the extension
  prevents that.
* `SetSequenceNumber` is two steps: truncate, write. A failure of either ends the process,
  which is the same as `Crash` there. The constant `CrashAt` says at which points a process may
  crash; `StopHard`, the `pkill -9` of the shim, may come at any point.
* A save of the status file (`Save`) may fail: the announcement, the reports of the loop and the
  final error then leave what the file said before, and the process goes on as if they had not.
* SIGKILL is sent after five seconds whatever the target does, so it may come at any point
  once SIGTERM was sent: no clock is needed for this.
* `handler.log` has an age in ticks. A tick is longer than a pre-check and shorter
  than the staleness threshold; a responsive process writes a heartbeat within each.
  `pollAge` is what the age would be if only serving processes wrote the file.
* The settings a process validates are those with the highest number in the config folder
  (`goal`), as in the vendored reader, not those of its own number; `config` is the number of
  the settings it got. `EnableAnswered` asks for the settings of the number itself.
* The shim's test for a status file and its writing of the placeholder are two steps, so that
  processes of earlier enables act between them.

### HeartBeat

A process that polls, second by second, and a second enable whose shim reads the age of
`handler.log`. The process looks at the clock once per iteration, so that the heartbeat is
written at the first iteration that begins five minutes or more after the last one. Other
lines only make the log younger (`LogEvent`). The age is in whole seconds when the shim takes
it and grows until enable compares it, at most `MaxStart` seconds later. This is what the tick
in `EnableProcesses` rests on.

### Supervision

Says without cycles, channels and goroutines what the health loop, and through it the status
file, may rely on: Running is announced before VMWatch runs, Failed comes after it has ended,
attempts are bounded, and VMWatch is given up only after all of them or in a shutdown.
`VMWatch!Phase` is the refinement mapping.

### VMWatch

One enable process, cut into its goroutines. Each has a variable that says where it is:
`sup` (`executeVMWatch`, `executeRetryLogic`, `executeVMWatchHelper`), `waiter` (the goroutine
in `Wait`), `monitor` (`monitorHeartBeat`), `sig` (the signal goroutine of `main`) and `loop`
(a skeleton of the health loop: both shutdown tests, the select, the report; what it decides
about the application is in `HealthLoop`). `proc` holds the VMWatch process of every attempt;
an attempt is a pair of cycle and attempt, and so names its `exec.Cmd` as well.

* The channel is unbuffered, so that a send and the receive in the select are one step: a
  `Receive...` action of the loop advances the supervisor too, with what it does to its locals
  before its next step. `ReceiveNothing` is the default case of the select.
* A tick is the 180 s of the ticker. `beatAge` counts ticks since the heartbeat file was
  written and only distinguishes fresh from stale; a file that a previous VMWatch wrote is
  stale at the first tick. `ticks` saturates at the success threshold.
* `vmWatchCurrentCycle` and `vmWatchTotalAttempts` are the globals behind the mutex,
  `retryCycle` and `totalAttempts` the locals of the retry loop that are copied from them once.
* `executeVMWatchHelper` always returns an error, so the early return on success of
  `executeRetryLogic` has no action. `Setup` fails if the process directory is not found or a
  limit is out of range; `Start` and the assignment to cgroups may fail; on a host without
  systemd, and outside a dev container, a failed assignment kills VMWatch (`host`).
* `Gone` ends enable and all goroutines at once; `ParentDied` is the SIGTERM that `Pdeathsig`
  asks the kernel for. A VMWatch that works obeys it, a hung one may not.
* `Wait` is two steps. `Reap` collects the process and sets `ProcessState`; `WaitReturns` needs
  in addition that nobody holds the output pipe. `ForkChild` lets VMWatch leave a child that
  does (`held`), and `ChildrenEnd` may or may not happen.
* The shim of another command (`stop`) ends enable, then VMWatch: SIGTERM, a wait, SIGKILL.
  Between its last `ps` and the `pkill -9` enable may end by itself; `pkill` then fails and
  `set -e` ends the shim before it has turned to VMWatch (`aborted`).

### Configuration

The config folder is a function from numbers to modification times. Three places ask it for
"the number", and not in the same way: the shim takes the highest number among the file names,
`FindSeqNum` the environment's, or that of the newest file, or, if several are the newest, the
highest number of all, and the reader of the settings the highest number, provided that every
name is one. `main` logs a failure of `FindSeqNum` and goes on with 0.

* The agent publishes increasing numbers, and may write an earlier one again (`Rewrite`), which is
  then the newest file and the number that may be in the environment: the vendored `FindSeqNum`
  looks at times because "the highest sequence number may be incorrect". A number written again
  stands for the same configuration. The shim still takes the highest number. The agent waits for
  the shim and not for the enable forked by it, so it may write at any point between. `Clutter` is
  a `.settings` file whose name is no number. `MaxDisturbances` bounds the two together.
* `misled` is a history variable: the numbers with a placeholder of a shim whose enable was given
  another number in the environment, or found a lower one alone in the newest file, or none.
* enable is cut where the folder is read: `FindNumber`, the pre-check (`Leave` or `TakeOver`,
  which kills the previous process and its VMWatch), `Announce`, and the parsing of the
  settings. The same number may leave or take over: the second if nobody serves, if `handler.log`
  is stale or missing, or if the scan failed. Saves may fail. How several enables interleave is
  left to `EnableProcesses`.
* A VMWatch section has two readings, `checked` by the schema and `decoded` by `encoding/json`:
  `maxCpuPercentage` written as `MaxCpuPercentage` is a key the schema does not know, and admits,
  and the decoder takes for the other. `Setup` refuses what is out of range in the second.
* A launch is `Setup` (defaults written back into the settings, ranges, command line), a start
  under systemd-run or a free one, and in the latter case the creation of the cgroup and the
  assignment to it, either of which may fail. The version of systemd may not be found out (0).
  Quotas keep the arithmetic of the code: a percentage of one processor in v1 and v2 units.

## 3. Runs

Bounds are the constants of the `.cfg` files.

| Run | Question | Bounds, and why they are enough |
|---|---|---|
| `health_loop` | Does the loop implement the streak rule, keep Initializing and grace period together, spare the prompt and healthy application, and stop working after a signal? How late may it be with the end of the grace period and with its return (`GraceOverrunBound`, `ReturnsInTime`)? Does a signal end the process, does the grace period end, is a settled application reported? | Six settings, chosen at the defaults and limits: default interval, default grace period, one to three probes, a grace period shorter than an interval, one that leaves room for the counter to wrap, and refused settings; TCP, HTTP and default probe. Three answers give all three observations. Probes of 4 s and 30 s: prompt, and longer than any interval used. The loop is finite state, so its behaviours are explored without a bound on their length. |
| `heartbeat` | Is a process that polls ever taken for stuck? | Intervals of 5, 45, 59 and 60 s (the limits of the schema, one that divides five minutes unevenly, and the one with the longest gap) and a refused one; probes of 2 s and 30 s; up to four seconds between shim and comparison |
| `configuration` | Is the number for which the shim leaves a placeholder taken up although the folder changes under shim, `main` and settings reader, and is VMWatch held to the limits of its configuration, within the bounds of the code? | Two numbers, so that one may be published at any point of the enable of the other; one disturbance of the folder, the lower number written again or a name that is no number; four VMWatch sections (limits left out, at the limits, below what the schema allows, above the limit where the schema does not look); four hosts (systemd on both sides of version 246, cgroups v1, cgroups v2 in a tolerant dev container); two launches, so that the second one sees the defaults the first one wrote back. Deadlock is checked |
| `enable_overlap` | Can two processes serve together, can a dying one, a shim or another command write over the status of a process that serves, or a placeholder over a status, when starts overlap, processes crash anywhere and hang, saves fail and a stop interferes? | Three processes (a killer, its victim and a third that finds both), two numbers, one with invalid settings, one stop |
| `enable_sequential` | If each enable starts after the previous pre-check, does the recorded number only grow, does cleanup kill only older processes, does an idempotent exit leave a live process of its number behind, and do the processes implement `Succession`? | Three processes (one that serves, one that fails or takes over, one that finds what they left), three numbers (older, equal, newer than what is recorded), hangs, one stop; crashes at every point of the start at which no process is being killed (`BeforeService`), since a crash in between makes the idempotent exit wrong, see below |
| `enable_liveness` | Is an enable answered by a process with its own settings, and do superseded or signalled processes end, even if scans fail? | Two processes, two numbers, hangs and a stop |
| `vmwatch_safety` | Is at most one VMWatch alive and reported as running, do its waiter and its monitor come and go together and concern their own attempt, are attempts bounded, does a stop leave none, and do the goroutines implement `Supervision`, whatever fails, is killed or is signalled? | Two cycles of two attempts, so that a next attempt and a next cycle both occur; a success threshold of one tick, so that a fresh heartbeat resets the counters in any attempt; one stop. The code has four cycles, three attempts and twenty ticks; the proofs cover them |
| `vmwatch_liveness` | Is a hung VMWatch killed, is the end of VMWatch reported, does the supervisor go on, is giving up published, does a shutdown end VMWatch? | Two cycles of one attempt, a threshold of one tick, no stop |

The remaining runs are expected to fail. Each checks one statement that the repository
makes about itself and that the code does not keep:

| Run | Statement | What happens |
|---|---|---|
| `enable_seq_regress` | `main/cmds.go:125`: an enable older than the recorded number exits | the older enable read `mrseq` before the newer one wrote it, and writes its own number over the newer |
| `enable_fresh_log` | `main/process.go:69`: the captured age reflects the previous process's last write | the shim and every enable write to `handler.log` too: enables repeated within the threshold keep it fresh for a hung process |
| `enable_torn_mrseq` | `main/cmds.go:132`: a fresh start has the correct sequence state | a crash between truncating and writing leaves an empty file, which every later pre-check refuses |
| `vmwatch_reset` | `main/vmWatch.go:322`: after an hour of success the retry counters are reset | the retry loop works on its copies and overwrites the reset: VMWatch is given up at the end of the last cycle even so |

`enable_seq_regress` needs overlapping starts, which depends on the agent; the same overlap
makes `KillsOnlyOlder` fail too (set `Overlap` in `MCEnableSequential.cfg`). `enable_torn_mrseq`
needs a crash; the other two need neither.

More disagreements met while modelling have no run of their own:

* `main/cmds.go:208` says that another instance runs with the same sequence number; after a
  crash between the write of `mrseq` and the kill, the retried enable takes the old process for
  its own and exits. Set `CrashAt <- Anywhere` in `MCEnableSequential.cfg`, and
  `IdempotentExitIsCovered` fails; the old process then ends at its next iteration, when it finds
  the newer number. It also fails if the process that was found crashes, or refuses its settings,
  between the scan and the exit: nothing looks again.
* The shim sends SIGKILL after 33 s (`StopHard`), which may hit a process between truncating and
  writing `mrseq` and leave it as in `enable_torn_mrseq`. `EnableAnswered` excepts this case.
* `main/main.go:90` does not look at whether its announcement was saved. If it was not, the file
  keeps the placeholder, or the error of the predecessor of the same number, while the process
  polls, until a save of the loop succeeds.
* `src/vendor/github.com/Azure/azure-extension-platform/pkg/seqno/seqno.go:48` prefers the newest file to the highest number, the shim and the reader of
  the settings do not. When an earlier number is written again and handed out, the shim's
  placeholder is for the highest number, and `main` runs and reports under the earlier one, with
  the settings of the highest (`misled`, and the exception in `LookupsAgree`).
* `main/schema.go:72` limits `maxCpuPercentage` to 100; written in another case it passes the
  schema, whatever its value, and every launch of VMWatch is then refused at `vmWatch.go:394`.
* `main/cmds.go:277` says that Healthy observed once is enough when the committed state is
  unknown; `NoGracePeriod` commits only at `numberOfProbes`, unless nothing is committed yet.
* `main/main.go:25` keeps the command so that VMWatch is shut down on a signal; between
  `AttemptTest` and `Start` the supervisor does not look at `shutdown`, so a VMWatch can be
  started after `KillOnSignal`. It ends with enable, as `ShutdownEndsVMWatch` shows.
* `main/cmds.go:319` says that the channel need not be read once VMWatch failed to execute;
  `ReceiveClosed` replaces the final error, which says why, by an unknown one, one iteration
  later. The status type stays error, as `GivenUpIsPublished` shows.

### Fairness

`HealthLoop!FairSpec`, and with the history variables `HFairSpec`, assumes weak fairness of the loop as a whole: its goroutine is scheduled
and every call in it returns, since the probe has a timeout of 30 s and the sleep is at most
one interval. `EnableProcesses!FairSpec` assumes weak fairness of each process (a hung process
has no step enabled in its loop, so nothing is assumed of it until it resumes), and of a shim
that waits for processes to end, which the code bounds by 33 seconds and SIGKILL.
`VMWatch!FairSpec` assumes weak fairness of each goroutine, of the two steps of `Wait`, of the
ticker and of the kernel's signal to an orphaned VMWatch; the back-off of several hours is part
of the supervisor and elapses. Nothing is assumed of the agent, of the time in
`EnableProcesses`, of crashes, of signals to enable, of VMWatch and its children, of the shim
that stops them, or of the application. `EndIsReported` says in its statement that children
which hold the output for ever delay the report for ever. `Responsive` assumes, in
its own statement, an application that settles and, for the status file, saves that
succeed again and again; `GivenUpIsPublished` assumes the latter too.

`HeartBeat` and `Configuration` have safety properties only and assume no fairness.

Deadlock is not checked in the other runs: every process may have ended.

## 4. Proofs

All theorems hold for arbitrary constants that satisfy the named assumptions of the modules:
any set of settings, answers and durations up to the timeout; any set of processes, up to ten
sequence numbers (one digit in `mrseq`, so that its write is not itself divisible), any
threshold; any number of cycles, attempts and ticks of VMWatch; any interval that the schema
accepts; any number of configurations, any VMWatch sections, hosts and launches.

| Theorem | Statement | Argument |
|---|---|---|
| `TypeCorrect` | `Spec => []TypeOK` | `TypeOK` is inductive: it bounds the counter below `numberOfProbes` between iterations, which needs that `Commit` resets exactly at the bound |
| `GraceCorrect` | `Spec => []InitializingIffGrace` | inductive together with `TypeOK`: leaving the grace period always commits, since the counter has reached the bound or the committed state has been emptied |
| `Refinement` | `HSpec => ImplementsVerdict` | the invariant relates counter and streak: they are equal, or the streak has reached its full length and the counter has wrapped; then the four cases of the decision are `Follow`, `Keep` or `Expire` |
| `LateWork` | `HSpec => []LateWorkBound` | after the signal, late work is 0 where a probe or a save may still follow, and the loop is in front of a shutdown test once it is 1 |
| `PromptHealthy` | `HSpec => []PromptHealthyNeverCondemned` | while all probes were prompt and healthy, elapsed time is bounded by the number of intervals begun, so that the `numberOfProbes`-th probe completes before the grace period does |
| `ReturnInTime` | `HSpec => []ReturnsInTime` | `LateTimeInv`: time goes by with shutdown set in one call only, the one under way when the signal comes or the probe ahead of the next test; once some has, the loop is in front of a test or has returned. The bound alone is not inductive: it would let a sleep follow a late probe |
| `GraceOverrun` | `HSpec => []GraceOverrunBound` | `OverrunInv`: behind a decision that kept Initializing the period has not ended, the rest of the interval takes it less than an interval past its end, and one probe comes before the next decision |
| `AcceptedSettings` | accepted settings have an interval of 5 to 60 s, 1 to 24 probes, a product of 5 to 240 s and a grace period of 5 to 14400 s | from the ranges of the schema, the defaults and the logical validation of the product; the computed grace period, which nothing validates, is that product |
| `DefaultGraceSuffices` | if the grace period is omitted, a prompt and healthy application is never condemned | from `PromptHealthy`: the computed grace period is the product |
| `EnableTypeCorrect` | `Spec => []TypeOK` | inductive |
| `MutualExclusion` | if scans do not fail, `Spec => []AtMostOneServing` | `ScanInv`: of two processes past their scan, one is in the other's `existingPids` (`Found`), and a process that serves has outlived everything it found (`Cleared`). Neither follows from mutual exclusion itself: before anyone serves, it is the order of the scans that decides |
| `StatusHasOneWriter` | if scans do not fail, `Spec => NobodyElseReports` | `MutualExclusion` leaves one process that saves at all, and it saves the file of its own number (`SavesOwn`); the placeholder is for a file that does not exist yet, by `ShimInv`, and no process that serves has it; another command reports when no process is left. No assumption on saves: any of them may fail |
| `PlaceholderSafe` | `Spec => []PlaceholderCoversNothing` | `ShimInv`: there is one shim at a time, and a process of the newest number was forked by a shim that saw or wrote the file, so that none is there while the file is missing. No assumption on overlap, crashes or scans |
| `NoRegress` | without overlapping starts, `Spec => SeqNumNeverRegresses` | `SeqInv`: the number a process read is still the recorded one when it compares, whoever serves has recorded its own, and the snapshot of `/proc` holds only processes of numbers recorded before. Crashes, hangs and failed scans are allowed |
| `CleanupKillsOlder` | without overlapping starts, `Spec => []KillsOnlyOlder` | from `SeqInv`: the snapshot is older than the comparison, but nobody of a newer number can have entered it |
| `ExitCovered` | without overlapping starts, failed scans, refused settings and crashes while killing or serving, `Spec => IdempotentExitIsCovered` | `CoverInv` adds that the snapshot is complete and that a serving process has the recorded number, unless the process that recorded a newer one is about to kill it; `SurviveInv` that whoever was found is still there: it has not been signalled, since only a killer or a stop signals and no killer is at work during another pre-check (`Spared`), so that it does not end by itself (`Present`). Starts may crash anywhere else |
| `SuccessionRefinement` | without overlapping starts and failed scans, `Spec => ImplementsSuccession` | `DutyInv`, the conjunction of `SeqInv` (whoever begins has recorded its own number, which is not lower than the recorded one), `ScanInv` (whoever begins has outlived the previous one) and `ShimInv` (the numbers in use are among those issued); then every step maps to a step of `Succession` or to a stutter. Crashes and hangs are allowed |
| `BeatTypeCorrect`, `PollingIsFresh` | `Spec => []TypeOK`, `Spec => []NoFalseTakeOver`, if enable compares within four seconds of its shim | `GapInv`: above 30 s iterations begin at multiples of the interval, so that the gap is the first multiple not below 300 s, at most 6 * 59; up to 30 s an iteration adds at most 30 s to a heartbeat not yet due |
| `VMWatchTypeCorrect` | `Spec => []TypeOK` | inductive with `CycleInv`: inside a cycle the cycle number is at most `MaxCycles` |
| `OneVMWatch` | `Spec => []AtMostOneVMWatch` | from `ProcInv`, below |
| `RunningReported` | `Spec => []AliveIsReportedRunning` | from `ProcInv`, below |
| `PairedWatchers` | `Spec => []WatchersPaired` | `PairInv` (waiter and monitor are started and ended together) with `CmdInv`, `WatchInv` and `AliveInv` of `ProcInv` |
| `BoundedAttempts` | `Spec => []AttemptsBounded` | `CountInv` bounds the attempts by those of the cycles before the current one (`Budget`) and the ones of the current cycle |
| `CleanStop` | `Spec => []StopIsClean` | the shim turns to VMWatch only when enable is gone, and without enable nothing starts VMWatch any more |
| `SupervisionRefinement` | `Spec => ImplementsSupervision` | `ProcInv` and `MemInv`: a cycle that no shutdown has cut short uses all its attempts, so that giving up means that all were made; then every step maps to a step of `Supervision` or to a stutter |
| `ConfigurationTypeCorrect` | `Spec => []TypeOK` | needs that the folder holds 0 up to the highest number and a newest file (`FolderInv`) and that no enable has a number that was not published (`NumberInv`) |
| `LimitsCorrect` | `Spec => []LimitsFollowConfiguration` | what the settings in use ask for is what a configuration of that number or a newer one asks for (`SettingsInv`); command line and slice ask for the same (`CommandInv`, `LaunchInv`), by lemmas on the defaults and on the arithmetic of the quotas |
| `BoundsHold` | `Spec => []LimitsWithinBounds` | same invariant, strengthened by the range test that every command line has passed; the schema is not used. An unknown version gets the option that every version knows |
| `PlaceholdersTakenUp` | `Spec => []PlaceholderTakenUp` | `PlaceholderInv`: a placeholder is for a number that is recorded or superseded, that misled an enable, or that of the boot under way; `FindsPlaced` shows that `FindSeqNum` then finds that number or a higher one, on a folder that has changed since the shim looked. Files may be written again and saves may fail |
| `LookupsAgree` | for every folder whose names are numbers, with any times: `status_file_path` and `settingsPath` are the highest number, and `FindSeqNum` without the environment is the same number if and only if no other file alone is the newest | from the definitions; stated of folders, not of behaviours, so that it says exactly when a file written again makes `main` differ from the other two |

`ProcInv` has four parts. `AliveInv`: a process is alive under enable only for the current
attempt, and only while the supervisor is between `Start` and its report of failure.
`NoticeInv`: from the announcement of an attempt to the report of its failure the loop
holds Running. `CmdInv`: in an attempt `vmWatchCommand` is the command of that attempt, so that
`Kill` and `Wait` concern its process. `WatchInv`: a waiter that has not finished belongs to a
supervisor that waits for it, and it finishes only when the process is reaped. Each is needed
for the step that leaves an attempt: that nothing is alive there follows from the waiter on
one path, and from the kill after failed limits on the other.

The assumption that scans do not fail is needed: with `ScanMayFail` a process finds nobody and
serves beside the old one, until the old one notices the newer number (`OldProcessesEnd`).

Every safety property of the passing runs is proved. Only model-checked are the liveness
properties: TLAPS has no proof rules for fairness that its backends can check, nor for
ENABLED. The assumptions of `NoRegress`, `CleanupKillsOlder`, `ExitCovered` and
`SuccessionRefinement` are needed, as the runs that are expected to fail and the remarks below
them show. That `mrseq` stays readable is not proved: it does not (`enable_torn_mrseq`).

## 5. Limits

* A save of the status file is atomic or fails; the rename in `Save` makes it so. Temporary
  files that a failure leaves behind are not modelled.
* The scan of `/proc` is one step. A process that starts during the scan is as one that
  starts after it.
* Process identifiers are not reused; the code's check of `/proc/<pid>/exe` before it kills is
  modelled by `SkipGone`.
* A hang is a polling process that stops; a hung pre-check is not modelled.
* Data races on `shutdown` are modelled by letting the write come between any two steps; a
  compiler that hoists the read out of the loop is not.
* A VMWatch that works ends when it is told to; a hung one needs SIGKILL. The recovery from
  panics in the supervisor is not modelled. A hung VMWatch that a crashed enable leaves behind
  may live beside that of the next enable: `VMWatch` is about one enable process.
* `HeartBeat` counts whole seconds, lets an iteration take no time but that of its probe and its
  sleep, and a timer of the runtime neither drift nor wake up late. It shows that five seconds of
  the minute are left in the worst case, and these are what delays of the machine may use up.
* In `Configuration` the agent runs no shim before the enable of the previous one has passed its
  pre-check, and a number that is written again has the same content as before. After a failed scan
  two processes serve; the module then follows the newer one only, and `EnableProcesses` both.
* `PlaceholderTakenUp` excepts enables that were misled, and with them a `.settings` file whose name
  is no number: 0 is then used, and no document says what should be. That an enable of number 0 does
  not write over a higher number is `SeqNumNeverRegresses`. The property says who takes the number
  up, not that the placeholder is replaced: that depends on saves that may fail.
* A placeholder that cannot be written ends the shim (`set -e`) before it forks; this is as if the
  agent had not run it.
* With cgroups v1 the code deletes the group when it returns from the assignment; this fails as
  long as VMWatch is inside, and is left out for that reason.
* `Pdeathsig` is bound to the thread that started VMWatch; a runtime that ends this thread
  early is covered as a VMWatch that ends by itself.

### Not modelled

* The remaining arguments and the environment of VMWatch, and the lists and maps of its settings:
  they are passed on without a decision. JSON, decryption and the layout of the status.
* Telemetry and log text, redaction, the handler environment and the manifest, the data directory
  of install and uninstall: plain input, output and text, without state that a modelled part
  depends on, except the age of `handler.log`, which is modelled.
* The web server of the integration tests: the application of the model may answer anything.

## 6. Plan

1. Done: settings, health loop, its abstract specification and proofs; enable processes, their
   abstract specification, and proofs with and without overlapping starts; heartbeat and
   staleness threshold; supervision of VMWatch, its abstract specification and the refinement; the
   stop by the shim; choice of number and settings, limits of VMWatch, and proofs.
2. Left, in this order: what `Succession` still promises when starts overlap (mutual exclusion
   and the newest settings, without the order of the numbers), as a second abstract specification
   and refinement; the full health loop shown to implement the skeleton in `VMWatch`; the
   composition of several enable processes each with its VMWatch, in which the VMWatch that a
   killed or crashed enable leaves behind meets that of its successor; the recovery from panics in
   the supervisor.
