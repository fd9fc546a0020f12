--------------------------- MODULE EnableProcesses ---------------------------
(***************************************************************************)
(* The enable processes of one VM.  The shim forks every enable into the   *)
(* background, so the process of an earlier enable is usually alive when   *)
(* the next one starts, and nothing but mrseq, /proc, signals and the age  *)
(* of handler.log coordinates them: enablePre and checkIdempotency         *)
(* (main/cmds.go), killProcesses (main/process.go), main (main/main.go)    *)
(* and misc/applicationhealth-shim.  What a process computes while it      *)
(* polls is the subject of HealthLoop and is left out here.                *)
(*                                                                         *)
(* A member of Proc is one invocation of enable and is used once.  Its     *)
(* local variables are functions of Proc; a process that ends loses them.  *)
(***************************************************************************)
EXTENDS Integers, FiniteSets

CONSTANTS
  Proc,          \* invocations of enable
  NoProc,        \* no process
  MaxSeq,        \* bound: the last sequence number the agent issues
  InvalidSeqs,   \* the sequence numbers whose settings are refused
  MaxStops,      \* bound: non-enable commands the agent issues
  StaleAge,      \* age of handler.log, in ticks, from which it is stale
  Overlap,       \* enable may start while another one is still starting
  CrashAt,       \* where a process may die at any time (OOM, reboot, SIGKILL)
  MayHang,       \* a polling process may stop making progress
  ScanMayFail    \* /proc may be unreadable

\* fmt.Sprintf("%v") of these takes one byte: see WriteSeqNum.
ASSUME SeqAssumption == MaxSeq \in 0..9
ASSUME InvalidAssumption == InvalidSeqs \subseteq 0..MaxSeq
ASSUME StopsAssumption == MaxStops \in Nat
ASSUME AgeAssumption == StaleAge \in Nat \ {0}
ASSUME NoProcAssumption == NoProc \notin Proc
ASSUME FlagsAssumption == {Overlap, MayHang, ScanMayFail} \subseteq BOOLEAN

VARIABLES
  pc, seqNum, mrSeqNum, existingPids, killing, logFresh, shutdown,  \* per process
  config,      \* per process: the number of the settings it parsed
  hung,        \* the processes that make no progress
  mrseq,       \* the number in the mrseq file; 0 while there is no file
  torn,        \* the mrseq file is truncated and not yet written again
  status,      \* N.status of every sequence number
  logAge,      \* ticks since the last write to handler.log, up to StaleAge
  pollAge,     \* ticks since the last write of a serving process
  goal,        \* the newest sequence number the agent issued
  stops,       \* non-enable commands issued so far
  stopping     \* a non-enable shim is terminating the enable processes

local == <<seqNum, mrSeqNum, existingPids, killing, logFresh, shutdown, config>>
files == <<mrseq, torn, status>>
clock == <<logAge, pollAge>>
agent == <<goal, stops, stopping>>
vars == <<pc, local, hung, files, clock, agent>>

-----------------------------------------------------------------------------
Seqs == 0..MaxSeq
StatusFile == {"none", "transitioning", "success", "error"}

\* The shim before it forks; the binary during its pre-check; then the rest.
InShim == {"shim", "placeholder"}
Starting == {"boot", "read", "scan", "decide", "killStale", "truncate", "write", "killOld"}
Polling == {"top", "poll", "report", "sleep"}
Serving == {"announce", "parse", "fail"} \cup Polling
PCs == {"unborn", "dead"} \cup InShim \cup Starting \cup Serving

ASSUME CrashAssumption == CrashAt \subseteq Starting \cup Serving

\* isAHEProcess: the binary runs, whatever it is doing.
Alive(p) == pc[p] \in Starting \cup Serving
Responsive(p) == pc[p] \in Polling /\ p \notin hung

Init ==
  /\ pc = [p \in Proc |-> "unborn"]
  /\ seqNum = [p \in Proc |-> 0] /\ mrSeqNum = [p \in Proc |-> 0]
  /\ existingPids = [p \in Proc |-> {}] /\ killing = [p \in Proc |-> NoProc]
  /\ logFresh = [p \in Proc |-> FALSE] /\ shutdown = [p \in Proc |-> FALSE]
  /\ config = [p \in Proc |-> 0]
  /\ hung = {}
  /\ mrseq = 0 /\ torn = FALSE
  /\ status = [s \in Seqs |-> "none"]
  /\ logAge = StaleAge /\ pollAge = StaleAge
  /\ goal = 0 /\ stops = 0 /\ stopping = FALSE

Goto(p, l) == pc' = [pc EXCEPT ![p] = l]

\* reportStatus of the process's own number.  A save that fails is logged, at
\* most, and leaves what the file said before.
Save(p, t) ==
  \/ status' = [status EXCEPT ![seqNum[p]] = t]
  \/ UNCHANGED status

\* The processes in D end, and with them all they had in memory.
Die(D) ==
  /\ pc' = [p \in Proc |-> IF p \in D THEN "dead" ELSE pc[p]]
  /\ seqNum' = [p \in Proc |-> IF p \in D THEN 0 ELSE seqNum[p]]
  /\ mrSeqNum' = [p \in Proc |-> IF p \in D THEN 0 ELSE mrSeqNum[p]]
  /\ existingPids' = [p \in Proc |-> IF p \in D THEN {} ELSE existingPids[p]]
  /\ killing' = [p \in Proc |-> IF p \in D THEN NoProc ELSE killing[p]]
  /\ logFresh' = [p \in Proc |-> IF p \in D THEN FALSE ELSE logFresh[p]]
  /\ shutdown' = [p \in Proc |-> IF p \in D THEN FALSE ELSE shutdown[p]]
  /\ config' = [p \in Proc |-> IF p \in D THEN 0 ELSE config[p]]
  /\ hung' = hung \ D

(* SIGTERM to the processes in T: the signal goroutine of main sets        *)
(* shutdown; before main has subscribed, the signal ends the process.      *)
Terminate(T) ==
  /\ pc' = [p \in Proc |-> IF p \in T /\ pc[p] = "boot" THEN "dead" ELSE pc[p]]
  /\ seqNum' = [p \in Proc |-> IF p \in T /\ pc[p] = "boot" THEN 0 ELSE seqNum[p]]
  /\ logFresh' = [p \in Proc |-> logFresh[p] /\ ~(p \in T /\ pc[p] = "boot")]
  /\ shutdown' = [p \in Proc |-> shutdown[p] \/ (p \in T /\ pc[p] # "boot")]

-----------------------------------------------------------------------------
(* The agent and the shim.  The agent runs one shim at a time, to its end; *)
(* a shim that enables ends when it has forked the binary.                 *)

AgentIdle == ~stopping /\ \A p \in Proc : pc[p] \notin InShim

\* A new configuration: N.settings with the next sequence number.
Publish ==
  /\ AgentIdle
  /\ goal < MaxSeq
  /\ goal' = goal + 1
  /\ UNCHANGED <<pc, local, hung, files, clock, stops, stopping>>

\* The agent runs "shim enable" and names the sequence number in the
\* environment; it may repeat an earlier one.  The shim notes how old
\* handler.log is and then redirects its own output, and that of its child,
\* into it.
StartShim(p) ==
  /\ AgentIdle
  /\ pc[p] = "unborn"
  /\ Overlap \/ \A q \in Proc : pc[q] \notin Starting
  /\ Goto(p, "shim")
  /\ \E s \in 0..goal : seqNum' = [seqNum EXCEPT ![p] = s]
  /\ logFresh' = [logFresh EXCEPT ![p] = logAge < StaleAge]
  /\ logAge' = 0
  /\ UNCHANGED <<mrSeqNum, existingPids, killing, shutdown, config, hung, files, pollAge, agent>>

\* Mutant: the status file that is looked for is that of the enabled number.
TestStatus_OwnNumber(p) ==
  /\ pc[p] = "shim"
  /\ Goto(p, IF status[seqNum[p]] = "none" THEN "placeholder" ELSE "boot")
  /\ UNCHANGED <<local, hung, files, clock, agent>>

\* write_status: if the newest sequence number has no status file, the shim
\* writes a placeholder.
TestStatus(p) ==
  /\ pc[p] = "shim"
  /\ Goto(p, IF status[goal] = "none" THEN "placeholder" ELSE "boot")
  /\ UNCHANGED <<local, hung, files, clock, agent>>

WritePlaceholder(p) ==
  /\ pc[p] = "placeholder"
  /\ status' = [status EXCEPT ![goal] = "transitioning"]
  /\ Goto(p, "boot")
  /\ UNCHANGED <<local, hung, mrseq, torn, clock, agent>>

\* main subscribes to SIGTERM.
Boot(p) ==
  /\ pc[p] = "boot"
  /\ Goto(p, "read")
  /\ UNCHANGED <<local, hung, files, clock, agent>>

-----------------------------------------------------------------------------
(* enablePre. *)

\* Mutant: the recorded number is never found.
ReadSeqNum_NotFound(p) ==
  /\ pc[p] = "read"
  /\ mrSeqNum' = [mrSeqNum EXCEPT ![p] = 0]
  /\ Goto(p, "scan")
  /\ UNCHANGED <<seqNum, existingPids, killing, logFresh, shutdown, config, hung, files, clock, agent>>

\* GetCurrentSequenceNumber; an empty file is an error and ends the process.
ReadSeqNum(p) ==
  /\ pc[p] = "read"
  /\ \/ /\ torn
        /\ Die({p})
     \/ /\ ~torn
        /\ mrSeqNum' = [mrSeqNum EXCEPT ![p] = mrseq]
        /\ Goto(p, "scan")
        /\ UNCHANGED <<seqNum, existingPids, killing, logFresh, shutdown, config, hung>>
  /\ UNCHANGED <<files, clock, agent>>

\* Mutant: the scan overlooks processes that are still starting.
FindExistingProcesses_OnlyServing(p) ==
  /\ pc[p] = "scan"
  /\ existingPids' = [existingPids EXCEPT ![p] = {q \in Proc \ {p} : pc[q] \in Serving}]
  /\ Goto(p, "decide")
  /\ UNCHANGED <<seqNum, mrSeqNum, killing, logFresh, shutdown, config, hung, files, clock, agent>>

\* findExistingProcesses; a failed scan only warns and finds nobody.
FindExistingProcesses(p) ==
  /\ pc[p] = "scan"
  /\ \/ existingPids' = [existingPids EXCEPT ![p] = {q \in Proc \ {p} : Alive(q)}]
     \/ ScanMayFail /\ UNCHANGED existingPids
  /\ Goto(p, "decide")
  /\ UNCHANGED <<seqNum, mrSeqNum, killing, logFresh, shutdown, config, hung, files, clock, agent>>

SameSeq(p) == seqNum[p] = mrSeqNum[p]
Others(p) == existingPids[p] # {}

\* Mutant: a running process is taken for one of the same configuration.
IdempotentExit_AnySeq(p) ==
  /\ pc[p] = "decide"
  /\ Others(p) /\ logFresh[p]
  /\ Die({p})
  /\ UNCHANGED <<files, clock, agent>>

\* checkIdempotency says that a healthy process is already running.
IdempotentExit(p) ==
  /\ pc[p] = "decide"
  /\ SameSeq(p) /\ Others(p) /\ logFresh[p]
  /\ Die({p})
  /\ UNCHANGED <<files, clock, agent>>

\* checkIdempotency finds the running process unresponsive.
TakeOver(p) ==
  /\ pc[p] = "decide"
  /\ SameSeq(p) /\ Others(p) /\ ~logFresh[p]
  /\ Goto(p, "killStale")
  /\ UNCHANGED <<local, hung, files, clock, agent>>

\* Mutant: the same sequence number is rejected as well.
RejectOldSeqNum_OrEqual(p) ==
  /\ pc[p] = "decide"
  /\ mrSeqNum[p] # 0 /\ seqNum[p] <= mrSeqNum[p]
  /\ Die({p})
  /\ UNCHANGED <<files, clock, agent>>

RejectOldSeqNum(p) ==
  /\ pc[p] = "decide"
  /\ mrSeqNum[p] # 0 /\ seqNum[p] < mrSeqNum[p]
  /\ Die({p})
  /\ UNCHANGED <<files, clock, agent>>

\* Mutant: an old sequence number is not rejected.
Proceed_AnySeq(p) ==
  /\ pc[p] = "decide"
  /\ ~(SameSeq(p) /\ Others(p))
  /\ Goto(p, "truncate")
  /\ UNCHANGED <<local, hung, files, clock, agent>>

Proceed(p) ==
  /\ pc[p] = "decide"
  /\ ~(SameSeq(p) /\ Others(p))
  /\ ~(mrSeqNum[p] # 0 /\ seqNum[p] < mrSeqNum[p])
  /\ Goto(p, "truncate")
  /\ UNCHANGED <<local, hung, files, clock, agent>>

\* SetSequenceNumber is ioutil.WriteFile: it truncates the file, then writes.
\* If either call fails, enablePre fails: the same as a Crash at that point.
TruncateSeqFile(p) ==
  /\ pc[p] = "truncate"
  /\ torn' = TRUE
  /\ Goto(p, "write")
  /\ UNCHANGED <<local, hung, mrseq, status, clock, agent>>

\* Mutant: off by one.
WriteSeqNum_PlusOne(p) ==
  /\ pc[p] = "write"
  /\ mrseq' = seqNum[p] + 1 /\ torn' = FALSE
  /\ Goto(p, IF seqNum[p] > mrSeqNum[p] /\ Others(p) THEN "killOld" ELSE "announce")
  /\ UNCHANGED <<local, hung, status, clock, agent>>

WriteSeqNum(p) ==
  /\ pc[p] = "write"
  /\ mrseq' = seqNum[p] /\ torn' = FALSE
  /\ Goto(p, IF seqNum[p] > mrSeqNum[p] /\ Others(p) THEN "killOld" ELSE "announce")
  /\ UNCHANGED <<local, hung, status, clock, agent>>

-----------------------------------------------------------------------------
(* killProcesses, one process after the other. *)

Killing(p) == pc[p] \in {"killStale", "killOld"}

\* One process is dealt with; after the last one enablePre goes on.
Remove(p, q) ==
  /\ existingPids' = [existingPids EXCEPT ![p] = @ \ {q}]
  /\ killing' = [killing EXCEPT ![p] = NoProc]

\* The PID no longer belongs to the binary: skip it.
SkipGone(p, q) ==
  /\ Killing(p) /\ killing[p] = NoProc /\ q \in existingPids[p]
  /\ ~Alive(q)
  /\ Remove(p, q)
  /\ UNCHANGED <<pc, seqNum, mrSeqNum, logFresh, shutdown, config, hung, files, clock, agent>>

SendSigTerm(p, q) ==
  /\ Killing(p) /\ killing[p] = NoProc /\ q \in existingPids[p]
  /\ Alive(q)
  /\ Terminate({q})
  /\ killing' = [killing EXCEPT ![p] = q]
  /\ UNCHANGED <<mrSeqNum, existingPids, config, hung, files, clock, agent>>

\* Signal 0 fails: q has exited.
SeeExit(p, q) ==
  /\ Killing(p) /\ killing[p] = q
  /\ ~Alive(q)
  /\ Remove(p, q)
  /\ UNCHANGED <<pc, seqNum, mrSeqNum, logFresh, shutdown, config, hung, files, clock, agent>>

\* Mutant: after five seconds the killer gives up instead of escalating.
SendSigKill_GivesUp(p, q) ==
  /\ Killing(p) /\ killing[p] = q
  /\ Alive(q)
  /\ Remove(p, q)
  /\ UNCHANGED <<pc, seqNum, mrSeqNum, logFresh, shutdown, config, hung, files, clock, agent>>

\* Five seconds have passed: SIGKILL.  From here q executes nothing more,
\* even if it takes the kernel longer than two seconds to reap it.
SendSigKill(p, q) ==
  /\ Killing(p) /\ killing[p] = q
  /\ Alive(q)
  /\ Die({q})
  /\ UNCHANGED <<files, clock, agent>>

KillsDone(p) ==
  /\ Killing(p) /\ killing[p] = NoProc /\ ~Others(p)
  /\ Goto(p, IF pc[p] = "killStale" THEN "truncate" ELSE "announce")
  /\ UNCHANGED <<local, hung, files, clock, agent>>

-----------------------------------------------------------------------------
(* main after the pre-check, and the loop of enable. *)

Announce(p) ==
  /\ pc[p] = "announce"
  /\ Save(p, "transitioning")
  /\ logAge' = 0 /\ pollAge' = 0
  /\ Goto(p, "parse")
  /\ UNCHANGED <<local, hung, mrseq, torn, agent>>

\* Mutant: the first settings in the config folder are used, not the last.
ParseSettings_First(p) ==
  /\ pc[p] = "parse"
  /\ config' = [config EXCEPT ![p] = 0]
  /\ Goto(p, IF 0 \in InvalidSeqs THEN "fail" ELSE "top")
  /\ UNCHANGED <<seqNum, mrSeqNum, existingPids, killing, logFresh, shutdown, hung, files, clock, agent>>

\* parseAndValidateSettings accepts or refuses the settings with the highest
\* number in the config folder, whatever the process's own number is.
ParseSettings(p) ==
  /\ pc[p] = "parse"
  /\ config' = [config EXCEPT ![p] = goal]
  /\ Goto(p, IF goal \in InvalidSeqs THEN "fail" ELSE "top")
  /\ UNCHANGED <<seqNum, mrSeqNum, existingPids, killing, logFresh, shutdown, hung, files, clock, agent>>

\* Mutant: the loop does not look for a newer sequence number.
CheckSuperseded_Never(p) ==
  /\ pc[p] = "top" /\ p \notin hung
  /\ Goto(p, "poll")
  /\ UNCHANGED <<local, hung, files, clock, agent>>

\* A newer sequence number was recorded: leave, without touching the status.
CheckSuperseded(p) ==
  /\ pc[p] = "top" /\ p \notin hung
  /\ \/ /\ ~torn /\ seqNum[p] < mrseq
        /\ Die({p})
     \/ /\ torn \/ seqNum[p] >= mrseq
        /\ Goto(p, "poll")
        /\ UNCHANGED <<local, hung>>
  /\ UNCHANGED <<files, clock, agent>>

\* The probe, and the shutdown test behind it.
Poll(p) ==
  /\ pc[p] = "poll" /\ p \notin hung
  /\ Goto(p, IF shutdown[p] THEN "fail" ELSE "report")
  /\ UNCHANGED <<local, hung, files, clock, agent>>

Report(p) ==
  /\ pc[p] = "report" /\ p \notin hung
  /\ Save(p, "success")
  /\ Goto(p, "sleep")
  /\ UNCHANGED <<local, hung, mrseq, torn, clock, agent>>

Sleep(p) ==
  /\ pc[p] = "sleep" /\ p \notin hung
  /\ Goto(p, IF shutdown[p] THEN "fail" ELSE "top")
  /\ UNCHANGED <<local, hung, files, clock, agent>>

\* enable returned an error: main reports it and exits.
Fail(p) ==
  /\ pc[p] = "fail"
  /\ Save(p, "error")
  /\ Die({p})
  /\ UNCHANGED <<mrseq, torn, clock, agent>>

-----------------------------------------------------------------------------
(* The other commands (disable, update, ...): the shim terminates every    *)
(* enable process before it runs the command.                              *)

\* pkill: SIGTERM to every enable process.
StopAll ==
  /\ AgentIdle
  /\ stops < MaxStops
  /\ stopping' = TRUE /\ stops' = stops + 1
  /\ Terminate({p \in Proc : Alive(p)})
  /\ UNCHANGED <<mrSeqNum, existingPids, killing, config, hung, files, clock, goal>>

\* After 33 seconds, pkill -9.  The first pkill has also ended the tee that
\* a process logs into, so that its next log line may end it any time sooner.
\* Nothing keeps either from a process that is about to write mrseq.
StopHard(p) ==
  /\ stopping
  /\ Alive(p)
  /\ Die({p})
  /\ UNCHANGED <<files, clock, agent>>

\* The command itself does nothing but report that it succeeded, or, if it
\* is install or uninstall, not even that.  If the last process ends right
\* before pkill -9, that fails and with it the shim, before it writes anything.
StopDone ==
  /\ stopping
  /\ \A p \in Proc : ~Alive(p)
  /\ stopping' = FALSE
  /\ \/ logAge' = 0 /\ status' = [status EXCEPT ![goal] = "success"]
     \/ logAge' = 0 /\ UNCHANGED status
     \/ UNCHANGED <<logAge, status>>
  /\ UNCHANGED <<pc, local, hung, mrseq, torn, pollAge, goal, stops>>

-----------------------------------------------------------------------------
(* Failures and time. *)

Crash(p) ==
  /\ pc[p] \in CrashAt
  /\ Die({p})
  /\ UNCHANGED <<files, clock, agent>>

Hang(p) ==
  /\ MayHang /\ Responsive(p)
  /\ hung' = hung \cup {p}
  /\ UNCHANGED <<pc, local, files, clock, agent>>

Resume(p) ==
  /\ p \in hung
  /\ hung' = hung \ {p}
  /\ UNCHANGED <<pc, local, files, clock, agent>>

(* A tick is minutes: nobody is starting meanwhile.  A responsive process  *)
(* writes a heartbeat more often than handler.log takes to become stale.   *)
Tick ==
  /\ \A p \in Proc : pc[p] \in {"unborn", "dead"} \cup Polling
  /\ ~stopping
  /\ LET older(age) == IF \E p \in Proc : Responsive(p) THEN 0
                       ELSE IF age < StaleAge THEN age + 1 ELSE age
     IN  logAge' = older(logAge) /\ pollAge' = older(pollAge)
  /\ UNCHANGED <<pc, local, hung, files, agent>>

-----------------------------------------------------------------------------
Step(p) ==
  \/ TestStatus(p) \/ WritePlaceholder(p) \/ Boot(p)
  \/ ReadSeqNum(p) \/ FindExistingProcesses(p)
  \/ IdempotentExit(p) \/ TakeOver(p) \/ RejectOldSeqNum(p) \/ Proceed(p)
  \/ TruncateSeqFile(p) \/ WriteSeqNum(p)
  \/ \E q \in Proc : SkipGone(p, q) \/ SendSigTerm(p, q) \/ SeeExit(p, q) \/ SendSigKill(p, q)
  \/ KillsDone(p)
  \/ Announce(p) \/ ParseSettings(p)
  \/ CheckSuperseded(p) \/ Poll(p) \/ Report(p) \/ Sleep(p) \/ Fail(p)

Agent == Publish \/ (\E p \in Proc : StartShim(p)) \/ StopAll

Stop == (\E p \in Proc : StopHard(p)) \/ StopDone

Trouble == \E p \in Proc : Crash(p) \/ Hang(p) \/ Resume(p)

Next == (\E p \in Proc : Step(p)) \/ Agent \/ Stop \/ Trouble \/ Tick

Spec == Init /\ [][Next]_vars

(* Every process that is not hung is scheduled, and a shim that waits for  *)
(* processes to end goes on; nothing is assumed of the agent or of time.   *)
FairSpec == Spec /\ (\A p \in Proc : WF_vars(Step(p))) /\ WF_vars(Stop)

-----------------------------------------------------------------------------
(* Properties. *)

TypeOK ==
  /\ pc \in [Proc -> PCs]
  /\ seqNum \in [Proc -> Seqs] /\ mrSeqNum \in [Proc -> Seqs]
  /\ existingPids \in [Proc -> SUBSET Proc]
  /\ killing \in [Proc -> Proc \cup {NoProc}]
  /\ logFresh \in [Proc -> BOOLEAN] /\ shutdown \in [Proc -> BOOLEAN]
  /\ config \in [Proc -> Seqs]
  /\ hung \subseteq Proc
  /\ mrseq \in Seqs /\ torn \in BOOLEAN
  /\ status \in [Seqs -> StatusFile]
  /\ logAge \in 0..StaleAge /\ pollAge \in 0..StaleAge
  /\ goal \in Seqs /\ stops \in 0..MaxStops /\ stopping \in BOOLEAN

(***************************************************************************)
(* Two processes never serve at the same time, however their starts, kills *)
(* and crashes interleave: whoever scans /proc later finds the other one,  *)
(* and leaves its pre-check only by exiting or after the other is gone.    *)
(***************************************************************************)
AtMostOneServing ==
  \A p, q \in Proc : pc[p] \in Serving /\ pc[q] \in Serving => p = q

(***************************************************************************)
(* What a process that serves has reported stays until it reports again:   *)
(* no other process saves the status file of its sequence number, neither  *)
(* a terminated predecessor its error, nor the shim of a later enable a    *)
(* placeholder, nor another command its result, whichever saves fail.      *)
(***************************************************************************)
NobodyElseReports ==
  [][\A p \in Proc : pc[p] \in Serving /\ pc'[p] = pc[p]
       => status'[seqNum[p]] = status[seqNum[p]]]_vars

(***************************************************************************)
(* The placeholder of the shim covers no status that a process has         *)
(* reported: between the test for the file and its writing nobody else     *)
(* saves it, although processes of earlier enables keep saving theirs.     *)
(***************************************************************************)
PlaceholderCoversNothing ==
  \A p \in Proc : pc[p] = "placeholder" => status[goal] = "none"

(***************************************************************************)
(* The recorded sequence number never goes back: enablePre rejects an      *)
(* enable whose number is lower than the recorded one.                     *)
(***************************************************************************)
SeqNumNeverRegresses == [][mrseq' >= mrseq]_vars

(***************************************************************************)
(* The cleanup behind a new sequence number kills processes of previous    *)
(* sequence numbers, and no others.                                        *)
(***************************************************************************)
KillsOnlyOlder ==
  \A p, q \in Proc : pc[p] = "killOld" /\ killing[p] = q /\ Alive(q) => seqNum[q] < seqNum[p]

(***************************************************************************)
(* An enable that exits because "another instance is already running with  *)
(* the same sequence number" leaves one behind: whatever it found in /proc *)
(* still runs when it decides, under that number, unless a stop is ending  *)
(* everybody.  A process that was told to terminate is no such instance,   *)
(* nor is one that a newer sequence number has superseded.                 *)
(***************************************************************************)
IdempotentExitIsCovered ==
  [][\A p \in Proc : IdempotentExit(p) =>
       \A q \in existingPids[p] :
         /\ Alive(q) => seqNum[q] = seqNum[p]
         /\ Alive(q) \/ stopping]_vars

(***************************************************************************)
(* The age of handler.log that an idempotent exit relies on is the age of  *)
(* the previous process's last write: an enable does not exit in favour of *)
(* processes that hang and have written nothing for StaleAge.              *)
(***************************************************************************)
FreshMeansAlive ==
  [][\A p \in Proc : IdempotentExit(p) /\ existingPids[p] \subseteq hung
       => pollAge < StaleAge]_vars

(***************************************************************************)
(* A fresh start finds the correct sequence state: mrseq is unreadable     *)
(* only while some process is between truncating and writing it.           *)
(***************************************************************************)
SeqFileReadable == torn => \E p \in Proc : pc[p] = "write"

\* The process in service, as its number and its settings show it.
Unread == -1
Service ==
  {[who |-> p, number |-> seqNum[p],
    settings |-> IF pc[p] \in {"announce", "parse"} THEN Unread ELSE config[p]] :
     p \in {q \in Proc : pc[q] \in Serving}}

Promise == INSTANCE Succession WITH
  Instance <- Proc, issued <- goal, recorded <- mrseq, service <- Service

(***************************************************************************)
(* The processes implement Succession: with mrseq, a snapshot of /proc and *)
(* signals they hand the service over as if there were one supervisor.     *)
(* The next one begins only when the previous one is out of it, never      *)
(* under a number lower than one recorded before, and reads the newest     *)
(* settings, whatever it was started for.                                  *)
(***************************************************************************)
ImplementsSuccession == Promise!Spec

(***************************************************************************)
(* An enable of valid settings is answered: some process comes to poll     *)
(* under its sequence number and with the settings of that number, which   *)
(* it looks up by itself, unless the agent moves on to a newer one, stops  *)
(* the extension, or has stopped it in the middle of writing mrseq.        *)
(***************************************************************************)
EnableAnswered ==
  \A s \in Seqs \ InvalidSeqs :
    (\E p \in Proc : pc[p] \notin {"unborn", "dead"} /\ seqNum[p] = s)
      ~> (goal > s \/ stopping \/ ~SeqFileReadable
          \/ \E p \in Proc : pc[p] \in Polling /\ seqNum[p] = s /\ config[p] = s)

(***************************************************************************)
(* A process that was told to terminate, or that a newer sequence number   *)
(* has superseded, ends, unless it hangs.                                  *)
(***************************************************************************)
OldProcessesEnd ==
  \A p \in Proc :
    (shutdown[p] \/ (pc[p] \in Polling /\ seqNum[p] < mrseq)) ~> (pc[p] = "dead" \/ p \in hung)

=============================================================================
