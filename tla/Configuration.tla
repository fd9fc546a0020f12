---------------------------- MODULE Configuration ----------------------------
(***************************************************************************)
(* From a published configuration to the VMWatch process that runs under   *)
(* it.  The VM agent writes <n>.settings and runs the shim; the shim       *)
(* writes a placeholder status and forks enable; enable finds out its      *)
(* number, passes its pre-check, announces itself, reads the settings, and *)
(* launches VMWatch, again and again, under the limits they give.          *)
(*                                                                         *)
(* The agent waits for the shim, not for the enable it forks, so that the  *)
(* folder may change at any later point.  Enables that overlap, crash or   *)
(* hang are the matter of EnableProcesses, and the supervision of VMWatch  *)
(* is that of module VMWatch: here a new enable begins when the previous   *)
(* one has passed its pre-check, and an attempt is its launch.             *)
(***************************************************************************)
EXTENDS SettingsFolder, ResourceLimits

CONSTANTS
  MaxNumber,    \* bound: highest sequence number the agent publishes
  MaxDisturbances,  \* bound: files written again, or left, out of order
  Contents,     \* VMWatch sections the agent may publish
  Hosts,        \* hosts enable may run on
  MaxAttempts   \* launches of VMWatch by one enable

\* kind: what limits VMWatch; version: of systemd; tolerant: a dev container
\* that allows VMWatch to run without limits.
HostType ==
  [kind: {"systemd", "cgroup2", "cgroup1"}, version: Nat, tolerant: BOOLEAN]

ASSUME NumberAssumption == MaxNumber \in Nat
ASSUME DisturbancesAssumption == MaxDisturbances \in Nat
ASSUME ContentsAssumption == Contents \subseteq Section
ASSUME HostsAssumption == Hosts \subseteq HostType
ASSUME AttemptsAssumption == MaxAttempts \in Nat

VARIABLES
  host,      \* the host, fixed
  folder,    \* modification times of the .settings files
  content,   \* the VMWatch section in every one of them
  latest,    \* the number the agent wrote last
  disturbances,  \* how many files were written again, or left, out of order
  mrseq,     \* number in the file mrseq
  status,    \* the status file of every number: none, the shim's, or enable's
  boot,      \* the forked enable up to the end of its pre-check
  proc,      \* the enable that passed its pre-check
  attempt,   \* the launch of VMWatch it is engaged in
  command,   \* the command line of that launch
  vmwatch,   \* where VMWatch runs: nowhere, under no limits, scope or slice
  slice,     \* limits of the cgroup vmwatch.slice
  failure,   \* why the last launch failed
  misled     \* history: numbers with a placeholder of a shim whose enable
             \* was told, or found in the folder, another one

agentVars == <<folder, content, latest, disturbances>>
launchVars == <<attempt, command, vmwatch, slice, failure>>
vars == <<host, agentVars, mrseq, status, boot, misled, proc, launchVars>>

Numbers == 0..MaxNumber
NoCommand == [property |-> "none", limits |-> Unlimited, declared |-> 0]
NoBoot == [pc |-> "idle", placed |-> 0, env |-> NoNumber, seq |-> 0]
NoProc == [pc |-> "off", seq |-> 0, settings |-> [enabled |-> FALSE,
           memoryLimitInBytes |-> Omitted, maxCpuPercentage |-> Omitted], attempts |-> 0]

Init ==
  /\ host \in Hosts
  /\ folder = [n \in {} |-> 0] /\ content = [n \in {} |-> 0]
  /\ latest = NoNumber /\ disturbances = 0 /\ misled = {}
  /\ mrseq = 0
  /\ status = [n \in Numbers |-> "none"]
  /\ boot = NoBoot
  /\ proc = NoProc
  /\ attempt = "none" /\ command = NoCommand /\ vmwatch = "nowhere"
  /\ slice = Unlimited /\ failure = "none"

-----------------------------------------------------------------------------
(* The VM agent and the folder. *)

Extend(f, n, v) == [k \in DOMAIN f \cup {n} |-> IF k = n THEN v ELSE f[k]]

\* <n>.settings is written, at the time of the newest file or one tick later.
WriteSettings(n) ==
  LET now == IF DOMAIN folder = {} THEN 0 ELSE folder[CHOOSE f \in Newest(folder) : TRUE]
  IN  \E t \in {now, now + 1} : folder' = Extend(folder, n, t)

\* A new configuration has the next number.
Publish(s) ==
  LET n == status_file_path(folder) + 1
  IN  /\ n \in Numbers
      /\ WriteSettings(n)
      /\ content' = Extend(content, n, s)
      /\ latest' = n
      /\ UNCHANGED <<host, disturbances, mrseq, status, boot, misled, proc, launchVars>>

\* A number of before is written again: "the highest sequence number may be
\* incorrect".  It still stands for the same configuration.
Rewrite(n) ==
  /\ disturbances < MaxDisturbances
  /\ disturbances' = disturbances + 1
  /\ WriteSettings(n)
  /\ latest' = n
  /\ UNCHANGED <<host, content, mrseq, status, boot, misled, proc, launchVars>>

\* Somebody leaves a .settings file there whose name is no number.
Clutter ==
  /\ NoNumber \notin DOMAIN folder /\ DOMAIN folder # {}
  /\ disturbances < MaxDisturbances
  /\ disturbances' = disturbances + 1
  /\ folder' = Extend(folder, NoNumber, 1 + folder[CHOOSE f \in Newest(folder) : TRUE])
  /\ UNCHANGED <<host, content, latest, mrseq, status, boot, misled, proc, launchVars>>

\* The agent runs the shim: a placeholder unless there is a status, and the
\* fork.  The agent may pass in the environment the number it wrote last.
RunShim(env) ==
  /\ boot.pc = "idle"
  /\ status_file_path(folder) # NoNumber
  /\ env \in {NoNumber, latest}
  /\ LET n == status_file_path(folder)
     IN  status' = IF status[n] = "none" THEN [status EXCEPT ![n] = "placeholder"] ELSE status
  /\ boot' = [pc |-> "find", placed |-> status_file_path(folder), env |-> env, seq |-> 0]
  /\ UNCHANGED <<host, agentVars, misled, mrseq, proc, launchVars>>

-----------------------------------------------------------------------------
(* enable, up to the loop. *)

\* The shim's number is neither in the environment nor that of the newest file.
Misleading ==
  IF boot.env # NoNumber THEN boot.env # boot.placed
  ELSE \/ NoNumber \in DOMAIN folder
       \/ \E f \in DOMAIN folder : Newest(folder) = {f} /\ f < boot.placed

\* Mutant: the error is not looked at and its number is used.
FindNumber_NoFallback ==
  /\ boot.pc = "find"
  /\ boot' = [boot EXCEPT !.pc = "pre", !.seq = FindSeqNum(boot.env, folder)]
  /\ misled' = IF Misleading THEN misled \cup {boot.placed} ELSE misled
  /\ UNCHANGED <<host, agentVars, mrseq, status, proc, launchVars>>

\* main: a number that cannot be found is logged and taken for 0.
FindNumber ==
  /\ boot.pc = "find"
  /\ LET n == FindSeqNum(boot.env, folder)
     IN  boot' = [boot EXCEPT !.pc = "pre", !.seq = IF n = NoNumber THEN 0 ELSE n]
  /\ misled' = IF Misleading THEN misled \cup {boot.placed} ELSE misled
  /\ UNCHANGED <<host, agentVars, mrseq, status, proc, launchVars>>

\* enablePre exits: an older number, or its own, with a process that serves it.
Leave ==
  /\ boot.pc = "pre"
  /\ boot.seq < mrseq \/ (boot.seq = mrseq /\ proc.pc # "off")
  /\ boot' = NoBoot
  /\ UNCHANGED <<host, agentVars, mrseq, misled, status, proc, launchVars>>

\* enablePre goes on: the number is recorded, the previous process is killed,
\* and its VMWatch with it.  The same number goes on, too, if handler.log is
\* stale or missing, or if the scan of /proc failed; in the last case nobody
\* is killed, and what follows is about the new process only.
TakeOver ==
  /\ boot.pc = "pre"
  /\ boot.seq >= mrseq
  /\ mrseq' = boot.seq
  /\ boot' = NoBoot
  /\ proc' = [NoProc EXCEPT !.pc = "announce", !.seq = boot.seq]
  /\ attempt' = "none" /\ command' = NoCommand /\ vmwatch' = "nowhere"
  /\ failure' = "none"
  /\ UNCHANGED <<host, agentVars, misled, status, slice>>

\* reportStatus: a save that fails changes nothing, and nobody minds.
Save == status' = [status EXCEPT ![proc.seq] = "reported"] \/ UNCHANGED status

\* main: reportStatus(StatusTransitioning).
Announce ==
  /\ proc.pc = "announce"
  /\ proc' = [proc EXCEPT !.pc = "parse"]
  /\ Save
  /\ UNCHANGED <<host, agentVars, mrseq, boot, misled, launchVars>>

\* parseAndValidateSettings finds settings, and the schema allows them.
Acceptable ==
  /\ settingsPath(folder) # NoNumber
  /\ VMWatchSchemaValid(content[settingsPath(folder)].checked)

\* enable fails, and main reports it.
RefuseSettings ==
  /\ proc.pc = "parse" /\ ~Acceptable
  /\ proc' = NoProc
  /\ Save
  /\ UNCHANGED <<host, agentVars, mrseq, boot, misled, launchVars>>

AcceptSettings ==
  /\ proc.pc = "parse" /\ Acceptable
  /\ proc' = [proc EXCEPT !.pc = "serve", !.settings = content[settingsPath(folder)].decoded]
  /\ UNCHANGED <<host, agentVars, mrseq, status, boot, misled, launchVars>>

\* The loop reports in the status file of its own number.
ReportStatus ==
  /\ proc.pc = "serve"
  /\ Save
  /\ UNCHANGED <<host, agentVars, mrseq, boot, misled, proc, launchVars>>

-----------------------------------------------------------------------------
(* The launches of VMWatch. *)

\* setupVMWatchCommand, with the version of systemd as it could be found out.
Setup(version) ==
  /\ proc.pc = "serve" /\ proc.settings.enabled
  /\ attempt = "none" /\ proc.attempts < MaxAttempts
  /\ LET s == WithDefaults(proc.settings)
     IN  /\ proc' = [proc EXCEPT !.settings = s, !.attempts = proc.attempts + 1]
         /\ IF LimitsValid(s)
              THEN /\ command' = [property |-> MemoryProperty(version), limits |-> ScopeLimits(s),
                                  declared |-> s.memoryLimitInBytes]
                   /\ attempt' = "start" /\ failure' = "none"
              ELSE failure' = "limits" /\ UNCHANGED <<attempt, command>>
  /\ UNCHANGED <<host, agentVars, mrseq, status, boot, misled, vmwatch, slice>>

\* The command cannot be started.
StartFails ==
  /\ attempt = "start"
  /\ attempt' = "none" /\ command' = NoCommand /\ failure' = "start"
  /\ UNCHANGED <<host, agentVars, mrseq, status, boot, misled, proc, vmwatch, slice>>

\* systemd-run starts VMWatch in a scope, unless it does not know an option.
StartScope ==
  /\ attempt = "start" /\ host.kind = "systemd"
  /\ IF Supports(host.version, command.property)
       THEN attempt' = "monitored" /\ vmwatch' = "scope" /\ UNCHANGED <<command, failure>>
       ELSE /\ attempt' = "none" /\ command' = NoCommand /\ failure' = "options"
            /\ UNCHANGED vmwatch
  /\ UNCHANGED <<host, agentVars, mrseq, status, boot, misled, proc, slice>>

\* Without systemd VMWatch starts free and is assigned to a cgroup afterwards.
StartFree ==
  /\ attempt = "start" /\ host.kind # "systemd"
  /\ attempt' = "group" /\ vmwatch' = "free"
  /\ UNCHANGED <<host, agentVars, mrseq, status, boot, misled, proc, command, slice, failure>>

\* createAndAssignCgroups, the group: made anew, or what is there is set anew.
CreateCgroup ==
  /\ attempt = "group"
  /\ slice' = SliceLimits(host.kind, proc.settings)
  /\ attempt' = "assign"
  /\ UNCHANGED <<host, agentVars, mrseq, status, boot, misled, proc, command, vmwatch, failure>>

\* createAndAssignCgroups, the process.  With cgroups v1 the group is deleted
\* on return, which fails as long as VMWatch is in it.
AddProc ==
  /\ attempt = "assign" /\ vmwatch = "free"
  /\ vmwatch' = "slice" /\ attempt' = "monitored"
  /\ UNCHANGED <<host, agentVars, mrseq, status, boot, misled, proc, command, slice, failure>>

\* Either part fails: VMWatch is killed, but not in a tolerant dev container.
GovernanceFails ==
  /\ attempt \in {"group", "assign"}
  /\ IF host.tolerant /\ vmwatch = "free"
       THEN attempt' = "monitored" /\ UNCHANGED <<command, vmwatch>>
       ELSE attempt' = "none" /\ command' = NoCommand /\ vmwatch' = "nowhere"
  /\ failure' = IF host.tolerant THEN failure ELSE "governance"
  /\ UNCHANGED <<host, agentVars, mrseq, status, boot, misled, proc, slice>>

\* VMWatch ends, or has been killed.
VMWatchEnds ==
  /\ vmwatch # "nowhere"
  /\ vmwatch' = "nowhere"
  /\ IF attempt = "monitored" THEN attempt' = "none" /\ command' = NoCommand
     ELSE UNCHANGED <<attempt, command>>
  /\ UNCHANGED <<host, agentVars, mrseq, status, boot, misled, proc, slice, failure>>

Agent ==
  \/ \E s \in Contents : Publish(s)
  \/ \E n \in DOMAIN content : Rewrite(n)
  \/ Clutter
  \/ \E env \in Numbers \cup {NoNumber} : RunShim(env)

Enable ==
  \/ FindNumber \/ Leave \/ TakeOver \/ Announce
  \/ RefuseSettings \/ AcceptSettings \/ ReportStatus

Launch ==
  \/ \E version \in {0, host.version} : Setup(version)
  \/ StartFails \/ StartScope \/ StartFree
  \/ CreateCgroup \/ AddProc \/ GovernanceFails \/ VMWatchEnds

Next == Agent \/ Enable \/ Launch

Spec == Init /\ [][Next]_vars

-----------------------------------------------------------------------------
(* Properties. *)

StatusValues == {"none", "placeholder", "reported"}

TypeOK ==
  /\ host \in Hosts
  /\ DOMAIN content \subseteq Numbers /\ DOMAIN folder \ {NoNumber} = DOMAIN content
  /\ \A n \in DOMAIN content : content[n] \in Contents
  /\ latest \in DOMAIN content \cup {NoNumber} /\ disturbances \in 0..MaxDisturbances
  /\ misled \subseteq Numbers
  /\ mrseq \in Numbers
  /\ status \in [Numbers -> StatusValues]
  /\ boot \in [pc: {"idle", "find", "pre"}, placed: Numbers, env: Numbers \cup {NoNumber}, seq: Numbers]
  /\ proc \in [pc: {"off", "announce", "parse", "serve"}, seq: Numbers,
               settings: vmWatchSettings, attempts: 0..MaxAttempts]
  /\ attempt \in {"none", "start", "group", "assign", "monitored"}
  /\ command \in [property: {"none", "MemoryLimit", "MemoryMax"}, limits: Limits, declared: Int]
  /\ vmwatch \in {"nowhere", "free", "scope", "slice"}
  /\ slice \in Limits
  /\ failure \in {"none", "limits", "start", "options", "governance"}

\* The limits the kernel holds VMWatch to.
Enforced ==
  CASE vmwatch = "scope" -> command.limits
    [] vmwatch = "slice" -> slice
    [] OTHER -> Unlimited

\* What a configuration asks for.
Asked(s) ==
  [cpu |-> IF s.maxCpuPercentage = Omitted THEN 1 ELSE s.maxCpuPercentage,
   memory |-> IF s.memoryLimitInBytes = Omitted THEN 200000000 ELSE s.memoryLimitInBytes]

\* A VMWatch that runs and that a dev container does not exempt from limits.
Governed == attempt = "monitored" /\ ~(host.tolerant /\ vmwatch = "free")

(***************************************************************************)
(* The VMWatch that is monitored is held to the limits its configuration   *)
(* asks for, the same on every kind of host and in every attempt, and was  *)
(* told of the memory it is really given.  The configuration is that of    *)
(* the number under which enable runs, or of a higher one.  Only a dev     *)
(* container that says so runs VMWatch without limits.                     *)
(***************************************************************************)
LimitsFollowConfiguration ==
  Governed =>
    \E n \in DOMAIN content :
      /\ n >= proc.seq
      /\ Enforced = Asked(content[n].decoded)
      /\ command.declared = Asked(content[n].decoded).memory

(***************************************************************************)
(* VMWatch is held to some percentage of one CPU and is given the least    *)
(* memory it needs, whatever was published: keys in another case hide      *)
(* their values from the schema but not from the decoder, and then only    *)
(* setupVMWatchCommand stands between them and the kernel, in the first    *)
(* attempt and in the ones that work on what it has written back.  And     *)
(* systemd-run knows the options it is given, whether or not its version   *)
(* could be found out.                                                     *)
(***************************************************************************)
LimitsWithinBounds ==
  /\ Governed => Enforced.cpu \in 1..100 /\ Enforced.memory >= 30000000
  /\ failure # "options"

(***************************************************************************)
(* The shim, main and enablePre mean the same number: once no enable is on *)
(* its way, a number with a mere placeholder has been taken up, or been    *)
(* superseded, by an enable that recorded it.  The shim takes the highest  *)
(* number, FindSeqNum the environment's or that of the newest file, and    *)
(* the agent writes between the two.  Only a main that was misled, by an   *)
(* earlier number written again or a name that is no number, may leave the *)
(* number unrecorded.  Whether the placeholder is also replaced depends on *)
(* whether the saves of that enable succeed.                               *)
(***************************************************************************)
PlaceholderTakenUp ==
  boot.pc = "idle" =>
    \A n \in Numbers : status[n] = "placeholder" => n <= mrseq \/ n \in misled

=============================================================================
