------------------------- MODULE ConfigurationProofs -------------------------
(***************************************************************************)
(* Proofs about Configuration, for every number of configurations, every   *)
(* content, every host and every number of launches.                       *)
(***************************************************************************)
EXTENDS Configuration, TLAPS

\* The highest number published, or NoNumber.
Top == status_file_path(folder)

(* Facts about the folder. *)

LEMMA HighestIs ==
  ASSUME NEW S, S \subseteq Int, NEW h \in S, \A k \in S : k <= h
  PROVE  Highest(S) = h
<1>1. \A n \in S : (\A k \in S : k <= n) => n = h
  OBVIOUS
<1> QED
  BY <1>1 DEF Highest

LEMMA HighestOfRange ==
  ASSUME NEW m \in Nat
  PROVE  Highest(0..m) = m
BY HighestIs

\* The shim and settingsPath agree unless a name is no number.
LEMMA PathsOfFolder ==
  ASSUME NEW f, NEW m \in Int, m >= -1, DOMAIN f \ {NoNumber} = 0..m
  PROVE  /\ status_file_path(f) = m
         /\ settingsPath(f) # NoNumber => settingsPath(f) = m /\ m >= 0 /\ NoNumber \notin DOMAIN f
<1>1. NoNumber \notin 0..m
  BY DEF NoNumber
<1>2. CASE m = -1
  <2>1. DOMAIN f \ {NoNumber} = {}
    BY <1>2
  <2>2. status_file_path(f) = NoNumber
    BY <2>1 DEF status_file_path
  <2>3. settingsPath(f) = NoNumber
    <3>1. DOMAIN f = {} \/ NoNumber \in DOMAIN f
      BY <2>1
    <3> QED
      BY <3>1 DEF settingsPath
  <2> QED
    BY <1>2, <2>2, <2>3 DEF NoNumber
<1>3. CASE m >= 0
  <2>1. m \in Nat /\ 0..m # {}
    BY <1>3
  <2>2. Highest(0..m) = m
    BY <2>1, HighestOfRange
  <2>3. status_file_path(f) = m
    BY <2>1, <2>2 DEF status_file_path
  <2>4. ASSUME settingsPath(f) # NoNumber
        PROVE  settingsPath(f) = m /\ NoNumber \notin DOMAIN f
    <3>1. NoNumber \notin DOMAIN f
      BY <2>4 DEF settingsPath
    <3>2. DOMAIN f = 0..m
      BY <3>1
    <3> QED
      BY <3>1, <3>2, <2>1, <2>2 DEF settingsPath
  <2> QED
    BY <2>3, <2>4, <1>3
<1> QED
  BY <1>2, <1>3

\* The files have times, and one of them is the newest.
Dated(f) ==
  /\ \A k \in DOMAIN f : f[k] \in Int
  /\ DOMAIN f # {} => Newest(f) # {}

\* What FindSeqNum finds is there: the one file that is newer than the others,
\* or else, if every name is a number, the highest.
LEMMA SearchOfFolder ==
  ASSUME NEW f, NEW m \in Int, m >= -1, DOMAIN f \ {NoNumber} = 0..m, Dated(f)
  PROVE  /\ SearchFolder(f) \in (0..m) \cup {NoNumber}
         /\ NoNumber \notin DOMAIN f /\ m >= 0
              => Newest(f) = {SearchFolder(f)} \/ SearchFolder(f) = m
<1>1. DOMAIN f \subseteq (0..m) \cup {NoNumber}
  OBVIOUS
<1>2. CASE Newest(f) = {}
  <2>1. SearchFolder(f) = NoNumber
    BY <1>2 DEF SearchFolder
  <2>2. DOMAIN f = {}
    BY <1>2 DEF Dated
  <2>3. ~(m >= 0)
    BY <2>2
  <2> QED
    BY <2>1, <2>3
<1>3. CASE \E g \in Newest(f) : Newest(f) = {g}
  <2>1. PICK g \in Newest(f) : Newest(f) = {g}
    BY <1>3
  <2>2. g \in DOMAIN f
    BY <2>1 DEF Newest
  <2>3. g \in Int
    BY <2>2, <1>1 DEF NoNumber
  <2>4. Highest(Newest(f)) = g
    BY <2>1, <2>3, HighestIs
  <2>5. SearchFolder(f) = g
    BY <2>1, <2>4, <1>3 DEF SearchFolder
  <2> QED
    BY <2>1, <2>2, <2>5, <1>1
<1>4. CASE Newest(f) # {} /\ ~\E g \in Newest(f) : Newest(f) = {g}
  <2>1. SearchFolder(f) = IF NoNumber \in DOMAIN f THEN NoNumber ELSE Highest(DOMAIN f)
    BY <1>4 DEF SearchFolder
  <2>2. ASSUME NoNumber \notin DOMAIN f
        PROVE  SearchFolder(f) = m /\ m \in 0..m
    <3>1. DOMAIN f = 0..m
      BY <2>2
    <3>2. DOMAIN f # {}
      BY <1>4 DEF Newest
    <3>3. m \in Nat
      BY <3>1, <3>2
    <3> QED
      BY <3>1, <3>3, <2>1, <2>2, HighestOfRange
  <2> QED
    BY <2>1, <2>2
<1> QED
  BY <1>2, <1>3, <1>4

-----------------------------------------------------------------------------
(* The inductive invariant. *)

\* The agent publishes 0, 1, ..., and writes them again in any order.
FolderInv == Top \in Int /\ Top >= -1 /\ DOMAIN content = 0..Top /\ Dated(folder)

\* No shim and no enable has a number that was not published.
NumberInv ==
  /\ boot.pc # "idle" => boot.placed <= Top /\ boot.env <= Top
  /\ boot.pc = "pre" => boot.seq <= Top
  /\ proc.pc # "off" => proc.seq <= Top

\* The settings in use ask for what a configuration of that number, or a
\* newer one, asks for; an attempt passes it on step by step.
SettingsInv ==
  proc.pc = "serve" =>
    \E n \in DOMAIN content : n >= proc.seq /\ Asked(content[n].decoded) = Asked(proc.settings)

\* setupVMWatchCommand let the settings of an attempt pass.
CommandInv ==
  attempt # "none" =>
    /\ proc.pc = "serve"
    /\ LimitsValid(proc.settings)
    /\ ScopeLimits(proc.settings) = Asked(proc.settings)
    /\ command.limits = Asked(proc.settings)
    /\ command.declared = Asked(proc.settings).memory
    /\ Supports(host.version, command.property)

LaunchInv ==
  /\ attempt = "assign" => slice = Asked(proc.settings)
  /\ attempt = "monitored" => Enforced = Asked(proc.settings) \/ (host.tolerant /\ vmwatch = "free")
  /\ failure # "options"

IInv == TypeOK /\ FolderInv /\ NumberInv /\ SettingsInv /\ CommandInv /\ LaunchInv

LEMMA AskedDefaults ==
  ASSUME NEW s \in vmWatchSettings
  PROVE  /\ WithDefaults(s) \in vmWatchSettings
         /\ Asked(WithDefaults(s)) = Asked(s)
         /\ ScopeLimits(WithDefaults(s)) = Asked(s)
  BY DEF vmWatchSettings, WithDefaults, Asked, ScopeLimits, Omitted,
         DefaultMaxMemoryInBytes, DefaultMaxCpuPercentage

\* What passes setupVMWatchCommand is within bounds.
LEMMA AskedBounds ==
  ASSUME NEW s \in vmWatchSettings, LimitsValid(s)
  PROVE  Asked(s).cpu \in 1..100 /\ Asked(s).memory >= 30000000
  BY DEF vmWatchSettings, LimitsValid, Asked, Omitted, MinMemoryInBytes

\* Both versions of cgroups grant the percentage that systemd grants.
LEMMA SameShare ==
  ASSUME NEW s \in vmWatchSettings, NEW kind
  PROVE  SliceLimits(kind, s) = ScopeLimits(s)
<1> DEFINE c == s.maxCpuPercentage
<1>1. c \in Int
  BY DEF vmWatchSettings
<1>2. ((c * 10000) * 100) \div 1000000 = c /\ ((c * 1000) * 100) \div 100000 = c
  BY <1>1
<1>3. CASE kind = "cgroup2"
  BY <1>2, <1>3 DEF SliceLimits, ScopeLimits, Share, cpuQuota, CGroupV2PeriodMs
<1>4. CASE kind # "cgroup2"
  BY <1>2, <1>4 DEF SliceLimits, ScopeLimits, Share, cpuQuota, CGroupV1Period
<1> QED
  BY <1>3, <1>4

\* A file that is written becomes one of the newest.
LEMMA WriteFolder ==
  ASSUME Dated(folder), NEW n, WriteSettings(n)
  PROVE  DOMAIN folder' = DOMAIN folder \cup {n} /\ Dated(folder')
<1> DEFINE now == IF DOMAIN folder = {} THEN 0 ELSE folder[CHOOSE f \in Newest(folder) : TRUE]
<1>1. PICK t \in {now, now + 1} : folder' = Extend(folder, n, t)
  BY DEF WriteSettings
<1>2. now \in Int /\ \A f \in DOMAIN folder : folder[f] <= now
  <2>1. CASE DOMAIN folder = {}
    BY <2>1
  <2>2. CASE DOMAIN folder # {}
    <3>1. (CHOOSE f \in Newest(folder) : TRUE) \in Newest(folder)
      BY <2>2 DEF Dated
    <3>2. /\ (CHOOSE f \in Newest(folder) : TRUE) \in DOMAIN folder
          /\ \A g \in DOMAIN folder : folder[g] <= folder[CHOOSE f \in Newest(folder) : TRUE]
      BY <3>1 DEF Newest
    <3> QED
      BY <3>2, <2>2 DEF Dated
  <2> QED
    BY <2>1, <2>2
<1>3. t \in Int /\ \A f \in DOMAIN folder : folder[f] <= t
  <2>1. t \in Int /\ now <= t
    BY <1>1, <1>2
  <2>2. \A f \in DOMAIN folder : folder[f] \in Int
    BY DEF Dated
  <2> QED
    BY <2>1, <2>2, <1>2
<1>4. DOMAIN folder' = DOMAIN folder \cup {n} /\ folder'[n] = t
      /\ \A f \in DOMAIN folder : f # n => folder'[f] = folder[f]
  BY <1>1 DEF Extend
<1>5. \A f \in DOMAIN folder' : folder'[f] \in Int /\ folder'[f] <= folder'[n]
  BY <1>3, <1>4 DEF Dated
<1>6. n \in Newest(folder')
  BY <1>4, <1>5 DEF Newest
<1> QED
  BY <1>4, <1>5, <1>6 DEF Dated

\* The number published next lies at the end.
LEMMA PublishFolder ==
  ASSUME IInv, NEW s \in Contents, Publish(s)
  PROVE  /\ Top' = Top + 1 /\ Top + 1 \in Numbers
         /\ DOMAIN content' = 0..Top' /\ DOMAIN folder' \ {NoNumber} = 0..Top'
         /\ \A n \in DOMAIN content : content'[n] = content[n]
         /\ \A n \in DOMAIN content' : content'[n] \in Contents
         /\ Dated(folder')
<1> DEFINE n == Top + 1
<1>1. /\ Top \in Int /\ Top >= -1 /\ DOMAIN folder \ {NoNumber} = 0..Top /\ DOMAIN content = 0..Top
      /\ Dated(folder) /\ \A k \in DOMAIN content : content[k] \in Contents
  BY DEF IInv, TypeOK, FolderInv
<1>2. n \in Numbers /\ WriteSettings(n) /\ content' = Extend(content, n, s)
  BY DEF Publish, Top
<1>3. DOMAIN folder' = DOMAIN folder \cup {n} /\ Dated(folder')
  BY <1>1, <1>2, WriteFolder
<1>4. DOMAIN content' = DOMAIN content \cup {n}
  BY <1>2 DEF Extend
<1>5. 0..n = (0..Top) \cup {n} /\ n # NoNumber /\ n \notin 0..Top
  BY <1>1 DEF NoNumber
<1>6. DOMAIN folder' \ {NoNumber} = 0..n /\ DOMAIN content' = 0..n
  BY <1>1, <1>3, <1>4, <1>5
<1>7. Top' = n
  <2>1. n \in Int /\ n >= -1
    BY <1>1
  <2> QED
    BY <2>1, <1>6, PathsOfFolder DEF Top
<1>8. /\ \A k \in DOMAIN content : content'[k] = content[k]
      /\ \A k \in DOMAIN content' : content'[k] \in Contents
  BY <1>1, <1>2, <1>5 DEF Extend
<1> QED
  BY <1>2, <1>3, <1>6, <1>7, <1>8

\* A file that is written again leaves the numbers as they are.
LEMMA RewriteFolder ==
  ASSUME IInv, NEW n \in DOMAIN content, Rewrite(n)
  PROVE  Top' = Top /\ DOMAIN folder' = DOMAIN folder /\ Dated(folder')
<1>1. /\ Top \in Int /\ Top >= -1 /\ DOMAIN folder \ {NoNumber} = 0..Top /\ DOMAIN content = 0..Top
      /\ Dated(folder)
  BY DEF IInv, TypeOK, FolderInv
<1>2. DOMAIN folder' = DOMAIN folder \cup {n} /\ Dated(folder')
  BY <1>1, WriteFolder DEF Rewrite
<1>3. DOMAIN folder' = DOMAIN folder
  BY <1>1, <1>2
<1>4. Top' = Top
  BY <1>1, <1>3, PathsOfFolder DEF Top
<1> QED
  BY <1>2, <1>3, <1>4

LEMMA ClutterFolder ==
  ASSUME IInv, Clutter
  PROVE  Top' = Top /\ DOMAIN folder' \ {NoNumber} = DOMAIN folder /\ Dated(folder')
<1> DEFINE newest == CHOOSE f \in Newest(folder) : TRUE
           t == 1 + folder[newest]
<1>1. /\ Top \in Int /\ Top >= -1 /\ DOMAIN folder \ {NoNumber} = 0..Top /\ Dated(folder)
      /\ DOMAIN folder # {} /\ NoNumber \notin DOMAIN folder
      /\ folder' = Extend(folder, NoNumber, t)
  BY DEF IInv, TypeOK, FolderInv, Clutter
<1>2. newest \in DOMAIN folder /\ \A k \in DOMAIN folder : folder[k] <= folder[newest]
  <2>1. newest \in Newest(folder)
    BY <1>1 DEF Dated
  <2> QED
    BY <2>1 DEF Newest
<1>3. t \in Int /\ \A k \in DOMAIN folder : folder[k] \in Int /\ folder[k] <= t
  <2>1. \A k \in DOMAIN folder : folder[k] \in Int
    BY <1>1 DEF Dated
  <2>2. folder[newest] \in Int
    BY <1>2, <2>1
  <2> HIDE DEF newest
  <2> QED
    BY <1>2, <2>1, <2>2
<1>4. DOMAIN folder' = DOMAIN folder \cup {NoNumber} /\ folder'[NoNumber] = t
  BY <1>1 DEF Extend
<1>5. DOMAIN folder' \ {NoNumber} = 0..Top /\ DOMAIN folder = 0..Top
  BY <1>1, <1>4
<1>6. Top' = Top
  BY <1>1, <1>5, PathsOfFolder DEF Top
<1>7. \A k \in DOMAIN folder : folder'[k] = folder[k]
  BY <1>1 DEF Extend
<1>8. NoNumber \in Newest(folder')
  BY <1>3, <1>4, <1>7 DEF Newest
<1>9. Dated(folder')
  BY <1>3, <1>4, <1>7, <1>8 DEF Dated
<1> QED
  BY <1>5, <1>6, <1>9

-----------------------------------------------------------------------------
(* Every step preserves the invariant. *)

LEMMA InitInv ==
  ASSUME Init
  PROVE  IInv
<1>1. DOMAIN folder = {} /\ DOMAIN content = {}
  BY DEF Init
<1>2. DOMAIN folder \ {NoNumber} = 0..(-1)
  BY <1>1
<1>3. Top = -1
  BY <1>2, PathsOfFolder DEF Top
<1>4. NoProc.settings \in vmWatchSettings
  BY DEF NoProc, vmWatchSettings, Omitted
<1>5. 0 \in Numbers
  BY NumberAssumption DEF Numbers
<1>6. TypeOK
  <2>1. proc \in [pc: {"off", "announce", "parse", "serve"}, seq: Numbers,
                  settings: vmWatchSettings, attempts: 0..MaxAttempts]
    BY <1>5, AttemptsAssumption DEF Init, NoProc, vmWatchSettings, Omitted
  <2>2. boot \in [pc: {"idle", "find", "pre"}, placed: Numbers, env: Numbers \cup {NoNumber}, seq: Numbers]
    BY <1>5 DEF Init, NoBoot
  <2>3. command \in [property: {"none", "MemoryLimit", "MemoryMax"}, limits: Limits, declared: Int]
        /\ slice \in Limits
    BY DEF Init, NoCommand, Limits, Unlimited
  <2> QED
    BY <1>1, <1>5, <2>1, <2>2, <2>3, DisturbancesAssumption DEF Init, TypeOK, StatusValues
<1>7. FolderInv
  BY <1>1, <1>3 DEF FolderInv, Dated
<1> QED
  BY <1>6, <1>7 DEF Init, IInv, NumberInv, SettingsInv, CommandInv, LaunchInv, NoProc, NoBoot

\* The folder stays as it is.
LEMMA SameFolder ==
  ASSUME IInv, UNCHANGED <<folder, content>>
  PROVE  Top' = Top /\ FolderInv'
  BY DEF IInv, FolderInv, Top

LEMMA PublishStep ==
  ASSUME IInv, NEW s \in Contents, Publish(s)
  PROVE  IInv'
<1>1. /\ Top' = Top + 1 /\ Top + 1 \in Numbers
      /\ DOMAIN content' = 0..Top' /\ DOMAIN folder' \ {NoNumber} = 0..Top'
      /\ \A n \in DOMAIN content : content'[n] = content[n]
      /\ \A n \in DOMAIN content' : content'[n] \in Contents
      /\ Dated(folder')
  BY PublishFolder
<1>2. Top \in Int /\ Top >= -1 /\ DOMAIN content = 0..Top
  BY DEF IInv, FolderInv
<1>3. /\ UNCHANGED <<host, disturbances, mrseq, status, boot, misled, proc>>
      /\ UNCHANGED <<attempt, command, vmwatch, slice, failure>>
      /\ latest' = Top'
  BY <1>1 DEF Publish, launchVars, Top
<1>4. TypeOK'
  <2>1. DOMAIN content' \subseteq Numbers /\ latest' \in DOMAIN content'
    BY <1>1, <1>2, <1>3, NumberAssumption DEF Numbers
  <2> QED
    BY <1>1, <1>3, <2>1 DEF IInv, TypeOK
<1>5. FolderInv'
  BY <1>1, <1>2 DEF FolderInv
<1>6. NumberInv'
  <2>1. boot.placed \in Int /\ boot.env \in Int /\ boot.seq \in Int /\ proc.seq \in Int
    BY NumberAssumption DEF IInv, TypeOK, Numbers, NoNumber
  <2> QED
    BY <1>1, <1>2, <1>3, <2>1 DEF IInv, NumberInv
<1>7. SettingsInv'
  <2>1. DOMAIN content \subseteq DOMAIN content'
    BY <1>1, <1>2
  <2> QED
    BY <1>1, <1>3, <2>1 DEF IInv, SettingsInv
<1> QED
  BY <1>3, <1>4, <1>5, <1>6, <1>7 DEF IInv, CommandInv, LaunchInv, Enforced

LEMMA DisturbStep ==
  ASSUME IInv, Clutter \/ \E n \in DOMAIN content : Rewrite(n)
  PROVE  IInv'
<1>1. /\ UNCHANGED <<host, content, mrseq, status, boot, misled, proc>>
      /\ UNCHANGED <<attempt, command, vmwatch, slice, failure>>
      /\ disturbances' \in 0..MaxDisturbances
      /\ latest' \in DOMAIN content \cup {NoNumber}
  BY DisturbancesAssumption DEF Clutter, Rewrite, launchVars, IInv, TypeOK
<1>2. Top' = Top /\ DOMAIN folder' \ {NoNumber} = DOMAIN content /\ Dated(folder')
  <2>1. CASE Clutter
    <3>1. NoNumber \notin DOMAIN folder
      BY <2>1 DEF Clutter
    <3> QED
      BY <2>1, <3>1, ClutterFolder DEF IInv, TypeOK
  <2>2. ASSUME NEW n \in DOMAIN content, Rewrite(n)
        PROVE  Top' = Top /\ DOMAIN folder' \ {NoNumber} = DOMAIN content /\ Dated(folder')
    BY <2>2, RewriteFolder DEF IInv, TypeOK
  <2> QED
    BY <2>1, <2>2
<1>3. TypeOK'
  BY <1>1, <1>2 DEF IInv, TypeOK
<1>4. FolderInv'
  BY <1>1, <1>2 DEF IInv, FolderInv
<1>5. NumberInv' /\ SettingsInv'
  BY <1>1, <1>2 DEF IInv, NumberInv, SettingsInv
<1> QED
  BY <1>1, <1>3, <1>4, <1>5 DEF IInv, CommandInv, LaunchInv, Enforced

LEMMA ShimStep ==
  ASSUME IInv, NEW env \in Numbers \cup {NoNumber}, RunShim(env)
  PROVE  IInv'
<1>1. UNCHANGED <<host, folder, content, latest, disturbances, misled, mrseq, proc,
                  attempt, command, vmwatch, slice, failure>>
  BY DEF RunShim, agentVars, launchVars
<1>2. /\ Top' = Top /\ FolderInv' /\ Top \in Int /\ Top >= -1 /\ DOMAIN content = 0..Top
      /\ latest \in DOMAIN content \cup {NoNumber} /\ DOMAIN content \subseteq Numbers
  BY <1>1, SameFolder DEF IInv, FolderInv, TypeOK
<1>3. Top # NoNumber /\ env \in {NoNumber, latest}
  BY DEF RunShim, Top
<1>4. Top >= 0 /\ env <= Top /\ Top \in Numbers
  BY <1>2, <1>3 DEF NoNumber
<1>5. boot' = [pc |-> "find", placed |-> Top, env |-> env, seq |-> 0]
  BY DEF RunShim, Top
<1>6. TypeOK'
  <2>1. status' \in [Numbers -> StatusValues]
    BY DEF RunShim, IInv, TypeOK, StatusValues
  <2>2. boot' \in [pc: {"idle", "find", "pre"}, placed: Numbers, env: Numbers \cup {NoNumber}, seq: Numbers]
    BY <1>4, <1>5, NumberAssumption DEF Numbers
  <2> QED
    BY <1>1, <2>1, <2>2 DEF IInv, TypeOK
<1>7. NumberInv'
  BY <1>1, <1>2, <1>4, <1>5 DEF IInv, NumberInv
<1> QED
  BY <1>1, <1>2, <1>6, <1>7 DEF IInv, SettingsInv, CommandInv, LaunchInv, Enforced

LEMMA FindStep ==
  ASSUME IInv, FindNumber
  PROVE  IInv'
<1>1. UNCHANGED <<host, folder, content, latest, disturbances, mrseq, status, proc, attempt, command, vmwatch, slice, failure>>
  BY DEF FindNumber, agentVars, launchVars
<1>2. /\ Top' = Top /\ FolderInv' /\ Top \in Int /\ Top >= 0 /\ boot.env <= Top
      /\ DOMAIN folder \ {NoNumber} = 0..Top /\ Dated(folder) /\ 0..Top \subseteq Numbers
      /\ boot.placed <= Top
  BY <1>1, SameFolder, NumberAssumption DEF IInv, FolderInv, FindNumber, NumberInv, TypeOK, Numbers
<1>3. boot.env \in Numbers \cup {NoNumber}
  BY DEF IInv, TypeOK
<1>4. FindSeqNum(boot.env, folder) \in (0..Top) \cup {NoNumber}
  <2>1. SearchFolder(folder) \in (0..Top) \cup {NoNumber}
    BY <1>2, SearchOfFolder
  <2>2. boot.env # NoNumber => boot.env \in 0..Top
    BY <1>2, <1>3, NumberAssumption DEF Numbers
  <2> QED
    BY <2>1, <2>2 DEF FindSeqNum
<1>5. boot'.seq \in 0..Top /\ boot'.pc = "pre" /\ boot'.env = boot.env /\ boot'.placed = boot.placed
      /\ boot' \in [pc: {"idle", "find", "pre"}, placed: Numbers, env: Numbers \cup {NoNumber}, seq: Numbers]
  <2> DEFINE n == FindSeqNum(boot.env, folder)
             k == IF n = NoNumber THEN 0 ELSE n
  <2>1. k \in 0..Top
    BY <1>2, <1>4
  <2>2. boot' = [boot EXCEPT !.pc = "pre", !.seq = k]
    BY DEF FindNumber
  <2> QED
    BY <2>1, <2>2, <1>2 DEF IInv, TypeOK
<1>6. TypeOK'
  <2>1. misled' \subseteq Numbers
    BY DEF FindNumber, IInv, TypeOK
  <2> QED
    BY <1>1, <1>5, <2>1 DEF IInv, TypeOK
<1>7. NumberInv'
  BY <1>1, <1>2, <1>5 DEF IInv, NumberInv
<1> QED
  BY <1>1, <1>2, <1>6, <1>7 DEF IInv, SettingsInv, CommandInv, LaunchInv, Enforced

LEMMA LeaveStep ==
  ASSUME IInv, Leave
  PROVE  IInv'
<1>1. UNCHANGED <<host, folder, content, latest, disturbances, mrseq, status, misled, proc, attempt, command, vmwatch, slice, failure>>
  BY DEF Leave, agentVars, launchVars
<1>2. Top' = Top /\ FolderInv'
  BY <1>1, SameFolder
<1>3. boot' = NoBoot /\ NoBoot.pc = "idle"
      /\ NoBoot \in [pc: {"idle", "find", "pre"}, placed: Numbers, env: Numbers \cup {NoNumber}, seq: Numbers]
  BY NumberAssumption DEF Leave, NoBoot, Numbers
<1>4. TypeOK'
  BY <1>1, <1>3 DEF IInv, TypeOK
<1>5. NumberInv'
  BY <1>1, <1>2, <1>3 DEF IInv, NumberInv, TypeOK
<1> QED
  BY <1>1, <1>2, <1>4, <1>5 DEF IInv, SettingsInv, CommandInv, LaunchInv, Enforced

LEMMA TakeOverStep ==
  ASSUME IInv, TakeOver
  PROVE  IInv'
<1>1. UNCHANGED <<host, folder, content, latest, disturbances, misled, status, slice>>
  BY DEF TakeOver, agentVars
<1>2. Top' = Top /\ FolderInv' /\ boot.seq <= Top /\ boot.seq \in Numbers
  BY <1>1, SameFolder DEF IInv, NumberInv, TakeOver, TypeOK
<1>3. /\ boot' = NoBoot /\ NoBoot.pc = "idle"
      /\ NoBoot \in [pc: {"idle", "find", "pre"}, placed: Numbers, env: Numbers \cup {NoNumber}, seq: Numbers]
      /\ mrseq' = boot.seq
      /\ attempt' = "none" /\ command' = NoCommand /\ vmwatch' = "nowhere" /\ failure' = "none"
  BY NumberAssumption DEF TakeOver, NoBoot, Numbers
<1>4. proc'.pc = "announce" /\ proc'.seq = boot.seq
      /\ proc' \in [pc: {"off", "announce", "parse", "serve"}, seq: Numbers,
                    settings: vmWatchSettings, attempts: 0..MaxAttempts]
  <2>1. NoProc \in [pc: {"off", "announce", "parse", "serve"}, seq: Numbers,
                    settings: vmWatchSettings, attempts: 0..MaxAttempts]
    BY NumberAssumption, AttemptsAssumption DEF NoProc, vmWatchSettings, Omitted, Numbers
  <2>2. proc' = [NoProc EXCEPT !.pc = "announce", !.seq = boot.seq]
    BY DEF TakeOver
  <2> QED
    BY <1>2, <2>1, <2>2
<1>5. TypeOK'
  <2>1. command' \in [property: {"none", "MemoryLimit", "MemoryMax"}, limits: Limits, declared: Int]
    BY <1>3 DEF NoCommand, Limits, Unlimited
  <2> QED
    BY <1>1, <1>2, <1>3, <1>4, <2>1 DEF IInv, TypeOK
<1>6. NumberInv'
  BY <1>2, <1>3, <1>4 DEF IInv, NumberInv, TypeOK
<1> QED
  BY <1>2, <1>3, <1>4, <1>5, <1>6 DEF IInv, SettingsInv, CommandInv, LaunchInv

LEMMA AnnounceStep ==
  ASSUME IInv, Announce
  PROVE  IInv'
<1>1. UNCHANGED <<host, folder, content, latest, disturbances, misled, mrseq, boot, attempt, command, vmwatch, slice, failure>>
  BY DEF Announce, agentVars, launchVars
<1>2. Top' = Top /\ FolderInv'
  BY <1>1, SameFolder
<1>3. proc.pc = "announce" /\ proc' = [proc EXCEPT !.pc = "parse"]
      /\ status' \in [Numbers -> StatusValues]
  BY DEF Announce, Save, IInv, TypeOK, StatusValues
<1>4. TypeOK'
  BY <1>1, <1>3 DEF IInv, TypeOK, StatusValues
<1>5. proc'.pc = "parse" /\ proc'.seq = proc.seq
  BY <1>3 DEF IInv, TypeOK
<1>6. attempt = "none"
  BY <1>3 DEF IInv, CommandInv
<1> QED
  BY <1>1, <1>2, <1>3, <1>4, <1>5, <1>6
     DEF IInv, NumberInv, SettingsInv, CommandInv, LaunchInv

LEMMA RefuseStep ==
  ASSUME IInv, RefuseSettings
  PROVE  IInv'
<1>1. UNCHANGED <<host, folder, content, latest, disturbances, misled, mrseq, boot, attempt, command, vmwatch, slice, failure>>
  BY DEF RefuseSettings, agentVars, launchVars
<1>2. Top' = Top /\ FolderInv'
  BY <1>1, SameFolder
<1>3. proc.pc = "parse" /\ proc' = NoProc /\ status' \in [Numbers -> StatusValues]
  BY DEF RefuseSettings, Save, IInv, TypeOK, StatusValues
<1>4. proc'.pc = "off"
      /\ proc' \in [pc: {"off", "announce", "parse", "serve"}, seq: Numbers,
                    settings: vmWatchSettings, attempts: 0..MaxAttempts]
  BY <1>3, NumberAssumption, AttemptsAssumption DEF NoProc, vmWatchSettings, Omitted, Numbers
<1>5. TypeOK'
  BY <1>1, <1>3, <1>4 DEF IInv, TypeOK, StatusValues
<1>6. attempt = "none"
  BY <1>3 DEF IInv, CommandInv
<1> QED
  BY <1>1, <1>2, <1>4, <1>5, <1>6
     DEF IInv, NumberInv, SettingsInv, CommandInv, LaunchInv

\* The settings that are read are those of the highest number.
LEMMA AcceptStep ==
  ASSUME IInv, AcceptSettings
  PROVE  IInv'
<1>1. UNCHANGED <<host, folder, content, latest, disturbances, misled, mrseq, status, boot, attempt, command, vmwatch, slice, failure>>
  BY DEF AcceptSettings, agentVars, launchVars
<1>2. /\ Top' = Top /\ FolderInv' /\ Top \in Int /\ Top >= -1 /\ DOMAIN content = 0..Top
      /\ DOMAIN folder \ {NoNumber} = 0..Top
  BY <1>1, SameFolder DEF IInv, FolderInv, TypeOK
<1>3. /\ proc.pc = "parse" /\ settingsPath(folder) # NoNumber
      /\ proc' = [proc EXCEPT !.pc = "serve", !.settings = content[settingsPath(folder)].decoded]
  BY DEF AcceptSettings, Acceptable
<1>4. settingsPath(folder) = Top /\ Top >= 0
  BY <1>2, <1>3, PathsOfFolder
<1>5. Top \in DOMAIN content /\ content[Top].decoded \in vmWatchSettings /\ proc.seq <= Top
  BY <1>2, <1>3, <1>4, ContentsAssumption DEF IInv, TypeOK, NumberInv, Section
<1>6. proc'.pc = "serve" /\ proc'.seq = proc.seq /\ proc'.settings = content[Top].decoded
  BY <1>3, <1>4 DEF IInv, TypeOK
<1>7. TypeOK'
  <2>1. proc' = [proc EXCEPT !.pc = "serve", !.settings = content[Top].decoded]
    BY <1>3, <1>4
  <2>2. proc' \in [pc: {"off", "announce", "parse", "serve"}, seq: Numbers,
                   settings: vmWatchSettings, attempts: 0..MaxAttempts]
    BY <1>5, <2>1 DEF IInv, TypeOK
  <2> QED
    BY <1>1, <2>2 DEF IInv, TypeOK
<1>8. NumberInv'
  BY <1>1, <1>2, <1>3, <1>6 DEF IInv, NumberInv
<1>9. SettingsInv'
  <2>1. Top >= proc.seq
    BY <1>2, <1>5, NumberAssumption DEF IInv, TypeOK, Numbers
  <2> QED
    BY <1>1, <1>3, <1>4, <1>5, <1>6, <2>1 DEF SettingsInv
<1>10. attempt = "none"
  BY <1>3 DEF IInv, CommandInv
<1> QED
  BY <1>1, <1>2, <1>7, <1>8, <1>9, <1>10 DEF IInv, CommandInv, LaunchInv

LEMMA ReportStep ==
  ASSUME IInv, ReportStatus
  PROVE  IInv'
<1>1. UNCHANGED <<host, folder, content, latest, disturbances, misled, mrseq, boot, proc, attempt, command, vmwatch, slice, failure>>
  BY DEF ReportStatus, agentVars, launchVars
<1>2. Top' = Top /\ FolderInv'
  BY <1>1, SameFolder
<1>3. TypeOK'
  BY <1>1 DEF IInv, TypeOK, StatusValues, ReportStatus, Save
<1> QED
  BY <1>1, <1>2, <1>3
     DEF IInv, NumberInv, SettingsInv, CommandInv, LaunchInv, Enforced

\* setupVMWatchCommand changes the settings, but not what they ask for.
LEMMA SetupStep ==
  ASSUME IInv, NEW version \in {0, host.version}, Setup(version)
  PROVE  IInv'
<1>1. UNCHANGED <<host, folder, content, latest, disturbances, misled, mrseq, status, boot, vmwatch, slice>>
  BY DEF Setup, agentVars
<1>2. Top' = Top /\ FolderInv'
  BY <1>1, SameFolder
<1> DEFINE s == WithDefaults(proc.settings)
<1>3. /\ proc.pc = "serve" /\ attempt = "none" /\ proc.attempts < MaxAttempts
      /\ proc' = [proc EXCEPT !.settings = s, !.attempts = proc.attempts + 1]
  BY DEF Setup
<1>4. proc.settings \in vmWatchSettings
  BY DEF IInv, TypeOK
<1>5. s \in vmWatchSettings /\ Asked(s) = Asked(proc.settings) /\ ScopeLimits(s) = Asked(proc.settings)
  BY <1>4, AskedDefaults
<1>6. \/ /\ LimitsValid(s) /\ attempt' = "start" /\ failure' = "none"
         /\ command' = [property |-> MemoryProperty(version), limits |-> ScopeLimits(s),
                        declared |-> s.memoryLimitInBytes]
      \/ attempt' = "none" /\ command' = command /\ failure' = "limits"
  BY <1>3 DEF Setup
<1>7. proc'.settings = s /\ proc'.pc = "serve" /\ proc'.seq = proc.seq
  BY <1>3 DEF IInv, TypeOK
<1>8. host.version \in Nat
  BY HostsAssumption DEF IInv, TypeOK, HostType
<1>9. TypeOK'
  <2>1. proc' \in [pc: {"off", "announce", "parse", "serve"}, seq: Numbers,
                   settings: vmWatchSettings, attempts: 0..MaxAttempts]
    <3>1. proc.attempts + 1 \in 0..MaxAttempts
      BY <1>3, AttemptsAssumption DEF IInv, TypeOK
    <3>2. s \in vmWatchSettings
      BY <1>5
    <3> HIDE DEF s
    <3> QED
      BY <1>3, <3>1, <3>2 DEF IInv, TypeOK
  <2>2. MemoryProperty(version) \in {"MemoryLimit", "MemoryMax"}
    BY DEF MemoryProperty
  <2>3. ScopeLimits(s) \in Limits /\ s.memoryLimitInBytes \in Int
    BY <1>5 DEF ScopeLimits, Limits, vmWatchSettings
  <2>4. command' \in [property: {"none", "MemoryLimit", "MemoryMax"}, limits: Limits, declared: Int]
    BY <1>6, <2>2, <2>3 DEF IInv, TypeOK
  <2> QED
    BY <1>1, <1>6, <2>1, <2>4 DEF IInv, TypeOK
<1>10. SettingsInv'
  BY <1>1, <1>3, <1>5, <1>7 DEF IInv, SettingsInv
<1>11. CommandInv'
  <2> SUFFICES ASSUME attempt' # "none" PROVE CommandInv'
    BY DEF CommandInv
  <2>1. LimitsValid(s) /\ command'.limits = Asked(s) /\ command'.declared = Asked(s).memory
    <3>1. ScopeLimits(s).memory = s.memoryLimitInBytes
      BY DEF ScopeLimits
    <3> QED
      BY <3>1, <1>5, <1>6
  <2>2. Supports(host.version, command'.property)
    <3>1. command'.property = MemoryProperty(version)
      BY <1>6
    <3> QED
      BY <3>1, <1>8 DEF Supports, MemoryProperty
  <2> QED
    BY <1>1, <1>5, <1>7, <2>1, <2>2 DEF CommandInv
<1>12. NumberInv'
  BY <1>1, <1>2, <1>3, <1>7 DEF IInv, NumberInv
<1>13. LaunchInv'
  BY <1>6 DEF LaunchInv
<1> QED
  BY <1>2, <1>9, <1>10, <1>11, <1>12, <1>13 DEF IInv

\* The steps of a launch leave everything but the launch alone.
LEMMA LaunchStep ==
  ASSUME IInv,
         StartFails \/ StartScope \/ StartFree \/ CreateCgroup \/ AddProc \/ GovernanceFails \/ VMWatchEnds
  PROVE  IInv'
<1>1. UNCHANGED <<host, folder, content, latest, disturbances, misled, mrseq, status, boot, proc>>
  BY DEF StartFails, StartScope, StartFree, CreateCgroup, AddProc, GovernanceFails, VMWatchEnds, agentVars
<1>2. Top' = Top /\ FolderInv'
  BY <1>1, SameFolder
<1>3. NumberInv' /\ SettingsInv'
  BY <1>1, <1>2 DEF IInv, NumberInv, SettingsInv
<1>4. attempt' # "none" => attempt # "none" /\ command' = command
  BY DEF StartFails, StartScope, StartFree, CreateCgroup, AddProc, GovernanceFails, VMWatchEnds
<1>5. CommandInv'
  BY <1>1, <1>4 DEF IInv, CommandInv
<1>6. NoCommand \in [property: {"none", "MemoryLimit", "MemoryMax"}, limits: Limits, declared: Int]
  BY DEF NoCommand, Limits, Unlimited
<1>7. proc.settings \in vmWatchSettings
  BY DEF IInv, TypeOK
<1>8. TypeOK' /\ LaunchInv'
  <2>1. CASE StartFails
    BY <1>1, <1>6, <2>1 DEF IInv, TypeOK, LaunchInv, StartFails
  <2>2. CASE StartScope
    <3>1. Supports(host.version, command.property) /\ command.limits = Asked(proc.settings)
      BY <2>2 DEF IInv, CommandInv, StartScope
    <3>2. attempt' = "monitored" /\ vmwatch' = "scope" /\ UNCHANGED <<command, slice, failure>>
      BY <2>2, <3>1 DEF StartScope
    <3>3. Enforced' = Asked(proc'.settings)
      BY <1>1, <3>1, <3>2 DEF Enforced
    <3> QED
      BY <1>1, <3>2, <3>3 DEF IInv, TypeOK, LaunchInv
  <2>3. CASE StartFree
    BY <1>1, <2>3 DEF IInv, TypeOK, LaunchInv, StartFree
  <2>4. CASE CreateCgroup
    <3>1. slice' = ScopeLimits(proc.settings) /\ attempt' = "assign" /\ UNCHANGED <<command, vmwatch, failure>>
      BY <2>4, <1>7, SameShare DEF CreateCgroup
    <3>2. slice' = Asked(proc.settings)
      BY <2>4, <3>1 DEF IInv, CommandInv, CreateCgroup
    <3>3. slice' \in Limits
      BY <3>1, <1>7 DEF ScopeLimits, Limits, vmWatchSettings
    <3> QED
      BY <1>1, <3>1, <3>2, <3>3 DEF IInv, TypeOK, LaunchInv
  <2>5. CASE AddProc
    <3>1. slice = Asked(proc.settings)
      BY <2>5 DEF IInv, LaunchInv, AddProc
    <3>2. attempt' = "monitored" /\ vmwatch' = "slice" /\ UNCHANGED <<command, slice, failure>>
      BY <2>5 DEF AddProc
    <3>3. Enforced' = Asked(proc'.settings)
      BY <1>1, <3>1, <3>2 DEF Enforced
    <3> QED
      BY <1>1, <3>2, <3>3 DEF IInv, TypeOK, LaunchInv
  <2>6. CASE GovernanceFails
    <3>1. /\ attempt' = "none" \/ (attempt' = "monitored" /\ vmwatch' = "free" /\ host.tolerant)
          /\ command' \in {command, NoCommand} /\ vmwatch' \in {"free", "nowhere"}
          /\ failure' \in {failure, "governance"} /\ UNCHANGED slice
      BY <2>6 DEF GovernanceFails
    <3> QED
      BY <1>1, <1>6, <3>1 DEF IInv, TypeOK, LaunchInv
  <2>7. CASE VMWatchEnds
    <3>1. /\ attempt' # "monitored" /\ attempt' \in {attempt, "none"} /\ vmwatch' = "nowhere"
          /\ command' \in {command, NoCommand} /\ UNCHANGED <<slice, failure>>
      BY <2>7 DEF VMWatchEnds
    <3> QED
      BY <1>1, <1>6, <3>1 DEF IInv, TypeOK, LaunchInv
  <2> QED
    BY <2>1, <2>2, <2>3, <2>4, <2>5, <2>6, <2>7
<1> QED
  BY <1>2, <1>3, <1>5, <1>8 DEF IInv

LEMMA StutterStep ==
  ASSUME IInv, UNCHANGED vars
  PROVE  IInv'
<1>1. UNCHANGED <<host, folder, content, latest, disturbances, misled, mrseq, status, boot, proc, attempt, command, vmwatch, slice, failure>>
  BY DEF vars, agentVars, launchVars
<1>2. Top' = Top /\ FolderInv'
  BY <1>1, SameFolder
<1> QED
  BY <1>1, <1>2
     DEF IInv, TypeOK, NumberInv, SettingsInv, CommandInv, LaunchInv, Enforced

LEMMA Inductive == Spec => []IInv
<1>1. Init => IInv
  BY InitInv
<1>2. IInv /\ [Next]_vars => IInv'
  BY PublishStep, DisturbStep, ShimStep, FindStep, LeaveStep, TakeOverStep, AnnounceStep,
     RefuseStep, AcceptStep, ReportStep, SetupStep, LaunchStep, StutterStep
     DEF Next, Agent, Enable, Launch
<1> QED
  BY <1>1, <1>2, PTL DEF Spec

-----------------------------------------------------------------------------
(***************************************************************************)
(* The configuration's way from the folder to the launch is type correct;  *)
(* in particular every number in use is one of the agent's.                *)
(***************************************************************************)
THEOREM ConfigurationTypeCorrect == Spec => []TypeOK
<1>1. IInv => TypeOK
  BY DEF IInv
<1> QED
  BY <1>1, Inductive, PTL

(***************************************************************************)
(* On every host, whatever the percentage and the bytes, in every attempt, *)
(* a monitored VMWatch is held to what a configuration of the number of    *)
(* its enable, or a newer one, asks for: systemd's percentage and both     *)
(* quotas come to the same share, and the defaults that are written back   *)
(* ask for what the omitted settings asked for.                            *)
(***************************************************************************)
THEOREM LimitsCorrect == Spec => []LimitsFollowConfiguration
<1>1. ASSUME IInv
      PROVE  LimitsFollowConfiguration
  <2> SUFFICES ASSUME Governed
               PROVE  \E n \in DOMAIN content :
                        /\ n >= proc.seq
                        /\ Enforced = Asked(content[n].decoded)
                        /\ command.declared = Asked(content[n].decoded).memory
    BY DEF LimitsFollowConfiguration
  <2>1. proc.pc = "serve" /\ command.declared = Asked(proc.settings).memory
    BY <1>1 DEF IInv, CommandInv, Governed
  <2>2. Enforced = Asked(proc.settings)
    BY <1>1 DEF IInv, LaunchInv, Governed
  <2>3. PICK n \in DOMAIN content : n >= proc.seq /\ Asked(content[n].decoded) = Asked(proc.settings)
    BY <1>1, <2>1 DEF IInv, SettingsInv
  <2> QED
    BY <2>1, <2>2, <2>3
<1> QED
  BY <1>1, Inductive, PTL

(***************************************************************************)
(* Whatever the schema overlooks, a monitored VMWatch is held to between 1 *)
(* and 100 percent of a CPU and given at least 30 MB, on every host and in *)
(* every attempt, and systemd-run is never given an option it does not     *)
(* know.  No assumption is made on what is published.                      *)
(***************************************************************************)
THEOREM BoundsHold == Spec => []LimitsWithinBounds
<1>1. ASSUME IInv
      PROVE  LimitsWithinBounds
  <2>1. failure # "options"
    BY <1>1 DEF IInv, LaunchInv
  <2>2. ASSUME Governed
        PROVE  Enforced.cpu \in 1..100 /\ Enforced.memory >= 30000000
    <3>1. LimitsValid(proc.settings) /\ proc.settings \in vmWatchSettings
      BY <1>1, <2>2 DEF IInv, CommandInv, TypeOK, Governed
    <3>2. Enforced = Asked(proc.settings)
      BY <1>1, <2>2 DEF IInv, LaunchInv, Governed
    <3> QED
      BY <3>1, <3>2, AskedBounds
  <2> QED
    BY <2>1, <2>2 DEF LimitsWithinBounds
<1> QED
  BY <1>1, Inductive, PTL

-----------------------------------------------------------------------------
(* Placeholders. *)

\* A placeholder's number is recorded or superseded, or the enable that will
\* record it is on its way.
PlaceholderInv ==
  \A n \in Numbers : status[n] = "placeholder" =>
    \/ n <= mrseq
    \/ n \in misled
    \/ boot.pc = "find" /\ n = boot.placed
    \/ boot.pc = "pre" /\ n = boot.placed /\ n <= boot.seq

\* main finds the number of the shim that forked it, or a higher one.
LEMMA FindsPlaced ==
  ASSUME IInv, FindNumber, ~Misleading
  PROVE  boot'.seq >= boot.placed
<1> DEFINE n == FindSeqNum(boot.env, folder)
<1>1. /\ boot.placed \in Int /\ boot.placed >= 0 /\ boot.placed <= Top /\ boot.env \in Int
      /\ Top \in Int /\ Top >= -1 /\ DOMAIN folder \ {NoNumber} = 0..Top /\ Dated(folder)
  BY NumberAssumption DEF IInv, TypeOK, FolderInv, NumberInv, FindNumber, Numbers, NoNumber
<1>2. n \in Int /\ n >= boot.placed
  <2>1. CASE boot.env # NoNumber
    BY <1>1, <2>1 DEF Misleading, FindSeqNum
  <2>2. CASE boot.env = NoNumber
    <3>1. NoNumber \notin DOMAIN folder
      BY <2>2 DEF Misleading
    <3>2. n = SearchFolder(folder)
      BY <2>2 DEF FindSeqNum
    <3>3. n \in (0..Top) \cup {NoNumber} /\ (Newest(folder) = {n} \/ n = Top)
      BY <1>1, <3>1, <3>2, SearchOfFolder
    <3>4. n \in Int
      BY <1>1, <3>3 DEF NoNumber
    <3>5. CASE Newest(folder) = {n}
      <4>1. n \in DOMAIN folder
        BY <3>5 DEF Newest
      <4>2. ~(n < boot.placed)
        BY <2>2, <3>5, <4>1 DEF Misleading
      <4> QED
        BY <1>1, <3>4, <4>2
    <3>6. CASE n = Top
      BY <1>1, <3>6
    <3> QED
      BY <3>3, <3>4, <3>5, <3>6
  <2> QED
    BY <2>1, <2>2
<1>3. n # NoNumber
  BY <1>1, <1>2 DEF NoNumber
<1>4. boot' = [boot EXCEPT !.pc = "pre", !.seq = n]
  BY <1>3 DEF FindNumber
<1>5. boot'.seq = n
  BY <1>4 DEF IInv, TypeOK
<1> QED
  BY <1>2, <1>5

LEMMA PlaceholderStep ==
  ASSUME IInv, PlaceholderInv, [Next]_vars
  PROVE  PlaceholderInv'
<1>1. /\ mrseq \in Int /\ boot.seq \in Int /\ Numbers \subseteq Int /\ proc.seq \in Numbers
      /\ status \in [Numbers -> StatusValues] /\ boot.pc \in {"idle", "find", "pre"}
      /\ boot \in [pc: {"idle", "find", "pre"}, placed: Numbers, env: Numbers \cup {NoNumber}, seq: Numbers]
  BY NumberAssumption DEF IInv, TypeOK, Numbers
<1>2. ASSUME NEW env \in Numbers \cup {NoNumber}, RunShim(env)
      PROVE  PlaceholderInv'
  <2>1. /\ UNCHANGED <<mrseq, misled>> /\ boot.pc = "idle"
        /\ boot'.pc = "find" /\ boot'.placed = Top
        /\ status' = IF status[Top] = "none" THEN [status EXCEPT ![Top] = "placeholder"] ELSE status
    BY <1>2 DEF RunShim, Top
  <2>2. \A n \in Numbers : status'[n] = status[n] \/ n = Top
    BY <1>1, <2>1
  <2> QED
    BY <2>1, <2>2 DEF PlaceholderInv
<1>3. CASE FindNumber
  <2>1. UNCHANGED <<mrseq, status>> /\ boot.pc = "find" /\ boot'.pc = "pre" /\ boot'.placed = boot.placed
    BY <1>1, <1>3 DEF FindNumber
  <2>2. CASE Misleading
    <3>1. misled' = misled \cup {boot.placed}
      BY <1>3, <2>2 DEF FindNumber
    <3> QED
      BY <2>1, <3>1 DEF PlaceholderInv
  <2>3. CASE ~Misleading
    <3>1. misled' = misled
      BY <1>3, <2>3 DEF FindNumber
    <3>2. boot'.seq >= boot.placed /\ boot'.seq \in Int
      <4>1. boot'.seq \in Numbers
        BY <1>3, FindStep DEF IInv, TypeOK
      <4> QED
        BY <1>1, <1>3, <2>3, <4>1, FindsPlaced
    <3> QED
      BY <1>1, <2>1, <3>1, <3>2 DEF PlaceholderInv
  <2> QED
    BY <2>2, <2>3
<1>4. CASE Leave
  <2>1. UNCHANGED <<mrseq, misled, status>> /\ boot.pc = "pre" /\ boot.seq <= mrseq
    BY <1>1, <1>4 DEF Leave
  <2> QED
    BY <1>1, <2>1 DEF PlaceholderInv
<1>5. CASE TakeOver
  <2>1. UNCHANGED <<misled, status>> /\ boot.pc = "pre" /\ mrseq' = boot.seq /\ boot.seq >= mrseq
    BY <1>5 DEF TakeOver
  <2> QED
    BY <1>1, <2>1 DEF PlaceholderInv
<1>6. CASE Announce \/ RefuseSettings \/ ReportStatus
  <2>1. /\ UNCHANGED <<mrseq, misled, boot>>
        /\ \A n \in Numbers : status'[n] = status[n] \/ status'[n] = "reported"
    BY <1>1, <1>6 DEF Announce, RefuseSettings, ReportStatus, Save
  <2> QED
    BY <2>1 DEF PlaceholderInv
<1>7. CASE UNCHANGED <<mrseq, misled, boot, status>>
  BY <1>7 DEF PlaceholderInv
<1>8. ASSUME NEW s \in Contents, Publish(s)
      PROVE  UNCHANGED <<mrseq, misled, boot, status>>
  BY <1>8 DEF Publish
<1>9. ASSUME NEW n \in DOMAIN content, Rewrite(n)
      PROVE  UNCHANGED <<mrseq, misled, boot, status>>
  BY <1>9 DEF Rewrite
<1>10. CASE Clutter \/ AcceptSettings \/ UNCHANGED vars
  BY <1>7, <1>10 DEF Clutter, AcceptSettings, vars
<1>11. CASE Launch
  BY <1>7, <1>11 DEF Launch, Setup, StartFails, StartScope, StartFree, CreateCgroup, AddProc,
                     GovernanceFails, VMWatchEnds
<1> QED
  BY <1>2, <1>3, <1>4, <1>5, <1>6, <1>7, <1>8, <1>9, <1>10, <1>11 DEF Next, Agent, Enable

(***************************************************************************)
(* However often the folder changes between the shim's look at it and that *)
(* of main, with or without a number in the environment, and whatever      *)
(* times the files have: a number for which the shim left a placeholder is *)
(* recorded by the enable the shim forked, or a higher one is, unless the  *)
(* environment or the newest file named another number.  Which saves fail  *)
(* does not matter.                                                        *)
(***************************************************************************)
THEOREM PlaceholdersTakenUp == Spec => []PlaceholderTakenUp
<1>1. Init => PlaceholderInv
  BY DEF Init, PlaceholderInv
<1>2. IInv /\ PlaceholderInv /\ [Next]_vars => PlaceholderInv'
  BY PlaceholderStep
<1>3. PlaceholderInv => PlaceholderTakenUp
  BY DEF PlaceholderInv, PlaceholderTakenUp
<1> QED
  BY <1>1, <1>2, <1>3, Inductive, PTL DEF Spec

(***************************************************************************)
(* The three lookups on any folder of numbers, published in order or not:  *)
(* the shim and the settings reader take the highest number, and main,     *)
(* without a number in the environment, takes the same one, except where   *)
(* one file alone is the newest and is not the highest.  That is the case  *)
(* "the highest sequence number may be incorrect" of FindSeqNum; there,    *)
(* main and the two others part.                                           *)
(***************************************************************************)
THEOREM LookupsAgree ==
  ASSUME NEW f, DOMAIN f \subseteq Nat, Newest(f) # {},
         NEW h \in DOMAIN f, \A k \in DOMAIN f : k <= h
  PROVE  /\ status_file_path(f) = h
         /\ settingsPath(f) = h
         /\ FindSeqNum(NoNumber, f) = h <=> ~\E k \in DOMAIN f : Newest(f) = {k} /\ k # h
<1>1. NoNumber \notin DOMAIN f /\ DOMAIN f \ {NoNumber} = DOMAIN f
  BY DEF NoNumber
<1>2. Highest(DOMAIN f) = h
  BY HighestIs
<1>3. status_file_path(f) = h /\ settingsPath(f) = h
  BY <1>1, <1>2 DEF status_file_path, settingsPath
<1>4. FindSeqNum(NoNumber, f) = SearchFolder(f)
  BY DEF FindSeqNum
<1>5. CASE \E k \in Newest(f) : Newest(f) = {k}
  <2>1. PICK k \in Newest(f) : Newest(f) = {k}
    BY <1>5
  <2>2. k \in DOMAIN f
    BY <2>1 DEF Newest
  <2>3. Highest(Newest(f)) = k
    BY <2>1, <2>2, HighestIs
  <2>4. SearchFolder(f) = k
    BY <2>1, <2>3, <1>5 DEF SearchFolder
  <2> QED
    BY <1>3, <1>4, <2>1, <2>2, <2>4
<1>6. CASE ~\E k \in Newest(f) : Newest(f) = {k}
  <2>1. SearchFolder(f) = h
    BY <1>1, <1>2, <1>6 DEF SearchFolder
  <2> QED
    BY <1>3, <1>4, <1>6, <2>1
<1> QED
  BY <1>5, <1>6

=============================================================================
