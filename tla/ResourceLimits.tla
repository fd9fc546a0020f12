--------------------------- MODULE ResourceLimits ---------------------------
(***************************************************************************)
(* The limits VMWatch runs under (main/vmWatch.go): how the settings give  *)
(* them and how each kind of host is told of them.  Limits are the percent *)
(* of one CPU and the bytes of memory.                                     *)
(***************************************************************************)
EXTENDS HandlerSettings

DefaultMaxCpuPercentage == 1
DefaultMaxMemoryInBytes == 200000000
MinMemoryInBytes == 30000000
CGroupV2PeriodMs == 1000000

\* The kernel's cfs_period_us, which the cgroup v1 code relies on.
CGroupV1Period == 100000

Limits == [cpu: Int, memory: Int]
Unlimited == [cpu |-> 0, memory |-> 0]

\* The part of the VMWatch section that decides on the limits.
vmWatchSettings ==
  [enabled: BOOLEAN, memoryLimitInBytes: Int, maxCpuPercentage: Int]

\* A published section: what the schema checks, and what encoding/json makes
\* of it.  The schema admits further keys, and the decoder takes a key that
\* differs in case for the one it knows, so that the two are independent.
Section == [checked: vmWatchSettings, decoded: vmWatchSettings]

\* The schema of the VMWatch section.
VMWatchSchemaValid(s) ==
  /\ s.memoryLimitInBytes # Omitted => s.memoryLimitInBytes >= 30000000
  /\ s.maxCpuPercentage # Omitted => s.maxCpuPercentage \in 1..100

\* setupVMWatchCommand replaces what was left out, in the settings themselves.
WithDefaults(s) ==
  [enabled |-> s.enabled,
   memoryLimitInBytes |->
     IF s.memoryLimitInBytes = Omitted THEN DefaultMaxMemoryInBytes ELSE s.memoryLimitInBytes,
   maxCpuPercentage |->
     IF s.maxCpuPercentage = Omitted THEN DefaultMaxCpuPercentage ELSE s.maxCpuPercentage]

\* Mutant: the ranges are left to the schema.
LimitsValid_TrustsSchema(s) == TRUE

\* ... and then refuses what is out of range.
LimitsValid(s) ==
  /\ s.memoryLimitInBytes >= MinMemoryInBytes
  /\ s.maxCpuPercentage \in 0..100

-----------------------------------------------------------------------------
(* systemd-run.  A version that cannot be found out counts as 0. *)

\* Mutant: the new property for every version that could be found out.
MemoryProperty_AnyKnown(version) == IF version = 0 THEN "MemoryLimit" ELSE "MemoryMax"

MemoryProperty(version) == IF version < 246 THEN "MemoryLimit" ELSE "MemoryMax"

\* Which properties systemd knows: MemoryLimit was kept when MemoryMax came.
Supports(version, property) == property = "MemoryLimit" \/ version >= 246

\* CPUQuota=<n>% is n percent of one CPU.
ScopeLimits(s) == [cpu |-> s.maxCpuPercentage, memory |-> s.memoryLimitInBytes]

(* cgroups: a quota of microseconds in every period. *)

Share(quota, period) == (quota * 100) \div period

\* Mutant: one factor for both versions of cgroups.
cpuQuota_SameFactor(kind, s) == s.maxCpuPercentage * 10000

cpuQuota(kind, s) == s.maxCpuPercentage * (IF kind = "cgroup2" THEN 10000 ELSE 1000)

SliceLimits(kind, s) ==
  [cpu |-> Share(cpuQuota(kind, s), IF kind = "cgroup2" THEN CGroupV2PeriodMs ELSE CGroupV1Period),
   memory |-> s.memoryLimitInBytes]

=============================================================================
