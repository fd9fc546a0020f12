-------------------------- MODULE MCConfiguration --------------------------
(* Settings left out, at their bounds and beyond; one host of every kind. *)
EXTENDS Configuration

VMW(memory, cpu) ==
  [enabled |-> TRUE, memoryLimitInBytes |-> memory, maxCpuPercentage |-> cpu]

Plain(s) == [checked |-> s, decoded |-> s]
Hidden(s) == [checked |-> VMW(0, 0), decoded |-> s]

SomeContents ==
  {Plain(VMW(0, 0)), Plain(VMW(30000000, 100)), Plain(VMW(29999999, 1)), Hidden(VMW(0, 101))}

SomeHosts ==
  {[kind |-> "systemd", version |-> v, tolerant |-> FALSE] : v \in {245, 246}} \cup
  {[kind |-> "cgroup1", version |-> 0, tolerant |-> FALSE],
   [kind |-> "cgroup2", version |-> 0, tolerant |-> TRUE]}
=============================================================================
