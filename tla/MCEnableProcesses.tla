-------------------------- MODULE MCEnableProcesses --------------------------
(* Small instances of the enable processes for TLC. *)
EXTENDS EnableProcesses, TLC

\* Where a process may crash: wherever it is, or before it has others to kill.
Anywhere == Starting \cup Serving
BeforeService == Starting \ {"killStale", "killOld"}

\* The processes are interchangeable; used for safety only.
Symmetry == Permutations(Proc)

=============================================================================
