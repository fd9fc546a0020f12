----------------------------- MODULE Supervision -----------------------------
(***************************************************************************)
(* What the supervision of VMWatch promises to the health loop that shows  *)
(* its result: an attempt is announced before VMWatch runs and reported    *)
(* failed after VMWatch has ended; at most MaxAttempts attempts are made;  *)
(* and VMWatch is given up only after all of them, or because enable is    *)
(* shutting down.  Nothing is said here of cycles, waits, channels,        *)
(* goroutines or of who ends VMWatch: those are the means of VMWatch.tla.  *)
(***************************************************************************)
EXTENDS Integers

CONSTANT MaxAttempts

VARIABLES
  phase,       \* where the supervision is
  reported,    \* the status of the latest result
  attempts,    \* attempts announced so far
  stopping     \* enable was told to shut down

svars == <<phase, reported, attempts, stopping>>

Init ==
  /\ \/ phase = "off" /\ reported = "Disabled"
     \/ phase = "idle" /\ reported = "NotRunning"
  /\ attempts = 0
  /\ stopping = FALSE

Announce ==
  /\ phase = "idle" /\ attempts < MaxAttempts
  /\ phase' = "announced" /\ reported' = "Running" /\ attempts' = attempts + 1
  /\ UNCHANGED stopping

Launch ==
  /\ phase = "announced" /\ phase' = "running"
  /\ UNCHANGED <<reported, attempts, stopping>>

\* VMWatch could not be launched, or has ended.
End ==
  /\ phase \in {"announced", "running"} /\ phase' = "ended"
  /\ UNCHANGED <<reported, attempts, stopping>>

ReportFailure ==
  /\ phase = "ended"
  /\ phase' = "idle" /\ reported' = "Failed"
  /\ UNCHANGED <<attempts, stopping>>

GiveUp ==
  /\ phase = "idle" /\ (attempts = MaxAttempts \/ stopping)
  /\ phase' = "givenUp" /\ reported' = "Failed"
  /\ UNCHANGED <<attempts, stopping>>

Shutdown ==
  /\ phase # "gone" /\ stopping' = TRUE
  /\ UNCHANGED <<phase, reported, attempts>>

\* The process ends, with everything it knew.
Vanish ==
  /\ phase # "gone"
  /\ phase' = "gone" /\ reported' = "NotRunning" /\ attempts' = 0 /\ stopping' = FALSE

Next == Announce \/ Launch \/ End \/ ReportFailure \/ GiveUp \/ Shutdown \/ Vanish

Spec == Init /\ [][Next]_svars

=============================================================================
