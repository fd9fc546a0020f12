---------------------------- MODULE HealthVerdict ----------------------------
(***************************************************************************)
(* What the health loop promises, said without its counters and without    *)
(* time.  An observer sees a stream of observations and keeps the length   *)
(* of the current streak of equal ones.  The verdict follows a streak as   *)
(* soon as it is rule.probes long.  During the grace period the verdict is *)
(* Initializing; the period ends with the first such streak of a state     *)
(* other than rule.after, or by expiring into rule.after, which forgets    *)
(* the streak.                                                             *)
(***************************************************************************)
EXTENDS Integers

VARIABLES
  rule,      \* [probes, after]: fixed by the settings
  verdict,   \* the health state that is published
  grace,     \* the grace period is running
  streak     \* [state, len]: the latest observations; len stops at probes

vars == <<rule, verdict, grace, streak>>

States == {"Healthy", "Unhealthy", "Unknown"}
Rules == [probes: Nat \ {0}, after: {"Unhealthy", "Unknown"}]

Init ==
  /\ rule \in Rules
  /\ verdict = ""
  /\ grace = TRUE
  /\ streak = [state |-> "", len |-> 0]

Extend(st, s, most) ==
  [state |-> s,
   len |-> IF st.state # s THEN 1 ELSE IF st.len < most THEN st.len + 1 ELSE most]

Settled(st) == st.len = rule.probes

\* The streak is long enough and, during the grace period, not of rule.after.
Follow(s) ==
  /\ streak' = Extend(streak, s, rule.probes)
  /\ Settled(streak') /\ (grace => s # rule.after)
  /\ verdict' = s
  /\ grace' = FALSE
  /\ UNCHANGED rule

Keep(s) ==
  /\ streak' = Extend(streak, s, rule.probes)
  /\ ~(Settled(streak') /\ (grace => s # rule.after))
  /\ verdict' = IF grace THEN "Initializing" ELSE verdict
  /\ UNCHANGED <<rule, grace>>

Expire ==
  /\ grace
  /\ grace' = FALSE
  /\ verdict' = rule.after
  /\ streak' = [state |-> rule.after, len |-> 0]
  /\ UNCHANGED rule

Next == Expire \/ \E s \in States : Follow(s) \/ Keep(s)

Spec == Init /\ [][Next]_vars

=============================================================================
