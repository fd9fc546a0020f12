----------------------------- MODULE Succession -----------------------------
(***************************************************************************)
(* What the enable processes of a VM promise together.  The agent issues   *)
(* configurations under rising numbers; one instance at a time is in       *)
(* service; it begins under a number that is not lower than any recorded   *)
(* before, adopts the newest configuration there is, once, and is out of   *)
(* service before another one begins.  Nothing is said of how instances    *)
(* find, stop and wait for each other.                                     *)
(***************************************************************************)
EXTENDS Integers

CONSTANTS
  Instance,    \* who may serve
  Unread       \* the configuration of an instance that has not read one yet

VARIABLES
  issued,      \* the number of the newest configuration
  recorded,    \* the number of the newest service begun or announced
  service      \* the instance in service, if there is one

vars == <<issued, recorded, service>>

Init == issued = 0 /\ recorded = 0 /\ service = {}

Issue ==
  /\ issued' = issued + 1
  /\ UNCHANGED <<recorded, service>>

\* A newer number is announced; whoever serves under an older one goes on.
Announce ==
  /\ \E n \in (recorded + 1)..issued : recorded' = n
  /\ UNCHANGED <<issued, service>>

Begin ==
  /\ service = {}
  /\ \E i \in Instance, n \in recorded..issued :
       /\ recorded' = n
       /\ service' = {[who |-> i, number |-> n, settings |-> Unread]}
  /\ UNCHANGED issued

Adopt ==
  /\ \E s \in service :
       /\ s.settings = Unread
       /\ service' = {[s EXCEPT !.settings = issued]}
  /\ UNCHANGED <<issued, recorded>>

End ==
  /\ service # {}
  /\ service' = {}
  /\ UNCHANGED <<issued, recorded>>

Next == Issue \/ Announce \/ Begin \/ Adopt \/ End

Spec == Init /\ [][Next]_vars

=============================================================================
