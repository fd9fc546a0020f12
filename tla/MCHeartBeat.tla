---------------------------- MODULE MCHeartBeat ----------------------------
(* Intervals at the limits of the schema, and the one with the worst gap. *)
EXTENDS HeartBeat, HealthInstances

SomeIntervals == {Cfg("tcp", i, 1, 0) : i \in {5, 45, 59, 60, 61}}
=============================================================================
