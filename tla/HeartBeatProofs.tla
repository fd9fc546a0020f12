--------------------------- MODULE HeartBeatProofs ---------------------------
(***************************************************************************)
(* Theorems about HeartBeat, for all settings, probe durations up to the   *)
(* timeout and start times up to four seconds.                             *)
(***************************************************************************)
EXTENDS HeartBeat, TLAPS

\* The age that the heartbeat will have when the next iteration begins.
AtNext == sinceBeat + wait

(* With an interval longer than any probe the iterations begin at exact    *)
(* multiples of it, and the heartbeat is due at the first one that is not  *)
(* below 300; otherwise an iteration adds at most 30 seconds to a          *)
(* heartbeat that was not yet due.                                         *)
Due(k) == AtNext = k * interval /\ (k - 1) * interval < 300

GapInv ==
  \/ wait = 0 /\ sinceBeat = 300
  \/ interval <= 30 /\ AtNext <= 329
  \/ interval > 30 /\ \E k \in 1..10 : Due(k)

\* The worst gap is that of an interval of 59 seconds: 6 * 59.
SeenInv ==
  /\ seen <= 355 + delay
  /\ check # "takeOver"

BeatInv == TypeOK /\ GapInv /\ SeenInv

-----------------------------------------------------------------------------
(***************************************************************************)
(* The first multiple of an interval of 31 to 60 seconds that is not below *)
(* 300 is at most 354.                                                     *)
(***************************************************************************)
LEMMA WorstGap ==
  ASSUME NEW i \in 31..60, NEW k \in 1..10, (k - 1) * i < 300
  PROVE  k * i <= 354
<1>1. k \in {1, 2, 3, 4, 5} \/ k \in {6, 7, 8, 9, 10}
  OBVIOUS
<1>2. CASE k \in {1, 2, 3, 4, 5}
  <2>1. k = 1 => k * i = 1 * i
    OBVIOUS
  <2>2. k = 2 => k * i = 2 * i
    OBVIOUS
  <2>3. k = 3 => k * i = 3 * i
    OBVIOUS
  <2>4. k = 4 => k * i = 4 * i
    OBVIOUS
  <2>5. k = 5 => k * i = 5 * i
    OBVIOUS
  <2> QED BY <1>2, <2>1, <2>2, <2>3, <2>4, <2>5
<1>3. CASE k \in {6, 7, 8, 9, 10}
  <2>1. k = 6 => 5 * i < 300 /\ k * i = 6 * i
    OBVIOUS
  <2>2. k = 7 => 6 * i < 300 /\ k * i = 7 * i
    OBVIOUS
  <2>3. k = 8 => 7 * i < 300 /\ k * i = 8 * i
    OBVIOUS
  <2>4. k = 9 => 8 * i < 300 /\ k * i = 9 * i
    OBVIOUS
  <2>5. k = 10 => 9 * i < 300 /\ k * i = 10 * i
    OBVIOUS
  <2> QED BY <1>3, <2>1, <2>2, <2>3, <2>4, <2>5
<1> QED BY <1>1, <1>2, <1>3

(***************************************************************************)
(* A polling process never lets its heartbeat grow older than 354 seconds. *)
(***************************************************************************)
LEMMA BeatBound ==
  ASSUME BeatInv
  PROVE  AtNext <= 354
<1>1. CASE wait = 0 /\ sinceBeat = 300
  BY <1>1 DEF AtNext
<1>2. CASE interval <= 30 /\ AtNext <= 329
  BY <1>2 DEF BeatInv, TypeOK, AtNext, RecordHeartBeatInterval
<1>3. CASE interval > 30 /\ \E k \in 1..10 : Due(k)
  <2>1. PICK k \in 1..10 : Due(k)
    BY <1>3
  <2>2. interval \in 31..60
    BY <1>3 DEF BeatInv, TypeOK
  <2> QED BY <2>1, <2>2, WorstGap DEF Due
<1> QED BY <1>1, <1>2, <1>3 DEF BeatInv, GapInv

(***************************************************************************)
(* The invariant holds initially: the first iteration writes at once.      *)
(***************************************************************************)
LEMMA BeatInit == Init => BeatInv
<1> SUFFICES ASSUME Init PROVE BeatInv
  OBVIOUS
<1>1. interval \in 5..60
  <2>1. PICK s \in Settings : Accepted(s) /\ interval = intervalInSeconds(s)
    BY DEF Init
  <2>2. SchemaValid(s)
    BY <2>1 DEF Accepted
  <2>3. s.intervalInSeconds \in {Omitted} \cup 5..60
    BY <2>2 DEF SchemaValid
  <2> QED BY <2>1, <2>3 DEF intervalInSeconds, defaultIntervalInSeconds
<1>2. TypeOK
  BY <1>1, StartAssumption DEF Init, TypeOK, RecordHeartBeatInterval
<1> QED BY <1>2 DEF Init, BeatInv, GapInv, SeenInv, RecordHeartBeatInterval

(***************************************************************************)
(* An iteration keeps the heartbeat within its bound (LogHeartBeat).       *)
(***************************************************************************)
LEMMA BeatIterate ==
  ASSUME BeatInv, NEW d \in ProbeDurations, Iterate(d)
  PROVE  BeatInv'
<1>1. d \in 0..30
  BY DurationsAssumption DEF probeTimeout
<1>2. /\ interval' = interval /\ wait = 0
      /\ wait' = IF d < interval THEN interval ELSE d
      /\ check' = check /\ seen' = seen /\ delay' = delay
  BY DEF Iterate, checkVars
<1>3. \/ sinceBeat >= 300 /\ sinceBeat' = 0 /\ logAge' = 0
      \/ sinceBeat < 300 /\ sinceBeat' = sinceBeat /\ logAge' = logAge
  BY DEF Iterate, RecordHeartBeatInterval, BeatInv, TypeOK
<1>4. TypeOK'
  BY <1>1, <1>2, <1>3, StartAssumption DEF BeatInv, TypeOK, RecordHeartBeatInterval
<1>5. GapInv'
  <2>1. CASE interval <= 30
    BY <2>1, <1>1, <1>2, <1>3 DEF GapInv, AtNext, BeatInv, TypeOK, RecordHeartBeatInterval
  <2>2. CASE interval > 30
    <3>1. wait' = interval /\ interval \in 31..60
      BY <2>2, <1>1, <1>2 DEF BeatInv, TypeOK
    <3>2. CASE sinceBeat >= 300
      <4>1. AtNext' = 1 * interval' /\ (1 - 1) * interval' < 300
        BY <3>1, <3>2, <1>2, <1>3 DEF AtNext, BeatInv, TypeOK, RecordHeartBeatInterval
      <4> QED BY <4>1, <2>2, <1>2 DEF GapInv, Due
    <3>3. CASE sinceBeat < 300
      <4>1. PICK k \in 1..10 : Due(k)
        BY <2>2, <3>3, <3>1 DEF BeatInv, TypeOK, GapInv, RecordHeartBeatInterval
      <4>2. k * interval = sinceBeat /\ k * interval < 300
        BY <4>1, <3>3, <1>2 DEF Due, AtNext, BeatInv, TypeOK
      <4>3. k # 10
        BY <4>2, <3>1
      <4>4. (k + 1) * interval = k * interval + interval
        BY <3>1
      <4>5. k + 1 \in 1..10 /\ (k + 1) - 1 = k
        BY <4>3
      <4>6. AtNext' = (k + 1) * interval' /\ ((k + 1) - 1) * interval' < 300
        BY <4>2, <4>4, <4>5, <3>1, <3>3, <1>2, <1>3 DEF AtNext
      <4> QED BY <4>5, <4>6, <2>2, <1>2 DEF GapInv, Due
    <3> QED BY <3>2, <3>3 DEF BeatInv, TypeOK, RecordHeartBeatInterval
  <2> QED BY <2>1, <2>2 DEF BeatInv, TypeOK
<1>6. SeenInv'
  BY <1>2 DEF BeatInv, SeenInv
<1> QED BY <1>4, <1>5, <1>6 DEF BeatInv

(***************************************************************************)
(* While a second passes, both the process and the second enable age.      *)
(***************************************************************************)
LEMMA BeatTick ==
  ASSUME BeatInv, Tick
  PROVE  BeatInv'
<1>1. AtNext' = AtNext /\ interval' = interval
  BY DEF Tick, AtNext, BeatInv, TypeOK, RecordHeartBeatInterval
<1>2. AtNext <= 354
  BY BeatBound
<1>3. TypeOK'
  BY <1>2, StartAssumption DEF Tick, BeatInv, TypeOK, RecordHeartBeatInterval, AtNext
<1>4. GapInv'
  <2>1. wait # 0
    BY DEF Tick, BeatInv, TypeOK
  <2>2. CASE interval <= 30 /\ AtNext <= 329
    BY <2>2, <1>1 DEF GapInv
  <2>3. CASE interval > 30 /\ \E k \in 1..10 : Due(k)
    BY <2>3, <1>1 DEF GapInv, Due
  <2> QED BY <2>1, <2>2, <2>3 DEF BeatInv, GapInv
<1>5. SeenInv'
  BY StartAssumption DEF Tick, BeatInv, TypeOK, SeenInv, RecordHeartBeatInterval
<1> QED BY <1>3, <1>4, <1>5 DEF BeatInv

(***************************************************************************)
(* The invariant is inductive.                                             *)
(***************************************************************************)
LEMMA BeatNext == BeatInv /\ [Next]_vars => BeatInv'
<1> SUFFICES ASSUME BeatInv, [Next]_vars PROVE BeatInv'
  OBVIOUS
<1>1. ASSUME NEW d \in ProbeDurations, Iterate(d) PROVE BeatInv'
  BY <1>1, BeatIterate
<1>2. CASE LogEvent
  BY <1>2 DEF LogEvent, loopVars, checkVars, BeatInv, TypeOK, GapInv, SeenInv, Due, AtNext, RecordHeartBeatInterval
<1>3. CASE CaptureLastWrite
  <2>1. AtNext <= 354
    BY BeatBound
  <2>2. /\ seen' = logAge + 1 /\ delay' = 0 /\ check' = "starting" /\ logAge' = 0
        /\ interval' = interval /\ wait' = wait /\ sinceBeat' = sinceBeat
    BY <1>3 DEF CaptureLastWrite, loopVars
  <2>3. logAge <= 354
    BY <2>1 DEF AtNext, BeatInv, TypeOK, RecordHeartBeatInterval
  <2>4. TypeOK' /\ SeenInv'
    BY <2>2, <2>3, StartAssumption DEF BeatInv, TypeOK, SeenInv, RecordHeartBeatInterval
  <2>5. GapInv'
    BY <2>2 DEF BeatInv, GapInv, Due, AtNext
  <2> QED BY <2>4, <2>5 DEF BeatInv
<1>4. CASE CheckIdempotency
  <2>1. seen < 360
    BY StartAssumption DEF BeatInv, TypeOK, SeenInv, RecordHeartBeatInterval
  <2>2. /\ seen' = 0 /\ delay' = 0 /\ check' = "idle" /\ logAge' = logAge
        /\ interval' = interval /\ wait' = wait /\ sinceBeat' = sinceBeat
    BY <1>4, <2>1 DEF CheckIdempotency, loopVars, StaleThreshold
  <2>3. TypeOK' /\ SeenInv'
    BY <2>2, StartAssumption DEF BeatInv, TypeOK, SeenInv, RecordHeartBeatInterval
  <2>4. GapInv'
    BY <2>2 DEF BeatInv, GapInv, Due, AtNext
  <2> QED BY <2>3, <2>4 DEF BeatInv
<1>5. CASE Tick
  BY <1>5, BeatTick
<1>6. CASE UNCHANGED vars
  BY <1>6 DEF vars, loopVars, checkVars, BeatInv, TypeOK, GapInv, SeenInv, Due, AtNext, RecordHeartBeatInterval
<1> QED BY <1>1, <1>2, <1>3, <1>4, <1>5, <1>6 DEF Next

(***************************************************************************)
(* For every accepted interval, every stream of probe durations up to the  *)
(* timeout and every moment at which another enable looks, a process that  *)
(* keeps polling is not taken for stuck (checkIdempotency against          *)
(* LogHeartBeat).                                                          *)
(***************************************************************************)
THEOREM PollingIsFresh == Spec => []NoFalseTakeOver
<1>1. BeatInv => NoFalseTakeOver
  BY DEF BeatInv, SeenInv, NoFalseTakeOver
<1> QED BY <1>1, BeatInit, BeatNext, PTL DEF Spec

(***************************************************************************)
(* The ages of the heartbeat and of the log stay in their ranges: the log  *)
(* is never older than the heartbeat.                                      *)
(***************************************************************************)
THEOREM BeatTypeCorrect == Spec => []TypeOK
<1>1. BeatInv => TypeOK
  BY DEF BeatInv
<1> QED BY <1>1, BeatInit, BeatNext, PTL DEF Spec

=============================================================================
