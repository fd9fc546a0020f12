----------------------- MODULE EnableSequentialProofs -----------------------
(***************************************************************************)
(* Proofs about enables that start one after the other: each shim runs     *)
(* after the previous process has finished its pre-check (~Overlap).       *)
(* Nothing is assumed of crashes, hangs and failed scans unless it is      *)
(* stated.                                                                 *)
(***************************************************************************)
EXTENDS EnableProcessesProofs

(* The names of the program counter, for the provers to expand at once. *)
USE DEF PCs, InShim, Starting, Serving, Polling

Beginning == InShim \cup Starting

\* The pre-check before it has recorded the number; and behind the scan.
Unrecorded == {"scan", "decide", "killStale", "truncate", "write"}
Decided == {"decide", "killStale", "truncate", "write", "killOld"}

OneStart == \A p, q \in Proc : pc[p] \in Beginning /\ pc[q] \in Beginning => p = q

(***************************************************************************)
(* The number read from mrseq is still the recorded one when the process   *)
(* compares its own with it, and whoever serves has recorded its own.      *)
(***************************************************************************)
Ordered ==
  \A r \in Proc :
    /\ pc[r] \in Unrecorded => mrSeqNum[r] = mrseq
    /\ pc[r] \in {"killStale", "truncate", "write"} => mrSeqNum[r] <= seqNum[r]
    /\ pc[r] = "killOld" => mrSeqNum[r] < seqNum[r] /\ seqNum[r] = mrseq
    /\ pc[r] \in Serving => seqNum[r] <= mrseq

(***************************************************************************)
(* The snapshot of /proc holds serving processes of numbers that were      *)
(* recorded before, and it is empty before the scan.                       *)
(***************************************************************************)
Older ==
  \A p, q \in Proc :
    pc[p] \in Decided /\ q \in existingPids[p] /\ Alive(q)
      => q # p /\ pc[q] \in Serving /\ seqNum[q] <= mrSeqNum[p]

NotScanned ==
  \A p \in Proc :
    pc[p] \in {"unborn", "shim", "placeholder", "boot", "read", "scan"} => existingPids[p] = {}

Targets == \A p \in Proc : killing[p] # NoProc => killing[p] \in existingPids[p]

SeqInv == TypeOK /\ OneStart /\ Ordered /\ Older /\ NotScanned /\ Targets

LEMMA SeqInit == Init => SeqInv
<1> SUFFICES ASSUME Init PROVE SeqInv
  OBVIOUS
<1>1. TypeOK
  BY TypeInit
<1>2. \A p \in Proc : pc[p] = "unborn" /\ existingPids[p] = {} /\ killing[p] = NoProc
  BY DEF Init
<1> QED
  BY <1>1, <1>2 DEF SeqInv, OneStart, Ordered, Older, NotScanned, Targets, Beginning, Unrecorded, Decided

LEMMA SeqTypes ==
  ASSUME TypeOK
  PROVE  /\ mrseq \in Nat
         /\ \A r \in Proc : seqNum[r] \in Nat /\ mrSeqNum[r] \in Nat
BY SeqFacts DEF TypeOK

(***************************************************************************)
(* A step that moves nobody ahead: every process dies or stays, and keeps  *)
(* what it knows except for processes that are gone.                       *)
(***************************************************************************)
LEMMA SeqQuiet ==
  ASSUME SeqInv, TypeOK', UNCHANGED mrseq,
         \A r \in Proc :
           \/ pc'[r] = "dead" /\ killing'[r] = NoProc
           \/ /\ pc'[r] = pc[r] /\ seqNum'[r] = seqNum[r] /\ mrSeqNum'[r] = mrSeqNum[r]
              /\ existingPids'[r] \subseteq existingPids[r]
              /\ killing'[r] # NoProc => killing'[r] \in existingPids'[r]
  PROVE  SeqInv'
<1> USE DEF SeqInv
<1>1. OneStart'
  BY DEF OneStart, Beginning
<1>2. Ordered'
  BY DEF Ordered, Unrecorded
<1>3. Older'
  BY DEF Older, Decided, Alive
<1>4. NotScanned' /\ Targets'
  BY DEF NotScanned, Targets
<1> QED
  BY <1>1, <1>2, <1>3, <1>4

LEMMA SeqDie ==
  ASSUME SeqInv, TypeOK', UNCHANGED mrseq, NEW D, Die(D)
  PROVE  SeqInv'
<1>1. \A r \in Proc : IF r \in D THEN pc'[r] = "dead" /\ killing'[r] = NoProc
                      ELSE /\ pc'[r] = pc[r] /\ existingPids'[r] = existingPids[r]
                           /\ seqNum'[r] = seqNum[r] /\ mrSeqNum'[r] = mrSeqNum[r]
                           /\ killing'[r] = killing[r]
  BY DEF Die
<1> QED
  BY <1>1, SeqQuiet DEF SeqInv, Targets

(***************************************************************************)
(* One process moves to l and leaves everything else alone.                *)
(***************************************************************************)
LEMMA SeqGoto ==
  ASSUME SeqInv, TypeOK', NEW p \in Proc, NEW l \in PCs, Goto(p, l),
         UNCHANGED <<seqNum, mrSeqNum, existingPids, killing, mrseq>>,
         pc[p] \in Beginning \cup Serving,
         l \in Beginning => pc[p] \in Beginning,
         pc[p] \in Serving => l \in Serving,
         l \in Decided => pc[p] \in Decided,
         l \in {"placeholder", "boot", "read"} => pc[p] \in {"shim", "placeholder", "boot"},
         l \notin {"unborn", "shim", "scan"},
         l \in Unrecorded => mrSeqNum[p] = mrseq,
         l \in {"killStale", "truncate", "write"} => mrSeqNum[p] <= seqNum[p],
         l # "killOld",
         l \in Serving => seqNum[p] <= mrseq
  PROVE  SeqInv'
<1> USE DEF SeqInv
<1>1. \A r \in Proc : pc'[r] = IF r = p THEN l ELSE pc[r]
  BY DEF Goto, TypeOK
<1>2. OneStart'
  BY <1>1 DEF OneStart
<1>3. Ordered'
  BY <1>1 DEF Ordered
<1>4. NotScanned' /\ Targets'
  BY <1>1 DEF NotScanned, Targets
<1>5. Older'
  <2> SUFFICES ASSUME NEW r \in Proc, NEW q \in Proc,
                      pc'[r] \in Decided, q \in existingPids[r], Alive(q)'
               PROVE  q # r /\ pc'[q] \in Serving /\ seqNum[q] <= mrSeqNum[r]
    BY DEF Older
  <2>1. pc[r] \in Decided
    BY <1>1
  <2>2. CASE q # p
    BY <1>1, <2>1, <2>2 DEF Older, Alive
  <2>3. CASE q = p
    <3>1. CASE pc[p] \in Serving
      BY <1>1, <2>1, <2>3, <3>1 DEF Older, Alive
    <3>2. CASE pc[p] \in Starting
      BY <2>1, <2>3, <3>2 DEF Older, Alive
    <3>3. CASE pc[p] \in InShim
      <4>1. r = p
        BY <2>1, <3>3 DEF OneStart, Beginning, Decided
      <4> QED
        BY <2>1, <3>3, <4>1 DEF Decided
    <3> QED
      BY <3>1, <3>2, <3>3 DEF Beginning
  <2> QED
    BY <2>2, <2>3
<1> QED
  BY <1>2, <1>3, <1>4, <1>5

LEMMA SeqRead ==
  ASSUME SeqInv, TypeOK', NEW p \in Proc, ReadSeqNum(p)
  PROVE  SeqInv'
<1> USE DEF SeqInv
<1>1. CASE Die({p})
  BY <1>1, SeqDie DEF ReadSeqNum, files
<1>2. CASE /\ mrSeqNum' = [mrSeqNum EXCEPT ![p] = mrseq] /\ Goto(p, "scan")
           /\ UNCHANGED <<seqNum, existingPids, killing>>
  <2>1. \A r \in Proc : IF r = p THEN pc'[r] = "scan" /\ mrSeqNum'[r] = mrseq
                        ELSE pc'[r] = pc[r] /\ mrSeqNum'[r] = mrSeqNum[r]
    BY <1>2 DEF Goto, TypeOK
  <2>2. pc[p] = "read" /\ UNCHANGED mrseq
    BY DEF ReadSeqNum, files
  <2>3. OneStart'
    BY <2>1, <2>2 DEF OneStart, Beginning
  <2>4. Ordered'
    BY <1>2, <2>1, <2>2 DEF Ordered, Unrecorded
  <2>5. NotScanned' /\ Targets'
    BY <1>2, <2>1, <2>2 DEF NotScanned, Targets
  <2>6. Older'
    BY <1>2, <2>1, <2>2 DEF Older, Decided, Alive
  <2> QED
    BY <2>3, <2>4, <2>5, <2>6
<1> QED
  BY <1>1, <1>2 DEF ReadSeqNum

\* Whoever is found serves: the only one that does not is the scanner.
LEMMA SeqScan ==
  ASSUME SeqInv, TypeOK', NEW p \in Proc, FindExistingProcesses(p)
  PROVE  SeqInv'
<1> USE DEF SeqInv
<1>1. /\ pc[p] = "scan" /\ UNCHANGED <<seqNum, mrSeqNum, killing, mrseq>>
      /\ \A r \in Proc : pc'[r] = IF r = p THEN "decide" ELSE pc[r]
  BY DEF FindExistingProcesses, Goto, TypeOK, files
<1>2. /\ \A r \in Proc : r # p => existingPids'[r] = existingPids[r]
      /\ \A q \in existingPids'[p] : q # p /\ Alive(q)
      /\ existingPids[p] = {}
  BY <1>1 DEF FindExistingProcesses, TypeOK, NotScanned
<1>3. \A q \in Proc : q # p /\ Alive(q) => pc[q] \in Serving
  BY <1>1 DEF OneStart, Beginning, Alive
<1>4. OneStart'
  BY <1>1 DEF OneStart, Beginning
<1>5. Ordered'
  BY <1>1 DEF Ordered, Unrecorded
<1>6. NotScanned' /\ Targets'
  BY <1>1, <1>2 DEF NotScanned, Targets
<1>7. Older'
  <2> SUFFICES ASSUME NEW r \in Proc, NEW q \in Proc,
                      pc'[r] \in Decided, q \in existingPids'[r], Alive(q)'
               PROVE  q # r /\ pc'[q] \in Serving /\ seqNum'[q] <= mrSeqNum'[r]
    BY DEF Older
  <2>1. r = p
    BY <1>1 DEF OneStart, Beginning, Decided
  <2>2. pc[q] \in Serving /\ q # p
    BY <1>2, <1>3, <2>1
  <2>3. seqNum[q] <= mrseq /\ mrSeqNum[p] = mrseq
    BY <1>1, <2>2 DEF Ordered, Unrecorded
  <2> QED
    BY <1>1, <2>1, <2>2, <2>3
<1> QED
  BY <1>4, <1>5, <1>6, <1>7

LEMMA SeqWrite ==
  ASSUME SeqInv, TypeOK', NEW p \in Proc, WriteSeqNum(p)
  PROVE  SeqInv' /\ mrseq' >= mrseq
<1> USE DEF SeqInv
<1>1. /\ pc[p] = "write" /\ UNCHANGED <<seqNum, mrSeqNum, existingPids, killing>>
      /\ mrseq' = seqNum[p]
      /\ \A r \in Proc : r # p => pc'[r] = pc[r]
      /\ pc'[p] = IF seqNum[p] > mrSeqNum[p] /\ Others(p) THEN "killOld" ELSE "announce"
  BY DEF WriteSeqNum, Goto, TypeOK, local
<1>2. mrSeqNum[p] = mrseq /\ mrSeqNum[p] <= seqNum[p]
  BY <1>1 DEF Ordered, Unrecorded
<1>3. /\ mrseq \in Nat
      /\ \A r \in Proc : seqNum[r] \in Nat /\ mrSeqNum[r] \in Nat
  BY SeqTypes
<1>4. \A r \in Proc : r # p => pc[r] \notin Starting
  BY <1>1 DEF OneStart, Beginning
<1>5. mrseq' >= mrseq
  BY <1>1, <1>2, <1>3
<1>6. OneStart'
  BY <1>1 DEF OneStart, Beginning
<1>7. Ordered'
  <2>1. \A r \in Proc : r # p /\ pc[r] \in Serving => seqNum[r] <= mrseq'
    BY <1>3, <1>1, <1>2 DEF Ordered
  <2> QED
    BY <1>1, <1>3, <1>4, <2>1 DEF Ordered, Unrecorded
<1>8. NotScanned' /\ Targets'
  BY <1>1 DEF NotScanned, Targets
<1>9. Older'
  BY <1>1 DEF Older, Decided, Alive
<1> QED
  BY <1>5, <1>6, <1>7, <1>8, <1>9

LEMMA SeqRemove ==
  ASSUME SeqInv, TypeOK', NEW p \in Proc, NEW q \in Proc, SkipGone(p, q) \/ SeeExit(p, q)
  PROVE  SeqInv'
<1>1. \A r \in Proc : IF r = p THEN existingPids'[r] = existingPids[r] \ {q} /\ killing'[r] = NoProc
                      ELSE existingPids'[r] = existingPids[r] /\ killing'[r] = killing[r]
  BY DEF SkipGone, SeeExit, Remove, SeqInv, TypeOK
<1>2. UNCHANGED <<pc, seqNum, mrSeqNum, mrseq>>
  BY DEF SkipGone, SeeExit, files
<1> QED
  BY <1>1, <1>2, SeqQuiet DEF SeqInv, Targets

LEMMA SeqTerminate ==
  ASSUME SeqInv, TypeOK', NEW T, Terminate(T), UNCHANGED <<mrSeqNum, existingPids, mrseq>>,
         \A r \in Proc : killing'[r] = killing[r] \/ killing'[r] \in existingPids[r],
         \A r \in Proc : pc[r] = "boot" => killing'[r] = killing[r]
  PROVE  SeqInv'
<1>1. \A r \in Proc : \/ pc'[r] = "dead" /\ pc[r] = "boot"
                      \/ pc'[r] = pc[r] /\ seqNum'[r] = seqNum[r]
  BY DEF Terminate
<1>2. \A r \in Proc : pc[r] = "boot" => killing[r] = NoProc
  BY DEF SeqInv, NotScanned, Targets
<1> QED
  BY <1>1, <1>2, SeqQuiet DEF SeqInv, Targets

LEMMA SeqProcess ==
  ASSUME SeqInv, TypeOK', NEW p \in Proc, Step(p)
  PROVE  SeqInv' /\ mrseq' >= mrseq
<1> USE DEF local, files
<1>1. /\ mrseq \in Nat
      /\ \A r \in Proc : seqNum[r] \in Nat /\ mrSeqNum[r] \in Nat
  BY SeqTypes DEF SeqInv
<1>2. CASE TestStatus(p) \/ WritePlaceholder(p) \/ Boot(p)
  <2>1. PICK l \in {"placeholder", "boot", "read"} : Goto(p, l)
    BY <1>2 DEF TestStatus, WritePlaceholder, Boot
  <2>2. /\ pc[p] \in {"shim", "placeholder", "boot"}
        /\ UNCHANGED <<seqNum, mrSeqNum, existingPids, killing, mrseq>>
    BY <1>2 DEF TestStatus, WritePlaceholder, Boot
  <2> QED
    BY <1>1, <2>1, <2>2, SeqGoto DEF Beginning, Decided, Unrecorded
<1>3. CASE ReadSeqNum(p) \/ FindExistingProcesses(p)
  <2>1. UNCHANGED mrseq
    BY <1>3 DEF ReadSeqNum, FindExistingProcesses
  <2> QED
    BY <1>1, <1>3, <2>1, SeqRead, SeqScan
<1>4. CASE TakeOver(p) \/ Proceed(p)
  <2>1. /\ pc[p] = "decide" /\ mrSeqNum[p] = mrseq /\ mrSeqNum[p] <= seqNum[p]
        /\ UNCHANGED <<seqNum, mrSeqNum, existingPids, killing, mrseq>>
    BY <1>1, <1>4 DEF TakeOver, Proceed, SameSeq, SeqInv, Ordered, Unrecorded
  <2>2. PICK l \in {"killStale", "truncate"} : Goto(p, l)
    BY <1>4 DEF TakeOver, Proceed
  <2> QED
    BY <1>1, <2>1, <2>2, SeqGoto DEF Beginning, Decided, Unrecorded
<1>5. CASE TruncateSeqFile(p)
  <2>1. /\ pc[p] = "truncate" /\ mrSeqNum[p] = mrseq /\ mrSeqNum[p] <= seqNum[p] /\ Goto(p, "write")
        /\ UNCHANGED <<seqNum, mrSeqNum, existingPids, killing, mrseq>>
    BY <1>5 DEF TruncateSeqFile, SeqInv, Ordered, Unrecorded
  <2> QED
    BY <1>1, <2>1, SeqGoto DEF Beginning, Decided, Unrecorded
<1>6. CASE WriteSeqNum(p)
  BY <1>6, SeqWrite
<1>7. ASSUME NEW q \in Proc, SkipGone(p, q) \/ SeeExit(p, q)
      PROVE  SeqInv' /\ mrseq' >= mrseq
  <2>1. UNCHANGED mrseq
    BY <1>7 DEF SkipGone, SeeExit
  <2> QED
    BY <1>1, <1>7, <2>1, SeqRemove
<1>8. ASSUME NEW q \in Proc, SendSigTerm(p, q)
      PROVE  SeqInv' /\ mrseq' >= mrseq
  <2>1. /\ Terminate({q}) /\ UNCHANGED <<mrSeqNum, existingPids, mrseq>>
        /\ pc[p] # "boot" /\ q \in existingPids[p]
    BY <1>8 DEF SendSigTerm, Killing
  <2>2. \A r \in Proc : killing'[r] = IF r = p THEN q ELSE killing[r]
    BY <1>8 DEF SendSigTerm, SeqInv, TypeOK
  <2> QED
    BY <1>1, <2>1, <2>2, SeqTerminate
<1>9. CASE IdempotentExit(p) \/ RejectOldSeqNum(p) \/ Fail(p) \/ \E q \in Proc : SendSigKill(p, q)
  <2>1. PICK q : Die({q}) /\ UNCHANGED mrseq
    BY <1>9 DEF IdempotentExit, RejectOldSeqNum, SendSigKill, Fail
  <2> QED
    BY <1>1, <2>1, SeqDie
<1>10. CASE KillsDone(p)
  <2>1. UNCHANGED <<seqNum, mrSeqNum, existingPids, killing, mrseq>>
    BY <1>10 DEF KillsDone
  <2>2. CASE pc[p] = "killStale" /\ Goto(p, "truncate")
    <3>1. mrSeqNum[p] = mrseq /\ mrSeqNum[p] <= seqNum[p]
      BY <2>2 DEF SeqInv, Ordered, Unrecorded
    <3> QED
      BY <1>1, <2>1, <2>2, <3>1, SeqGoto DEF Beginning, Decided, Unrecorded
  <2>3. CASE pc[p] = "killOld" /\ Goto(p, "announce")
    <3>1. seqNum[p] <= mrseq
      BY <1>1, <2>3 DEF SeqInv, Ordered
    <3> QED
      BY <1>1, <2>1, <2>3, <3>1, SeqGoto DEF Beginning, Decided, Unrecorded
  <2> QED
    BY <1>10, <2>2, <2>3 DEF KillsDone, Killing
<1>11. CASE Announce(p) \/ ParseSettings(p) \/ Poll(p) \/ Report(p) \/ Sleep(p)
  <2>1. pc[p] \in Serving /\ UNCHANGED <<seqNum, mrSeqNum, existingPids, killing, mrseq>>
    BY <1>11 DEF Announce, ParseSettings, Poll, Report, Sleep
  <2>2. PICK l \in {"parse", "fail", "top", "report", "sleep"} : Goto(p, l)
    BY <1>11 DEF Announce, ParseSettings, Poll, Report, Sleep
  <2>3. seqNum[p] <= mrseq
    BY <2>1 DEF SeqInv, Ordered
  <2> QED
    BY <1>1, <2>1, <2>2, <2>3, SeqGoto DEF Beginning, Decided, Unrecorded
<1>12. CASE CheckSuperseded(p)
  <2>1. UNCHANGED mrseq
    BY <1>12 DEF CheckSuperseded
  <2>2. CASE Die({p})
    BY <1>1, <2>1, <2>2, SeqDie
  <2>3. CASE Goto(p, "poll") /\ UNCHANGED local
    <3>1. pc[p] \in Serving /\ seqNum[p] <= mrseq
      BY <1>12 DEF CheckSuperseded, SeqInv, Ordered
    <3> QED
      BY <1>1, <2>1, <2>3, <3>1, SeqGoto DEF Beginning, Decided, Unrecorded
  <2> QED
    BY <1>12, <2>2, <2>3 DEF CheckSuperseded
<1> QED
  BY <1>2, <1>3, <1>4, <1>5, <1>6, <1>7, <1>8, <1>9, <1>10, <1>11, <1>12 DEF Step

LEMMA SeqOther ==
  ASSUME SeqInv, TypeOK', ~Overlap, Agent \/ Stop \/ Trouble \/ Tick
  PROVE  SeqInv' /\ UNCHANGED mrseq
<1> USE DEF local, files
<1>1. UNCHANGED mrseq
  BY DEF Agent, Stop, Trouble, Publish, StartShim, StopAll, StopHard, StopDone, Crash, Hang, Resume, Tick
<1>2. CASE UNCHANGED <<pc, seqNum, mrSeqNum, existingPids, killing>>
  BY <1>1, <1>2, SeqQuiet DEF SeqInv, Targets
<1>3. Publish \/ StopDone \/ Tick \/ (\E p \in Proc : Hang(p) \/ Resume(p))
        => UNCHANGED <<pc, seqNum, mrSeqNum, existingPids, killing>>
  BY DEF Publish, StopDone, Tick, Hang, Resume
<1>4. ASSUME NEW p \in Proc, StopHard(p) \/ Crash(p)
      PROVE  SeqInv'
  BY <1>1, <1>4, SeqDie DEF StopHard, Crash
<1>5. CASE StopAll
  <2>1. PICK T : Terminate(T)
    BY <1>5 DEF StopAll
  <2>2. UNCHANGED <<mrSeqNum, existingPids, killing>>
    BY <1>5 DEF StopAll
  <2> QED
    BY <1>1, <2>1, <2>2, SeqTerminate
<1>6. ASSUME NEW p \in Proc, StartShim(p)
      PROVE  SeqInv'
  <2> USE DEF SeqInv
  <2>1. /\ pc[p] = "unborn" /\ UNCHANGED <<mrSeqNum, existingPids, killing>>
        /\ \A r \in Proc : pc[r] \notin Beginning
        /\ \A r \in Proc : IF r = p THEN pc'[r] = "shim"
                           ELSE pc'[r] = pc[r] /\ seqNum'[r] = seqNum[r]
    BY <1>6 DEF StartShim, AgentIdle, Goto, TypeOK, Beginning
  <2>2. OneStart'
    BY <2>1 DEF OneStart, Beginning
  <2>3. Ordered'
    BY <1>1, <2>1 DEF Ordered, Unrecorded
  <2>4. Older'
    BY <2>1 DEF Older, Decided, Alive
  <2>5. NotScanned' /\ Targets'
    BY <2>1 DEF NotScanned, Targets
  <2> QED
    BY <2>2, <2>3, <2>4, <2>5
<1> QED
  BY <1>1, <1>2, <1>3, <1>4, <1>5, <1>6 DEF Agent, Stop, Trouble

LEMMA SeqStep ==
  ASSUME SeqInv, ~Overlap, [Next]_vars
  PROVE  SeqInv' /\ mrseq' >= mrseq
<1>1. TypeOK'
  BY TypeStep DEF SeqInv
<1>2. mrseq \in Nat
  BY SeqTypes DEF SeqInv
<1>3. CASE UNCHANGED vars
  <2>1. UNCHANGED <<pc, seqNum, mrSeqNum, existingPids, killing, mrseq>>
    BY <1>3 DEF vars, local, files
  <2> QED
    BY <1>1, <1>2, <2>1, SeqQuiet DEF SeqInv, Targets
<1>4. CASE Next
  BY <1>1, <1>2, <1>4, SeqProcess, SeqOther DEF Next
<1> QED
  BY <1>3, <1>4

-----------------------------------------------------------------------------
(***************************************************************************)
(* If enables start one after the other, the recorded sequence number      *)
(* never goes back, whatever crashes, hangs or fails: enablePre reads it   *)
(* and writes its own several steps later.                                 *)
(***************************************************************************)
THEOREM NoRegress ==
  ASSUME ~Overlap
  PROVE  Spec => SeqNumNeverRegresses
<1>1. SeqInv /\ [Next]_vars => SeqInv' /\ [mrseq' >= mrseq]_vars
  BY SeqStep
<1> QED
  BY <1>1, SeqInit, PTL DEF Spec, SeqNumNeverRegresses

(***************************************************************************)
(* If enables start one after the other, killProcesses behind a new        *)
(* sequence number kills only processes of older ones, although it works   *)
(* on a snapshot of /proc.                                                 *)
(***************************************************************************)
THEOREM CleanupKillsOlder ==
  ASSUME ~Overlap
  PROVE  Spec => []KillsOnlyOlder
<1>1. SeqInv => KillsOnlyOlder
  <2> SUFFICES ASSUME SeqInv, NEW p \in Proc, NEW q \in Proc,
                      pc[p] = "killOld", killing[p] = q, Alive(q)
               PROVE  seqNum[q] < seqNum[p]
    BY DEF KillsOnlyOlder
  <2>1. q \in existingPids[p]
    BY NoProcAssumption DEF SeqInv, Targets
  <2>2. seqNum[q] <= mrSeqNum[p] /\ mrSeqNum[p] < seqNum[p]
    BY <2>1 DEF SeqInv, Older, Ordered, Decided
  <2> QED
    BY <2>2, SeqTypes DEF SeqInv
<1>2. SeqInv /\ [Next]_vars => SeqInv'
  BY SeqStep
<1> QED
  BY <1>1, <1>2, SeqInit, PTL DEF Spec

-----------------------------------------------------------------------------
(* An idempotent exit is covered, if in addition scans succeed and no      *)
(* process crashes that kills others or that the exit relies on.           *)

AllFound ==
  \A p, q \in Proc : pc[p] \in Decided /\ q # p /\ Alive(q) => q \in existingPids[p]

(***************************************************************************)
(* A serving process serves the recorded number, unless the process that   *)
(* recorded a newer one is about to kill it, or was itself killed by a     *)
(* shim that ends all of them.                                             *)
(***************************************************************************)
Current ==
  \A q \in Proc :
    pc[q] \in Serving =>
      \/ seqNum[q] = mrseq
      \/ \E p \in Proc : pc[p] = "killOld" /\ q \in existingPids[p]
      \/ stopping /\ \A p \in Proc : pc[p] \notin Starting

CoverInv == SeqInv /\ ShimInv /\ AllFound /\ Current

LEMMA CoverInit == Init => CoverInv
<1> SUFFICES ASSUME Init PROVE CoverInv
  OBVIOUS
<1>1. SeqInv /\ ShimInv
  BY SeqInit, ShimInit
<1>2. \A p \in Proc : pc[p] = "unborn"
  BY DEF Init
<1> QED
  BY <1>1, <1>2 DEF CoverInv, AllFound, Current, Decided

\* Every process dies or stays and forgets at most processes that are gone.
LEMMA CoverQuiet ==
  ASSUME CoverInv, UNCHANGED mrseq, stopping => stopping',
         \A r \in Proc :
           \/ pc'[r] = "dead" /\ (pc[r] = "killOld" => stopping')
           \/ /\ pc'[r] = pc[r] /\ seqNum'[r] = seqNum[r]
              /\ \A q \in existingPids[r] : Alive(q) => q \in existingPids'[r]
  PROVE  AllFound' /\ Current'
<1>1. AllFound'
  BY DEF CoverInv, AllFound, Decided, Alive
<1>2. Current'
  <2> SUFFICES ASSUME NEW q \in Proc, pc'[q] \in Serving
               PROVE  \/ seqNum'[q] = mrseq'
                      \/ \E p \in Proc : pc'[p] = "killOld" /\ q \in existingPids'[p]
                      \/ stopping' /\ \A p \in Proc : pc'[p] \notin Starting
    BY DEF Current
  <2>1. pc'[q] = pc[q] /\ seqNum'[q] = seqNum[q] /\ Alive(q)
    BY DEF Alive
  <2>2. CASE seqNum[q] = mrseq
    BY <2>1, <2>2
  <2>3. ASSUME NEW p \in Proc, pc[p] = "killOld", q \in existingPids[p]
        PROVE  \/ pc'[p] = "killOld" /\ q \in existingPids'[p]
               \/ stopping' /\ \A r \in Proc : pc'[r] \notin Starting
    <3>1. \A r \in Proc : pc[r] \in Starting => r = p
      BY <2>3 DEF CoverInv, SeqInv, OneStart, Beginning
    <3> QED
      BY <2>1, <2>3, <3>1
  <2>4. CASE stopping /\ \A p \in Proc : pc[p] \notin Starting
    BY <2>4
  <2> QED
    BY <2>1, <2>2, <2>3, <2>4 DEF CoverInv, Current
<1> QED
  BY <1>1, <1>2

LEMMA CoverDie ==
  ASSUME CoverInv, UNCHANGED <<mrseq, stopping>>, NEW q \in Proc, Die({q}),
         pc[q] = "killOld" => stopping
  PROVE  AllFound' /\ Current'
<1>1. \A r \in Proc : IF r = q THEN pc'[r] = "dead"
                      ELSE /\ pc'[r] = pc[r] /\ seqNum'[r] = seqNum[r]
                           /\ existingPids'[r] = existingPids[r]
  BY DEF Die
<1> QED
  BY <1>1, CoverQuiet

\* One process moves to l, other than out of killOld and into service.
LEMMA CoverGoto ==
  ASSUME CoverInv, UNCHANGED <<mrseq, stopping, seqNum, existingPids>>,
         NEW p \in Proc, NEW l \in PCs, Goto(p, l),
         pc[p] \in Beginning \cup Serving, pc[p] # "killOld",
         l \in Decided => pc[p] \in Decided,
         l \in Serving <=> pc[p] \in Serving,
         l \in Starting => pc[p] \in Beginning
  PROVE  AllFound' /\ Current'
<1> USE DEF CoverInv
<1>1. \A r \in Proc : pc'[r] = IF r = p THEN l ELSE pc[r]
  BY DEF Goto, SeqInv, TypeOK
<1>2. \A r \in Proc : r # p /\ pc[p] \in Beginning => pc[r] \notin Decided
  BY DEF SeqInv, OneStart, Beginning, Decided
<1>3. AllFound'
  <2> SUFFICES ASSUME NEW r \in Proc, NEW q \in Proc, pc'[r] \in Decided, q # r, Alive(q)'
               PROVE  q \in existingPids[r]
    BY DEF AllFound
  <2>1. pc[r] \in Decided
    BY <1>1
  <2>2. Alive(q)
    BY <1>1, <1>2, <2>1 DEF Alive, Beginning
  <2> QED
    BY <2>1, <2>2 DEF AllFound
<1>4. Current'
  <2>1. stopping /\ l \in Starting => pc[p] \in Starting
    BY DEF ShimInv, StopAlone, Beginning
  <2> QED
    BY <1>1, <2>1 DEF Current, Beginning
<1> QED
  BY <1>3, <1>4

LEMMA CoverScan ==
  ASSUME CoverInv, ~ScanMayFail, NEW p \in Proc, FindExistingProcesses(p)
  PROVE  AllFound' /\ Current'
<1> USE DEF CoverInv
<1>1. /\ pc[p] = "scan" /\ UNCHANGED <<seqNum, mrseq, stopping>>
      /\ \A r \in Proc : pc'[r] = IF r = p THEN "decide" ELSE pc[r]
      /\ \A r \in Proc : existingPids'[r] = IF r = p THEN {q \in Proc \ {p} : Alive(q)} ELSE existingPids[r]
  BY DEF FindExistingProcesses, Goto, SeqInv, TypeOK, files, agent
<1>2. \A r \in Proc : r # p => pc[r] \notin Decided
  BY <1>1 DEF SeqInv, OneStart, Beginning, Decided
<1>3. AllFound'
  BY <1>1, <1>2 DEF AllFound, Decided, Alive
<1>4. Current'
  BY <1>1, <1>2 DEF Current, Decided
<1> QED
  BY <1>3, <1>4

LEMMA CoverWrite ==
  ASSUME CoverInv, NEW p \in Proc, WriteSeqNum(p)
  PROVE  AllFound' /\ Current'
<1> USE DEF CoverInv
<1>1. /\ pc[p] = "write" /\ UNCHANGED <<seqNum, mrSeqNum, existingPids>>
      /\ mrseq' = seqNum[p]
      /\ \A r \in Proc : r # p => pc'[r] = pc[r]
      /\ pc'[p] = IF seqNum[p] > mrSeqNum[p] /\ Others(p) THEN "killOld" ELSE "announce"
  BY DEF WriteSeqNum, Goto, SeqInv, TypeOK, local
<1>2. mrSeqNum[p] = mrseq /\ mrSeqNum[p] <= seqNum[p] /\ seqNum[p] \in Nat /\ mrseq \in Nat
  BY <1>1, SeqTypes DEF SeqInv, Ordered, Unrecorded
<1>3. \A r \in Proc : r # p => pc[r] \notin Starting
  BY <1>1 DEF SeqInv, OneStart, Beginning
<1>4. \A q \in Proc : pc[q] \in Serving => seqNum[q] = mrseq /\ q \in existingPids[p]
  BY <1>1, <1>3 DEF Current, AllFound, Decided, Alive
<1>5. AllFound'
  BY <1>1, <1>3 DEF AllFound, Decided, Alive
<1>6. Current'
  <2>1. CASE seqNum[p] > mrSeqNum[p] /\ Others(p)
    BY <1>1, <1>4, <2>1 DEF Current
  <2>2. CASE ~Others(p)
    BY <1>1, <1>4, <2>2 DEF Current, Others
  <2>3. CASE ~(seqNum[p] > mrSeqNum[p])
    BY <1>1, <1>2, <1>4, <2>3 DEF Current
  <2> QED
    BY <2>1, <2>2, <2>3
<1> QED
  BY <1>5, <1>6

LEMMA CoverKillsDone ==
  ASSUME CoverInv, NEW p \in Proc, KillsDone(p)
  PROVE  AllFound' /\ Current'
<1>1. UNCHANGED <<mrseq, stopping, seqNum, existingPids>> /\ existingPids[p] = {}
  BY DEF KillsDone, Others, local, files, agent
<1>2. CASE pc[p] = "killStale" /\ Goto(p, "truncate")
  BY <1>1, <1>2, CoverGoto DEF Beginning, Decided
<1>3. CASE pc[p] = "killOld" /\ Goto(p, "announce")
  <2> USE DEF CoverInv
  <2>1. \A r \in Proc : r # p => ~Alive(r)
    BY <1>1, <1>3 DEF AllFound, Decided
  <2>2. seqNum[p] = mrseq
    BY <1>3 DEF SeqInv, Ordered
  <2>3. \A r \in Proc : pc'[r] = IF r = p THEN "announce" ELSE pc[r]
    BY <1>3 DEF Goto, SeqInv, TypeOK
  <2> QED
    BY <1>1, <2>1, <2>2, <2>3 DEF AllFound, Current, Alive, Decided
<1> QED
  BY <1>2, <1>3 DEF KillsDone, Killing

LEMMA CoverProcess ==
  ASSUME CoverInv, ~ScanMayFail, NEW p \in Proc, Step(p)
  PROVE  AllFound' /\ Current'
<1> USE DEF local, files, agent
<1>1. CASE TestStatus(p) \/ WritePlaceholder(p) \/ Boot(p)
  <2>1. PICK l \in {"placeholder", "boot", "read"} : Goto(p, l)
    BY <1>1 DEF TestStatus, WritePlaceholder, Boot
  <2>2. /\ pc[p] \in {"shim", "placeholder", "boot"}
        /\ UNCHANGED <<mrseq, stopping, seqNum, existingPids>>
    BY <1>1 DEF TestStatus, WritePlaceholder, Boot
  <2> QED
    BY <2>1, <2>2, CoverGoto DEF Beginning, Decided
<1>2. CASE ReadSeqNum(p) \/ CheckSuperseded(p)
  <2>1. pc[p] \in {"read", "top"} /\ UNCHANGED <<mrseq, stopping>>
    BY <1>2 DEF ReadSeqNum, CheckSuperseded
  <2>2. CASE Die({p})
    BY <2>1, <2>2, CoverDie
  <2>3. CASE pc[p] = "read" /\ Goto(p, "scan") /\ UNCHANGED <<seqNum, existingPids>>
    BY <2>1, <2>3, CoverGoto DEF Beginning, Decided
  <2>4. CASE pc[p] = "top" /\ Goto(p, "poll") /\ UNCHANGED <<seqNum, existingPids>>
    BY <2>1, <2>4, CoverGoto DEF Beginning, Decided
  <2> QED
    BY <1>2, <2>2, <2>3, <2>4 DEF ReadSeqNum, CheckSuperseded
<1>3. CASE TakeOver(p) \/ Proceed(p) \/ TruncateSeqFile(p)
  <2>1. PICK l \in {"killStale", "truncate", "write"} : Goto(p, l)
    BY <1>3 DEF TakeOver, Proceed, TruncateSeqFile
  <2>2. /\ pc[p] \in {"decide", "truncate"}
        /\ UNCHANGED <<mrseq, stopping, seqNum, existingPids>>
    BY <1>3 DEF TakeOver, Proceed, TruncateSeqFile
  <2> QED
    BY <2>1, <2>2, CoverGoto DEF Beginning, Decided
<1>4. CASE IdempotentExit(p) \/ RejectOldSeqNum(p) \/ Fail(p)
  <2>1. Die({p}) /\ pc[p] \in {"decide", "fail"} /\ UNCHANGED <<mrseq, stopping>>
    BY <1>4 DEF IdempotentExit, RejectOldSeqNum, Fail
  <2> QED
    BY <2>1, CoverDie
<1>5. ASSUME NEW q \in Proc, SkipGone(p, q) \/ SeeExit(p, q)
      PROVE  AllFound' /\ Current'
  <2>1. /\ ~Alive(q) /\ UNCHANGED <<pc, seqNum, mrseq, stopping>>
        /\ \A r \in Proc : existingPids'[r] = IF r = p THEN existingPids[r] \ {q} ELSE existingPids[r]
    BY <1>5 DEF SkipGone, SeeExit, Remove, CoverInv, SeqInv, TypeOK
  <2> QED
    BY <2>1, CoverQuiet
<1>6. ASSUME NEW q \in Proc, SendSigTerm(p, q)
      PROVE  AllFound' /\ Current'
  <2>1. /\ UNCHANGED <<existingPids, mrseq, stopping>>
        /\ \A r \in Proc : \/ pc'[r] = "dead" /\ pc[r] = "boot"
                           \/ pc'[r] = pc[r] /\ seqNum'[r] = seqNum[r]
    BY <1>6 DEF SendSigTerm, Terminate
  <2> QED
    BY <2>1, CoverQuiet
<1>7. ASSUME NEW q \in Proc, SendSigKill(p, q)
      PROVE  AllFound' /\ Current'
  <2>1. Die({q}) /\ UNCHANGED <<mrseq, stopping>>
    BY <1>7 DEF SendSigKill
  <2>2. pc[p] \in Decided /\ q \in existingPids[p] /\ Alive(q)
    BY <1>7, NoProcAssumption DEF SendSigKill, Killing, Decided, CoverInv, SeqInv, Targets
  <2>3. pc[q] \in Serving
    BY <2>2 DEF CoverInv, SeqInv, Older
  <2> QED
    BY <2>1, <2>3, CoverDie
<1>8. CASE Announce(p) \/ ParseSettings(p) \/ Poll(p) \/ Report(p) \/ Sleep(p)
  <2>1. pc[p] \in Serving /\ UNCHANGED <<mrseq, stopping, seqNum, existingPids>>
    BY <1>8 DEF Announce, ParseSettings, Poll, Report, Sleep
  <2>2. PICK l \in {"parse", "fail", "top", "report", "sleep"} : Goto(p, l)
    BY <1>8 DEF Announce, ParseSettings, Poll, Report, Sleep
  <2> QED
    BY <2>1, <2>2, CoverGoto DEF Beginning, Decided
<1> QED
  BY <1>1, <1>2, <1>3, <1>4, <1>5, <1>6, <1>7, <1>8, CoverScan, CoverWrite, CoverKillsDone DEF Step

LEMMA CoverOther ==
  ASSUME CoverInv, ~Overlap, "killOld" \notin CrashAt, Agent \/ Stop \/ Trouble \/ Tick
  PROVE  AllFound' /\ Current'
<1> USE DEF local, files, agent
<1>1. CASE UNCHANGED <<pc, seqNum, existingPids, mrseq, stopping>>
  BY <1>1, CoverQuiet
<1>2. Publish \/ Tick \/ (\E p \in Proc : Hang(p) \/ Resume(p))
        => UNCHANGED <<pc, seqNum, existingPids, mrseq, stopping>>
  BY DEF Publish, Tick, Hang, Resume
<1>3. ASSUME NEW p \in Proc, StopHard(p)
      PROVE  AllFound' /\ Current'
  BY <1>3, CoverDie DEF StopHard
<1>4. CASE StopAll
  <2>1. /\ UNCHANGED <<existingPids, mrseq>> /\ stopping'
        /\ \A r \in Proc : \/ pc'[r] = "dead" /\ pc[r] = "boot"
                           \/ pc'[r] = pc[r] /\ seqNum'[r] = seqNum[r]
    BY <1>4 DEF StopAll, Terminate
  <2> QED
    BY <2>1, CoverQuiet
<1>5. CASE StopDone
  <2>1. UNCHANGED <<pc, seqNum, existingPids, mrseq>> /\ \A r \in Proc : ~Alive(r)
    BY <1>5 DEF StopDone
  <2> QED
    BY <2>1 DEF AllFound, Current, Alive, Decided
<1>6. ASSUME NEW p \in Proc, StartShim(p)
      PROVE  AllFound' /\ Current'
  <2>1. /\ ~stopping /\ UNCHANGED <<existingPids, mrseq>>
        /\ \A r \in Proc : pc[r] \notin Beginning
        /\ \A r \in Proc : IF r = p THEN pc'[r] = "shim"
                           ELSE pc'[r] = pc[r] /\ seqNum'[r] = seqNum[r]
    BY <1>6 DEF StartShim, AgentIdle, Goto, CoverInv, SeqInv, TypeOK, Beginning
  <2>2. AllFound'
    BY <2>1 DEF AllFound, Beginning, Decided
  <2>3. Current'
    BY <2>1 DEF Current, CoverInv, Beginning
  <2> QED
    BY <2>2, <2>3
<1>7. ASSUME NEW p \in Proc, Crash(p)
      PROVE  AllFound' /\ Current'
  BY <1>7, CoverDie DEF Crash
<1> QED
  BY <1>1, <1>2, <1>3, <1>4, <1>5, <1>6, <1>7 DEF Agent, Stop, Trouble

LEMMA CoverStep ==
  ASSUME CoverInv, ~Overlap, "killOld" \notin CrashAt, ~ScanMayFail, [Next]_vars
  PROVE  CoverInv'
<1>1. SeqInv' /\ ShimInv'
  BY SeqStep, ShimStep DEF CoverInv
<1>2. CASE UNCHANGED vars
  <2>1. UNCHANGED <<pc, seqNum, existingPids, mrseq, stopping>>
    BY <1>2 DEF vars, local, files, agent
  <2> QED
    BY <1>1, <2>1, CoverQuiet DEF CoverInv
<1>3. CASE Next
  BY <1>1, <1>3, CoverProcess, CoverOther DEF CoverInv, Next
<1> QED
  BY <1>2, <1>3

(***************************************************************************)
(* Who is on its way out was told so by a process that still waits for it  *)
(* to end, or by a stop.                                                   *)
(***************************************************************************)
Spared ==
  \A q \in Proc :
    shutdown[q] \/ pc[q] = "fail" =>
      /\ Alive(q) /\ pc[q] # "boot"
      /\ stopping \/ \E r \in Proc : Killing(r) /\ killing[r] = q

\* What the scan found is there when checkIdempotency relies on it.
Present ==
  \A p \in Proc : pc[p] = "decide" /\ SameSeq(p) /\ ~stopping =>
    \A q \in existingPids[p] : Alive(q)

SurviveInv == CoverInv /\ Spared /\ Present

LEMMA SparedKept ==
  ASSUME Spared,
         \A q \in Proc : shutdown'[q] \/ pc'[q] = "fail" => shutdown[q] \/ pc[q] = "fail",
         \A q \in Proc : \/ pc'[q] = pc[q]
                         \/ Alive(q)' /\ pc'[q] # "boot"
                         \/ ~shutdown'[q] /\ pc'[q] # "fail",
         stopping => stopping',
         \A q, r \in Proc : Killing(r) /\ killing[r] = q
           => \/ Killing(r)' /\ killing'[r] = q
              \/ stopping'
              \/ ~Alive(q)
  PROVE  Spared'
BY DEF Spared, Alive

LEMMA SparedGoto ==
  ASSUME CoverInv, Spared, UNCHANGED <<shutdown, killing, stopping>>,
         NEW p \in Proc, NEW l \in PCs, Goto(p, l), l = "fail" => shutdown[p],
         l \in {"unborn", "dead", "shim", "placeholder", "boot"} => ~Alive(p),
         ~Killing(p) \/ killing[p] = NoProc
  PROVE  Spared'
<1>1. \A r \in Proc : pc'[r] = IF r = p THEN l ELSE pc[r]
  BY DEF Goto, CoverInv, SeqInv, TypeOK
<1>2. ~Alive(p) => ~shutdown[p]
  BY DEF Spared
<1> QED
  BY <1>1, <1>2, NoProcAssumption, SparedKept DEF Alive, Killing

LEMMA SparedDie ==
  ASSUME CoverInv, Spared, NEW d \in Proc, Die({d}), UNCHANGED stopping, ~Killing(d) \/ stopping
  PROVE  Spared'
<1>1. \A r \in Proc : IF r = d THEN pc'[r] = "dead" /\ ~shutdown'[r]
                      ELSE pc'[r] = pc[r] /\ shutdown'[r] = shutdown[r] /\ killing'[r] = killing[r]
  BY DEF Die
<1> QED
  BY <1>1, SparedKept DEF Alive, Killing

LEMMA SparedProcess ==
  ASSUME CoverInv, Spared, InvalidSeqs = {}, NEW p \in Proc, Step(p)
  PROVE  Spared'
<1> USE DEF local, agent
<1>1. CASE TestStatus(p) \/ WritePlaceholder(p)
  <2>1. /\ pc[p] \in InShim /\ UNCHANGED <<shutdown, killing, stopping>>
        /\ \E l \in {"placeholder", "boot"} : Goto(p, l)
    BY <1>1 DEF TestStatus, WritePlaceholder
  <2> QED
    BY <2>1, SparedGoto DEF Alive, Killing
<1>2. CASE \/ Boot(p) \/ FindExistingProcesses(p) \/ TakeOver(p) \/ Proceed(p)
           \/ TruncateSeqFile(p) \/ WriteSeqNum(p) \/ KillsDone(p) \/ Announce(p)
           \/ ParseSettings(p) \/ Poll(p) \/ Report(p) \/ Sleep(p)
  <2>1. PICK l \in (Starting \cup Serving) \ {"boot"} : Goto(p, l) /\ (l = "fail" => shutdown[p])
    BY <1>2 DEF Boot, FindExistingProcesses, TakeOver, Proceed, TruncateSeqFile, WriteSeqNum,
                KillsDone, Announce, ParseSettings, Poll, Report, Sleep
  <2>2. UNCHANGED <<shutdown, killing, stopping>> /\ (~Killing(p) \/ killing[p] = NoProc)
    BY <1>2 DEF Boot, FindExistingProcesses, TakeOver, Proceed, TruncateSeqFile, WriteSeqNum,
                KillsDone, Announce, ParseSettings, Poll, Report, Sleep, Killing
  <2> QED
    BY <2>1, <2>2, SparedGoto
<1>3. CASE ReadSeqNum(p) \/ CheckSuperseded(p)
  <2>1. UNCHANGED stopping /\ ~Killing(p)
    BY <1>3 DEF ReadSeqNum, CheckSuperseded, Killing
  <2>2. CASE Die({p})
    BY <2>1, <2>2, SparedDie
  <2>3. CASE UNCHANGED <<shutdown, killing>> /\ \E l \in {"scan", "poll"} : Goto(p, l)
    BY <2>1, <2>3, SparedGoto
  <2> QED
    BY <1>3, <2>2, <2>3 DEF ReadSeqNum, CheckSuperseded
<1>4. CASE IdempotentExit(p) \/ RejectOldSeqNum(p) \/ Fail(p)
  BY <1>4, SparedDie DEF IdempotentExit, RejectOldSeqNum, Fail, Killing
<1>5. ASSUME NEW q \in Proc, SkipGone(p, q) \/ SeeExit(p, q)
      PROVE  Spared'
  <2>1. /\ UNCHANGED <<pc, shutdown, stopping>> /\ (killing[p] = NoProc \/ (~Alive(q) /\ killing[p] = q))
        /\ \A r \in Proc : r # p => killing'[r] = killing[r]
    BY <1>5 DEF SkipGone, SeeExit, Remove, CoverInv, SeqInv, TypeOK
  <2> QED
    BY <2>1, NoProcAssumption, SparedKept DEF Killing
<1>6. ASSUME NEW q \in Proc, SendSigTerm(p, q)
      PROVE  Spared'
  <2>1. /\ Killing(p) /\ killing[p] = NoProc /\ Alive(q) /\ UNCHANGED stopping /\ pc[p] # "boot"
        /\ \A r \in Proc : IF r = q /\ pc[r] = "boot" THEN pc'[r] = "dead" ELSE pc'[r] = pc[r]
        /\ \A r \in Proc : shutdown'[r] <=> shutdown[r] \/ (r = q /\ pc[r] # "boot")
        /\ \A r \in Proc : killing'[r] = IF r = p THEN q ELSE killing[r]
    BY <1>6 DEF SendSigTerm, Terminate, Killing, CoverInv, SeqInv, TypeOK
  <2>2. Killing(p)' /\ killing'[p] = q
    BY <2>1 DEF Killing
  <2>3. \A r \in Proc : Killing(r) => pc'[r] = pc[r]
    BY <2>1 DEF Killing
  <2> SUFFICES ASSUME NEW r \in Proc, shutdown'[r] \/ pc'[r] = "fail"
               PROVE  /\ Alive(r)' /\ pc'[r] # "boot"
                      /\ stopping' \/ \E k \in Proc : Killing(k)' /\ killing'[k] = r
    BY DEF Spared
  <2>4. CASE r = q
    BY <2>1, <2>2, <2>4 DEF Spared, Alive
  <2>5. CASE r # q
    <3>1. /\ Alive(r) /\ pc[r] # "boot" /\ pc'[r] = pc[r]
          /\ stopping \/ \E k \in Proc : Killing(k) /\ killing[k] = r
      BY <2>1, <2>5 DEF Spared
    <3> QED
      BY <2>1, <2>3, <3>1, NoProcAssumption DEF Alive, Killing
  <2> QED
    BY <2>4, <2>5
<1>7. ASSUME NEW q \in Proc, SendSigKill(p, q)
      PROVE  Spared'
  <2>1. pc[p] \in Decided /\ q \in existingPids[p] /\ Alive(q) /\ Die({q}) /\ UNCHANGED stopping
    BY <1>7, NoProcAssumption DEF SendSigKill, Killing, Decided, CoverInv, SeqInv, Targets
  <2>2. ~Killing(q)
    BY <2>1 DEF CoverInv, SeqInv, Older, Killing
  <2> QED
    BY <2>1, <2>2, SparedDie
<1> QED
  BY <1>1, <1>2, <1>3, <1>4, <1>5, <1>6, <1>7 DEF Step

LEMMA SparedOther ==
  ASSUME CoverInv, Spared, CrashAt \cap ({"killStale", "killOld"} \cup Serving) = {},
         Agent \/ Stop \/ Trouble \/ Tick
  PROVE  Spared'
<1> USE DEF local, agent
<1>1. CASE Publish \/ Tick \/ \E p \in Proc : Hang(p) \/ Resume(p)
  <2>1. UNCHANGED <<pc, shutdown, killing, stopping>>
    BY <1>1 DEF Publish, Tick, Hang, Resume
  <2> QED
    BY <2>1, SparedKept DEF Killing
<1>2. ASSUME NEW p \in Proc, StopHard(p) \/ Crash(p)
      PROVE  Spared'
  BY <1>2, SparedDie DEF StopHard, Crash, Killing
<1>3. CASE StopAll
  <2>1. /\ stopping'
        /\ \A r \in Proc : IF Alive(r) /\ pc[r] = "boot" THEN pc'[r] = "dead" ELSE pc'[r] = pc[r]
        /\ \A r \in Proc : shutdown'[r] <=> shutdown[r] \/ (Alive(r) /\ pc[r] # "boot")
    BY <1>3 DEF StopAll, Terminate
  <2> QED
    BY <2>1 DEF Spared, Alive
<1>4. CASE StopDone
  <2>1. UNCHANGED <<pc, shutdown>> /\ \A r \in Proc : ~Alive(r)
    BY <1>4 DEF StopDone
  <2> QED
    BY <2>1 DEF Spared
<1>5. ASSUME NEW p \in Proc, StartShim(p)
      PROVE  Spared'
  <2>1. /\ Goto(p, "shim") /\ pc[p] = "unborn" /\ UNCHANGED <<shutdown, killing, stopping>>
    BY <1>5 DEF StartShim
  <2> QED
    BY <2>1, SparedGoto DEF Alive, Killing
<1> QED
  BY <1>1, <1>2, <1>3, <1>4, <1>5 DEF Agent, Stop, Trouble

LEMMA PresentKept ==
  ASSUME SurviveInv, stopping => stopping',
         \A r \in Proc : pc'[r] = "decide" =>
           /\ pc[r] = "decide" /\ seqNum'[r] = seqNum[r] /\ mrSeqNum'[r] = mrSeqNum[r]
           /\ existingPids'[r] = existingPids[r],
         \A q, r \in Proc : pc[r] = "decide" /\ SameSeq(r) /\ q \in existingPids[r] /\ Alive(q)
           => Alive(q)' \/ stopping' \/ pc'[r] # "decide"
  PROVE  Present'
<1>1. \A r \in Proc : existingPids[r] \subseteq Proc
  BY DEF SurviveInv, CoverInv, SeqInv, TypeOK
<1> QED
  BY <1>1 DEF SurviveInv, Present, SameSeq

LEMMA PresentGoto ==
  ASSUME SurviveInv, NEW p \in Proc, NEW l \in PCs \ {"decide"}, Goto(p, l),
         Alive(p) => l \in Starting \cup Serving, stopping => stopping',
         \A r \in Proc \ {p} : seqNum'[r] = seqNum[r] /\ mrSeqNum'[r] = mrSeqNum[r],
         UNCHANGED existingPids
  PROVE  Present'
<1>1. \A r \in Proc : pc'[r] = IF r = p THEN l ELSE pc[r]
  BY DEF Goto, SurviveInv, CoverInv, SeqInv, TypeOK
<1> QED
  BY <1>1, PresentKept DEF Alive

\* A process that serves the recorded number ends only at a killer's hands or
\* in a stop.
LEMMA PresentDie ==
  ASSUME SurviveInv, NEW d \in Proc, Die({d}), UNCHANGED stopping,
         \/ pc[d] \in Starting
         \/ stopping
         \/ \E r \in Proc : Killing(r)
         \/ seqNum[d] # mrseq
  PROVE  Present'
<1> USE DEF SurviveInv, CoverInv, SeqInv
<1>1. \A r \in Proc : IF r = d THEN pc'[r] = "dead"
                      ELSE /\ pc'[r] = pc[r] /\ existingPids'[r] = existingPids[r]
                           /\ seqNum'[r] = seqNum[r] /\ mrSeqNum'[r] = mrSeqNum[r]
  BY DEF Die
<1>2. ASSUME NEW r \in Proc, pc[r] = "decide", d \in existingPids[r], Alive(d)
      PROVE  stopping
  <2>1. pc[d] \in Serving
    BY <1>2 DEF Older, Decided
  <2>2. \A k \in Proc : pc[k] \in Starting => k = r
    BY <1>2 DEF OneStart, Beginning
  <2>3. \A k \in Proc : ~Killing(k)
    BY <1>2, <2>2 DEF Killing
  <2>4. seqNum[d] = mrseq \/ stopping
    BY <2>1, <2>3 DEF Current, Killing
  <2> QED
    BY <2>1, <2>3, <2>4
<1> QED
  BY <1>1, <1>2, PresentKept DEF Alive

LEMMA PresentProcess ==
  ASSUME SurviveInv, ~ScanMayFail, NEW p \in Proc, Step(p)
  PROVE  Present'
<1> USE DEF local, files, agent
<1>1. CASE TestStatus(p) \/ WritePlaceholder(p)
  <2>1. /\ pc[p] \in InShim /\ UNCHANGED <<seqNum, mrSeqNum, existingPids, stopping>>
        /\ \E l \in {"placeholder", "boot"} : Goto(p, l)
    BY <1>1 DEF TestStatus, WritePlaceholder
  <2> QED
    BY <2>1, PresentGoto DEF Alive
<1>2. CASE \/ Boot(p) \/ TakeOver(p) \/ Proceed(p) \/ TruncateSeqFile(p) \/ WriteSeqNum(p)
           \/ KillsDone(p) \/ Announce(p) \/ ParseSettings(p) \/ Poll(p) \/ Report(p) \/ Sleep(p)
  <2>1. PICK l \in (Starting \cup Serving) \ {"decide"} : Goto(p, l)
    BY <1>2 DEF Boot, TakeOver, Proceed, TruncateSeqFile, WriteSeqNum, KillsDone, Announce,
                ParseSettings, Poll, Report, Sleep
  <2>2. UNCHANGED <<seqNum, mrSeqNum, existingPids, stopping>>
    BY <1>2 DEF Boot, TakeOver, Proceed, TruncateSeqFile, WriteSeqNum, KillsDone, Announce,
                ParseSettings, Poll, Report, Sleep
  <2> QED
    BY <2>1, <2>2, PresentGoto
<1>3. CASE ReadSeqNum(p)
  <2>1. CASE Die({p})
    BY <1>3, <2>1, PresentDie DEF ReadSeqNum
  <2>2. CASE /\ Goto(p, "scan") /\ mrSeqNum' = [mrSeqNum EXCEPT ![p] = mrseq]
             /\ UNCHANGED <<seqNum, existingPids, stopping>>
    <3>1. \A r \in Proc \ {p} : mrSeqNum'[r] = mrSeqNum[r]
      BY <2>2 DEF SurviveInv, CoverInv, SeqInv, TypeOK
    <3> QED
      BY <2>2, <3>1, PresentGoto
  <2> QED
    BY <1>3, <2>1, <2>2 DEF ReadSeqNum
<1>4. CASE FindExistingProcesses(p)
  <2>1. /\ pc[p] = "scan" /\ UNCHANGED stopping
        /\ \A r \in Proc : pc'[r] = IF r = p THEN "decide" ELSE pc[r]
        /\ existingPids'[p] = {q \in Proc \ {p} : Alive(q)}
    BY <1>4 DEF FindExistingProcesses, Goto, SurviveInv, CoverInv, SeqInv, TypeOK
  <2>2. \A r \in Proc : pc'[r] = "decide" => r = p
    BY <2>1 DEF SurviveInv, CoverInv, SeqInv, OneStart, Beginning
  <2>3. \A q \in existingPids'[p] : Alive(q)'
    BY <2>1 DEF Alive
  <2> QED
    BY <2>2, <2>3 DEF Present
<1>5. CASE IdempotentExit(p) \/ RejectOldSeqNum(p)
  BY <1>5, PresentDie DEF IdempotentExit, RejectOldSeqNum
<1>6. CASE Fail(p)
  <2>1. stopping \/ \E r \in Proc : Killing(r)
    BY <1>6 DEF Fail, SurviveInv, Spared
  <2> QED
    BY <1>6, <2>1, PresentDie DEF Fail
<1>7. CASE CheckSuperseded(p)
  <2>1. CASE seqNum[p] < mrseq /\ Die({p})
    <3>1. seqNum[p] # mrseq
      BY <2>1, SeqTypes DEF SurviveInv, CoverInv, SeqInv
    <3> QED
      BY <1>7, <2>1, <3>1, PresentDie DEF CheckSuperseded
  <2>2. CASE Goto(p, "poll") /\ UNCHANGED <<seqNum, mrSeqNum, existingPids>>
    BY <1>7, <2>2, PresentGoto DEF CheckSuperseded
  <2> QED
    BY <1>7, <2>1, <2>2 DEF CheckSuperseded
<1>8. ASSUME NEW q \in Proc, SkipGone(p, q) \/ SeeExit(p, q)
      PROVE  Present'
  <2>1. /\ pc[p] # "decide" /\ UNCHANGED <<pc, seqNum, mrSeqNum, stopping>>
        /\ \A r \in Proc : r # p => existingPids'[r] = existingPids[r]
    BY <1>8 DEF SkipGone, SeeExit, Remove, Killing, SurviveInv, CoverInv, SeqInv, TypeOK
  <2> QED
    BY <2>1, PresentKept DEF Alive
<1>9. ASSUME NEW q \in Proc, SendSigTerm(p, q)
      PROVE  Present'
  <2>1. /\ UNCHANGED <<mrSeqNum, existingPids, stopping>> /\ Killing(p)
        /\ \A r \in Proc : \/ pc'[r] = "dead"
                           \/ pc'[r] = pc[r] /\ seqNum'[r] = seqNum[r]
    BY <1>9 DEF SendSigTerm, Terminate
  <2>2. \A r \in Proc : pc[r] # "decide"
    BY <2>1 DEF Killing, SurviveInv, CoverInv, SeqInv, OneStart, Beginning
  <2> QED
    BY <2>1, <2>2, PresentKept
<1>10. ASSUME NEW q \in Proc, SendSigKill(p, q)
       PROVE  Present'
  BY <1>10, PresentDie DEF SendSigKill
<1> QED
  BY <1>1, <1>2, <1>3, <1>4, <1>5, <1>6, <1>7, <1>8, <1>9, <1>10 DEF Step

LEMMA PresentOther ==
  ASSUME SurviveInv, CrashAt \cap ({"killStale", "killOld"} \cup Serving) = {},
         Agent \/ Stop \/ Trouble \/ Tick
  PROVE  Present'
<1> USE DEF local, agent
<1>1. CASE Publish \/ Tick \/ \E p \in Proc : Hang(p) \/ Resume(p)
  <2>1. UNCHANGED <<pc, seqNum, mrSeqNum, existingPids, stopping>>
    BY <1>1 DEF Publish, Tick, Hang, Resume
  <2> QED
    BY <2>1, PresentKept DEF Alive
<1>2. ASSUME NEW p \in Proc, StopHard(p) \/ Crash(p)
      PROVE  Present'
  <2>1. Die({p}) /\ UNCHANGED stopping /\ (pc[p] \in Starting \/ stopping)
    BY <1>2, CrashAssumption DEF StopHard, Crash
  <2> QED
    BY <2>1, PresentDie
<1>3. CASE StopAll
  BY <1>3 DEF StopAll, Present
<1>4. CASE StopDone
  BY <1>4 DEF StopDone, Present, Alive
<1>5. ASSUME NEW p \in Proc, StartShim(p)
      PROVE  Present'
  <2>1. /\ Goto(p, "shim") /\ pc[p] = "unborn" /\ UNCHANGED <<mrSeqNum, existingPids, stopping>>
        /\ \A r \in Proc \ {p} : seqNum'[r] = seqNum[r]
    BY <1>5 DEF StartShim, SurviveInv, CoverInv, SeqInv, TypeOK
  <2> QED
    BY <2>1, PresentGoto DEF Alive
<1> QED
  BY <1>1, <1>2, <1>3, <1>4, <1>5 DEF Agent, Stop, Trouble

LEMMA SurviveStep ==
  ASSUME SurviveInv, ~Overlap, ~ScanMayFail, InvalidSeqs = {},
         CrashAt \cap ({"killStale", "killOld"} \cup Serving) = {}, [Next]_vars
  PROVE  SurviveInv'
<1>1. CoverInv'
  BY CoverStep DEF SurviveInv
<1>2. CASE UNCHANGED vars
  <2>1. UNCHANGED <<pc, seqNum, mrSeqNum, existingPids, killing, shutdown, stopping>>
    BY <1>2 DEF vars, local, agent
  <2> QED
    BY <1>1, <2>1, SparedKept, PresentKept DEF SurviveInv, Killing, Alive
<1>3. CASE Next
  BY <1>1, <1>3, SparedProcess, SparedOther, PresentProcess, PresentOther DEF SurviveInv, Next
<1> QED
  BY <1>2, <1>3

LEMMA CoverExit ==
  ASSUME SurviveInv
  PROVE  \A p \in Proc : IdempotentExit(p) =>
           \A q \in existingPids[p] :
             /\ Alive(q) => seqNum[q] = seqNum[p]
             /\ Alive(q) \/ stopping
<1> SUFFICES ASSUME NEW p \in Proc, IdempotentExit(p), NEW q \in existingPids[p]
             PROVE  (Alive(q) => seqNum[q] = seqNum[p]) /\ (Alive(q) \/ stopping)
  OBVIOUS
<1> USE DEF SurviveInv, CoverInv, SeqInv
<1>1. pc[p] = "decide" /\ seqNum[p] = mrSeqNum[p] /\ q \in Proc
  BY DEF IdempotentExit, SameSeq, TypeOK
<1>2. mrSeqNum[p] = mrseq /\ (Alive(q) => pc[q] \in Serving)
  BY <1>1 DEF Older, Ordered, Decided, Unrecorded
<1>3. \A r \in Proc : pc[r] # "killOld"
  BY <1>1 DEF OneStart, Beginning
<1>4. Alive(q) => seqNum[q] = seqNum[p]
  BY <1>1, <1>2, <1>3 DEF Current
<1>5. Alive(q) \/ stopping
  BY <1>1 DEF Present, SameSeq
<1> QED
  BY <1>4, <1>5

(***************************************************************************)
(* checkIdempotency compares its number with mrseq and never with those of *)
(* the processes it found, and decides some time after it looked.  All the *)
(* same, whoever it exits in favour of is alive then and serves its number *)
(* unless a stop is under way, if enables start one after the other, scans *)
(* succeed, settings are valid, and a process may crash while it starts    *)
(* but neither while it kills others nor in service.                       *)
(***************************************************************************)
THEOREM ExitCovered ==
  ASSUME ~Overlap, ~ScanMayFail, InvalidSeqs = {},
         CrashAt \cap ({"killStale", "killOld"} \cup Serving) = {}
  PROVE  Spec => IdempotentExitIsCovered
<1>1. Init => SurviveInv
  <2>1. Init => \A p \in Proc : pc[p] = "unborn" /\ ~shutdown[p]
    BY DEF Init
  <2> QED
    BY <2>1, CoverInit DEF SurviveInv, Spared, Present
<1>2. SurviveInv /\ [Next]_vars => SurviveInv'
  BY SurviveStep
<1>3. SurviveInv => [\A p \in Proc : IdempotentExit(p) =>
                       \A q \in existingPids[p] :
                         /\ Alive(q) => seqNum[q] = seqNum[p]
                         /\ Alive(q) \/ stopping]_vars
  BY CoverExit
<1> QED
  BY <1>1, <1>2, <1>3, PTL DEF Spec, IdempotentExitIsCovered

-----------------------------------------------------------------------------
(* The processes implement Succession, if enables start one after the      *)
(* other and every scan succeeds; crashes and hangs are allowed.           *)

\* What is seen of one process in service.
Seen(p) == [who |-> p, number |-> seqNum[p],
            settings |-> IF pc[p] \in {"announce", "parse"} THEN Unread ELSE config[p]]

DutyInv == SeqInv /\ ShimInv /\ ScanInv

LEMMA DutyInit == Init => DutyInv
BY SeqInit, ShimInit, ScanInvInit, TypeInit DEF DutyInv, ScanInv

LEMMA DutyStep ==
  ASSUME DutyInv, ~Overlap, ~ScanMayFail, [Next]_vars
  PROVE  DutyInv' /\ AtMostOneServing /\ AtMostOneServing'
BY SeqStep, ShimStep, ScanInvStep, ServingAlone, PTL DEF DutyInv

\* Nobody takes or leaves service.
LEMMA ServiceKept ==
  ASSUME \A r \in Proc : pc'[r] \in Serving <=> pc[r] \in Serving,
         \A r \in Proc : pc[r] \in Serving => Seen(r)' = Seen(r)
  PROVE  Service' = Service
BY DEF Service, Seen

\* The one in service is alone in it.
LEMMA ServiceIs ==
  ASSUME AtMostOneServing, NEW p \in Proc, pc[p] \in Serving
  PROVE  Service = {Seen(p)}
BY DEF AtMostOneServing, Service, Seen

LEMMA ServiceEmpty ==
  ASSUME \A r \in Proc : pc[r] \notin Serving
  PROVE  Service = {}
BY DEF Service

(***************************************************************************)
(* Processes die and nothing else happens: the service ends or goes on.    *)
(***************************************************************************)
LEMMA DutyDie ==
  ASSUME AtMostOneServing, UNCHANGED <<mrseq, goal>>, NEW q \in Proc, Die({q})
  PROVE  [Promise!Next]_(Promise!vars)
<1>1. \A r \in Proc : IF r = q THEN pc'[r] = "dead"
                      ELSE pc'[r] = pc[r] /\ seqNum'[r] = seqNum[r] /\ config'[r] = config[r]
  BY DEF Die
<1>2. CASE pc[q] \in Serving
  <2>1. Service = {Seen(q)}
    BY <1>2, ServiceIs
  <2>2. \A r \in Proc : pc'[r] \notin Serving
    BY <1>1, <1>2 DEF AtMostOneServing
  <2>3. Service' = {}
    BY <2>2 DEF Service
  <2> QED
    BY <2>1, <2>3 DEF Promise!Next, Promise!End
<1>3. CASE pc[q] \notin Serving
  <2>1. /\ \A r \in Proc : pc'[r] \in Serving <=> pc[r] \in Serving
        /\ \A r \in Proc : pc[r] \in Serving => Seen(r)' = Seen(r)
    BY <1>1, <1>3 DEF Seen
  <2>2. Service' = Service
    BY <2>1, ServiceKept
  <2> QED
    BY <2>2 DEF Promise!vars
<1> QED
  BY <1>2, <1>3

\* One process moves on, in service or out of it.
LEMMA DutyGoto ==
  ASSUME TypeOK, UNCHANGED <<mrseq, goal, seqNum, config>>, NEW p \in Proc, NEW l, Goto(p, l),
         l \in Serving <=> pc[p] \in Serving,
         l \in {"announce", "parse"} <=> pc[p] \in {"announce", "parse"}
  PROVE  [Promise!Next]_(Promise!vars)
<1>1. \A r \in Proc : pc'[r] = IF r = p THEN l ELSE pc[r]
  BY DEF Goto, TypeOK
<1>2. /\ \A r \in Proc : pc'[r] \in Serving <=> pc[r] \in Serving
      /\ \A r \in Proc : pc[r] \in Serving => Seen(r)' = Seen(r)
  BY <1>1 DEF Seen
<1>3. Service' = Service
  BY <1>2, ServiceKept
<1> QED
  BY <1>3 DEF Promise!vars

\* A process begins to serve under a number that is recorded by now.
LEMMA DutyBegin ==
  ASSUME TypeOK, AtMostOneServing', UNCHANGED <<goal, seqNum>>, NEW p \in Proc,
         Goto(p, "announce"), pc[p] \notin Serving,
         seqNum[p] \in mrseq..goal, mrseq' = seqNum[p]
  PROVE  [Promise!Next]_(Promise!vars)
<1>1. \A r \in Proc : pc'[r] = IF r = p THEN "announce" ELSE pc[r]
  BY DEF Goto, TypeOK
<1>2. \A r \in Proc : pc[r] \notin Serving
  BY <1>1 DEF AtMostOneServing
<1>3. Service = {}
  BY <1>2, ServiceEmpty
<1>4. Service' = {[who |-> p, number |-> seqNum[p], settings |-> Unread]}
  BY <1>1, <1>2 DEF Service
<1> QED
  BY <1>3, <1>4 DEF Promise!Next, Promise!Begin

LEMMA DutyParse ==
  ASSUME TypeOK, AtMostOneServing, NEW p \in Proc, ParseSettings(p)
  PROVE  [Promise!Next]_(Promise!vars)
<1>1. /\ pc[p] = "parse" /\ UNCHANGED <<mrseq, goal, seqNum>>
      /\ \A r \in Proc : IF r = p THEN pc'[r] \in {"fail", "top"} /\ config'[r] = goal
                         ELSE pc'[r] = pc[r] /\ config'[r] = config[r]
  BY DEF ParseSettings, Goto, TypeOK, files, agent
<1>2. \A r \in Proc : pc[r] \in Serving => r = p
  BY <1>1 DEF AtMostOneServing
<1>3. Service = {[who |-> p, number |-> seqNum[p], settings |-> Unread]}
  BY <1>1, <1>2 DEF Service
<1>4. Service' = {[who |-> p, number |-> seqNum[p], settings |-> goal]}
  BY <1>1, <1>2 DEF Service
<1> QED
  BY <1>1, <1>3, <1>4 DEF Promise!Next, Promise!Adopt

LEMMA DutyWrite ==
  ASSUME DutyInv, AtMostOneServing', NEW p \in Proc, WriteSeqNum(p)
  PROVE  [Promise!Next]_(Promise!vars)
<1>1. /\ pc[p] = "write" /\ UNCHANGED <<seqNum, config, goal>> /\ mrseq' = seqNum[p]
      /\ Goto(p, IF seqNum[p] > mrSeqNum[p] /\ Others(p) THEN "killOld" ELSE "announce")
  BY DEF WriteSeqNum, local, agent
<1>2. mrSeqNum[p] = mrseq /\ mrSeqNum[p] <= seqNum[p] /\ seqNum[p] <= goal
  BY <1>1 DEF DutyInv, SeqInv, ShimInv, Ordered, Unrecorded, Issued
<1>3. /\ mrseq \in Nat /\ goal \in Nat /\ seqNum[p] \in Nat /\ TypeOK
      /\ seqNum[p] \in mrseq..goal
  BY <1>2, SeqTypes, SeqFacts DEF DutyInv, SeqInv, TypeOK
<1>4. CASE Goto(p, "announce")
  BY <1>1, <1>3, <1>4, DutyBegin
<1>5. CASE Goto(p, "killOld") /\ seqNum[p] > mrSeqNum[p]
  <2>1. \A r \in Proc : pc'[r] = IF r = p THEN "killOld" ELSE pc[r]
    BY <1>3, <1>5 DEF Goto, TypeOK
  <2>2. /\ \A r \in Proc : pc'[r] \in Serving <=> pc[r] \in Serving
        /\ \A r \in Proc : pc[r] \in Serving => Seen(r)' = Seen(r)
    BY <1>1, <2>1 DEF Seen
  <2>3. Service' = Service
    BY <2>2, ServiceKept
  <2>4. seqNum[p] \in (mrseq + 1)..goal
    BY <1>2, <1>3, <1>5
  <2> QED
    BY <1>1, <2>3, <2>4 DEF Promise!Next, Promise!Announce
<1> QED
  BY <1>1, <1>4, <1>5

LEMMA DutyProcess ==
  ASSUME DutyInv, AtMostOneServing, AtMostOneServing', NEW p \in Proc, Step(p)
  PROVE  [Promise!Next]_(Promise!vars)
<1> USE DEF local, files, agent
<1>0. TypeOK
  BY DEF DutyInv, SeqInv
<1>1. CASE TestStatus(p) \/ WritePlaceholder(p) \/ Boot(p) \/ TakeOver(p) \/ Proceed(p)
           \/ TruncateSeqFile(p) \/ FindExistingProcesses(p)
  <2>1. /\ pc[p] \notin Serving /\ UNCHANGED <<mrseq, goal, seqNum, config>>
        /\ \E l \in {"placeholder", "boot", "read", "decide", "killStale", "truncate", "write"} : Goto(p, l)
    BY <1>1 DEF TestStatus, WritePlaceholder, Boot, TakeOver, Proceed, TruncateSeqFile,
                FindExistingProcesses
  <2>2. PICK l \in {"placeholder", "boot", "read", "decide", "killStale", "truncate", "write"} : Goto(p, l)
    BY <2>1
  <2> QED
    BY <1>0, <2>1, <2>2, DutyGoto
<1>2. CASE ReadSeqNum(p) \/ CheckSuperseded(p)
  <2>1. UNCHANGED <<mrseq, goal>>
    BY <1>2 DEF ReadSeqNum, CheckSuperseded
  <2>2. CASE Die({p})
    BY <2>1, <2>2, DutyDie
  <2>3. CASE pc[p] = "read" /\ Goto(p, "scan") /\ UNCHANGED <<seqNum, config>>
    BY <1>0, <2>1, <2>3, DutyGoto
  <2>4. CASE pc[p] = "top" /\ Goto(p, "poll") /\ UNCHANGED <<seqNum, config>>
    BY <1>0, <2>1, <2>4, DutyGoto
  <2> QED
    BY <1>2, <2>2, <2>3, <2>4 DEF ReadSeqNum, CheckSuperseded
<1>3. CASE IdempotentExit(p) \/ RejectOldSeqNum(p) \/ Fail(p)
  BY <1>3, DutyDie DEF IdempotentExit, RejectOldSeqNum, Fail
<1>4. ASSUME NEW q \in Proc, SendSigKill(p, q) PROVE [Promise!Next]_(Promise!vars)
  BY <1>4, DutyDie DEF SendSigKill
<1>5. ASSUME NEW q \in Proc, SkipGone(p, q) \/ SeeExit(p, q) PROVE [Promise!Next]_(Promise!vars)
  <2>1. UNCHANGED <<pc, seqNum, config, mrseq, goal>>
    BY <1>5 DEF SkipGone, SeeExit
  <2> QED
    BY <2>1 DEF Promise!vars, Service
<1>6. ASSUME NEW q \in Proc, SendSigTerm(p, q) PROVE [Promise!Next]_(Promise!vars)
  <2>1. /\ UNCHANGED <<config, mrseq, goal>>
        /\ \A r \in Proc : \/ pc'[r] = "dead" /\ pc[r] = "boot"
                           \/ pc'[r] = pc[r] /\ seqNum'[r] = seqNum[r]
    BY <1>6 DEF SendSigTerm, Terminate
  <2>2. Service' = Service
    BY <2>1, ServiceKept DEF Seen
  <2> QED
    BY <2>1, <2>2 DEF Promise!vars
<1>7. CASE KillsDone(p)
  <2>1. UNCHANGED <<mrseq, goal, seqNum, config>>
    BY <1>7 DEF KillsDone
  <2>2. CASE pc[p] = "killStale" /\ Goto(p, "truncate")
    BY <1>0, <2>1, <2>2, DutyGoto
  <2>3. CASE pc[p] = "killOld" /\ Goto(p, "announce")
    <3>1. seqNum[p] = mrseq /\ seqNum[p] <= goal
      BY <2>3 DEF DutyInv, SeqInv, ShimInv, Ordered, Issued
    <3>2. seqNum[p] \in mrseq..goal
      BY <1>0, <3>1, SeqFacts DEF TypeOK
    <3> QED
      BY <1>0, <2>1, <2>3, <3>1, <3>2, DutyBegin
  <2> QED
    BY <1>7, <2>2, <2>3 DEF KillsDone, Killing
<1>8. CASE Announce(p) \/ Poll(p) \/ Report(p) \/ Sleep(p)
  <2>1. UNCHANGED <<mrseq, goal, seqNum, config>>
    BY <1>8 DEF Announce, Poll, Report, Sleep
  <2>2. CASE pc[p] = "announce" /\ Goto(p, "parse")
    BY <1>0, <2>1, <2>2, DutyGoto
  <2>3. ASSUME NEW l \in {"fail", "report", "sleep", "top"},
               pc[p] \in {"poll", "report", "sleep"}, Goto(p, l)
        PROVE  [Promise!Next]_(Promise!vars)
    BY <1>0, <2>1, <2>3, DutyGoto
  <2> QED
    BY <1>8, <2>2, <2>3 DEF Announce, Poll, Report, Sleep
<1> QED
  BY <1>0, <1>1, <1>2, <1>3, <1>4, <1>5, <1>6, <1>7, <1>8, DutyParse, DutyWrite DEF Step

LEMMA DutyOther ==
  ASSUME DutyInv, AtMostOneServing, Agent \/ Stop \/ Trouble \/ Tick
  PROVE  [Promise!Next]_(Promise!vars)
<1> USE DEF local, files, agent
<1>1. CASE Tick \/ StopDone \/ \E p \in Proc : Hang(p) \/ Resume(p)
  <2>1. UNCHANGED <<pc, seqNum, config, mrseq, goal>>
    BY <1>1 DEF Tick, StopDone, Hang, Resume
  <2> QED
    BY <2>1 DEF Promise!vars, Service
<1>2. CASE Publish
  <2>1. goal' = goal + 1 /\ UNCHANGED <<pc, seqNum, config, mrseq>>
    BY <1>2 DEF Publish
  <2> QED
    BY <2>1 DEF Promise!Next, Promise!Issue, Service
<1>3. ASSUME NEW p \in Proc, StopHard(p) \/ Crash(p) PROVE [Promise!Next]_(Promise!vars)
  BY <1>3, DutyDie DEF StopHard, Crash
<1>4. CASE StopAll
  <2>1. /\ UNCHANGED <<config, mrseq, goal>>
        /\ \A r \in Proc : \/ pc'[r] = "dead" /\ pc[r] = "boot"
                           \/ pc'[r] = pc[r] /\ seqNum'[r] = seqNum[r]
    BY <1>4 DEF StopAll, Terminate
  <2>2. Service' = Service
    BY <2>1, ServiceKept DEF Seen
  <2> QED
    BY <2>1, <2>2 DEF Promise!vars
<1>5. ASSUME NEW p \in Proc, StartShim(p) PROVE [Promise!Next]_(Promise!vars)
  <2>1. /\ UNCHANGED <<config, mrseq, goal>> /\ pc[p] = "unborn"
        /\ \A r \in Proc : IF r = p THEN pc'[r] = "shim"
                           ELSE pc'[r] = pc[r] /\ seqNum'[r] = seqNum[r]
    BY <1>5 DEF StartShim, Goto, DutyInv, SeqInv, TypeOK
  <2>2. Service' = Service
    BY <2>1, ServiceKept DEF Seen
  <2> QED
    BY <2>1, <2>2 DEF Promise!vars
<1> QED
  BY <1>1, <1>2, <1>3, <1>4, <1>5 DEF Agent, Stop, Trouble

(***************************************************************************)
(* The enable processes hand the service over as Succession promises, for  *)
(* any number of them, if their starts do not overlap and /proc can be     *)
(* read: whatever crashes, hangs or is stopped meanwhile.                  *)
(***************************************************************************)
THEOREM SuccessionRefinement ==
  ASSUME ~Overlap, ~ScanMayFail
  PROVE  Spec => ImplementsSuccession
<1>1. Init => DutyInv /\ Promise!Init
  <2>1. Init => goal = 0 /\ mrseq = 0 /\ Service = {}
    BY DEF Init, Service
  <2> QED
    BY <2>1, DutyInit DEF Promise!Init
<1>2. DutyInv /\ [Next]_vars => DutyInv' /\ [Promise!Next]_(Promise!vars)
  <2> SUFFICES ASSUME DutyInv, [Next]_vars
               PROVE  DutyInv' /\ [Promise!Next]_(Promise!vars)
    OBVIOUS
  <2>1. DutyInv' /\ AtMostOneServing /\ AtMostOneServing'
    BY DutyStep
  <2>2. CASE UNCHANGED vars
    <3>1. UNCHANGED <<pc, seqNum, config, mrseq, goal>>
      BY <2>2 DEF vars, local, files, agent
    <3> QED
      BY <2>1, <3>1 DEF Promise!vars, Service
  <2>3. CASE Next
    BY <2>1, <2>3, DutyProcess, DutyOther DEF Next
  <2> QED
    BY <2>1, <2>2, <2>3
<1> QED
  BY <1>1, <1>2, PTL DEF Spec, ImplementsSuccession, Promise!Spec

=============================================================================
