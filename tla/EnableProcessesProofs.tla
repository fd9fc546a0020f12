------------------------ MODULE EnableProcessesProofs ------------------------
(***************************************************************************)
(* Proofs about the enable processes, for every number of processes and    *)
(* of sequence numbers, with overlapping starts, crashes and hangs.        *)
(***************************************************************************)
EXTENDS EnableProcesses, TLAPS

(* The names of the program counter, for the provers to expand at once. *)
USE DEF PCs, InShim, Starting, Serving, Polling

LEMMA SeqFacts ==
  /\ MaxSeq \in Nat /\ 0 \in Seqs /\ Seqs \subseteq Nat
  /\ \A s \in Seqs : s < MaxSeq => s + 1 \in Seqs
BY SeqAssumption DEF Seqs

LEMMA AgeFacts ==
  /\ StaleAge \in Nat /\ 0 \in 0..StaleAge /\ StaleAge \in 0..StaleAge
BY AgeAssumption

(***************************************************************************)
(* Ending processes, signalling them and moving one of them on keep the    *)
(* types of everything these touch.                                        *)
(***************************************************************************)
LEMMA DieType ==
  ASSUME TypeOK, NEW D, Die(D)
  PROVE  /\ pc' \in [Proc -> PCs]
         /\ seqNum' \in [Proc -> Seqs] /\ mrSeqNum' \in [Proc -> Seqs]
         /\ existingPids' \in [Proc -> SUBSET Proc]
         /\ killing' \in [Proc -> Proc \cup {NoProc}]
         /\ logFresh' \in [Proc -> BOOLEAN] /\ shutdown' \in [Proc -> BOOLEAN]
         /\ config' \in [Proc -> Seqs] /\ hung' \subseteq Proc
<1> USE SeqFacts DEF TypeOK, Die
<1>1. pc' \in [Proc -> PCs]
  OBVIOUS
<1>2. seqNum' \in [Proc -> Seqs] /\ mrSeqNum' \in [Proc -> Seqs]
  OBVIOUS
<1>3. existingPids' \in [Proc -> SUBSET Proc] /\ killing' \in [Proc -> Proc \cup {NoProc}]
  OBVIOUS
<1>4. logFresh' \in [Proc -> BOOLEAN] /\ shutdown' \in [Proc -> BOOLEAN]
  OBVIOUS
<1>5. config' \in [Proc -> Seqs] /\ hung' \subseteq Proc
  OBVIOUS
<1> QED
  BY <1>1, <1>2, <1>3, <1>4, <1>5

LEMMA TerminateType ==
  ASSUME TypeOK, NEW T, Terminate(T)
  PROVE  /\ pc' \in [Proc -> PCs]
         /\ seqNum' \in [Proc -> Seqs]
         /\ logFresh' \in [Proc -> BOOLEAN] /\ shutdown' \in [Proc -> BOOLEAN]
<1> USE SeqFacts DEF TypeOK, Terminate
<1>1. pc' \in [Proc -> PCs]
  OBVIOUS
<1>2. seqNum' \in [Proc -> Seqs]
  OBVIOUS
<1>3. logFresh' \in [Proc -> BOOLEAN]
  OBVIOUS
<1>4. shutdown' \in [Proc -> BOOLEAN]
  OBVIOUS
<1> QED
  BY <1>1, <1>2, <1>3, <1>4

LEMMA GotoType ==
  ASSUME TypeOK, NEW p \in Proc, NEW l \in PCs, Goto(p, l)
  PROVE  pc' \in [Proc -> PCs]
BY DEF TypeOK, Goto

LEMMA SaveType ==
  ASSUME TypeOK, NEW p \in Proc, NEW s \in StatusFile, Save(p, s)
  PROVE  status' \in [Seqs -> StatusFile]
BY DEF TypeOK, Save

LEMMA RemoveType ==
  ASSUME TypeOK, NEW p \in Proc, NEW q \in Proc, Remove(p, q)
  PROVE  existingPids' \in [Proc -> SUBSET Proc] /\ killing' \in [Proc -> Proc \cup {NoProc}]
BY DEF TypeOK, Remove

-----------------------------------------------------------------------------
(* Type correctness. *)

LEMMA TypeInit == Init => TypeOK
<1> SUFFICES ASSUME Init
             PROVE  TypeOK
  OBVIOUS
<1>1. pc \in [Proc -> PCs] /\ seqNum \in [Proc -> Seqs] /\ mrSeqNum \in [Proc -> Seqs]
  BY SeqFacts DEF Init
<1>2. existingPids \in [Proc -> SUBSET Proc] /\ killing \in [Proc -> Proc \cup {NoProc}]
  BY DEF Init
<1>3. logFresh \in [Proc -> BOOLEAN] /\ shutdown \in [Proc -> BOOLEAN]
  BY DEF Init
<1>4. mrseq \in Seqs /\ goal \in Seqs /\ status \in [Seqs -> StatusFile]
  BY SeqFacts DEF Init, StatusFile
<1>5. logAge \in 0..StaleAge /\ pollAge \in 0..StaleAge /\ stops \in 0..MaxStops
  BY AgeFacts, StopsAssumption DEF Init
<1>6. hung \subseteq Proc /\ torn \in BOOLEAN /\ stopping \in BOOLEAN /\ config \in [Proc -> Seqs]
  BY SeqFacts DEF Init
<1> QED
  BY <1>1, <1>2, <1>3, <1>4, <1>5, <1>6 DEF TypeOK

(* What a process does on its own. *)
LEMMA TypeStepProcess ==
  ASSUME TypeOK, NEW p \in Proc, Step(p)
  PROVE  TypeOK'
<1> USE DEF local, files, clock, agent
<1> USE TypeOK
<1>1. CASE TestStatus(p)
  <2>1. pc' \in [Proc -> PCs]
    BY <1>1 DEF TestStatus, TypeOK, Goto
  <2> QED
    BY <1>1, <2>1 DEF TestStatus, TypeOK
<1>2. CASE WritePlaceholder(p)
  <2>1. pc' \in [Proc -> PCs] /\ status' \in [Seqs -> StatusFile]
    BY <1>2, GotoType DEF WritePlaceholder, StatusFile, TypeOK
  <2> QED
    BY <1>2, <2>1 DEF WritePlaceholder, TypeOK
<1>3. CASE Boot(p)
  <2>1. pc' \in [Proc -> PCs]
    BY <1>3, GotoType DEF Boot
  <2> QED
    BY <1>3, <2>1 DEF Boot, TypeOK
<1>4. CASE ReadSeqNum(p)
  <2>1. CASE Die({p}) /\ UNCHANGED <<files, clock, agent>>
    BY <2>1, DieType DEF TypeOK
  <2>2. CASE /\ mrSeqNum' = [mrSeqNum EXCEPT ![p] = mrseq] /\ Goto(p, "scan")
             /\ UNCHANGED <<seqNum, existingPids, killing, logFresh, shutdown, config, hung>>
             /\ UNCHANGED <<files, clock, agent>>
    <3>1. pc' \in [Proc -> PCs]
      BY <2>2, GotoType
    <3>2. mrSeqNum' \in [Proc -> Seqs]
      BY <2>2 DEF TypeOK
    <3> QED
      BY <2>2, <3>1, <3>2 DEF TypeOK
  <2> QED
    BY <1>4, <2>1, <2>2 DEF ReadSeqNum
<1>5. CASE FindExistingProcesses(p)
  <2>1. pc' \in [Proc -> PCs]
    BY <1>5, GotoType DEF FindExistingProcesses
  <2>2. existingPids' \in [Proc -> SUBSET Proc]
    BY <1>5 DEF FindExistingProcesses, TypeOK
  <2> QED
    BY <1>5, <2>1, <2>2 DEF FindExistingProcesses, TypeOK
<1>6. CASE IdempotentExit(p) \/ RejectOldSeqNum(p)
  <2>1. Die({p}) /\ UNCHANGED <<files, clock, agent>>
    BY <1>6 DEF IdempotentExit, RejectOldSeqNum
  <2> QED
    BY <2>1, DieType DEF TypeOK
<1>7. CASE TakeOver(p) \/ Proceed(p)
  <2>1. pc' \in [Proc -> PCs]
    BY <1>7, GotoType DEF TakeOver, Proceed
  <2> QED
    BY <1>7, <2>1 DEF TakeOver, Proceed, TypeOK
<1>8. CASE TruncateSeqFile(p)
  <2>1. pc' \in [Proc -> PCs]
    BY <1>8, GotoType DEF TruncateSeqFile
  <2> QED
    BY <1>8, <2>1 DEF TruncateSeqFile, TypeOK
<1>9. CASE WriteSeqNum(p)
  <2>1. pc' \in [Proc -> PCs]
    BY <1>9 DEF WriteSeqNum, Goto, TypeOK
  <2>2. mrseq' \in Seqs /\ torn' \in BOOLEAN
    BY <1>9 DEF WriteSeqNum, TypeOK
  <2> QED
    BY <1>9, <2>1, <2>2 DEF WriteSeqNum, TypeOK
<1>10. ASSUME NEW q \in Proc, SkipGone(p, q) \/ SeeExit(p, q)
       PROVE  TypeOK'
  <2>1. existingPids' \in [Proc -> SUBSET Proc] /\ killing' \in [Proc -> Proc \cup {NoProc}]
    BY <1>10, RemoveType DEF SkipGone, SeeExit
  <2> QED
    BY <1>10, <2>1 DEF SkipGone, SeeExit, TypeOK
<1>11. ASSUME NEW q \in Proc, SendSigTerm(p, q)
       PROVE  TypeOK'
  <2>1. killing' \in [Proc -> Proc \cup {NoProc}]
    BY <1>11 DEF SendSigTerm, TypeOK
  <2>2. Terminate({q})
    BY <1>11 DEF SendSigTerm
  <2> QED
    BY <1>11, <2>1, <2>2, TerminateType DEF SendSigTerm, TypeOK
<1>12. ASSUME NEW q \in Proc, SendSigKill(p, q)
       PROVE  TypeOK'
  <2>1. Die({q}) /\ UNCHANGED <<files, clock, agent>>
    BY <1>12 DEF SendSigKill
  <2> QED
    BY <2>1, DieType DEF TypeOK
<1>13. CASE KillsDone(p)
  <2>1. pc' \in [Proc -> PCs]
    BY <1>13 DEF KillsDone, Goto, TypeOK
  <2> QED
    BY <1>13, <2>1 DEF KillsDone, TypeOK
<1>14. CASE Announce(p)
  <2>1. pc' \in [Proc -> PCs] /\ status' \in [Seqs -> StatusFile]
    BY <1>14, GotoType, SaveType DEF Announce, StatusFile
  <2> QED
    BY <1>14, <2>1, AgeFacts DEF Announce, TypeOK
<1>15. CASE ParseSettings(p)
  <2>1. pc' \in [Proc -> PCs]
    BY <1>15 DEF ParseSettings, Goto, TypeOK
  <2>2. config' \in [Proc -> Seqs]
    BY <1>15 DEF ParseSettings, TypeOK
  <2> QED
    BY <1>15, <2>1, <2>2 DEF ParseSettings, TypeOK
<1>16. CASE CheckSuperseded(p)
  <2>1. CASE Die({p}) /\ UNCHANGED <<files, clock, agent>>
    BY <2>1, DieType DEF TypeOK
  <2>2. CASE Goto(p, "poll") /\ UNCHANGED <<local, hung>> /\ UNCHANGED <<files, clock, agent>>
    <3>1. pc' \in [Proc -> PCs]
      BY <2>2, GotoType
    <3> QED
      BY <2>2, <3>1 DEF TypeOK
  <2> QED
    BY <1>16, <2>1, <2>2 DEF CheckSuperseded
<1>17. CASE Poll(p) \/ Sleep(p)
  <2>1. pc' \in [Proc -> PCs]
    BY <1>17 DEF Poll, Sleep, Goto, TypeOK
  <2> QED
    BY <1>17, <2>1 DEF Poll, Sleep, TypeOK
<1>18. CASE Report(p)
  <2>1. pc' \in [Proc -> PCs] /\ status' \in [Seqs -> StatusFile]
    BY <1>18, GotoType, SaveType DEF Report, StatusFile
  <2> QED
    BY <1>18, <2>1 DEF Report, TypeOK
<1>19. CASE Fail(p)
  <2>1. Die({p}) /\ status' \in [Seqs -> StatusFile]
    BY <1>19, SaveType DEF Fail, StatusFile
  <2> QED
    BY <1>19, <2>1, DieType DEF Fail, TypeOK
<1> QED
  BY <1>1, <1>2, <1>3, <1>4, <1>5, <1>6, <1>7, <1>8, <1>9, <1>10, <1>11, <1>12,
     <1>13, <1>14, <1>15, <1>16, <1>17, <1>18, <1>19 DEF Step

(* What is done to the processes. *)
LEMMA TypeStepOther ==
  ASSUME TypeOK, Agent \/ Stop \/ Trouble \/ Tick
  PROVE  TypeOK'
<1> USE DEF local, files, clock, agent
<1> USE TypeOK
<1>1. CASE Publish
  <2>1. goal' \in Seqs
    BY <1>1, SeqFacts DEF Publish, TypeOK
  <2> QED
    BY <1>1, <2>1 DEF Publish, TypeOK
<1>2. ASSUME NEW p \in Proc, StartShim(p)
      PROVE  TypeOK'
  <2>1. pc' \in [Proc -> PCs]
    BY <1>2, GotoType DEF StartShim
  <2>2. seqNum' \in [Proc -> Seqs]
    <3>1. 0..goal \subseteq Seqs
      BY SeqFacts DEF TypeOK, Seqs
    <3> QED
      BY <1>2, <3>1 DEF StartShim, TypeOK
  <2>3. logFresh' \in [Proc -> BOOLEAN]
    BY <1>2 DEF StartShim, TypeOK
  <2> QED
    BY <1>2, <2>1, <2>2, <2>3, AgeFacts DEF StartShim, TypeOK
<1>3. CASE StopAll
  <2>1. stops' \in 0..MaxStops
    BY <1>3, StopsAssumption DEF StopAll, TypeOK
  <2>2. PICK T : Terminate(T)
    BY <1>3 DEF StopAll
  <2> QED
    BY <1>3, <2>1, <2>2, TerminateType DEF StopAll, TypeOK
<1>4. ASSUME NEW p \in Proc, StopHard(p) \/ Crash(p)
      PROVE  TypeOK'
  <2>1. Die({p}) /\ UNCHANGED <<files, clock, agent>>
    BY <1>4 DEF StopHard, Crash
  <2> QED
    BY <2>1, DieType DEF TypeOK
<1>5. CASE StopDone
  <2>1. status' \in [Seqs -> StatusFile]
    BY <1>5 DEF StopDone, TypeOK, StatusFile
  <2> QED
    BY <1>5, <2>1, AgeFacts DEF StopDone, TypeOK
<1>6. ASSUME NEW p \in Proc, Hang(p) \/ Resume(p)
      PROVE  TypeOK'
  BY <1>6 DEF Hang, Resume, TypeOK
<1>7. CASE Tick
  <2>1. logAge' \in 0..StaleAge /\ pollAge' \in 0..StaleAge
    BY <1>7, AgeFacts DEF Tick, TypeOK
  <2> QED
    BY <1>7, <2>1 DEF Tick, TypeOK
<1> QED
  BY <1>1, <1>2, <1>3, <1>4, <1>5, <1>6, <1>7 DEF Agent, Stop, Trouble

LEMMA TypeStep ==
  ASSUME TypeOK, [Next]_vars
  PROVE  TypeOK'
<1>1. CASE UNCHANGED vars
  BY <1>1 DEF vars, local, files, clock, agent, TypeOK
<1> QED
  BY <1>1, TypeStepProcess, TypeStepOther DEF Next

(***************************************************************************)
(* Every value the processes, the files and the clocks take has its type,  *)
(* whatever the number of processes and sequence numbers.                  *)
(***************************************************************************)
THEOREM EnableTypeCorrect == Spec => []TypeOK
BY TypeInit, TypeStep, PTL DEF Spec

-----------------------------------------------------------------------------
(* Two processes never serve at the same time. *)

\* The process has scanned /proc.
Scanned == {"decide", "killStale", "truncate", "write", "killOld"} \cup Serving

(***************************************************************************)
(* Of two processes that have both scanned /proc, at least one has found   *)
(* the other and not yet dealt with it: the one that scanned later, or,    *)
(* if both were already there, both.                                       *)
(***************************************************************************)
Found ==
  \A p, q \in Proc :
    p # q /\ pc[p] \in Scanned /\ pc[q] \in Scanned
      => q \in existingPids[p] \/ p \in existingPids[q]

(***************************************************************************)
(* A serving process has dealt with everybody it found; one that saves its *)
(* sequence number has, or will do so because the number is a new one.     *)
(***************************************************************************)
Cleared ==
  \A p \in Proc :
    /\ pc[p] \in Serving => existingPids[p] = {}
    /\ pc[p] \in {"truncate", "write"} => seqNum[p] > mrSeqNum[p] \/ existingPids[p] = {}

ScanInv == TypeOK /\ Found /\ Cleared

LEMMA ScanInvInit == Init => Found /\ Cleared
BY DEF Init, Found, Cleared, Scanned

\* A step keeps Found if nobody gets past the scan or forgets whom he found.
LEMMA FoundKept ==
  ASSUME Found,
         \A r \in Proc : pc'[r] \in Scanned => pc[r] \in Scanned /\ existingPids'[r] = existingPids[r]
  PROVE  Found'
BY DEF Found

\* A step keeps Cleared if everybody it brings to a critical place qualifies.
LEMMA ClearedKept ==
  ASSUME Cleared,
         \A r \in Proc :
           \/ pc'[r] \notin Serving \cup {"truncate", "write"}
           \/ existingPids'[r] = {}
           \/ pc'[r] \in {"truncate", "write"} /\ seqNum'[r] > mrSeqNum'[r]
           \/ /\ pc'[r] = pc[r] /\ existingPids'[r] = existingPids[r]
              /\ seqNum'[r] = seqNum[r] /\ mrSeqNum'[r] = mrSeqNum[r]
  PROVE  Cleared'
BY DEF Cleared

LEMMA GotoKeeps ==
  ASSUME ScanInv, NEW p \in Proc, NEW l \in PCs, Goto(p, l),
         UNCHANGED <<seqNum, mrSeqNum, existingPids>>,
         l \in Scanned => pc[p] \in Scanned,
         l \in Serving => existingPids[p] = {},
         l \in {"truncate", "write"} => seqNum[p] > mrSeqNum[p] \/ existingPids[p] = {}
  PROVE  Found' /\ Cleared'
<1>1. \A r \in Proc : pc'[r] = IF r = p THEN l ELSE pc[r]
  BY DEF Goto, ScanInv, TypeOK
<1>2. Found'
  BY <1>1, FoundKept DEF ScanInv
<1>3. Cleared'
  BY <1>1, ClearedKept DEF ScanInv
<1> QED
  BY <1>2, <1>3

LEMMA DieKeeps ==
  ASSUME ScanInv, NEW D, Die(D)
  PROVE  Found' /\ Cleared'
<1>1. \A r \in Proc : IF r \in D THEN pc'[r] = "dead"
                      ELSE /\ pc'[r] = pc[r] /\ existingPids'[r] = existingPids[r]
                           /\ seqNum'[r] = seqNum[r] /\ mrSeqNum'[r] = mrSeqNum[r]
  BY DEF Die
<1>2. Found'
  BY <1>1, FoundKept DEF ScanInv, Scanned
<1>3. Cleared'
  BY <1>1, ClearedKept DEF ScanInv
<1> QED
  BY <1>2, <1>3

LEMMA TerminateKeeps ==
  ASSUME ScanInv, NEW T, Terminate(T), UNCHANGED <<mrSeqNum, existingPids>>
  PROVE  Found' /\ Cleared'
<1>1. \A r \in Proc : pc'[r] = "dead" \/ (pc'[r] = pc[r] /\ seqNum'[r] = seqNum[r])
  BY DEF Terminate
<1>2. Found'
  BY <1>1, FoundKept DEF ScanInv, Scanned
<1>3. Cleared'
  BY <1>1, ClearedKept DEF ScanInv
<1> QED
  BY <1>2, <1>3

\* Whoever is dealt with is gone, so that nobody needs to have found it.
LEMMA RemoveKeeps ==
  ASSUME ScanInv, NEW p \in Proc, NEW q \in Proc, Remove(p, q), ~Alive(q),
         UNCHANGED <<pc, seqNum, mrSeqNum>>
  PROVE  Found' /\ Cleared'
<1>1. \A r \in Proc : existingPids'[r] = IF r = p THEN existingPids[p] \ {q} ELSE existingPids[r]
  BY DEF Remove, ScanInv, TypeOK
<1>2. pc[q] \notin Scanned
  BY DEF Alive, Scanned
<1>3. Found'
  BY <1>1, <1>2 DEF ScanInv, Found
<1>4. Cleared'
  BY <1>1 DEF ScanInv, Cleared
<1> QED
  BY <1>3, <1>4

\* The scan finds every process that scanned before.
LEMMA ScanKeeps ==
  ASSUME ScanInv, ~ScanMayFail, NEW p \in Proc, FindExistingProcesses(p)
  PROVE  Found' /\ Cleared'
<1>1. \A r \in Proc : pc'[r] = IF r = p THEN "decide" ELSE pc[r]
  BY DEF FindExistingProcesses, Goto, ScanInv, TypeOK
<1>2. \A r \in Proc : existingPids'[r] = IF r = p THEN {q \in Proc \ {p} : Alive(q)} ELSE existingPids[r]
  BY DEF FindExistingProcesses, ScanInv, TypeOK
<1>3. \A r \in Proc : pc[r] \in Scanned => Alive(r)
  BY DEF Alive, Scanned
<1>4. Found'
  BY <1>1, <1>2, <1>3 DEF ScanInv, Found
<1>5. seqNum' = seqNum /\ mrSeqNum' = mrSeqNum
  BY DEF FindExistingProcesses
<1>6. Cleared'
  BY <1>1, <1>2, <1>5, ClearedKept DEF ScanInv
<1> QED
  BY <1>4, <1>6

LEMMA ScanInvProcess ==
  ASSUME ScanInv, ~ScanMayFail, NEW p \in Proc, Step(p)
  PROVE  Found' /\ Cleared'
<1> USE DEF local
<1>1. CASE TestStatus(p) \/ WritePlaceholder(p) \/ Boot(p)
  <2>1. PICK l \in {"placeholder", "boot", "read"} : Goto(p, l)
    BY <1>1 DEF TestStatus, WritePlaceholder, Boot
  <2>2. UNCHANGED <<seqNum, mrSeqNum, existingPids>>
    BY <1>1 DEF TestStatus, WritePlaceholder, Boot
  <2> QED
    BY <2>1, <2>2, GotoKeeps DEF Scanned
<1>2. CASE ReadSeqNum(p)
  <2>1. CASE Die({p})
    BY <2>1, DieKeeps
  <2>2. CASE Goto(p, "scan") /\ UNCHANGED <<seqNum, existingPids>>
                             /\ mrSeqNum' = [mrSeqNum EXCEPT ![p] = mrseq]
    <3>1. \A r \in Proc : IF r = p THEN pc'[r] = "scan"
                          ELSE pc'[r] = pc[r] /\ mrSeqNum'[r] = mrSeqNum[r]
      BY <2>2 DEF Goto, ScanInv, TypeOK
    <3>2. Found'
      BY <2>2, <3>1, FoundKept DEF ScanInv, Scanned
    <3>3. Cleared'
      BY <2>2, <3>1, ClearedKept DEF ScanInv
    <3> QED
      BY <3>2, <3>3
  <2> QED
    BY <1>2, <2>1, <2>2 DEF ReadSeqNum
<1>3. CASE FindExistingProcesses(p)
  BY <1>3, ScanKeeps
<1>4. CASE IdempotentExit(p) \/ RejectOldSeqNum(p) \/ Fail(p)
  BY <1>4, DieKeeps DEF IdempotentExit, RejectOldSeqNum, Fail
<1>5. CASE TakeOver(p)
  <2>1. Goto(p, "killStale") /\ pc[p] = "decide" /\ UNCHANGED <<seqNum, mrSeqNum, existingPids>>
    BY <1>5 DEF TakeOver
  <2> QED
    BY <2>1, GotoKeeps DEF Scanned
<1>6. CASE Proceed(p)
  <2>1. Goto(p, "truncate") /\ pc[p] = "decide" /\ UNCHANGED <<seqNum, mrSeqNum, existingPids>>
    BY <1>6 DEF Proceed
  <2>2. seqNum[p] > mrSeqNum[p] \/ existingPids[p] = {}
    <3>1. seqNum[p] \in Nat /\ mrSeqNum[p] \in Nat
      BY SeqFacts DEF ScanInv, TypeOK
    <3> QED
      BY <1>6, <3>1 DEF Proceed, SameSeq, Others
  <2> QED
    BY <2>1, <2>2, GotoKeeps DEF Scanned
<1>7. CASE TruncateSeqFile(p)
  <2>1. Goto(p, "write") /\ pc[p] = "truncate" /\ UNCHANGED <<seqNum, mrSeqNum, existingPids>>
    BY <1>7 DEF TruncateSeqFile
  <2>2. seqNum[p] > mrSeqNum[p] \/ existingPids[p] = {}
    BY <2>1 DEF ScanInv, Cleared
  <2> QED
    BY <2>1, <2>2, GotoKeeps DEF Scanned
<1>8. CASE WriteSeqNum(p)
  <2>1. pc[p] = "write" /\ UNCHANGED <<seqNum, mrSeqNum, existingPids>>
    BY <1>8 DEF WriteSeqNum
  <2>2. CASE Goto(p, "killOld")
    BY <2>1, <2>2, GotoKeeps DEF Scanned
  <2>3. CASE Goto(p, "announce") /\ ~(seqNum[p] > mrSeqNum[p] /\ Others(p))
    <3>1. existingPids[p] = {}
      BY <2>1, <2>3 DEF ScanInv, Cleared, Others
    <3> QED
      BY <2>1, <2>3, <3>1, GotoKeeps DEF Scanned
  <2> QED
    BY <1>8, <2>2, <2>3 DEF WriteSeqNum
<1>9. ASSUME NEW q \in Proc, SkipGone(p, q) \/ SeeExit(p, q)
      PROVE  Found' /\ Cleared'
  BY <1>9, RemoveKeeps DEF SkipGone, SeeExit
<1>10. ASSUME NEW q \in Proc, SendSigTerm(p, q)
       PROVE  Found' /\ Cleared'
  BY <1>10, TerminateKeeps DEF SendSigTerm
<1>11. ASSUME NEW q \in Proc, SendSigKill(p, q)
       PROVE  Found' /\ Cleared'
  BY <1>11, DieKeeps DEF SendSigKill
<1>12. CASE KillsDone(p)
  <2>1. pc[p] \in Scanned /\ existingPids[p] = {} /\ UNCHANGED <<seqNum, mrSeqNum, existingPids>>
    BY <1>12 DEF KillsDone, Killing, Others, Scanned
  <2>2. PICK l \in {"truncate", "announce"} : Goto(p, l)
    BY <1>12 DEF KillsDone
  <2> QED
    BY <2>1, <2>2, GotoKeeps
<1>13. CASE Announce(p) \/ ParseSettings(p) \/ Poll(p) \/ Report(p) \/ Sleep(p)
  <2>1. pc[p] \in Serving /\ UNCHANGED <<seqNum, mrSeqNum, existingPids>>
    BY <1>13 DEF Announce, ParseSettings, Poll, Report, Sleep
  <2>2. PICK l \in {"parse", "fail", "top", "report", "sleep"} : Goto(p, l)
    BY <1>13 DEF Announce, ParseSettings, Poll, Report, Sleep
  <2>3. existingPids[p] = {} /\ pc[p] \in Scanned
    BY <2>1 DEF ScanInv, Cleared, Scanned
  <2> QED
    BY <2>1, <2>2, <2>3, GotoKeeps
<1>14. CASE CheckSuperseded(p)
  <2>1. CASE Die({p})
    BY <2>1, DieKeeps
  <2>2. CASE Goto(p, "poll") /\ pc[p] = "top" /\ UNCHANGED local
    <3>1. existingPids[p] = {}
      BY <2>2 DEF ScanInv, Cleared
    <3> QED
      BY <2>2, <3>1, GotoKeeps DEF Scanned
  <2> QED
    BY <1>14, <2>1, <2>2 DEF CheckSuperseded
<1> QED
  BY <1>1, <1>2, <1>3, <1>4, <1>5, <1>6, <1>7, <1>8, <1>9, <1>10, <1>11, <1>12, <1>13, <1>14
  DEF Step

LEMMA ScanInvOther ==
  ASSUME ScanInv, Agent \/ Stop \/ Trouble \/ Tick
  PROVE  Found' /\ Cleared'
<1> USE DEF local
<1>1. CASE UNCHANGED <<pc, seqNum, mrSeqNum, existingPids>>
  BY <1>1 DEF ScanInv, Found, Cleared
<1>2. ASSUME NEW p \in Proc, StartShim(p)
      PROVE  Found' /\ Cleared'
  <2>1. \A r \in Proc : IF r = p THEN pc'[r] = "shim"
                        ELSE pc'[r] = pc[r] /\ seqNum'[r] = seqNum[r]
    BY <1>2 DEF StartShim, Goto, ScanInv, TypeOK
  <2>2. UNCHANGED <<mrSeqNum, existingPids>>
    BY <1>2 DEF StartShim
  <2>3. Found'
    BY <2>1, <2>2, FoundKept DEF ScanInv, Scanned
  <2>4. Cleared'
    BY <2>1, <2>2, ClearedKept DEF ScanInv
  <2> QED
    BY <2>3, <2>4
<1>3. CASE StopAll
  <2>1. PICK T : Terminate(T)
    BY <1>3 DEF StopAll
  <2>2. UNCHANGED <<mrSeqNum, existingPids>>
    BY <1>3 DEF StopAll
  <2> QED
    BY <2>1, <2>2, TerminateKeeps
<1>4. ASSUME NEW p \in Proc, StopHard(p) \/ Crash(p)
      PROVE  Found' /\ Cleared'
  BY <1>4, DieKeeps DEF StopHard, Crash
<1>5. Publish \/ StopDone \/ Tick \/ (\E p \in Proc : Hang(p) \/ Resume(p))
        => UNCHANGED <<pc, seqNum, mrSeqNum, existingPids>>
  BY DEF Publish, StopDone, Tick, Hang, Resume
<1> QED
  BY <1>1, <1>2, <1>3, <1>4, <1>5 DEF Agent, Stop, Trouble

LEMMA ScanInvStep ==
  ASSUME ScanInv, ~ScanMayFail, [Next]_vars
  PROVE  ScanInv'
<1>1. TypeOK'
  BY TypeStep DEF ScanInv
<1>2. CASE UNCHANGED vars
  BY <1>1, <1>2 DEF vars, local, ScanInv, Found, Cleared
<1>3. CASE Next
  BY <1>1, <1>3, ScanInvProcess, ScanInvOther DEF ScanInv, Next
<1> QED
  BY <1>2, <1>3

LEMMA ServingAlone == ScanInv => AtMostOneServing
BY DEF ScanInv, Found, Cleared, AtMostOneServing, Scanned

(***************************************************************************)
(* However many enables start, overlap, kill each other, crash or hang, at *)
(* most one process is past its pre-check, provided that every scan of     *)
(* /proc succeeds: a failed scan only warns (main/cmds.go:105-107).        *)
(***************************************************************************)
THEOREM MutualExclusion ==
  ASSUME ~ScanMayFail
  PROVE  Spec => []AtMostOneServing
<1>1. Init => ScanInv
  BY TypeInit, ScanInvInit DEF ScanInv
<1>2. ScanInv /\ [Next]_vars => ScanInv'
  BY ScanInvStep
<1> QED
  BY <1>1, <1>2, ServingAlone, PTL DEF Spec

-----------------------------------------------------------------------------
(* The placeholder of the shim. *)

OneShim == \A p, q \in Proc : pc[p] \in InShim /\ pc[q] \in InShim => p = q
StopAlone == stopping => \A p \in Proc : pc[p] \notin InShim
Issued == \A p \in Proc : seqNum[p] <= goal

(***************************************************************************)
(* A process of the newest sequence number was forked by a shim that saw   *)
(* or wrote the status file of that number: no such process is there while *)
(* the file is missing.                                                    *)
(***************************************************************************)
Covered == \A p \in Proc : Alive(p) /\ seqNum[p] = goal => status[goal] # "none"

ShimInv ==
  /\ TypeOK
  /\ OneShim /\ StopAlone /\ Issued /\ Covered
  /\ PlaceholderCoversNothing

LEMMA ShimInit == Init => ShimInv
<1> SUFFICES ASSUME Init PROVE ShimInv
  OBVIOUS
<1>1. TypeOK
  BY TypeInit
<1>2. \A p \in Proc : pc[p] = "unborn" /\ seqNum[p] = 0
  BY DEF Init
<1>3. stopping = FALSE /\ goal = 0
  BY DEF Init
<1> QED
  BY <1>1, <1>2, <1>3
  DEF ShimInv, OneShim, StopAlone, Issued, Covered, PlaceholderCoversNothing, Alive

\* A step of processes that have left their shims: only they save a status.
LEMMA ShimQuiet ==
  ASSUME ShimInv, TypeOK', UNCHANGED <<goal, stopping>>,
         \A r \in Proc : /\ pc'[r] \in InShim => pc'[r] = pc[r]
                         /\ Alive(r)' => Alive(r) /\ seqNum'[r] = seqNum[r]
                         /\ seqNum'[r] \in {0, seqNum[r]},
         \A s \in Seqs : \/ status'[s] = status[s]
                         \/ /\ status'[s] # "none"
                            /\ \E q \in Proc : Alive(q) /\ seqNum[q] = s
  PROVE  ShimInv'
<1> USE DEF ShimInv
<1>1. goal \in Seqs /\ goal \in Nat
  BY SeqFacts DEF TypeOK
<1>2. OneShim' /\ StopAlone'
  BY DEF OneShim, StopAlone
<1>3. Issued'
  BY <1>1 DEF Issued
<1>4. Covered'
  BY <1>1 DEF Covered
<1>5. PlaceholderCoversNothing'
  BY <1>1 DEF Covered, PlaceholderCoversNothing
<1> QED
  BY <1>2, <1>3, <1>4, <1>5

LEMMA ShimTest ==
  ASSUME ShimInv, TypeOK', NEW p \in Proc, TestStatus(p)
  PROVE  ShimInv'
<1> USE DEF ShimInv
<1>1. /\ pc[p] = "shim" /\ UNCHANGED <<seqNum, status, goal, stopping>>
      /\ \A r \in Proc : pc'[r] = IF r = p THEN IF status[goal] = "none" THEN "placeholder" ELSE "boot"
                                  ELSE pc[r]
  BY DEF TestStatus, Goto, TypeOK, local, files, agent
<1>2. OneShim' /\ StopAlone' /\ Issued'
  BY <1>1 DEF OneShim, StopAlone, Issued
<1>3. Covered'
  BY <1>1 DEF Covered, Alive
<1>4. PlaceholderCoversNothing'
  BY <1>1 DEF PlaceholderCoversNothing
<1> QED
  BY <1>2, <1>3, <1>4

LEMMA ShimWrite ==
  ASSUME ShimInv, TypeOK', NEW p \in Proc, WritePlaceholder(p)
  PROVE  ShimInv'
<1> USE DEF ShimInv
<1>1. /\ pc[p] = "placeholder" /\ UNCHANGED <<seqNum, goal, stopping>>
      /\ \A r \in Proc : pc'[r] = IF r = p THEN "boot" ELSE pc[r]
      /\ status'[goal] = "transitioning"
  BY DEF WritePlaceholder, Goto, TypeOK, local, agent
<1>2. OneShim' /\ StopAlone' /\ Issued'
  BY <1>1 DEF OneShim, StopAlone, Issued
<1>3. Covered'
  BY <1>1 DEF Covered
<1>4. PlaceholderCoversNothing'
  BY <1>1 DEF PlaceholderCoversNothing, OneShim
<1> QED
  BY <1>2, <1>3, <1>4

\* What the agent does: it issues numbers and runs one shim at a time.
LEMMA ShimAgent ==
  ASSUME ShimInv, TypeOK', Agent \/ StopDone
  PROVE  ShimInv'
<1> USE DEF ShimInv
<1>1. \A r \in Proc : seqNum[r] \in Nat
  BY SeqFacts DEF TypeOK
<1>2. goal \in Nat
  BY SeqFacts DEF TypeOK
<1>3. CASE Publish
  <2>1. /\ \A r \in Proc : pc[r] \notin InShim
        /\ goal' = goal + 1 /\ UNCHANGED <<pc, seqNum, status, stopping>>
    BY <1>3 DEF Publish, AgentIdle, local, files
  <2>2. \A r \in Proc : seqNum'[r] < goal'
    BY <1>1, <1>2, <2>1 DEF Issued
  <2>3. Issued' /\ Covered'
    BY <1>1, <1>2, <2>1, <2>2 DEF Issued, Covered
  <2> QED
    BY <2>1, <2>3 DEF OneShim, StopAlone, PlaceholderCoversNothing
<1>4. ASSUME NEW p \in Proc, StartShim(p)
      PROVE  ShimInv'
  <2>1. /\ ~stopping /\ \A r \in Proc : pc[r] \notin InShim
        /\ UNCHANGED <<goal, status, stopping>>
        /\ \A r \in Proc : pc'[r] = IF r = p THEN "shim" ELSE pc[r]
    BY <1>4 DEF StartShim, AgentIdle, Goto, TypeOK, files, agent
  <2>2. PICK s \in 0..goal : seqNum' = [seqNum EXCEPT ![p] = s]
    BY <1>4 DEF StartShim
  <2>3. Issued'
    BY <1>2, <2>1, <2>2 DEF Issued, TypeOK
  <2>4. Covered'
    BY <2>1, <2>2 DEF Covered, Alive, TypeOK
  <2> QED
    BY <2>1, <2>3, <2>4 DEF OneShim, StopAlone, PlaceholderCoversNothing
<1>5. CASE StopAll
  <2>1. /\ \A r \in Proc : pc[r] \notin InShim
        /\ UNCHANGED <<goal, status>>
        /\ \A r \in Proc : \/ pc'[r] = "dead" /\ seqNum'[r] = 0
                           \/ pc'[r] = pc[r] /\ seqNum'[r] = seqNum[r]
    BY <1>5 DEF StopAll, AgentIdle, Terminate, files
  <2>2. OneShim' /\ StopAlone' /\ PlaceholderCoversNothing'
    BY <2>1 DEF OneShim, StopAlone, PlaceholderCoversNothing
  <2>3. Issued' /\ Covered'
    BY <1>2, <2>1 DEF Issued, Covered, Alive
  <2> QED
    BY <2>2, <2>3
<1>6. CASE StopDone
  <2>1. /\ \A r \in Proc : pc[r] \notin InShim /\ ~Alive(r)
        /\ UNCHANGED <<pc, seqNum, goal>> /\ stopping' = FALSE
    BY <1>6 DEF StopDone, StopAlone, local
  <2> QED
    BY <2>1 DEF OneShim, StopAlone, Issued, Covered, PlaceholderCoversNothing, Alive
<1> QED
  BY <1>3, <1>4, <1>5, <1>6 DEF Agent

\* Processes that end, are signalled, or go on behind their shim.
LEMMA ShimDie ==
  ASSUME ShimInv, TypeOK', NEW D, Die(D), UNCHANGED <<status, goal, stopping>>
  PROVE  ShimInv'
<1>1. \A r \in Proc : \/ pc'[r] = "dead" /\ seqNum'[r] = 0
                      \/ pc'[r] = pc[r] /\ seqNum'[r] = seqNum[r]
  BY DEF Die
<1> QED
  BY <1>1, ShimQuiet DEF Alive

LEMMA ShimGoto ==
  ASSUME ShimInv, TypeOK', NEW p \in Proc, Alive(p), NEW l \in PCs \ InShim, Goto(p, l),
         UNCHANGED <<seqNum, goal, stopping>>,
         UNCHANGED status \/ \E t \in StatusFile \ {"none"} : Save(p, t)
  PROVE  ShimInv'
<1>1. \A r \in Proc : pc'[r] = IF r = p THEN l ELSE pc[r]
  BY DEF Goto, ShimInv, TypeOK
<1>2. \A s \in Seqs : status'[s] = status[s] \/ (status'[s] # "none" /\ seqNum[p] = s)
  BY DEF Save, ShimInv, TypeOK
<1> QED
  BY <1>1, <1>2, ShimQuiet DEF Alive

LEMMA ShimProcess ==
  ASSUME ShimInv, TypeOK', NEW p \in Proc, Step(p)
  PROVE  ShimInv'
<1> USE DEF local, files, agent
<1>1. CASE \/ Boot(p) \/ TakeOver(p) \/ Proceed(p) \/ TruncateSeqFile(p) \/ WriteSeqNum(p)
           \/ KillsDone(p) \/ FindExistingProcesses(p) \/ ParseSettings(p) \/ Poll(p) \/ Sleep(p)
  <2>1. Alive(p) /\ UNCHANGED <<seqNum, status, goal, stopping>>
    BY <1>1 DEF Boot, TakeOver, Proceed, TruncateSeqFile, WriteSeqNum, KillsDone, Killing,
                FindExistingProcesses, ParseSettings, Poll, Sleep, Alive
  <2>2. PICK l \in PCs \ InShim : Goto(p, l)
    BY <1>1 DEF Boot, TakeOver, Proceed, TruncateSeqFile, WriteSeqNum, KillsDone,
                FindExistingProcesses, ParseSettings, Poll, Sleep
  <2> QED
    BY <2>1, <2>2, ShimGoto
<1>2. CASE Announce(p) \/ Report(p)
  <2>1. /\ Alive(p) /\ UNCHANGED <<seqNum, goal, stopping>>
        /\ \E t \in StatusFile \ {"none"} : Save(p, t)
    BY <1>2 DEF Announce, Report, Alive, StatusFile
  <2>2. PICK l \in PCs \ InShim : Goto(p, l)
    BY <1>2 DEF Announce, Report
  <2> QED
    BY <2>1, <2>2, ShimGoto
<1>3. CASE ReadSeqNum(p) \/ CheckSuperseded(p)
  <2>1. Alive(p) /\ UNCHANGED <<status, goal, stopping>>
    BY <1>3 DEF ReadSeqNum, CheckSuperseded, Alive
  <2>2. CASE Die({p})
    BY <2>1, <2>2, ShimDie
  <2>3. CASE \E l \in PCs \ InShim : Goto(p, l) /\ UNCHANGED seqNum
    BY <2>1, <2>3, ShimGoto
  <2> QED
    BY <1>3, <2>2, <2>3 DEF ReadSeqNum, CheckSuperseded
<1>4. CASE IdempotentExit(p) \/ RejectOldSeqNum(p) \/ \E q \in Proc : SendSigKill(p, q)
  <2>1. PICK q : Die({q}) /\ UNCHANGED <<status, goal, stopping>>
    BY <1>4 DEF IdempotentExit, RejectOldSeqNum, SendSigKill
  <2> QED
    BY <2>1, ShimDie
<1>5. ASSUME NEW q \in Proc, SkipGone(p, q) \/ SeeExit(p, q)
      PROVE  ShimInv'
  <2>1. UNCHANGED <<pc, seqNum, status, goal, stopping>>
    BY <1>5 DEF SkipGone, SeeExit
  <2> QED
    BY <2>1, ShimQuiet DEF Alive
<1>6. ASSUME NEW q \in Proc, SendSigTerm(p, q)
      PROVE  ShimInv'
  <2>1. \A r \in Proc : \/ pc'[r] = "dead" /\ seqNum'[r] = 0
                        \/ pc'[r] = pc[r] /\ seqNum'[r] = seqNum[r]
    BY <1>6 DEF SendSigTerm, Terminate
  <2>2. UNCHANGED <<status, goal, stopping>>
    BY <1>6 DEF SendSigTerm
  <2> QED
    BY <2>1, <2>2, ShimQuiet DEF Alive
<1>7. CASE Fail(p)
  <2>1. \A r \in Proc : \/ pc'[r] = "dead" /\ seqNum'[r] = 0
                        \/ pc'[r] = pc[r] /\ seqNum'[r] = seqNum[r]
    BY <1>7 DEF Fail, Die
  <2>2. \A s \in Seqs : status'[s] = status[s] \/ (status'[s] # "none" /\ seqNum[p] = s)
    BY <1>7 DEF Fail, Save, ShimInv, TypeOK
  <2>3. Alive(p) /\ UNCHANGED <<goal, stopping>>
    BY <1>7 DEF Fail, Alive
  <2> QED
    BY <2>1, <2>2, <2>3, ShimQuiet DEF Alive
<1> QED
  BY <1>1, <1>2, <1>3, <1>4, <1>5, <1>6, <1>7, ShimTest, ShimWrite DEF Step

LEMMA ShimStep ==
  ASSUME ShimInv, [Next]_vars
  PROVE  ShimInv'
<1> USE DEF local, files, agent
<1>1. TypeOK'
  BY TypeStep DEF ShimInv
<1>2. CASE UNCHANGED <<pc, seqNum, status, goal, stopping>>
  BY <1>1, <1>2, ShimQuiet DEF Alive
<1>3. Tick \/ (\E p \in Proc : Hang(p) \/ Resume(p)) => UNCHANGED <<pc, seqNum, status, goal, stopping>>
  BY DEF Tick, Hang, Resume
<1>4. ASSUME NEW p \in Proc, StopHard(p) \/ Crash(p)
      PROVE  ShimInv'
  <2>1. Die({p}) /\ UNCHANGED <<status, goal, stopping>>
    BY <1>4 DEF StopHard, Crash
  <2> QED
    BY <1>1, <2>1, ShimDie
<1>5. CASE UNCHANGED vars
  BY <1>2, <1>5 DEF vars
<1> QED
  BY <1>1, <1>2, <1>3, <1>4, <1>5, ShimProcess, ShimAgent DEF Next, Stop, Trouble

(***************************************************************************)
(* write_status tests for the file and then writes it, in two steps, while *)
(* processes of earlier enables run: for any number of them, and however   *)
(* they crash or overlap, the placeholder never covers a reported status.  *)
(***************************************************************************)
THEOREM PlaceholderSafe == Spec => []PlaceholderCoversNothing
<1>1. ShimInv => PlaceholderCoversNothing
  BY DEF ShimInv
<1> QED
  BY <1>1, ShimInit, ShimStep, PTL DEF Spec

-----------------------------------------------------------------------------
(* Who saves a status file. *)

LEMMA SavesOwn ==
  ASSUME ScanInv, ShimInv, Next, NEW p \in Proc, pc[p] \in Serving, pc'[p] = pc[p]
  PROVE  status'[seqNum[p]] = status[seqNum[p]]
<1> USE DEF files
<1>1. ASSUME NEW q \in Proc, Announce(q) \/ Report(q) \/ Fail(q)
      PROVE  FALSE
  <2>1. pc[q] \in Serving /\ pc'[q] # pc[q]
    BY <1>1 DEF Announce, Report, Fail, Goto, Die, ScanInv, TypeOK
  <2> QED
    BY <2>1, ServingAlone DEF AtMostOneServing
<1>2. ASSUME NEW q \in Proc, WritePlaceholder(q)
      PROVE  status'[seqNum[p]] = status[seqNum[p]]
  <2>1. status[goal] = "none" /\ status' = [status EXCEPT ![goal] = "transitioning"]
    BY <1>2 DEF WritePlaceholder, ShimInv, PlaceholderCoversNothing
  <2>2. seqNum[p] # goal
    BY <2>1 DEF ShimInv, Covered, Alive
  <2> QED
    BY <2>1, <2>2 DEF ScanInv, TypeOK
<1>3. ~StopDone
  BY DEF StopDone, Alive
<1>4. ASSUME NEW q \in Proc,
             \/ TestStatus(q) \/ Boot(q) \/ ReadSeqNum(q) \/ FindExistingProcesses(q)
             \/ IdempotentExit(q) \/ TakeOver(q) \/ RejectOldSeqNum(q) \/ Proceed(q)
             \/ TruncateSeqFile(q) \/ WriteSeqNum(q) \/ KillsDone(q)
             \/ \E r \in Proc : SkipGone(q, r) \/ SendSigTerm(q, r) \/ SeeExit(q, r) \/ SendSigKill(q, r)
             \/ ParseSettings(q) \/ CheckSuperseded(q) \/ Poll(q) \/ Sleep(q)
      PROVE  UNCHANGED status
  BY <1>4 DEF TestStatus, Boot, ReadSeqNum, FindExistingProcesses, IdempotentExit, TakeOver,
              RejectOldSeqNum, Proceed, TruncateSeqFile, WriteSeqNum, KillsDone, SkipGone,
              SendSigTerm, SeeExit, SendSigKill, ParseSettings, CheckSuperseded, Poll, Sleep
<1>5. ASSUME Publish \/ StopAll \/ Tick \/
             \E q \in Proc : StartShim(q) \/ StopHard(q) \/ Crash(q) \/ Hang(q) \/ Resume(q)
      PROVE  UNCHANGED status
  BY <1>5 DEF Publish, StopAll, Tick, StartShim, StopHard, Crash, Hang, Resume
<1> QED
  BY <1>1, <1>2, <1>3, <1>4, <1>5 DEF Next, Step, Agent, Stop, Trouble

(***************************************************************************)
(* Whatever saves fail, and whoever overlaps, crashes or hangs, while a    *)
(* process serves only its own saves change the status file of its number: *)
(* the error of a predecessor it has had killed, or the placeholder of a   *)
(* later shim, comes before or not at all.  Every scan of /proc must       *)
(* succeed.                                                                *)
(***************************************************************************)
THEOREM StatusHasOneWriter ==
  ASSUME ~ScanMayFail
  PROVE  Spec => NobodyElseReports
<1>1. Init => ScanInv /\ ShimInv
  BY TypeInit, ScanInvInit, ShimInit DEF ScanInv
<1>2. ScanInv /\ ShimInv /\ [Next]_vars => ScanInv' /\ ShimInv'
  BY ScanInvStep, ShimStep
<1>3. ScanInv /\ ShimInv /\ [Next]_vars
        => [\A p \in Proc : pc[p] \in Serving /\ pc'[p] = pc[p]
              => status'[seqNum[p]] = status[seqNum[p]]]_vars
  BY SavesOwn
<1> QED
  BY <1>1, <1>2, <1>3, PTL DEF Spec, NobodyElseReports

=============================================================================
