------------------------- MODULE ScanSystem_proofs -------------------------
(***************************************************************************)
(* Theorems about ScanSystem, for any number of scans, workers, batches    *)
(* and faults.                                                             *)
(***************************************************************************)
EXTENDS ScanSystem, TLAPS

(* How the variables of a run hang together: a worker is idle exactly when  *)
(* it has no scan, a batch being written exists, and a leftover write only  *)
(* outlives the parser in the catch block.                                  *)
Catching == {"readFailed", "writeFailed", "discard", "rejected"}

RunShape ==
    \A w \in Workers :
        /\ pc[w] = "idle" <=> target[w] = NoScan
        /\ (pc[w] = "push" \/ tail[w] = "push") => pushed[w] > 0
        /\ tail[w] # "none" => pc[w] \in Catching

TypeInv == TypeOK /\ RunShape

-----------------------------------------------------------------------------
(* What a command leaves of the types *)
LEMMA CommandTypes ==
    ASSUME RepositoryOK, NEW s \in Scans
    PROVE  /\ \A r \in Records : SetRecord(s, r) => RepositoryOK'
           /\ \A b \in 1..MaxBatches : PushBatch(s, b) => RepositoryOK'
           /\ ArmExpiry(s) => RepositoryOK'
           /\ DropList(s) => RepositoryOK'
           /\ DropRecord(s) => RepositoryOK'
           /\ LapseList(s) => RepositoryOK'
           /\ UNCHANGED repoVars => RepositoryOK'
  <1>0. Missing \in Records
    BY BatchAssumption DEF Missing, Records
  <1>1. ASSUME NEW r \in Records, SetRecord(s, r) PROVE RepositoryOK'
    BY <1>1 DEF SetRecord, RepositoryOK
  <1>2. ASSUME NEW b \in 1..MaxBatches, PushBatch(s, b) PROVE RepositoryOK'
    <2>1. Append(vulns[s], b) \in Seq(1..MaxBatches)
      BY DEF RepositoryOK
    <2>2. QED  BY <1>2, <2>1 DEF PushBatch, RepositoryOK
  <1>3. ASSUME ArmExpiry(s) PROVE RepositoryOK'
    BY <1>3 DEF ArmExpiry, RepositoryOK
  <1>4. ASSUME DropList(s) \/ LapseList(s) PROVE RepositoryOK'
    <2>1. << >> \in Seq(1..MaxBatches)
      OBVIOUS
    <2>2. QED  BY <1>4, <2>1 DEF DropList, LapseList, RepositoryOK
  <1>5. ASSUME DropRecord(s) PROVE RepositoryOK'
    BY <1>0, <1>5 DEF DropRecord, RepositoryOK
  <1>6. ASSUME UNCHANGED repoVars PROVE RepositoryOK'
    BY <1>6 DEF repoVars, RepositoryOK
  <1>7. QED  BY <1>1, <1>2, <1>3, <1>4, <1>5, <1>6

(* What a queue operation leaves of the types *)
LEMMA QueueTypes ==
    ASSUME QueueOK, NEW s \in Scans, NEW w \in Workers
    PROVE  /\ AddJob(s) => QueueOK'
           /\ TakeJob(w, s) => QueueOK'
           /\ \A o \in {"completed", "failed"} : SettleJob(w, s, o) => QueueOK'
           /\ StallJob(s) => QueueOK'
           /\ UNCHANGED queueVars => QueueOK'
  <1>1. ASSUME AddJob(s) PROVE QueueOK'
    BY <1>1, StallAssumption DEF AddJob, QueueOK, JobStates, queueVars
  <1>2. ASSUME TakeJob(w, s) PROVE QueueOK'
    BY <1>2 DEF TakeJob, QueueOK, JobStates
  <1>3. ASSUME NEW o \in {"completed", "failed"}, SettleJob(w, s, o) PROVE QueueOK'
    BY <1>3 DEF SettleJob, QueueOK, JobStates, queueVars
  <1>4. ASSUME StallJob(s) PROVE QueueOK'
    BY <1>4, StallAssumption DEF StallJob, QueueOK, JobStates
  <1>5. ASSUME UNCHANGED queueVars PROVE QueueOK'
    BY <1>5 DEF queueVars, QueueOK
  <1>6. QED  BY <1>1, <1>2, <1>3, <1>4, <1>5

(* A fault, or none, is counted within its bound. *)
LEMMA FaultTypes ==
    ASSUME FaultsOK
    PROVE  /\ \A k : Fault(k) => FaultsOK'
           /\ UNCHANGED faults => FaultsOK'
  BY FaultAssumption DEF FaultsOK, Fault

(* The records patch() writes are records. *)
LEMMA MergeTypes ==
    ASSUME NEW r \in Records, NEW n \in 0..MaxBatches
    PROVE  /\ [r EXCEPT !.status = "SCANNING"] \in Records
           /\ [r EXCEPT !.status = "FINISHED", !.count = n] \in Records
           /\ [r EXCEPT !.status = "FAILED", !.error = TRUE] \in Records
  BY DEF Records, Statuses

(* What they say. *)
LEMMA MergeFields ==
    ASSUME NEW r \in Records, NEW n \in 0..MaxBatches
    PROVE  /\ [r EXCEPT !.status = "SCANNING"].status = "SCANNING"
           /\ [r EXCEPT !.status = "FINISHED", !.count = n].status = "FINISHED"
           /\ [r EXCEPT !.status = "FINISHED", !.count = n].count = n
           /\ [r EXCEPT !.status = "FAILED", !.error = TRUE].status = "FAILED"
  BY DEF Records

LEMMA ScanningWrite ==
    ASSUME TypeInv, NEW w \in Workers, MarkScanning(w)
    PROVE  \E r \in Records : /\ r.status = "SCANNING"
                              /\ Write(w, r, "clear", "readFailed")
  <1>1. snap[w] \in Records
    BY DEF TypeInv, TypeOK, ProcessorOK
  <1> DEFINE r == [snap[w] EXCEPT !.status = "SCANNING"]
  <1>2. r \in Records /\ r.status = "SCANNING"
    <2>1. 0 \in 0..MaxBatches
      BY BatchAssumption
    <2>2. QED  BY <1>1, <2>1, MergeTypes, MergeFields
  <1>3. Write(w, r, "clear", "readFailed")
    BY DEF MarkScanning
  <1> HIDE DEF r
  <1>4. QED  BY <1>2, <1>3

LEMMA FinishedWrite ==
    ASSUME TypeInv, NEW w \in Workers, MarkFinished(w)
    PROVE  \E r \in Records : /\ r.status = "FINISHED" /\ r.count = pushed[w]
                              /\ Write(w, r, "resolved", "readFailed")
  <1>1. snap[w] \in Records /\ pushed[w] \in 0..MaxBatches
    BY DEF TypeInv, TypeOK, ProcessorOK
  <1> DEFINE r == [snap[w] EXCEPT !.status = "FINISHED", !.count = pushed[w]]
  <1>2. r \in Records /\ r.status = "FINISHED" /\ r.count = pushed[w]
    BY <1>1, MergeTypes, MergeFields
  <1>3. Write(w, r, "resolved", "readFailed")
    BY DEF MarkFinished
  <1> HIDE DEF r
  <1>4. QED  BY <1>2, <1>3

LEMMA FailedWrite ==
    ASSUME TypeInv, NEW w \in Workers, MarkFailed(w)
    PROVE  \E r \in Records : /\ r.status = "FAILED"
                              /\ Write(w, r, "discard", "rejected")
  <1>1. snap[w] \in Records
    BY DEF TypeInv, TypeOK, ProcessorOK
  <1> DEFINE r == [snap[w] EXCEPT !.status = "FAILED", !.error = TRUE]
  <1>2. r \in Records /\ r.status = "FAILED"
    <2>1. 0 \in 0..MaxBatches
      BY BatchAssumption
    <2>2. QED  BY <1>1, <2>1, MergeTypes, MergeFields
  <1>3. Write(w, r, "discard", "rejected")
    BY DEF MarkFailed
  <1> HIDE DEF r
  <1>4. QED  BY <1>2, <1>3

(* A read of patch() keeps the types. *)
LEMMA ReadTypes ==
    ASSUME TypeInv, NEW w \in Workers, target[w] \in Scans,
           NEW found \in Stages, NEW missing \in Stages, NEW onError \in Stages,
           {found, missing, onError} \cap {"idle", "push"} = {},
           tail[w] = "none" \/ {found, missing, onError} \subseteq Catching,
           Read(w, found, missing, onError)
    PROVE  RepositoryOK' /\ ProcessorOK' /\ FaultsOK' /\ RunShape'
  <1>1. RepositoryOK'
    BY CommandTypes DEF TypeInv, TypeOK, Read
  <1>2. snap' \in [Workers -> Records]
    BY DEF TypeInv, TypeOK, ProcessorOK, RepositoryOK, Read
  <1>3. FaultsOK'
    BY FaultTypes DEF TypeInv, TypeOK, Read
  <1>4. \E stage \in {found, missing, onError} : pc' = [pc EXCEPT ![w] = stage]
    BY DEF Read, Goto
  <1>5. pc' \in [Workers -> Stages]
    BY <1>4 DEF TypeInv, TypeOK, ProcessorOK
  <1>6. UNCHANGED <<target, pushed, tail>>
    BY DEF Read
  <1>7. RunShape'
    BY <1>4, <1>6, NamesAssumption DEF TypeInv, TypeOK, ProcessorOK, RunShape
  <1>8. QED
    BY <1>1, <1>2, <1>3, <1>5, <1>6, <1>7 DEF TypeInv, TypeOK, ProcessorOK

(* So does a write. *)
LEMMA WriteTypes ==
    ASSUME TypeInv, NEW w \in Workers, target[w] \in Scans, NEW r \in Records,
           NEW next \in Stages, NEW onError \in Stages,
           {next, onError} \cap {"idle", "push"} = {},
           tail[w] = "none" \/ {next, onError} \subseteq Catching,
           Write(w, r, next, onError)
    PROVE  RepositoryOK' /\ ProcessorOK' /\ FaultsOK' /\ RunShape'
  <1>1. RepositoryOK'
    BY CommandTypes DEF TypeInv, TypeOK, Write, Await
  <1>2. FaultsOK'
    BY FaultTypes DEF TypeInv, TypeOK, Write, Await
  <1>3. \E stage \in {next, onError} : pc' = [pc EXCEPT ![w] = stage]
    BY DEF Write, Await, Goto
  <1>4. UNCHANGED <<target, snap, pushed, tail>>
    BY DEF Write
  <1>5. RunShape'
    BY <1>3, <1>4, NamesAssumption DEF TypeInv, TypeOK, ProcessorOK, RunShape
  <1>6. QED
    BY <1>1, <1>2, <1>3, <1>4, <1>5 DEF TypeInv, TypeOK, ProcessorOK

(* Every step of process() keeps the types. *)
LEMMA ProcessTypes ==
    ASSUME TypeInv, NEW w \in Workers, Process(w)
    PROVE  RepositoryOK' /\ ProcessorOK' /\ RunShape' /\ FaultsOK'
  <1> USE NamesAssumption, BatchAssumption, FaultTypes
      DEF TypeInv, TypeOK, ProcessorOK, RunShape, Catching, Stages, Reads, Writes, Goto
  <1>1. CASE ReadForScanning(w)
    <2>1. target[w] \in Scans /\ (tail[w] # "none" => pc[w] \in Catching)
      BY <1>1 DEF ReadForScanning
    <2>2. QED  BY <1>1, <2>1, ReadTypes DEF ReadForScanning
  <1>2. CASE MarkScanning(w)
    <2>1. target[w] \in Scans /\ (tail[w] # "none" => pc[w] \in Catching)
      BY <1>2 DEF MarkScanning
    <2>2. PICK r \in Records : Write(w, r, "clear", "readFailed")
      BY <1>2, ScanningWrite
    <2>3. tail[w] = "none"
      BY <1>2 DEF MarkScanning
    <2>4. QED  BY <2>1, <2>2, <2>3, WriteTypes
  <1>3. CASE ClearFindings(w)
    BY <1>3, CommandTypes DEF ClearFindings, Await
  <1>4. CASE RunEngine(w)
    BY <1>4, CommandTypes DEF RunEngine
  <1>5. CASE Parse(w)
    BY <1>5, CommandTypes DEF Parse
  <1>6. CASE Push(w)
    BY <1>6, CommandTypes DEF Push, Await
  <1>7. CASE PushAgain(w)
    BY <1>7, CommandTypes DEF PushAgain, runVars
  <1>8. CASE Arm(w)
    BY <1>8, CommandTypes DEF Arm, Await
  <1>9. CASE StreamBreaks(w)
    BY <1>9, CommandTypes DEF StreamBreaks
  <1>10. CASE TailPush(w)
    BY <1>10, CommandTypes DEF TailPush
  <1>11. CASE TailExpire(w)
    BY <1>11, CommandTypes DEF TailExpire
  <1>12. CASE ReadForFinished(w)
    <2>1. target[w] \in Scans /\ (tail[w] # "none" => pc[w] \in Catching)
      BY <1>12 DEF ReadForFinished
    <2>2. QED  BY <1>12, <2>1, ReadTypes DEF ReadForFinished
  <1>13. CASE MarkFinished(w)
    <2>1. target[w] \in Scans /\ (tail[w] # "none" => pc[w] \in Catching)
      BY <1>13 DEF MarkFinished
    <2>2. PICK r \in Records : Write(w, r, "resolved", "readFailed")
      BY <1>13, FinishedWrite
    <2>3. tail[w] = "none"
      BY <1>13 DEF MarkFinished
    <2>4. QED  BY <2>1, <2>2, <2>3, WriteTypes
  <1>14. CASE ReadForFailed(w)
    <2>1. target[w] \in Scans /\ (tail[w] # "none" => pc[w] \in Catching)
      BY <1>14 DEF ReadForFailed
    <2>2. QED  BY <1>14, <2>1, ReadTypes DEF ReadForFailed
  <1>15. CASE MarkFailed(w)
    <2>1. target[w] \in Scans /\ (tail[w] # "none" => pc[w] \in Catching)
      BY <1>15 DEF MarkFailed
    <2>2. PICK r \in Records : Write(w, r, "discard", "rejected")
      BY <1>15, FailedWrite
    <2>3. tail[w] = "none"
      BY <1>15 DEF MarkFailed
    <2>4. QED  BY <2>1, <2>2, <2>3, WriteTypes
  <1>16. CASE DiscardFindings(w)
    BY <1>16, CommandTypes DEF DiscardFindings, Await
  <1>17. QED
    BY <1>1, <1>2, <1>3, <1>4, <1>5, <1>6, <1>7, <1>8, <1>9, <1>10, <1>11,
       <1>12, <1>13, <1>14, <1>15, <1>16 DEF Process

(* A crash and the end of a run leave an idle worker. *)
LEMMA ForgetTypes ==
    ASSUME ProcessorOK, RunShape, NEW w \in Workers, ForgetRun(w)
    PROVE  ProcessorOK' /\ RunShape'
  <1>1. Missing \in Records
    BY BatchAssumption DEF Missing, Records
  <1>2. QED
    BY <1>1, BatchAssumption, NamesAssumption
       DEF ForgetRun, Goto, ProcessorOK, RunShape, Stages, Reads, Writes

(* Every step of a startScan call keeps the types. *)
LEMMA ServiceTypes ==
    ASSUME TypeOK, NEW s \in Scans, StartScan(s)
    PROVE  RepositoryOK' /\ QueueOK' /\ ServiceOK' /\ FaultsOK'
  <1> USE FaultTypes DEF TypeOK, ServiceOK, ApiStates, Answer
  <1>0. NewRecord \in Records
    BY BatchAssumption DEF NewRecord, Records, Statuses
  <1>1. AddJob(s) \/ UNCHANGED queueVars => QueueOK'
    BY StallAssumption DEF AddJob, QueueOK, JobStates, queueVars
  <1>2. CASE CheckDepth(s)
    BY <1>1, <1>2, CommandTypes DEF CheckDepth
  <1>3. CASE CreateRecord(s)
    BY <1>0, <1>1, <1>3, CommandTypes DEF CreateRecord
  <1>4. CASE Enqueue(s)
    BY <1>1, <1>4, CommandTypes DEF Enqueue
  <1>5. CASE EnqueueTimesOut(s)
    BY <1>1, <1>5, CommandTypes DEF EnqueueTimesOut
  <1>6. CASE LateAdd(s)
    BY <1>1, <1>6, CommandTypes DEF LateAdd
  <1>7. QED
    BY <1>2, <1>3, <1>4, <1>5, <1>6 DEF StartScan

(* The types are inductive. *)
LEMMA TypeInvInit == Init => TypeInv
  <1> SUFFICES ASSUME Init PROVE TypeInv
    OBVIOUS
  <1>1. Missing \in Records
    BY BatchAssumption DEF Missing, Records
  <1>2. RepositoryOK /\ FaultsOK
    BY <1>1, FaultAssumption DEF Init, RepositoryInit, RepositoryOK, FaultsOK
  <1>3. QueueOK /\ ServiceOK
    BY StallAssumption
       DEF Init, QueueInit, QueueOK, JobStates, ServiceInit, ServiceOK, ApiStates
  <1>4. ProcessorOK /\ RunShape
    BY <1>1, BatchAssumption, NamesAssumption
       DEF Init, ProcessorInit, ProcessorOK, RunShape, Stages
  <1>5. QED  BY <1>2, <1>3, <1>4 DEF TypeInv, TypeOK

LEMMA TypeInvStep == TypeInv /\ [Next]_vars => TypeInv'
  <1> SUFFICES ASSUME TypeInv, [Next]_vars PROVE TypeInv'
    OBVIOUS
  <1> USE DEF TypeInv, TypeOK
  <1>1. UNCHANGED runVars => ProcessorOK' /\ RunShape'
    BY DEF runVars, ProcessorOK, RunShape
  <1>2. UNCHANGED queueVars => QueueOK'
    BY DEF queueVars, QueueOK
  <1>3. UNCHANGED apiVars => ServiceOK'
    BY DEF apiVars, ServiceOK
  <1>4. UNCHANGED repoVars => RepositoryOK'
    BY DEF repoVars, RepositoryOK
  <1>5. ASSUME NEW s \in Scans, Serve(s) PROVE TypeInv'
    BY <1>1, <1>5, ServiceTypes DEF Serve
  <1>6. ASSUME NEW s \in Scans, Stalled(s) PROVE TypeInv'
    <2>1. QueueOK'
      BY <1>6, StallAssumption DEF Stalled, StallJob, QueueOK, JobStates
    <2>2. QED  BY <1>1, <1>3, <1>4, <1>6, <2>1, FaultTypes DEF Stalled
  <1>7. ASSUME NEW s \in Scans, Expiry(s) PROVE TypeInv'
    BY <1>1, <1>2, <1>3, <1>7, CommandTypes, FaultTypes DEF Expiry
  <1>8. ASSUME NEW w \in Workers, TakeScan(w) PROVE TypeInv'
    <2>1. PICK s \in Scans : Take(w, s) /\ UNCHANGED apiVars
      BY <1>8 DEF TakeScan
    <2>2. QueueOK'
      BY <2>1, QueueTypes DEF Take
    <2>3. ProcessorOK' /\ RunShape'
      BY <2>1, NamesAssumption
         DEF Take, Goto, ProcessorOK, RunShape, Stages, Reads, Catching
    <2>4. QED  BY <1>3, <1>4, <2>1, <2>2, <2>3, FaultTypes DEF Take
  <1>9. ASSUME NEW w \in Workers, Run(w) PROVE TypeInv'
    BY <1>2, <1>3, <1>9, ProcessTypes DEF Run
  <1>10. ASSUME NEW w \in Workers, Complete(w) PROVE TypeInv'
    <2>1. target[w] \in Scans
      BY <1>10 DEF Complete, Settle, RunShape, ProcessorOK
    <2>2. QueueOK'
      BY <1>10, <2>1, QueueTypes DEF Complete, Settle
    <2>3. QED
      BY <1>3, <1>4, <1>10, <2>2, ForgetTypes, FaultTypes DEF Complete, Settle
  <1>11. ASSUME NEW w \in Workers, Crash(w) PROVE TypeInv'
    <2>1. ServiceOK'
      BY <1>11 DEF Crash, LoseCalls, ServiceOK, ApiStates
    <2>2. QED  BY <1>2, <1>4, <1>11, <2>1, ForgetTypes, FaultTypes DEF Crash
  <1>12. CASE UNCHANGED vars
    BY <1>1, <1>2, <1>3, <1>4, <1>12, FaultTypes DEF vars
  <1>13. QED
    BY <1>5, <1>6, <1>7, <1>8, <1>9, <1>10, <1>11, <1>12 DEF Next

(* Every reachable state is well typed, and its runs are well formed.  *)
(* RunShape is what makes TypeOK inductive: without it a batch number   *)
(* could be 0 or the scan of a run NoScan.                              *)
THEOREM TypeCorrect == Spec => [](TypeOK /\ RunShape)
  BY TypeInvInit, TypeInvStep, PTL DEF Spec, TypeInv

-----------------------------------------------------------------------------
(* The strengthening behind the other theorems.  A run holds the lock of    *)
(* its job for as long as it lasts ...                                      *)
HoldsLock ==
    \A w \in Workers :
        target[w] # NoScan => job[target[w]] = "active" /\ lock[target[w]] = w

(* ... or, where a lock may lapse under its owner, there is one worker: the *)
(* job may have been failed or put back meanwhile, but nobody else takes it.*)
OneProcess == \A v, w \in Workers : v = w

LocksKept == "lockLoss" \notin FaultKinds \/ OneProcess

JobHeld ==
    \A w \in Workers :
        target[w] # NoScan =>
            /\ job[target[w]] \notin {"none", "completed"}
            /\ job[target[w]] = "active" => lock[target[w]] = w

Owned == JobHeld /\ (HoldsLock \/ OneProcess)

(* A call that has not created its record yet has no job, now or later. *)
JobAfterRecord ==
    \A s \in Scans :
        /\ api[s] \in {"idle", "creating"} => job[s] = "none" /\ s \notin lateAdds
        /\ s \in lateAdds => api[s] = "timedOut"

(* Where run w has got to, in terms of the record and the findings of its   *)
(* scan: from the moment it may touch the list the record does not read     *)
(* FINISHED, and between two batches the list is what was handed over.      *)
Working == {"clear", "engine", "parse", "push", "expire", "readFinished",
            "writeFinished", "discard"}

Unstarted == {"idle", "readScanning", "writeScanning", "clear", "engine"}

Stored(w) == CASE pc[w] \in {"parse", "expire", "readFinished", "writeFinished"} -> pushed[w]
               [] pc[w] = "push" -> pushed[w] - 1
               [] OTHER -> 0

RunOK(w) ==
    /\ pc[w] \in Writes => snap[w] = record[target[w]]
    /\ (pc[w] \in Working \/ tail[w] # "none") => record[target[w]].status # "FINISHED"
    /\ pc[w] \in Unstarted => pushed[w] = 0
    /\ pc[w] \in Working \ {"clear", "discard"} => vulns[target[w]] = Full(Stored(w))

ListOK(s) == record[s].status = "FINISHED" =>
                 vulns[s] = Full(record[s].count) \/ expiry[s] = "lapsed"

RunsOK == /\ \A w \in Workers : RunOK(w)
          /\ \A s \in Scans : ListOK(s)

SafeInv == TypeInv /\ Owned /\ JobAfterRecord /\ RunsOK

(* The faults that leave it alone: no command is sent twice, no key expires *)
(* under a scan at work, and no lock lapses where there are two workers.    *)
Undisturbed == /\ FaultKinds \subseteq {"crash", "redis", "lockLoss"}
               /\ LocksKept

\* process() runs one scan from its beginning to its end.
LEMMA ProcessTarget ==
    ASSUME NEW w \in Workers, Process(w)
    PROVE  target' = target
  BY DEF Process, ReadForScanning, MarkScanning, ClearFindings, RunEngine, Parse, Push,
         PushAgain, Arm, StreamBreaks, TailPush, TailExpire, ReadForFinished, MarkFinished,
         ReadForFailed, MarkFailed, DiscardFindings, Read, Write, runVars

(* The lock of a job, while no lock lapses under its owner. *)
LEMMA LockStep ==
    ASSUME TypeInv, HoldsLock, [Next]_vars, "lockLoss" \notin FaultKinds
    PROVE  HoldsLock'
  <1> USE NamesAssumption
      DEF TypeInv, TypeOK, QueueOK, ProcessorOK, RunShape, HoldsLock
  <1>1. ASSUME NEW s \in Scans, AddJob(s) \/ UNCHANGED queueVars, UNCHANGED target
        PROVE  HoldsLock'
    BY <1>1 DEF AddJob, queueVars
  <1>2. ASSUME NEW s \in Scans, Serve(s) PROVE HoldsLock'
    BY <1>1, <1>2 DEF Serve, runVars, StartScan, CheckDepth, CreateRecord, Enqueue,
                      EnqueueTimesOut, LateAdd
  <1>3. ASSUME NEW s \in Scans, Stalled(s) PROVE HoldsLock'
    <2>1. \A w \in Workers : lock[s] = w => target[w] # s
      BY <1>3 DEF Stalled, Fault
    <2>2. \A w \in Workers : target[w] # s
      BY <2>1
    <2>3. QED  BY <1>3, <2>2 DEF Stalled, StallJob, runVars
  <1>4. ASSUME NEW s \in Scans, Expiry(s) PROVE HoldsLock'
    BY <1>4 DEF Expiry, queueVars, runVars
  <1>5. ASSUME NEW w \in Workers, TakeScan(w) PROVE HoldsLock'
    BY <1>5 DEF TakeScan, Take, TakeJob
  <1>6. ASSUME NEW w \in Workers, Run(w) PROVE HoldsLock'
    <2>1. UNCHANGED <<target, job, lock>>
      BY <1>6, ProcessTarget DEF Run, queueVars
    <2>2. QED  BY <2>1
  <1>7. ASSUME NEW w \in Workers, Complete(w) PROVE HoldsLock'
    BY <1>7 DEF Complete, Settle, SettleJob, ForgetRun, queueVars
  <1>8. ASSUME NEW w \in Workers, Crash(w) PROVE HoldsLock'
    BY <1>8 DEF Crash, ForgetRun, queueVars
  <1>9. CASE UNCHANGED vars
    BY <1>9 DEF vars, queueVars, runVars
  <1>10. QED
    BY <1>2, <1>3, <1>4, <1>5, <1>6, <1>7, <1>8, <1>9 DEF Next

\* With one worker a lock may lapse: the worker settles or dies as before.
LEMMA JobHeldStep ==
    ASSUME TypeInv, JobHeld, [Next]_vars, OneProcess
    PROVE  JobHeld'
  <1> USE NamesAssumption
      DEF TypeInv, TypeOK, QueueOK, ProcessorOK, RunShape, JobHeld, JobStates
  <1>1. ASSUME NEW s \in Scans, Serve(s) PROVE JobHeld'
    BY <1>1 DEF Serve, runVars, StartScan, CheckDepth, CreateRecord, Enqueue,
                EnqueueTimesOut, LateAdd, AddJob, queueVars
  <1>2. ASSUME NEW s \in Scans, Stalled(s) PROVE JobHeld'
    BY <1>2 DEF Stalled, StallJob, runVars
  <1>3. ASSUME NEW s \in Scans, Expiry(s) PROVE JobHeld'
    BY <1>3 DEF Expiry, queueVars, runVars
  <1>4. ASSUME NEW w \in Workers, TakeScan(w) PROVE JobHeld'
    BY <1>4 DEF TakeScan, Take, TakeJob, OneProcess
  <1>5. ASSUME NEW w \in Workers, Run(w) PROVE JobHeld'
    <2>1. UNCHANGED <<target, job, lock>>
      BY <1>5, ProcessTarget DEF Run, queueVars
    <2>2. QED  BY <2>1
  <1>6. ASSUME NEW w \in Workers, Complete(w) \/ Crash(w) PROVE JobHeld'
    <2>1. target'[w] = NoScan
      BY <1>6 DEF Complete, Settle, Crash, ForgetRun
    <2>2. QED  BY <2>1 DEF OneProcess
  <1>7. CASE UNCHANGED vars
    BY <1>7 DEF vars, queueVars, runVars
  <1>8. QED
    BY <1>1, <1>2, <1>3, <1>4, <1>5, <1>6, <1>7 DEF Next

LEMMA OwnedInit == Init => Owned
  BY DEF Init, ProcessorInit, HoldsLock, JobHeld, Owned

LEMMA OwnedStep ==
    ASSUME TypeInv, Owned, [Next]_vars, LocksKept
    PROVE  Owned'
  <1>1. CASE OneProcess
    BY <1>1, JobHeldStep DEF Owned, OneProcess
  <1>2. CASE ~OneProcess
    <2>1. HoldsLock'
      BY <1>2, LockStep DEF Owned, LocksKept
    <2>2. QED  BY <2>1 DEF Owned, HoldsLock, JobHeld
  <1>3. QED  BY <1>1, <1>2

LEMMA OwnedMeansOneWriter == TypeInv /\ Owned => OneWriter
  BY NamesAssumption DEF TypeInv, TypeOK, ProcessorOK, HoldsLock, OneProcess, Owned, OneWriter

(* No two workers ever run the same scan, whatever crashes, stalls and is   *)
(* redelivered, as long as a live worker keeps its lock or is the only one. *)
THEOREM SingleWriter ==
    ASSUME LocksKept
    PROVE  Spec => []OneWriter
  <1>1. TypeInv /\ Owned /\ [Next]_vars => TypeInv' /\ Owned'
    BY TypeInvStep, OwnedStep
  <1>2. QED
    BY <1>1, TypeInvInit, OwnedInit, OwnedMeansOneWriter, PTL DEF Spec

-----------------------------------------------------------------------------
(* The record comes before the job, and outlives it and its runs. *)
NeedsRecord(s) == \/ api[s] = "adding" \/ s \in lateAdds
                  \/ job[s] \in {"waiting", "active"}
                  \/ \E w \in Workers : target[w] = s

RecordHeld == \A s \in Scans : NeedsRecord(s) => record[s] # Missing

(* process() replaces a record by a record, never by nothing. *)
LEMMA ProcessKeepsRecords ==
    ASSUME TypeInv, NEW w \in Workers, Process(w), NEW s \in Scans, record[s] # Missing
    PROVE  record'[s] # Missing
  <1> USE DEF TypeInv, TypeOK, RepositoryOK, ProcessorOK, RunShape, Catching
  <1>1. CASE MarkScanning(w)
    <2>1. PICK r \in Records : r.status = "SCANNING" /\ Write(w, r, "clear", "readFailed")
      BY <1>1, ScanningWrite
    <2>2. r # Missing
      BY <2>1 DEF Missing
    <2>3. record' = record \/ record' = [record EXCEPT ![target[w]] = r]
      BY <2>1 DEF Write, Await, SetRecord, repoVars
    <2>4. QED  BY <2>2, <2>3
  <1>2. CASE MarkFinished(w)
    <2>1. PICK r \in Records : r.status = "FINISHED" /\ Write(w, r, "resolved", "readFailed")
      BY <1>2, FinishedWrite
    <2>2. r # Missing
      BY <2>1 DEF Missing
    <2>3. record' = record \/ record' = [record EXCEPT ![target[w]] = r]
      BY <2>1 DEF Write, Await, SetRecord, repoVars
    <2>4. QED  BY <2>2, <2>3
  <1>3. CASE MarkFailed(w)
    <2>1. PICK r \in Records : r.status = "FAILED" /\ Write(w, r, "discard", "rejected")
      BY <1>3, FailedWrite
    <2>2. r # Missing
      BY <2>1 DEF Missing
    <2>3. record' = record \/ record' = [record EXCEPT ![target[w]] = r]
      BY <2>1 DEF Write, Await, SetRecord, repoVars
    <2>4. QED  BY <2>2, <2>3
  <1>4. CASE ~(MarkScanning(w) \/ MarkFinished(w) \/ MarkFailed(w))
    <2>1. UNCHANGED record
      BY <1>4 DEF Process, ReadForScanning, ReadForFinished, ReadForFailed, Read,
                  ClearFindings, DiscardFindings, DropList, Push, PushAgain, TailPush,
                  PushBatch, Arm, TailExpire, ArmExpiry, Await, RunEngine, Parse,
                  StreamBreaks, repoVars
    <2>2. QED  BY <2>1
  <1>5. QED  BY <1>1, <1>2, <1>3, <1>4

LEMMA RecordHeldStep ==
    ASSUME TypeInv, RecordHeld, [Next]_vars, "ttl" \notin FaultKinds
    PROVE  RecordHeld'
  <1> USE NamesAssumption
      DEF TypeInv, TypeOK, QueueOK, ServiceOK, RepositoryOK, ProcessorOK, RecordHeld,
          NeedsRecord
  <1>1. ASSUME NEW s \in Scans, Serve(s) PROVE RecordHeld'
    <2>1. NewRecord # Missing
      BY DEF NewRecord, Missing
    <2>2. QED
      BY <1>1, <2>1 DEF Serve, StartScan, CheckDepth, CreateRecord, Enqueue, EnqueueTimesOut,
                        LateAdd, AddJob, SetRecord, Answer, queueVars, repoVars,
                        runVars
  <1>2. ASSUME NEW s \in Scans, Stalled(s) PROVE RecordHeld'
    BY <1>2 DEF Stalled, StallJob, apiVars, repoVars, runVars
  <1>3. ASSUME NEW s \in Scans, Expiry(s) PROVE RecordHeld'
    BY <1>3 DEF Expiry, Fault, AtRest, InCall, DropRecord, LapseList, apiVars, queueVars,
                runVars
  <1>4. ASSUME NEW w \in Workers, TakeScan(w) PROVE RecordHeld'
    BY <1>4 DEF TakeScan, Take, TakeJob, apiVars, repoVars
  <1>5. ASSUME NEW w \in Workers, Run(w) PROVE RecordHeld'
    BY <1>5, ProcessKeepsRecords, ProcessTarget DEF Run, apiVars, queueVars
  <1>6. ASSUME NEW w \in Workers, Complete(w) PROVE RecordHeld'
    BY <1>6 DEF Complete, Settle, SettleJob, ForgetRun, apiVars, queueVars, repoVars
  <1>7. ASSUME NEW w \in Workers, Crash(w) PROVE RecordHeld'
    BY <1>7 DEF Crash, LoseCalls, ForgetRun, queueVars, repoVars
  <1>8. CASE UNCHANGED vars
    BY <1>8 DEF vars, apiVars, queueVars, repoVars, runVars
  <1>9. QED
    BY <1>1, <1>2, <1>3, <1>4, <1>5, <1>6, <1>7, <1>8 DEF Next

(* Whoever holds or may still add the job of a scan finds its record,       *)
(* whatever is refused, lost, redelivered or added late, as long as keys    *)
(* only expire once their scan is at rest.                                  *)
THEOREM RecordFirst ==
    ASSUME "ttl" \notin FaultKinds
    PROVE  Spec => []RecordBeforeJob
  <1>1. Init => RecordHeld
    BY NamesAssumption DEF Init, QueueInit, ServiceInit, ProcessorInit, RecordHeld,
                              NeedsRecord
  <1>2. TypeInv /\ RecordHeld /\ [Next]_vars => TypeInv' /\ RecordHeld'
    BY TypeInvStep, RecordHeldStep
  <1>3. RecordHeld => RecordBeforeJob
    BY DEF RecordHeld, NeedsRecord, RecordBeforeJob
  <1>4. QED
    BY <1>1, <1>2, <1>3, TypeInvInit, PTL DEF Spec

-----------------------------------------------------------------------------
(* Growing the full list by its next batch gives the full list again. *)
LEMMA FullGrows ==
    /\ Full(0) = << >>
    /\ \A n \in Nat \ {0} : Append(Full(n - 1), n) = Full(n)
  <1>1. Full(0) = << >>
    BY DEF Full
  <1>2. ASSUME NEW n \in Nat \ {0} PROVE Append(Full(n - 1), n) = Full(n)
    <2> DEFINE short == Full(n - 1)
    <2>1. short \in Seq(Nat) /\ Len(short) = n - 1 /\ \A i \in 1..(n - 1) : short[i] = i
      BY DEF Full
    <2>2. Append(short, n) = [i \in 1..n |-> i]
      BY <2>1
    <2>3. QED  BY <2>2 DEF Full
  <1>3. QED  BY <1>1, <1>2

(* process() only touches the keys of its own scan and its own variables. *)
LEMMA ProcessFrame ==
    ASSUME TypeInv, NEW w \in Workers, Process(w)
    PROVE  /\ target[w] \in Scans
           /\ target' = target
           /\ \A v \in Workers \ {w} : /\ pc'[v] = pc[v] /\ snap'[v] = snap[v]
                                       /\ pushed'[v] = pushed[v] /\ tail'[v] = tail[v]
           /\ \A s \in Scans \ {target[w]} :
                 record'[s] = record[s] /\ vulns'[s] = vulns[s] /\ expiry'[s] = expiry[s]
  <1> USE DEF TypeInv, TypeOK, RepositoryOK, ProcessorOK, RunShape, Catching
  <1>1. CASE ReadForScanning(w) \/ ReadForFinished(w) \/ ReadForFailed(w)
    BY <1>1 DEF ReadForScanning, ReadForFinished, ReadForFailed, Read, Goto, repoVars
  <1>2. CASE MarkScanning(w) \/ MarkFinished(w) \/ MarkFailed(w)
    BY <1>2 DEF MarkScanning, MarkFinished, MarkFailed, Write, Await, SetRecord, Goto, repoVars
  <1>3. CASE ClearFindings(w) \/ DiscardFindings(w)
    BY <1>3 DEF ClearFindings, DiscardFindings, Await, DropList, Goto, repoVars
  <1>4. CASE Push(w) \/ PushAgain(w) \/ TailPush(w)
    BY <1>4 DEF Push, PushAgain, TailPush, Await, PushBatch, Goto, repoVars, runVars
  <1>5. CASE Arm(w) \/ TailExpire(w)
    BY <1>5 DEF Arm, TailExpire, Await, ArmExpiry, Goto, repoVars
  <1>6. CASE RunEngine(w) \/ Parse(w) \/ StreamBreaks(w)
    BY <1>6 DEF RunEngine, Parse, StreamBreaks, Goto, repoVars
  <1>7. QED
    BY <1>1, <1>2, <1>3, <1>4, <1>5, <1>6 DEF Process

(* A call creates the record before it adds the job. *)
LEMMA JobAfterRecordStep ==
    ASSUME TypeInv, JobHeld, JobAfterRecord, [Next]_vars
    PROVE  JobAfterRecord'
  <1> USE DEF TypeInv, TypeOK, QueueOK, ServiceOK, JobAfterRecord
  <1>1. ASSUME NEW s \in Scans, Serve(s) PROVE JobAfterRecord'
    BY <1>1 DEF Serve, StartScan, CheckDepth, CreateRecord, Enqueue, EnqueueTimesOut,
                LateAdd, AddJob, Answer, queueVars
  <1>2. ASSUME NEW s \in Scans, Stalled(s) PROVE JobAfterRecord'
    BY <1>2 DEF Stalled, StallJob, apiVars
  <1>3. ASSUME NEW s \in Scans, Expiry(s) PROVE JobAfterRecord'
    BY <1>3 DEF Expiry, apiVars, queueVars
  <1>4. ASSUME NEW w \in Workers, TakeScan(w) PROVE JobAfterRecord'
    BY <1>4 DEF TakeScan, Take, TakeJob, apiVars
  <1>5. ASSUME NEW w \in Workers, Run(w) PROVE JobAfterRecord'
    BY <1>5 DEF Run, apiVars, queueVars
  <1>6. ASSUME NEW w \in Workers, Complete(w) PROVE JobAfterRecord'
    <2>1. target[w] \in Scans /\ job[target[w]] # "none"
      BY <1>6 DEF Complete, Settle, RunShape, ProcessorOK, JobHeld
    <2>2. QED  BY <1>6, <2>1 DEF Complete, Settle, SettleJob, apiVars, queueVars
  <1>7. ASSUME NEW w \in Workers, Crash(w) PROVE JobAfterRecord'
    BY <1>7 DEF Crash, LoseCalls, InCall, queueVars
  <1>8. CASE UNCHANGED vars
    BY <1>8 DEF vars, apiVars, queueVars
  <1>9. QED
    BY <1>1, <1>2, <1>3, <1>4, <1>5, <1>6, <1>7, <1>8 DEF Next

(* patch() between its GET and its SET: only its own run writes the record, *)
(* a repeated command included.                                             *)
SnapOK(w) == pc[w] \in Writes => snap[w] = record[target[w]]

PatchInv == TypeInv /\ Owned /\ JobAfterRecord /\ \A w \in Workers : SnapOK(w)

LEMMA ProcessPatches ==
    ASSUME TypeInv, NEW w \in Workers, Process(w), SnapOK(w)
    PROVE  SnapOK(w)'
  <1>0. target[w] \in Scans /\ target' = target
    BY ProcessFrame
  <1> USE <1>0 DEF TypeInv, TypeOK, ProcessorOK, SnapOK, Writes, Goto
  <1>1. CASE ReadForScanning(w) \/ ReadForFinished(w) \/ ReadForFailed(w)
    BY <1>1 DEF ReadForScanning, ReadForFinished, ReadForFailed, Read, repoVars
  <1>2. CASE MarkScanning(w) \/ MarkFinished(w) \/ MarkFailed(w)
    BY <1>2 DEF MarkScanning, MarkFinished, MarkFailed, Write, Await
  <1>3. CASE ClearFindings(w) \/ DiscardFindings(w) \/ Push(w) \/ Arm(w) \/ RunEngine(w)
             \/ Parse(w) \/ StreamBreaks(w)
    BY <1>3 DEF ClearFindings, DiscardFindings, Push, Arm, RunEngine, Parse, StreamBreaks, Await
  <1>4. CASE PushAgain(w) \/ TailPush(w) \/ TailExpire(w)
    BY <1>4 DEF PushAgain, TailPush, TailExpire, PushBatch, ArmExpiry, repoVars, runVars
  <1>5. QED  BY <1>1, <1>2, <1>3, <1>4 DEF Process

LEMMA PatchStep ==
    ASSUME PatchInv, [Next]_vars, LocksKept, "ttl" \notin FaultKinds
    PROVE  PatchInv'
  <1>0. /\ TypeInv' /\ Owned' /\ JobAfterRecord'
        /\ TypeInv /\ Owned /\ JobAfterRecord /\ \A w \in Workers : SnapOK(w)
    BY TypeInvStep, OwnedStep, JobAfterRecordStep DEF PatchInv, Owned
  <1>1. \A w \in Workers : /\ target[w] = NoScan => pc[w] \notin Writes
                          /\ target[w] \in Scans \cup {NoScan}
    BY <1>0 DEF TypeInv, TypeOK, ProcessorOK, RunShape, Writes
  <1> DEFINE Goal == \A w \in Workers : SnapOK(w)'
  <1>2. ASSUME NEW s \in Scans, \A w \in Workers : target[w] # s, UNCHANGED runVars,
               \A t \in Scans \ {s} : record'[t] = record[t]
        PROVE  Goal
    BY <1>0, <1>1, <1>2 DEF SnapOK, runVars
  <1>3. ASSUME UNCHANGED <<record, runVars>> PROVE Goal
    BY <1>0, <1>3 DEF SnapOK, runVars
  <1>4. ASSUME NEW s \in Scans, Serve(s) PROVE Goal
    <2>1. CASE CreateRecord(s)
      <3>1. \A w \in Workers : target[w] # s
        BY <1>0, <2>1, NamesAssumption DEF CreateRecord, Owned, JobHeld, JobAfterRecord
      <3>2. QED
        BY <1>0, <1>2, <1>4, <2>1, <3>1
           DEF CreateRecord, Serve, SetRecord, repoVars, TypeInv, TypeOK, RepositoryOK
    <2>2. CASE ~CreateRecord(s)
      BY <1>3, <1>4, <2>2
         DEF Serve, StartScan, CheckDepth, Enqueue, EnqueueTimesOut, LateAdd, repoVars
    <2>3. QED  BY <2>1, <2>2
  <1>5. ASSUME NEW s \in Scans, Stalled(s) PROVE Goal
    BY <1>3, <1>5 DEF Stalled, repoVars
  <1>6. ASSUME NEW s \in Scans, Expiry(s) PROVE Goal
    BY <1>0, <1>2, <1>6
       DEF Expiry, Fault, AtRest, DropRecord, LapseList, TypeInv, TypeOK, RepositoryOK
  <1>7. ASSUME NEW w \in Workers, Run(w) PROVE Goal
    <2>1. Process(w)
      BY <1>7 DEF Run
    <2>2. SnapOK(w)'
      BY <1>0, <2>1, ProcessPatches
    <2>3. \A v \in Workers \ {w} : target[v] # NoScan => target[v] \in Scans \ {target[w]}
      BY <1>0, <1>1, <2>1, ProcessFrame, OwnedMeansOneWriter DEF OneWriter
    <2>4. \A v \in Workers \ {w} : SnapOK(v)'
      BY <1>0, <1>1, <2>1, <2>3, ProcessFrame DEF SnapOK
    <2>5. QED  BY <2>2, <2>4
  <1>8. ASSUME NEW w \in Workers, TakeScan(w) \/ Complete(w) \/ Crash(w) PROVE Goal
    <2>1. /\ record' = record /\ pc'[w] \notin Writes
          /\ \A v \in Workers \ {w} : pc'[v] = pc[v] /\ snap'[v] = snap[v] /\ target'[v] = target[v]
      BY <1>0, <1>8
         DEF TakeScan, Take, Complete, Settle, Crash, ForgetRun, Goto, Writes, repoVars,
             TypeInv, TypeOK, ProcessorOK
    <2>2. QED  BY <1>0, <2>1 DEF SnapOK
  <1>9. ASSUME UNCHANGED vars PROVE Goal
    BY <1>3, <1>9 DEF vars, repoVars
  <1>10. Goal
    BY <1>4, <1>5, <1>6, <1>7, <1>8, <1>9 DEF Next
  <1>11. QED  BY <1>0, <1>10 DEF PatchInv

(* While a live worker keeps its lock, or is the only one, and no key       *)
(* expires under a scan at work: the read-modify-write of patch(), without  *)
(* WATCH or a script, loses no update.                                      *)
THEOREM AtomicPatches ==
    ASSUME LocksKept, "ttl" \notin FaultKinds
    PROVE  Spec => []PatchIsAtomic
  <1>1. Init => PatchInv
    <2> SUFFICES ASSUME Init PROVE PatchInv
      OBVIOUS
    <2>1. JobAfterRecord
      BY DEF Init, QueueInit, ServiceInit, JobAfterRecord
    <2>2. \A w \in Workers : SnapOK(w)
      BY DEF Init, ProcessorInit, SnapOK, Writes
    <2>3. QED  BY <2>1, <2>2, TypeInvInit, OwnedInit DEF PatchInv
  <1>2. PatchInv => PatchIsAtomic
    BY DEF PatchInv, SnapOK, PatchIsAtomic
  <1>3. QED  BY <1>1, <1>2, PatchStep, PTL DEF Spec

-----------------------------------------------------------------------------
(* The list is only touched while the record does not read FINISHED, and    *)
(* the record only turns FINISHED over the whole list.                      *)
LEMMA ProcessLocal ==
    ASSUME TypeInv, NEW w \in Workers, Process(w), RunOK(w), ListOK(target[w]),
           "resend" \notin FaultKinds
    PROVE  RunOK(w)' /\ ListOK(target[w])'
  <1>0. target[w] \in Scans /\ target' = target
    BY ProcessFrame
  <1> USE <1>0, BatchAssumption, FullGrows
      DEF TypeInv, TypeOK, RepositoryOK, ProcessorOK, RunShape, Catching, RunOK, ListOK,
          Working, Unstarted, Stored, Writes, Goto
  <1>1. CASE ReadForScanning(w) \/ ReadForFinished(w) \/ ReadForFailed(w)
    BY <1>1 DEF ReadForScanning, ReadForFinished, ReadForFailed, Read, repoVars, Missing
  <1>2. CASE MarkScanning(w)
    BY <1>2 DEF MarkScanning, Write, Await, SetRecord, repoVars, Records
  <1>3. CASE MarkFinished(w)
    <2>1. tail[w] = "none" /\ vulns[target[w]] = Full(pushed[w])
      BY <1>3 DEF MarkFinished
    <2>2. /\ pc'[w] \in {"resolved", "readFailed"}
          /\ UNCHANGED <<snap, pushed, tail, vulns, expiry>>
      BY <1>3 DEF MarkFinished, Write, Await, SetRecord, repoVars
    <2>3. PICK r \in Records : /\ r.status = "FINISHED" /\ r.count = pushed[w]
                              /\ Write(w, r, "resolved", "readFailed")
      BY <1>3, FinishedWrite
    <2>4. record' = record \/ record'[target[w]] = r
      BY <2>3 DEF Write, Await, SetRecord, repoVars
    <2>5. ListOK(target[w])'
      BY <2>1, <2>2, <2>3, <2>4
    <2>6. RunOK(w)'
      BY <2>1, <2>2
    <2>7. QED  BY <2>5, <2>6
  <1>4. CASE MarkFailed(w)
    <2>1. tail[w] = "none"
      BY <1>4 DEF MarkFailed
    <2>2. /\ pc'[w] \in {"discard", "rejected"}
          /\ UNCHANGED <<snap, pushed, tail, vulns, expiry>>
      BY <1>4 DEF MarkFailed, Write, Await, SetRecord, repoVars
    <2>3. PICK r \in Records : r.status = "FAILED" /\ Write(w, r, "discard", "rejected")
      BY <1>4, FailedWrite
    <2>4. \/ record' = record /\ pc'[w] = "rejected"
          \/ record'[target[w]] = r
      BY <2>3 DEF Write, Await, SetRecord, repoVars
    <2>5. ListOK(target[w])'
      BY <2>2, <2>3, <2>4
    <2>6. RunOK(w)'
      BY <2>1, <2>2, <2>3, <2>4
    <2>7. QED  BY <2>5, <2>6
  <1>5. CASE ClearFindings(w) \/ DiscardFindings(w)
    BY <1>5 DEF ClearFindings, DiscardFindings, Await, DropList, repoVars
  <1>6. CASE Push(w)
    <2>1. tail[w] = "none" /\ pushed[w] > 0
      BY <1>6 DEF Push
    <2>2. pushed[w] \in Nat
      OBVIOUS
    <2>3. tail[w] = "none" /\ pushed[w] \in Nat \ {0}
      BY <2>1, <2>2
    <2>4. record[target[w]].status # "FINISHED"
      BY <1>6 DEF Push
    <2>5. vulns[target[w]] = Full(pushed[w] - 1)
      BY <1>6 DEF Push
    <2>6. UNCHANGED <<record, snap, pushed, tail>>
      BY <1>6 DEF Push, Await, PushBatch, repoVars
    <2>7. \/ pc'[w] = "readFailed"
          \/ pc'[w] = "expire" /\ vulns'[target[w]] = Append(vulns[target[w]], pushed[w])
      BY <1>6 DEF Push, Await, PushBatch
    <2>8. pc'[w] = "expire" => vulns'[target[w]] = Full(pushed[w])
      BY <2>3, <2>5, <2>7
    <2>9. QED  BY <2>3, <2>4, <2>5, <2>6, <2>7, <2>8
  <1>7. CASE PushAgain(w)
    BY <1>7 DEF PushAgain, Fault
  <1>8. CASE TailPush(w) \/ TailExpire(w)
    BY <1>8 DEF TailPush, TailExpire, PushBatch, ArmExpiry, repoVars
  <1>9. CASE Arm(w)
    BY <1>9 DEF Arm, Await, ArmExpiry, repoVars
  <1>10. CASE RunEngine(w) \/ Parse(w) \/ StreamBreaks(w)
    BY <1>10 DEF RunEngine, Parse, StreamBreaks, repoVars
  <1>11. QED
    BY <1>1, <1>2, <1>3, <1>4, <1>5, <1>6, <1>7, <1>8, <1>9, <1>10 DEF Process

(* A step that touches neither the run of w nor the keys of its scan *)
LEMMA Untouched ==
    ASSUME TypeInv, NEW w \in Workers, RunOK(w),
           pc'[w] = pc[w], target'[w] = target[w], snap'[w] = snap[w],
           pushed'[w] = pushed[w], tail'[w] = tail[w],
           target[w] # NoScan => /\ record'[target[w]] = record[target[w]]
                                 /\ vulns'[target[w]] = vulns[target[w]]
    PROVE  RunOK(w)'
  <1>1. CASE target[w] = NoScan
    <2>1. pc[w] = "idle" /\ tail[w] = "none"
      BY <1>1 DEF TypeInv, RunShape, Catching
    <2>2. QED  BY <2>1 DEF RunOK, Writes, Working, Unstarted
  <1>2. CASE target[w] # NoScan
    BY <1>2 DEF RunOK, Stored
  <1>3. QED  BY <1>1, <1>2

(* A run that has begun or ended *)
LEMMA FreshRun ==
    ASSUME NEW w \in Workers, pc'[w] \in {"idle", "readScanning"},
           pushed'[w] = 0, tail'[w] = "none"
    PROVE  RunOK(w)'
  BY DEF RunOK, Writes, Working

LEMMA SafeStep ==
    ASSUME SafeInv, [Next]_vars, Undisturbed
    PROVE  SafeInv'
  <1>0. /\ TypeInv' /\ Owned' /\ JobAfterRecord'
        /\ TypeInv /\ Owned /\ JobAfterRecord
    BY TypeInvStep, OwnedStep, JobAfterRecordStep DEF SafeInv, Owned, Undisturbed
  <1>1. RunsOK
    BY DEF SafeInv
  <1>2. ASSUME UNCHANGED repoVars PROVE \A s \in Scans : ListOK(s)'
    BY <1>1, <1>2 DEF repoVars, ListOK, RunsOK
  <1>3. ASSUME UNCHANGED repoVars, UNCHANGED runVars PROVE RunsOK'
    <2>1. \A w \in Workers : RunOK(w)'
      BY <1>0, <1>1, <1>3, Untouched DEF repoVars, runVars, RunsOK
    <2>2. QED  BY <1>2, <1>3, <2>1 DEF RunsOK
  <1>4. ASSUME UNCHANGED runVars, NEW s \in Scans, ListOK(s)',
               \A w \in Workers : target[w] # s,
               \A t \in Scans \ {s} : /\ record'[t] = record[t] /\ vulns'[t] = vulns[t]
                                      /\ expiry'[t] = expiry[t]
        PROVE  RunsOK'
    <2>1. \A w \in Workers : RunOK(w)'
      <3> SUFFICES ASSUME NEW w \in Workers PROVE RunOK(w)'
        OBVIOUS
      <3>1. target[w] # NoScan => target[w] \in Scans \ {s}
        BY <1>0, <1>4 DEF TypeInv, TypeOK, ProcessorOK
      <3>2. QED  BY <1>0, <1>1, <1>4, <3>1, Untouched DEF runVars, RunsOK
    <2>2. \A t \in Scans \ {s} : ListOK(t)'
      BY <1>1, <1>4 DEF ListOK, RunsOK
    <2>3. QED  BY <1>4, <2>1, <2>2 DEF RunsOK
  <1>5. ASSUME NEW s \in Scans, Serve(s) PROVE RunsOK'
    <2>1. CASE CreateRecord(s) /\ ~UNCHANGED repoVars
      <3>1. \A w \in Workers : target[w] # s
        BY <1>0, <2>1, NamesAssumption DEF CreateRecord, Owned, JobHeld, JobAfterRecord
      <3>2. SetRecord(s, NewRecord) /\ UNCHANGED runVars
        BY <1>5, <2>1 DEF CreateRecord, Serve
      <3>3. ListOK(s)'
        BY <1>0, <3>2 DEF SetRecord, NewRecord, ListOK, TypeInv, TypeOK, RepositoryOK
      <3>4. QED
        BY <1>0, <1>4, <3>1, <3>2, <3>3 DEF SetRecord, TypeInv, TypeOK, RepositoryOK
    <2>2. CASE ~(CreateRecord(s) /\ ~UNCHANGED repoVars)
      BY <1>3, <1>5, <2>2 DEF Serve, StartScan, CheckDepth, Enqueue, EnqueueTimesOut, LateAdd
    <2>3. QED  BY <2>1, <2>2
  <1>6. ASSUME NEW s \in Scans, Stalled(s) PROVE RunsOK'
    BY <1>3, <1>6 DEF Stalled
  <1>7. ASSUME NEW s \in Scans, Expiry(s) PROVE RunsOK'
    <2>1. AtRest(s) /\ UNCHANGED runVars
      BY <1>7 DEF Expiry, Fault, Undisturbed
    <2>2. ListOK(s)'
      BY <1>0, <1>1, <1>7
         DEF RunsOK, Expiry, DropRecord, LapseList, Missing, ListOK, TypeInv, TypeOK, RepositoryOK
    <2>3. QED
      BY <1>0, <1>4, <1>7, <2>1, <2>2
         DEF AtRest, Expiry, DropRecord, LapseList, TypeInv, TypeOK, RepositoryOK
  <1>8. ASSUME NEW w \in Workers, TakeScan(w) PROVE RunsOK'
    <2>1. UNCHANGED repoVars
      BY <1>8 DEF TakeScan, Take
    <2>2. RunOK(w)'
      BY <1>0, <1>1, <1>8, FreshRun
         DEF TakeScan, Take, Goto, RunOK, Unstarted, TypeInv, TypeOK, ProcessorOK,
             RunShape, Catching, RunsOK
    <2>3. \A v \in Workers \ {w} : RunOK(v)'
      BY <1>0, <1>1, <1>8, <2>1, Untouched
         DEF RunsOK, TakeScan, Take, Goto, repoVars, TypeInv, TypeOK, ProcessorOK
    <2>4. QED  BY <1>2, <2>1, <2>2, <2>3 DEF RunsOK
  <1>9. ASSUME NEW w \in Workers, Run(w) PROVE RunsOK'
    <2>1. Process(w)
      BY <1>9 DEF Run
    <2>2. RunOK(w)' /\ ListOK(target[w])'
      BY <1>0, <1>1, <2>1, ProcessFrame, ProcessLocal DEF RunsOK, Undisturbed
    <2>3. \A v \in Workers \ {w} : target[v] # NoScan => target[v] \in Scans \ {target[w]}
      BY <1>0, <2>1, ProcessFrame, OwnedMeansOneWriter
         DEF OneWriter, TypeInv, TypeOK, ProcessorOK
    <2>4. \A v \in Workers \ {w} : RunOK(v)'
      BY <1>0, <1>1, <2>1, <2>3, ProcessFrame, Untouched DEF RunsOK
    <2>5. \A s \in Scans \ {target[w]} : ListOK(s)'
      BY <1>0, <1>1, <2>1, ProcessFrame DEF ListOK, RunsOK
    <2>6. target' = target /\ target[w] \in Scans
      BY <1>0, <2>1, ProcessFrame
    <2>7. \A s \in Scans : ListOK(s)'
      BY <2>2, <2>5, <2>6 DEF ListOK
    <2>8. QED  BY <2>2, <2>4, <2>7 DEF RunsOK
  <1>10. ASSUME NEW w \in Workers, Complete(w) \/ Crash(w) PROVE RunsOK'
    <2>1. UNCHANGED repoVars /\ ForgetRun(w)
      BY <1>10 DEF Complete, Settle, Crash
    <2>2. RunOK(w)'
      BY <1>0, <2>1, FreshRun DEF ForgetRun, Goto, TypeInv, TypeOK, ProcessorOK
    <2>3. \A v \in Workers \ {w} : RunOK(v)'
      BY <1>0, <1>1, <2>1, Untouched
         DEF RunsOK, ForgetRun, Goto, repoVars, TypeInv, TypeOK, ProcessorOK
    <2>4. QED  BY <1>2, <2>1, <2>2, <2>3 DEF RunsOK
  <1>11. ASSUME UNCHANGED vars PROVE RunsOK'
    BY <1>3, <1>11 DEF vars
  <1>12. RunsOK'
    BY <1>5, <1>6, <1>7, <1>8, <1>9, <1>10, <1>11 DEF Next
  <1>13. QED  BY <1>0, <1>12 DEF SafeInv

LEMMA SafeInit == Init => SafeInv
  <1> SUFFICES ASSUME Init PROVE SafeInv
    OBVIOUS
  <1>1. \A w \in Workers : RunOK(w)
    BY DEF Init, ProcessorInit, RunOK, Writes, Working
  <1>2. \A s \in Scans : ListOK(s)
    BY DEF Init, RepositoryInit, ListOK, Missing
  <1>3. JobAfterRecord
    BY DEF Init, QueueInit, ServiceInit, JobAfterRecord
  <1>4. QED  BY <1>1, <1>2, <1>3, TypeInvInit, OwnedInit DEF SafeInv, RunsOK

LEMMA SafeImplies == SafeInv => FinishedIsComplete
  BY DEF SafeInv, RunsOK, ListOK, FinishedIsComplete

(* Under crashes and failing Redis commands, and under lapsing locks where  *)
(* there is one worker: a scan that reads FINISHED has its whole list of    *)
(* findings, each once and in order.                                        *)
THEOREM WholeFindings ==
    ASSUME Undisturbed
    PROVE  Spec => []FinishedIsComplete
  BY SafeInit, SafeStep, SafeImplies, PTL DEF Spec

=============================================================================
