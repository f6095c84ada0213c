-------------------------- MODULE ScanOutcome_proofs --------------------------
(***************************************************************************)
(* What ScanSystem leaves behind when a job is done: theorems for any      *)
(* number of scans, workers, batches and faults.                           *)
(***************************************************************************)
EXTENDS ScanSystem_proofs

(* The strengthening.  The findings of s, if any, are on their way to expire. *)
Expires(s) == vulns[s] # << >> => expiry[s] = "armed"

(* s has its outcome, and no findings if that is a failure. *)
Decided(s) == /\ record[s].status \in Final \cup {"NONE"}
              /\ record[s].status = "FAILED" => vulns[s] = << >>

(* What run w may rely on when it gets to the stage it is in; a write that  *)
(* is under way (push, expire) has yet to restore Expires.                  *)
RunClean(w) ==
    /\ pc[w] \in {"engine", "parse", "readFinished", "writeFinished", "resolved"}
           => Expires(target[w])
    /\ pc[w] = "discard" => record[target[w]].status \in {"FAILED", "NONE"}
    /\ pc[w] = "resolved" => Decided(target[w])

JobClean(s) == job[s] = "completed" => Decided(s) /\ Expires(s)

CleanInv == /\ TypeInv /\ Owned /\ JobAfterRecord
            /\ \A w \in Workers : RunClean(w)
            /\ \A s \in Scans : JobClean(s)

-----------------------------------------------------------------------------
(* A job that nobody runs: its worker has died. *)
Orphan(s) == job[s] = "active" /\ \A w \in Workers : target[w] # s

(* Every stall is paid for by a lapse of the lock or a crash, the one that  *)
(* is still to be noticed included; without failing commands no run rejects,*)
(* and a job that has not been added has no findings.                       *)
JobForgiven(s) ==
    /\ stalls[s] <= faults
    /\ Orphan(s) => stalls[s] < faults
    /\ job[s] # "failed"
    /\ api[s] = "accepted" => job[s] # "none"
    /\ job[s] = "none" => vulns[s] = << >>

ForgivenInv ==
    /\ CleanInv
    /\ \A s \in Scans : JobForgiven(s)
    /\ \A w \in Workers : pc[w] # "rejected"

(* No command fails, and no more goes wrong than BullMQ forgives. *)
WithinPatience == /\ "redis" \notin FaultKinds
                  /\ MaxFaults <= MaxStalledCount
                  /\ LocksKept

-----------------------------------------------------------------------------
(* A step of process(), as far as its own run and scan are concerned *)
LEMMA ProcessClean ==
    ASSUME TypeInv, NEW w \in Workers, Process(w), RunClean(w)
    PROVE  RunClean(w)'
  <1>0. target[w] \in Scans /\ target' = target
    BY ProcessFrame
  <1> USE <1>0 DEF TypeInv, TypeOK, RepositoryOK, ProcessorOK, RunShape, Catching, RunClean,
                   Expires, Decided, Final, Goto
  <1>1. CASE ReadForScanning(w) \/ ReadForFinished(w) \/ ReadForFailed(w)
    BY <1>1 DEF ReadForScanning, ReadForFinished, ReadForFailed, Read, repoVars, Missing
  <1>2. CASE MarkScanning(w)
    BY <1>2 DEF MarkScanning, Write, Await
  <1>3. CASE MarkFinished(w)
    <2>1. PICK r \in Records : /\ r.status = "FINISHED" /\ r.count = pushed[w]
                              /\ Write(w, r, "resolved", "readFailed")
      BY <1>3, FinishedWrite
    <2>2. QED  BY <1>3, <2>1 DEF MarkFinished, Write, Await, SetRecord, repoVars
  <1>4. CASE MarkFailed(w)
    <2>1. PICK r \in Records : r.status = "FAILED" /\ Write(w, r, "discard", "rejected")
      BY <1>4, FailedWrite
    <2>2. QED  BY <2>1 DEF Write, Await, SetRecord, repoVars
  <1>5. CASE ClearFindings(w) \/ DiscardFindings(w)
    BY <1>5 DEF ClearFindings, DiscardFindings, Await, DropList, repoVars
  <1>6. CASE Push(w) \/ PushAgain(w) \/ StreamBreaks(w)
    BY <1>6 DEF Push, PushAgain, StreamBreaks, Await, PushBatch, repoVars, runVars
  <1>7. CASE Arm(w)
    BY <1>7 DEF Arm, Await, ArmExpiry, repoVars
  <1>8. CASE TailPush(w) \/ TailExpire(w)
    BY <1>8 DEF TailPush, TailExpire, PushBatch, ArmExpiry, repoVars
  <1>9. CASE RunEngine(w) \/ Parse(w)
    BY <1>9 DEF RunEngine, Parse, repoVars
  <1>10. QED
    BY <1>1, <1>2, <1>3, <1>4, <1>5, <1>6, <1>7, <1>8, <1>9 DEF Process

(* A step that touches neither the run of w nor the keys of its scan *)
LEMMA CleanUntouched ==
    ASSUME TypeInv, NEW w \in Workers, RunClean(w),
           pc'[w] = pc[w], target'[w] = target[w],
           target[w] # NoScan => /\ record'[target[w]] = record[target[w]]
                                 /\ vulns'[target[w]] = vulns[target[w]]
                                 /\ expiry'[target[w]] = expiry[target[w]]
    PROVE  RunClean(w)'
  <1>1. target[w] = NoScan => pc'[w] = "idle"
    BY DEF TypeInv, RunShape
  <1>2. QED  BY <1>1 DEF RunClean, Expires, Decided

LEMMA CleanStep ==
    ASSUME CleanInv, [Next]_vars, LocksKept
    PROVE  CleanInv'
  <1>0. /\ TypeInv' /\ Owned' /\ JobAfterRecord'
        /\ TypeInv /\ Owned /\ JobHeld /\ JobAfterRecord
    BY TypeInvStep, OwnedStep, JobAfterRecordStep DEF CleanInv, Owned
  <1>1. /\ \A w \in Workers : RunClean(w)
        /\ \A s \in Scans : JobClean(s)
    BY DEF CleanInv
  <1> DEFINE Goal == (\A w \in Workers : RunClean(w)') /\ \A s \in Scans : JobClean(s)'
  <1>2. ASSUME UNCHANGED repoVars, UNCHANGED runVars,
               \A s \in Scans : job'[s] = "completed" => job[s] = "completed"
        PROVE  Goal
    BY <1>0, <1>1, <1>2, CleanUntouched DEF repoVars, runVars, JobClean, Decided, Expires
  <1>3. ASSUME NEW s \in Scans, Serve(s) PROVE Goal
    <2>1. \A t \in Scans : job'[t] = "completed" => job[t] = "completed"
      BY <1>0, <1>3 DEF Serve, StartScan, CheckDepth, CreateRecord, Enqueue, EnqueueTimesOut,
                        LateAdd, AddJob, queueVars, TypeInv, TypeOK, QueueOK
    <2>2. CASE CreateRecord(s) /\ ~UNCHANGED repoVars
      <3>1. job[s] = "none" /\ \A w \in Workers : target[w] # s
        BY <1>0, <2>2, NamesAssumption DEF CreateRecord, JobHeld, JobAfterRecord
      <3>2. SetRecord(s, NewRecord) /\ UNCHANGED <<runVars, queueVars>>
        BY <1>3, <2>2 DEF CreateRecord, Serve
      <3>3. \A w \in Workers : RunClean(w)'
        <4> SUFFICES ASSUME NEW w \in Workers PROVE RunClean(w)'
          OBVIOUS
        <4>1. target[w] # NoScan => target[w] \in Scans \ {s}
          BY <1>0, <3>1 DEF TypeInv, TypeOK, ProcessorOK
        <4>2. QED
          BY <1>0, <1>1, <3>2, <4>1, CleanUntouched
             DEF SetRecord, runVars, TypeInv, TypeOK, RepositoryOK
      <3>4. \A t \in Scans : JobClean(t)'
        BY <1>0, <1>1, <3>1, <3>2
           DEF SetRecord, queueVars, JobClean, Decided, Expires, TypeInv, TypeOK, RepositoryOK
      <3>5. QED  BY <3>3, <3>4
    <2>3. CASE ~(CreateRecord(s) /\ ~UNCHANGED repoVars)
      <3>1. UNCHANGED repoVars /\ UNCHANGED runVars
        BY <1>3, <2>3 DEF Serve, StartScan, CheckDepth, Enqueue, EnqueueTimesOut, LateAdd
      <3>2. QED  BY <1>2, <2>1, <3>1
    <2>4. QED  BY <2>2, <2>3
  <1>4. ASSUME NEW s \in Scans, Stalled(s) PROVE Goal
    <2>1. \A t \in Scans : job'[t] = "completed" => job[t] = "completed"
      BY <1>0, <1>4 DEF Stalled, StallJob, TypeInv, TypeOK, QueueOK
    <2>2. QED  BY <1>2, <1>4, <2>1 DEF Stalled
  <1>5. ASSUME NEW s \in Scans, Expiry(s) PROVE Goal
    <2>1. UNCHANGED <<queueVars, runVars>> /\ (DropRecord(s) \/ LapseList(s))
      BY <1>5 DEF Expiry
    <2>2. \A t \in Scans : /\ record'[t] = record[t] \/ record'[t].status = "NONE"
                           /\ \/ vulns'[t] = vulns[t] /\ expiry'[t] = expiry[t]
                              \/ vulns'[t] = << >>
      BY <1>0, <2>1 DEF DropRecord, LapseList, Missing, TypeInv, TypeOK, RepositoryOK
    <2>3. \A t \in Scans : /\ Expires(t) => Expires(t)'
                           /\ Decided(t) => Decided(t)'
      BY <2>2 DEF Expires, Decided
    <2>4. \A w \in Workers : RunClean(w)'
      BY <1>0, <1>1, <2>1, <2>2, <2>3
         DEF RunClean, runVars, TypeInv, TypeOK, ProcessorOK, RunShape
    <2>5. \A t \in Scans : JobClean(t)'
      BY <1>1, <2>1, <2>3 DEF JobClean, queueVars
    <2>6. QED  BY <2>4, <2>5
  <1>6. ASSUME NEW w \in Workers, TakeScan(w) PROVE Goal
    <2>1. PICK s \in Scans : Take(w, s)
      BY <1>6 DEF TakeScan
    <2>2. UNCHANGED repoVars /\ pc'[w] = "readScanning"
      BY <1>0, <2>1 DEF Take, Goto, TypeInv, TypeOK, ProcessorOK
    <2>3. RunClean(w)'
      BY <2>2 DEF RunClean
    <2>4. \A v \in Workers \ {w} : RunClean(v)'
      BY <1>0, <1>1, <2>1, <2>2, CleanUntouched
         DEF Take, Goto, repoVars, TypeInv, TypeOK, ProcessorOK
    <2>5. \A t \in Scans : job'[t] = "completed" => job[t] = "completed"
      BY <1>0, <2>1 DEF Take, TakeJob, TypeInv, TypeOK, QueueOK
    <2>6. QED  BY <1>1, <2>2, <2>3, <2>4, <2>5 DEF JobClean, Decided, Expires, repoVars
  <1>7. ASSUME NEW w \in Workers, Run(w) PROVE Goal
    <2>1. Process(w) /\ UNCHANGED queueVars
      BY <1>7 DEF Run
    <2>2. target[w] \in Scans /\ target' = target /\ job[target[w]] # "completed"
      BY <1>0, <2>1, ProcessFrame, NamesAssumption DEF JobHeld
    <2>3. \A v \in Workers \ {w} : target[v] # NoScan => target[v] \in Scans \ {target[w]}
      BY <1>0, <2>2, OwnedMeansOneWriter DEF OneWriter, TypeInv, TypeOK, ProcessorOK
    <2>4. RunClean(w)'
      BY <1>0, <1>1, <2>1, ProcessClean
    <2>5. \A v \in Workers \ {w} : RunClean(v)'
      BY <1>0, <1>1, <2>1, <2>3, ProcessFrame, CleanUntouched
    <2>6. \A t \in Scans : JobClean(t)'
      BY <1>0, <1>1, <2>1, <2>2, ProcessFrame DEF JobClean, Decided, Expires, queueVars
    <2>7. QED  BY <2>4, <2>5, <2>6
  <1>8. ASSUME NEW w \in Workers, ForgetRun(w), UNCHANGED repoVars
        PROVE  \A v \in Workers : RunClean(v)'
    <2>1. RunClean(w)'
      BY <1>0, <1>8 DEF ForgetRun, Goto, RunClean, TypeInv, TypeOK, ProcessorOK
    <2>2. \A v \in Workers \ {w} : RunClean(v)'
      BY <1>0, <1>1, <1>8, CleanUntouched
         DEF ForgetRun, Goto, repoVars, TypeInv, TypeOK, ProcessorOK
    <2>3. QED  BY <2>1, <2>2
  <1>9. ASSUME NEW w \in Workers, Complete(w) PROVE Goal
    <2>1. /\ pc[w] \in {"resolved", "rejected"} /\ ForgetRun(w) /\ UNCHANGED repoVars
          /\ SettleJob(w, target[w], IF pc[w] = "resolved" THEN "completed" ELSE "failed")
      BY <1>9 DEF Complete, Settle
    <2>2. target[w] \in Scans
      BY <1>0, <2>1 DEF TypeInv, TypeOK, ProcessorOK, RunShape
    <2>3. \A t \in Scans : job'[t] = "completed" =>
              job[t] = "completed" \/ (t = target[w] /\ pc[w] = "resolved")
      BY <1>0, <2>1, <2>2 DEF SettleJob, queueVars, TypeInv, TypeOK, QueueOK
    <2>4. pc[w] = "resolved" => Decided(target[w]) /\ Expires(target[w])
      BY <1>1 DEF RunClean
    <2>5. \A t \in Scans : JobClean(t)'
      BY <1>1, <2>1, <2>3, <2>4 DEF JobClean, Decided, Expires, repoVars
    <2>6. QED  BY <1>8, <2>1, <2>5
  <1>10. ASSUME NEW w \in Workers, Crash(w) PROVE Goal
    BY <1>1, <1>8, <1>10 DEF Crash, repoVars, queueVars, JobClean, Decided, Expires
  <1>11. ASSUME UNCHANGED vars PROVE Goal
    BY <1>2, <1>11 DEF vars, queueVars
  <1>12. Goal
    BY <1>3, <1>4, <1>5, <1>6, <1>7, <1>9, <1>10, <1>11 DEF Next
  <1>13. QED  BY <1>0, <1>12 DEF CleanInv

LEMMA CleanInit == Init => CleanInv
  <1> SUFFICES ASSUME Init PROVE CleanInv
    OBVIOUS
  <1>1. JobAfterRecord
    BY DEF Init, QueueInit, ServiceInit, JobAfterRecord
  <1>2. \A w \in Workers : RunClean(w)
    BY DEF Init, ProcessorInit, RunClean
  <1>3. \A s \in Scans : JobClean(s)
    BY DEF Init, QueueInit, JobClean
  <1>4. QED  BY <1>1, <1>2, <1>3, TypeInvInit, OwnedInit DEF CleanInv

LEMMA CleanImplies == CleanInv => CompletedIsClean
  BY DEF CleanInv, JobClean, Decided, Expires, CompletedIsClean

(* A completed job leaves an outcome, no findings of a failure, and no list *)
(* without a TTL: whatever commands fail or are sent twice, however often   *)
(* the scan is run again, and also if its keys expire under a run.  Locks   *)
(* may lapse where there is one worker.                                     *)
THEOREM CompletedClean ==
    ASSUME LocksKept
    PROVE  Spec => []CompletedIsClean
  BY CleanInit, CleanStep, CleanImplies, PTL DEF Spec

-----------------------------------------------------------------------------
(* Only a failing command makes process() reject. *)
LEMMA NeverRejects ==
    ASSUME TypeInv, NEW w \in Workers, Process(w), "redis" \notin FaultKinds, pc[w] # "rejected"
    PROVE  pc'[w] # "rejected"
  <1>1. pc \in [Workers -> Stages] /\ ~Fault("redis")
    BY DEF TypeInv, TypeOK, ProcessorOK, Fault
  <1>2. QED
    BY <1>1 DEF Process, ReadForScanning, MarkScanning, ClearFindings, RunEngine, Parse, Push,
                PushAgain, Arm, StreamBreaks, TailPush, TailExpire, ReadForFinished,
                MarkFinished, ReadForFailed, MarkFailed, DiscardFindings, Read, Write, Await,
                Goto, runVars

LEMMA ForgivenStep ==
    ASSUME ForgivenInv, [Next]_vars, WithinPatience
    PROVE  ForgivenInv'
  <1>0. /\ TypeInv /\ JobHeld /\ JobAfterRecord
        /\ \A s \in Scans : JobForgiven(s)
        /\ \A w \in Workers : pc[w] # "rejected"
    BY DEF ForgivenInv, CleanInv, Owned
  <1>1. /\ faults \in Nat /\ faults <= MaxFaults /\ stalls \in [Scans -> Nat]
        /\ job \in [Scans -> JobStates] /\ pc \in [Workers -> Stages]
        /\ target \in [Workers -> Scans \cup {NoScan}]
    BY <1>0, StallAssumption, FaultAssumption
       DEF TypeInv, TypeOK, FaultsOK, QueueOK, ProcessorOK
  <1> DEFINE Goal == /\ \A s \in Scans : JobForgiven(s)'
                     /\ \A w \in Workers : pc'[w] # "rejected"
  <1>2. ASSUME UNCHANGED <<queueVars, apiVars, target>>,
               UNCHANGED faults \/ faults' = faults + 1,
               \A s \in Scans : vulns'[s] = vulns[s] \/ vulns'[s] = << >>
        PROVE  \A s \in Scans : JobForgiven(s)'
    BY <1>0, <1>1, <1>2 DEF queueVars, apiVars, JobForgiven, Orphan
  <1>3. ASSUME NEW s \in Scans, Serve(s) PROVE Goal
    <2>1. UNCHANGED <<vulns, pc, target>> /\ (UNCHANGED faults \/ faults' = faults + 1)
      BY <1>3 DEF Serve, StartScan, CheckDepth, CreateRecord, Enqueue, EnqueueTimesOut,
                  LateAdd, SetRecord, runVars, repoVars, Fault
    <2>2. AddJob(s) \/ UNCHANGED queueVars
      BY <1>3 DEF Serve, StartScan, CheckDepth, CreateRecord, Enqueue, EnqueueTimesOut, LateAdd
    <2>3. \A t \in Scans : api'[t] = "accepted" =>
              api[t] = "accepted" \/ (t = s /\ AddJob(s))
      BY <1>0, <1>3 DEF Serve, StartScan, CheckDepth, CreateRecord, Enqueue, EnqueueTimesOut,
                        LateAdd, Answer, TypeInv, TypeOK, ServiceOK
    <2>4. \A t \in Scans : \/ job'[t] = job[t] /\ stalls'[t] = stalls[t]
                           \/ t = s /\ job'[t] = "waiting" /\ stalls'[t] = 0
      BY <1>1, <2>2 DEF AddJob, queueVars
    <2>5. AddJob(s) => job'[s] # "none"
      BY <1>1 DEF AddJob, queueVars
    <2>6. \A t \in Scans : JobForgiven(t)'
      BY <1>0, <1>1, <2>1, <2>3, <2>4, <2>5 DEF JobForgiven, Orphan
    <2>7. QED  BY <1>0, <2>1, <2>6
  <1>4. ASSUME NEW s \in Scans, Stalled(s) PROVE Goal
    <2>1. StallJob(s) /\ UNCHANGED <<api, vulns, pc, target>>
      BY <1>4 DEF Stalled, repoVars, apiVars, runVars
    <2>2. \/ Orphan(s) /\ UNCHANGED faults
          \/ faults < MaxFaults /\ faults' = faults + 1
      BY <1>0, <1>4, NamesAssumption DEF Stalled, StallJob, Fault, JobHeld, Orphan
    <2>3. stalls[s] < faults' /\ stalls[s] < MaxStalledCount /\ faults <= faults'
      BY <1>0, <1>1, <2>2, StallAssumption, FaultAssumption DEF JobForgiven, WithinPatience
    <2>4. /\ job' = [job EXCEPT ![s] = "waiting"]
          /\ stalls' = [stalls EXCEPT ![s] = stalls[s] + 1]
      BY <2>1, <2>3 DEF StallJob
    <2>5. \A t \in Scans : JobForgiven(t)'
      BY <1>0, <1>1, <2>1, <2>2, <2>3, <2>4 DEF JobForgiven, Orphan
    <2>6. QED  BY <1>0, <2>1, <2>5
  <1>5. ASSUME NEW s \in Scans, Expiry(s) PROVE Goal
    <2>1. \A t \in Scans : vulns'[t] = vulns[t] \/ vulns'[t] = << >>
      BY <1>0, <1>5 DEF Expiry, DropRecord, LapseList, TypeInv, TypeOK, RepositoryOK
    <2>2. UNCHANGED <<queueVars, apiVars, runVars>> /\ (UNCHANGED faults \/ faults' = faults + 1)
      BY <1>5 DEF Expiry, Fault
    <2>3. QED  BY <1>0, <1>2, <2>1, <2>2 DEF runVars
  <1>6. ASSUME NEW w \in Workers, TakeScan(w) PROVE Goal
    <2>1. PICK s \in Scans : Take(w, s) /\ UNCHANGED apiVars
      BY <1>6 DEF TakeScan
    <2>2. /\ job' = [job EXCEPT ![s] = "active"] /\ pc' = [pc EXCEPT ![w] = "readScanning"]
          /\ target' = [target EXCEPT ![w] = s]
          /\ UNCHANGED <<faults, stalls, api, vulns>>
      BY <2>1 DEF Take, TakeJob, Goto, repoVars, apiVars
    <2>3. target[w] = NoScan
      BY <1>0, <2>1 DEF Take, TypeInv, RunShape
    <2>4. \A t \in Scans : Orphan(t)' => Orphan(t)
      BY <1>1, <2>2, <2>3, NamesAssumption DEF Orphan
    <2>5. QED  BY <1>0, <1>1, <2>2, <2>4 DEF JobForgiven
  <1>7. ASSUME NEW w \in Workers, Run(w) PROVE Goal
    <2>1. Process(w) /\ UNCHANGED <<queueVars, apiVars>>
      BY <1>7 DEF Run
    <2>2. target' = target /\ target[w] \in Scans /\ job[target[w]] # "none"
      BY <1>0, <2>1, ProcessFrame, NamesAssumption DEF JobHeld
    <2>3. \A t \in Scans : job[t] = "none" => vulns'[t] = vulns[t]
      BY <1>0, <2>1, <2>2, ProcessFrame
    <2>4. UNCHANGED faults \/ faults' = faults + 1
      BY <2>1 DEF Process, ReadForScanning, MarkScanning, ClearFindings, RunEngine, Parse, Push,
                  PushAgain, Arm, StreamBreaks, TailPush, TailExpire, ReadForFinished,
                  MarkFinished, ReadForFailed, MarkFailed, DiscardFindings, Read, Write, Await,
                  Fault
    <2>5. \A t \in Scans : JobForgiven(t)'
      BY <1>0, <1>1, <2>1, <2>2, <2>3, <2>4 DEF JobForgiven, Orphan, queueVars, apiVars
    <2>6. \A v \in Workers : pc'[v] # "rejected"
      BY <1>0, <2>1, ProcessFrame, NeverRejects DEF WithinPatience
    <2>7. QED  BY <2>5, <2>6
  <1>8. ASSUME NEW w \in Workers, Complete(w) PROVE Goal
    <2>1. pc[w] = "resolved" /\ ForgetRun(w) /\ SettleJob(w, target[w], "completed")
      BY <1>0, <1>8 DEF Complete, Settle
    <2>2. target[w] \in Scans
      BY <1>0, <1>1, <2>1 DEF TypeInv, RunShape
    <2>3. /\ pc' = [pc EXCEPT ![w] = "idle"] /\ target' = [target EXCEPT ![w] = NoScan]
          /\ UNCHANGED <<faults, stalls, api, vulns>>
      BY <1>8, <2>1 DEF Complete, Settle, SettleJob, ForgetRun, Goto, queueVars, repoVars, apiVars
    <2>4. \/ job' = [job EXCEPT ![target[w]] = "completed"]
          \/ job' = job /\ lock[target[w]] # w
      BY <2>1 DEF SettleJob, queueVars
    <2>5. \A t \in Scans : Orphan(t)' => Orphan(t)
      BY <1>0, <1>1, <2>2, <2>3, <2>4, NamesAssumption DEF Orphan, JobHeld
    <2>6. QED  BY <1>0, <1>1, <2>2, <2>3, <2>4, <2>5 DEF JobForgiven
  <1>9. ASSUME NEW w \in Workers, Crash(w) PROVE Goal
    <2>1. /\ faults' = faults + 1 /\ pc' = [pc EXCEPT ![w] = "idle"]
          /\ UNCHANGED <<job, stalls, vulns>>
      BY <1>9 DEF Crash, Fault, ForgetRun, Goto, repoVars, queueVars
    <2>2. \A t \in Scans : api'[t] = "accepted" => api[t] = "accepted"
      BY <1>9 DEF Crash, LoseCalls
    <2>3. QED  BY <1>0, <1>1, <2>1, <2>2 DEF JobForgiven
  <1>10. ASSUME UNCHANGED vars PROVE Goal
    <2>1. UNCHANGED <<queueVars, apiVars, target, faults, vulns, pc>>
      BY <1>10 DEF vars, runVars, repoVars
    <2>2. QED  BY <1>0, <1>2, <2>1
  <1>11. Goal
    BY <1>3, <1>4, <1>5, <1>6, <1>7, <1>8, <1>9, <1>10 DEF Next
  <1>12. CleanInv'
    BY CleanStep DEF ForgivenInv, WithinPatience
  <1>13. QED  BY <1>11, <1>12 DEF ForgivenInv

LEMMA ForgivenInit == Init => ForgivenInv
  <1> SUFFICES ASSUME Init PROVE ForgivenInv
    OBVIOUS
  <1>1. \A s \in Scans : JobForgiven(s)
    BY FaultAssumption
       DEF Init, QueueInit, ServiceInit, RepositoryInit, JobForgiven, Orphan
  <1>2. \A w \in Workers : pc[w] # "rejected"
    BY DEF Init, ProcessorInit
  <1>3. QED  BY <1>1, <1>2, CleanInit DEF ForgivenInv

LEMMA ForgivenImplies == ForgivenInv => NoneForgotten /\ FindingsExpire
  <1> SUFFICES ASSUME ForgivenInv PROVE NoneForgotten /\ FindingsExpire
    OBVIOUS
  <1>1. \A s \in Scans : JobClean(s) /\ JobForgiven(s)
    BY DEF ForgivenInv, CleanInv
  <1>2. \A s \in Scans : job[s] \in JobStates
    BY DEF ForgivenInv, CleanInv, TypeInv, TypeOK, QueueOK
  <1>3. NoneForgotten
    BY <1>1, <1>2 DEF NoneForgotten, JobClean, JobForgiven, Decided, Final, JobStates
  <1>4. FindingsExpire
    BY <1>1, <1>2 DEF FindingsExpire, JobClean, JobForgiven, Expires, JobStates
  <1>5. QED  BY <1>3, <1>4

(* As long as no more goes wrong than BullMQ forgives (the stalls a job may *)
(* have), and no command fails: no accepted scan is left in QUEUED or       *)
(* SCANNING without a job that will take it further, ...                    *)
THEOREM NoScanForgotten ==
    ASSUME WithinPatience
    PROVE  Spec => []NoneForgotten
  BY ForgivenInit, ForgivenStep, ForgivenImplies, PTL DEF Spec

(* ... and no findings list is left without a TTL.                          *)
THEOREM ListsExpire ==
    ASSUME WithinPatience
    PROVE  Spec => []FindingsExpire
  BY ForgivenInit, ForgivenStep, ForgivenImplies, PTL DEF Spec

=============================================================================
