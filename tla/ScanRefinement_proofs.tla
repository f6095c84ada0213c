------------------------ MODULE ScanRefinement_proofs ------------------------
(***************************************************************************)
(* ScanSystem implements RunStages and ScanContract: theorems for any      *)
(* number of scans, workers, batches and faults.                           *)
(***************************************************************************)
EXTENDS ScanSystem_proofs

-----------------------------------------------------------------------------
(* RunStages *)

StageMap == [w \in Workers |-> StageOf(w)]

\* w goes on to the stage of its next await; the others stay where they are
LEMMA StageMoves ==
    ASSUME pc \in [Workers -> Stages], NEW w \in Workers, NEW next, Goto(w, next)
    PROVE  /\ next = "idle" => InStages!Enter(w, "idle")
           /\ next \in {"readScanning", "writeScanning", "clear"} => InStages!Enter(w, "start")
           /\ next = "engine" => InStages!Enter(w, "engine")
           /\ next \in {"parse", "push", "expire"} => InStages!Enter(w, "parse")
           /\ next \in {"readFinished", "writeFinished"} => InStages!Enter(w, "finish")
           /\ next \in {"readFailed", "writeFailed", "discard"} => InStages!Enter(w, "record")
           /\ next \in {"resolved", "rejected"} => InStages!Enter(w, "cleanup")
  <1>1. pc'[w] = next /\ \A v \in Workers \ {w} : pc'[v] = pc[v]
    BY DEF Goto
  <1>2. StageOf(w)' = (CASE next \in {"readScanning", "writeScanning", "clear"} -> "start"
                         [] next \in {"parse", "push", "expire"}                -> "parse"
                         [] next \in {"readFinished", "writeFinished"}          -> "finish"
                         [] next \in {"readFailed", "writeFailed", "discard"}   -> "record"
                         [] next \in {"resolved", "rejected"}                   -> "cleanup"
                         [] OTHER                                               -> next)
    BY <1>1 DEF StageOf
  <1>3. \A v \in Workers \ {w} : StageOf(v)' = StageOf(v)
    BY <1>1 DEF StageOf
  <1>4. ASSUME NEW to PROVE StageOf(w)' = to => InStages!Enter(w, to)
    BY <1>3 DEF InStages!Enter
  <1>5. QED
    BY <1>2, <1>4

\* Entering the stage one is in is a stutter
LEMMA StageStays ==
    ASSUME NEW w \in Workers, InStages!Enter(w, StageOf(w))
    PROVE  StageMap' = StageMap
  BY DEF InStages!Enter, StageMap

(* A step of process() stays in its stage or enters one that may follow. *)
LEMMA ProcessInStages ==
    ASSUME TypeInv, NEW w \in Workers, Process(w)
    PROVE  InStages!Next \/ StageMap' = StageMap
  <1>0. pc \in [Workers -> Stages]
    BY DEF TypeInv, TypeOK, ProcessorOK
  <1> USE <1>0, StageMoves, StageStays
      DEF InStages!Next, InStages!Continue, InStages!Catch, InStages!Finally
  <1>1. CASE ReadForScanning(w) \/ MarkScanning(w)
    <2>1. Goto(w, "writeScanning") \/ Goto(w, "clear") \/ Goto(w, "readFailed")
      BY <1>1 DEF ReadForScanning, Read, MarkScanning, Write, Await
    <2>2. StageOf(w) = "start"
      BY <1>1 DEF ReadForScanning, MarkScanning, StageOf
    <2>3. QED  BY <2>1, <2>2
  <1>2. CASE ClearFindings(w)
    <2>1. Goto(w, "engine") \/ Goto(w, "readFailed")
      BY <1>2 DEF ClearFindings, Await
    <2>2. StageOf(w) = "start"
      BY <1>2 DEF ClearFindings, StageOf
    <2>3. QED  BY <2>1, <2>2
  <1>3. CASE RunEngine(w)
    <2>1. Goto(w, "parse") \/ Goto(w, "readFailed")
      BY <1>3 DEF RunEngine
    <2>2. StageOf(w) = "engine"
      BY <1>3 DEF RunEngine, StageOf
    <2>3. QED  BY <2>1, <2>2
  <1>4. CASE Parse(w) \/ Push(w) \/ Arm(w) \/ StreamBreaks(w)
    <2>1. \E next \in {"push", "expire", "parse", "readFinished", "readFailed"} : Goto(w, next)
      BY <1>4 DEF Parse, Push, Arm, StreamBreaks, Await
    <2>2. StageOf(w) = "parse"
      BY <1>4 DEF Parse, Push, Arm, StreamBreaks, StageOf
    <2>3. QED  BY <2>1, <2>2
  <1>5. CASE PushAgain(w) \/ TailPush(w) \/ TailExpire(w)
    <2>1. pc' = pc
      BY <1>5 DEF PushAgain, TailPush, TailExpire, runVars
    <2>2. QED  BY <2>1 DEF StageMap, StageOf
  <1>6. CASE ReadForFinished(w) \/ MarkFinished(w)
    <2>1. \E next \in {"writeFinished", "resolved", "readFailed"} : Goto(w, next)
      BY <1>6 DEF ReadForFinished, Read, MarkFinished, Write, Await
    <2>2. StageOf(w) = "finish"
      BY <1>6 DEF ReadForFinished, MarkFinished, StageOf
    <2>3. QED  BY <2>1, <2>2
  <1>7. CASE ReadForFailed(w) \/ MarkFailed(w) \/ DiscardFindings(w)
    <2>1. \E next \in {"writeFailed", "discard", "resolved", "rejected"} : Goto(w, next)
      BY <1>7 DEF ReadForFailed, Read, MarkFailed, Write, DiscardFindings, Await
    <2>2. StageOf(w) = "record"
      BY <1>7 DEF ReadForFailed, MarkFailed, DiscardFindings, StageOf
    <2>3. QED  BY <2>1, <2>2
  <1>8. QED
    BY <1>1, <1>2, <1>3, <1>4, <1>5, <1>6, <1>7 DEF Process

LEMMA StagesStep ==
    ASSUME TypeInv, [Next]_vars
    PROVE  InStages!Next \/ StageMap' = StageMap
  <1>0. pc \in [Workers -> Stages]
    BY DEF TypeInv, TypeOK, ProcessorOK
  <1>1. pc' = pc => StageMap' = StageMap
    BY DEF StageMap, StageOf
  <1>2. ASSUME NEW w \in Workers, TakeScan(w) PROVE InStages!Next
    <2>1. StageOf(w) = "idle" /\ Goto(w, "readScanning")
      BY <1>2 DEF TakeScan, Take, StageOf
    <2>2. QED  BY <1>0, <2>1, StageMoves DEF InStages!Next, InStages!Continue
  <1>3. ASSUME NEW w \in Workers, Complete(w) \/ Crash(w) PROVE InStages!Next
    <2>1. Goto(w, "idle")
      BY <1>3 DEF Complete, Settle, Crash, ForgetRun
    <2>2. QED  BY <1>0, <2>1, StageMoves DEF InStages!Next, InStages!Die
  <1>4. ASSUME NEW w \in Workers, Run(w) PROVE InStages!Next \/ StageMap' = StageMap
    BY <1>4, ProcessInStages DEF Run
  <1>5. CASE (\E s \in Scans : Serve(s) \/ Stalled(s) \/ Expiry(s)) \/ UNCHANGED vars
    <2>1. pc' = pc
      BY <1>5 DEF Serve, Stalled, Expiry, vars, runVars
    <2>2. QED  BY <1>1, <2>1
  <1>6. QED
    BY <1>2, <1>3, <1>4, <1>5 DEF Next

(* The awaits of every run keep to the try, catch and finally blocks of     *)
(* process(), under every kind of fault, also when two workers run one scan.*)
THEOREM StagesKept == Spec => RunsInStages
  <1>1. Init => InStages!Init
    BY DEF Init, ProcessorInit, InStages!Init, StageOf
  <1>2. TypeInv /\ [Next]_vars => [InStages!Next]_StageMap
    BY StagesStep
  <1>3. Spec => []TypeInv
    BY TypeInvInit, TypeInvStep, PTL DEF Spec
  <1>4. QED
    BY <1>1, <1>2, <1>3, PTL DEF Spec, RunsInStages, InStages!Spec, StageMap

-----------------------------------------------------------------------------
(* ScanContract.  The strengthening SafeInv says nothing of the order of    *)
(* the statuses.  A call finds no record under its new id, and its record   *)
(* is as it created it until the job is added.                              *)
CallOK(s) ==
    /\ api[s] \in {"idle", "creating"} => record[s] = Missing
    /\ api[s] = "adding" => record[s] = NewRecord /\ job[s] = "none" /\ s \notin lateAdds

RecordOK(s) == /\ record[s].status = "NONE" => record[s] = Missing
               /\ record[s].status = "FAILED" => record[s].error = TRUE

(* Before the first fault every job has one run, and it starts from QUEUED. *)
JobOK(s) == faults = 0 => /\ job[s] = "waiting" => /\ record[s].status = "QUEUED"
                                                   /\ \A w \in Workers : target[w] # s
                          /\ job[s] = "active" => \E w \in Workers : target[w] = s
                          /\ s \notin lateAdds

Scanning == {"clear", "engine", "parse", "push", "expire", "readFinished", "writeFinished"}

StatusOK(w) ==
    /\ pc[w] \in Scanning => record[target[w]].status = "SCANNING"
    /\ faults = 0 =>
          /\ pc[w] \in {"readScanning", "writeScanning"} => record[target[w]].status = "QUEUED"
          /\ pc[w] \in {"readFailed", "writeFailed"} => record[target[w]].status = "SCANNING"

OrderInv == /\ SafeInv /\ RecordHeld
            /\ \A s \in Scans : CallOK(s) /\ RecordOK(s) /\ JobOK(s)
            /\ \A w \in Workers : StatusOK(w)

\* What patch() makes of the record it has read
LEMMA Patched ==
    ASSUME TypeInv, RunsOK, NEW w \in Workers
    PROVE  LET found == record[target[w]] IN
           /\ MarkScanning(w) =>
                 \E r \in Records : /\ r.status = "SCANNING" /\ r.error = found.error
                                   /\ Write(w, r, "clear", "readFailed")
           /\ MarkFinished(w) =>
                 \E r \in Records : /\ r.status = "FINISHED" /\ r.error = found.error
                                   /\ r.count = pushed[w]
                                   /\ Write(w, r, "resolved", "readFailed")
           /\ MarkFailed(w) =>
                 \E r \in Records : /\ r.status = "FAILED" /\ r.error = TRUE
                                   /\ Write(w, r, "discard", "rejected")
  <1> DEFINE found == record[target[w]]
  <1>1. snap[w] \in Records /\ pushed[w] \in 0..MaxBatches /\ 0 \in 0..MaxBatches
    BY BatchAssumption DEF TypeInv, TypeOK, ProcessorOK
  <1>2. pc[w] \in Writes => snap[w] = found
    BY DEF RunsOK, RunOK
  <1>3. ASSUME MarkScanning(w)
        PROVE  \E r \in Records : /\ r.status = "SCANNING" /\ r.error = found.error
                                 /\ Write(w, r, "clear", "readFailed")
    <2> DEFINE r == [snap[w] EXCEPT !.status = "SCANNING"]
    <2>1. snap[w] = found
      BY <1>2, <1>3 DEF MarkScanning, Writes
    <2>2. r.error = snap[w].error
      BY <1>1 DEF Records
    <2>3. r \in Records /\ r.status = "SCANNING"
      BY <1>1, MergeTypes, MergeFields
    <2>4. Write(w, r, "clear", "readFailed")
      BY <1>3 DEF MarkScanning
    <2> HIDE DEF r
    <2>5. QED  BY <2>1, <2>2, <2>3, <2>4
  <1>4. ASSUME MarkFinished(w)
        PROVE  \E r \in Records : /\ r.status = "FINISHED" /\ r.error = found.error
                                 /\ r.count = pushed[w]
                                 /\ Write(w, r, "resolved", "readFailed")
    <2> DEFINE r == [snap[w] EXCEPT !.status = "FINISHED", !.count = pushed[w]]
    <2>1. snap[w] = found
      BY <1>2, <1>4 DEF MarkFinished, Writes
    <2>2. r.error = snap[w].error
      BY <1>1 DEF Records
    <2>3. r \in Records /\ r.status = "FINISHED" /\ r.count = pushed[w]
      BY <1>1, MergeTypes, MergeFields
    <2>4. Write(w, r, "resolved", "readFailed")
      BY <1>4 DEF MarkFinished
    <2> HIDE DEF r
    <2>5. QED  BY <2>1, <2>2, <2>3, <2>4
  <1>5. ASSUME MarkFailed(w)
        PROVE  \E r \in Records : /\ r.status = "FAILED" /\ r.error = TRUE
                                 /\ Write(w, r, "discard", "rejected")
    <2> DEFINE r == [snap[w] EXCEPT !.status = "FAILED", !.error = TRUE]
    <2>1. r.error = TRUE
      BY <1>1 DEF Records
    <2>2. r \in Records /\ r.status = "FAILED"
      BY <1>1, MergeTypes, MergeFields
    <2>3. Write(w, r, "discard", "rejected")
      BY <1>5 DEF MarkFailed
    <2> HIDE DEF r
    <2>4. QED  BY <2>1, <2>2, <2>3
  <1>6. QED  BY <1>3, <1>4, <1>5

(* A step of process(), as far as its own run and scan are concerned. *)
LEMMA ProcessOrder ==
    ASSUME TypeInv, RunsOK, RecordHeld, NEW w \in Workers, Process(w),
           StatusOK(w), RecordOK(target[w])
    PROVE  StatusOK(w)' /\ RecordOK(target[w])'
  <1>0. /\ target[w] \in Scans /\ target' = target
        /\ record[target[w]] # Missing
        /\ faults \in Nat
    BY ProcessFrame, NamesAssumption, FaultAssumption
       DEF RecordHeld, NeedsRecord, TypeInv, TypeOK, FaultsOK
  <1> USE <1>0 DEF TypeInv, TypeOK, RepositoryOK, ProcessorOK, Scanning, StatusOK, RecordOK,
                   Goto, Fault
  <1>1. CASE ReadForScanning(w) \/ ReadForFinished(w) \/ ReadForFailed(w)
    BY <1>1 DEF ReadForScanning, ReadForFinished, ReadForFailed, Read, repoVars
  <1>2. CASE MarkScanning(w)
    <2>1. PICK r \in Records : /\ r.status = "SCANNING"
                              /\ Write(w, r, "clear", "readFailed")
      BY <1>2, Patched
    <2>2. QED  BY <1>2, <2>1 DEF MarkScanning, Write, Await, SetRecord, repoVars
  <1>3. CASE MarkFinished(w)
    <2>1. PICK r \in Records : /\ r.status = "FINISHED"
                              /\ Write(w, r, "resolved", "readFailed")
      BY <1>3, Patched
    <2>2. QED  BY <1>3, <2>1 DEF MarkFinished, Write, Await, SetRecord, repoVars
  <1>4. CASE MarkFailed(w)
    <2>1. PICK r \in Records : /\ r.status = "FAILED" /\ r.error = TRUE
                              /\ Write(w, r, "discard", "rejected")
      BY <1>4, Patched
    <2>2. QED  BY <1>4, <2>1 DEF MarkFailed, Write, Await, SetRecord, repoVars
  <1>5. CASE ClearFindings(w) \/ DiscardFindings(w)
    BY <1>5 DEF ClearFindings, DiscardFindings, Await, DropList, repoVars
  <1>6. CASE Push(w) \/ PushAgain(w) \/ StreamBreaks(w) \/ Arm(w)
    BY <1>6 DEF Push, PushAgain, StreamBreaks, Arm, Await, PushBatch, ArmExpiry, repoVars, runVars
  <1>7. CASE TailPush(w) \/ TailExpire(w)
    BY <1>7 DEF TailPush, TailExpire, PushBatch, ArmExpiry, repoVars
  <1>8. CASE RunEngine(w) \/ Parse(w)
    BY <1>8 DEF RunEngine, Parse, repoVars
  <1>9. QED
    BY <1>1, <1>2, <1>3, <1>4, <1>5, <1>6, <1>7, <1>8 DEF Process

\* Faults are only ever added.
LEMMA FaultsGrow ==
    ASSUME TypeInv, [Next]_vars
    PROVE  faults \in Nat /\ (faults' = faults \/ faults' = faults + 1)
  <1>1. faults \in Nat
    BY FaultAssumption DEF TypeInv, TypeOK, FaultsOK
  <1>2. ASSUME NEW s \in Scans, Serve(s) PROVE UNCHANGED faults \/ Fault("redis") \/ Fault("resend")
    BY <1>2 DEF Serve, StartScan, CheckDepth, CreateRecord, Enqueue, EnqueueTimesOut, LateAdd
  <1>3. ASSUME NEW w \in Workers, Run(w) PROVE UNCHANGED faults \/ Fault("redis") \/ Fault("resend")
    BY <1>3 DEF Run, Process, ReadForScanning, MarkScanning, ClearFindings, RunEngine, Parse,
                Push, PushAgain, Arm, StreamBreaks, TailPush, TailExpire, ReadForFinished,
                MarkFinished, ReadForFailed, MarkFailed, DiscardFindings, Read, Write, Await
  <1>4. QED
    BY <1>1, <1>2, <1>3
       DEF Next, Stalled, Expiry, TakeScan, Take, Complete, Settle, Crash, Fault, vars

(* A step that touches neither the run of w nor the record of its scan *)
LEMMA StatusUntouched ==
    ASSUME TypeInv, NEW w \in Workers, StatusOK(w), faults' = 0 => faults = 0,
           pc'[w] = pc[w], target'[w] = target[w],
           target[w] # NoScan => record'[target[w]] = record[target[w]]
    PROVE  StatusOK(w)'
  <1>1. target[w] = NoScan => pc'[w] = "idle"
    BY DEF TypeInv, RunShape
  <1>2. QED  BY <1>1 DEF StatusOK, Scanning

LEMMA OrderStep ==
    ASSUME OrderInv, [Next]_vars, Undisturbed
    PROVE  OrderInv'
  <1>0. /\ SafeInv' /\ RecordHeld' /\ SafeInv /\ RecordHeld
        /\ TypeInv /\ Owned /\ JobHeld /\ JobAfterRecord /\ RunsOK
    BY SafeStep, RecordHeldStep DEF OrderInv, SafeInv, Owned, Undisturbed
  <1>1. /\ \A s \in Scans : CallOK(s) /\ RecordOK(s) /\ JobOK(s)
        /\ \A w \in Workers : StatusOK(w)
    BY DEF OrderInv
  <1>2. faults' = 0 => faults = 0 /\ faults' = faults
    BY <1>0, FaultsGrow
  <1>3. /\ record \in [Scans -> Records] /\ job \in [Scans -> JobStates]
        /\ api \in [Scans -> ApiStates]
        /\ pc \in [Workers -> Stages] /\ target \in [Workers -> Scans \cup {NoScan}]
    BY <1>0 DEF TypeInv, TypeOK, RepositoryOK, QueueOK, ServiceOK, ProcessorOK
  <1> DEFINE Goal == /\ \A s \in Scans : CallOK(s)' /\ RecordOK(s)' /\ JobOK(s)'
                     /\ \A w \in Workers : StatusOK(w)'
  <1>4. ASSUME NEW s \in Scans, Serve(s) PROVE Goal
    <2>1. UNCHANGED <<pc, target>>
      BY <1>4 DEF Serve, runVars
    <2>2. CASE CreateRecord(s)
      <3>1. /\ api[s] = "creating" /\ api'[s] \in {"adding", "errored"}
            /\ \A t \in Scans \ {s} : api'[t] = api[t] /\ record'[t] = record[t]
            /\ record'[s] = NewRecord \/ (record' = record /\ api'[s] = "errored")
            /\ UNCHANGED <<job, lateAdds>>
        BY <1>3, <2>2 DEF CreateRecord, Answer, SetRecord, repoVars, queueVars
      <3>2. job[s] = "none" /\ s \notin lateAdds /\ \A w \in Workers : target[w] # s
        BY <1>0, <3>1, NamesAssumption DEF JobHeld, JobAfterRecord
      <3>3. \A w \in Workers : StatusOK(w)'
        <4> SUFFICES ASSUME NEW w \in Workers PROVE StatusOK(w)'
          OBVIOUS
        <4>1. target[w] # NoScan => target[w] \in Scans \ {s}
          BY <1>3, <3>2
        <4>2. QED  BY <1>0, <1>1, <1>2, <2>1, <3>1, <4>1, StatusUntouched
      <3>4. \A t \in Scans : CallOK(t)' /\ RecordOK(t)'
        BY <1>1, <3>1, <3>2 DEF CallOK, RecordOK, NewRecord
      <3>5. \A t \in Scans : JobOK(t)'
        BY <1>1, <1>2, <2>1, <3>1, <3>2 DEF JobOK
      <3>6. QED  BY <3>3, <3>4, <3>5
    <2>3. CASE ~CreateRecord(s)
      <3>1. record' = record
        BY <1>4, <2>3 DEF Serve, StartScan, CheckDepth, Enqueue, EnqueueTimesOut, LateAdd, repoVars
      <3>2. \A w \in Workers : StatusOK(w)'
        BY <1>0, <1>1, <1>2, <2>1, <3>1, StatusUntouched
      <3>3. \A t \in Scans : CallOK(t)'
        BY <1>0, <1>1, <1>3, <1>4, <2>3, <3>1
           DEF Serve, StartScan, CheckDepth, Enqueue, EnqueueTimesOut, LateAdd, AddJob, Answer,
               queueVars, CallOK, JobAfterRecord
      <3>4. \A t \in Scans : RecordOK(t)'
        BY <1>1, <3>1 DEF RecordOK
      <3>5. \A t \in Scans : JobOK(t)'
        <4> SUFFICES ASSUME NEW t \in Scans, faults' = 0 PROVE JobOK(t)'
          BY DEF JobOK
        <4>1. \/ job'[t] = job[t]
              \/ t = s /\ job'[t] = "waiting" /\ (api[s] = "adding" \/ s \in lateAdds)
          BY <1>3, <1>4, <2>3
             DEF Serve, StartScan, CheckDepth, Enqueue, EnqueueTimesOut, LateAdd, AddJob, queueVars
        <4>2. api[s] = "adding" => record[s].status = "QUEUED"
          BY <1>1 DEF CallOK, NewRecord
        <4>3. s \notin lateAdds
          BY <1>1, <1>2 DEF JobOK
        <4>4. t \notin lateAdds'
          BY <1>1, <1>2, <1>4, <2>3
             DEF JobOK, Serve, StartScan, CheckDepth, Enqueue, EnqueueTimesOut, LateAdd, Fault
        <4>5. api[s] = "adding" => \A w \in Workers : target[w] # s
          BY <1>0, <1>1, NamesAssumption DEF CallOK, JobHeld
        <4>6. QED  BY <1>1, <1>2, <2>1, <3>1, <4>1, <4>2, <4>3, <4>4, <4>5 DEF JobOK
      <3>6. QED  BY <3>2, <3>3, <3>4, <3>5
    <2>4. QED  BY <2>2, <2>3
  <1>5. ASSUME NEW s \in Scans, Stalled(s) PROVE Goal
    <2>1. StallJob(s) /\ UNCHANGED <<record, api, lateAdds, pc, target>>
      BY <1>5 DEF Stalled, repoVars, apiVars, runVars
    <2>2. job[s] = "active" /\ (UNCHANGED faults => \A w \in Workers : target[w] # s)
      BY <1>0, <1>2, <1>5, <2>1, NamesAssumption
         DEF Stalled, StallJob, Fault, JobHeld, TypeInv, TypeOK, FaultsOK
    <2>3. faults' # 0
      BY <1>1, <1>2, <2>2 DEF JobOK
    <2>4. \A t \in Scans \ {s} : job'[t] = job[t]
      BY <1>3, <2>1 DEF StallJob
    <2>5. \A t \in Scans : CallOK(t)' /\ RecordOK(t)' /\ JobOK(t)'
      BY <1>1, <1>2, <2>1, <2>2, <2>3, <2>4 DEF CallOK, RecordOK, JobOK
    <2>6. \A w \in Workers : StatusOK(w)'
      BY <1>0, <1>1, <1>2, <2>1, StatusUntouched
    <2>7. QED  BY <2>5, <2>6
  <1>6. ASSUME NEW s \in Scans, Expiry(s) PROVE Goal
    <2>1. /\ AtRest(s) /\ UNCHANGED <<faults, job, api, lateAdds, pc, target>>
          /\ record' = record \/ record' = [record EXCEPT ![s] = Missing]
      BY <1>6 DEF Expiry, DropRecord, LapseList, Fault, Undisturbed, queueVars, apiVars, runVars
    <2>2. \A t \in Scans : CallOK(t)' /\ RecordOK(t)' /\ JobOK(t)'
      <3>1. \A t \in Scans : record'[t] = record[t] \/ (t = s /\ record'[t] = Missing)
        BY <1>3, <2>1
      <3>2. job[s] # "waiting" /\ api[s] # "adding"
        BY <2>1 DEF AtRest, InCall
      <3>3. \A t \in Scans : CallOK(t)'
        BY <1>1, <2>1, <3>1, <3>2 DEF CallOK
      <3>4. \A t \in Scans : RecordOK(t)'
        BY <1>1, <3>1 DEF RecordOK, Missing
      <3>5. \A t \in Scans : JobOK(t)'
        BY <1>1, <2>1, <3>1, <3>2 DEF JobOK
      <3>6. QED  BY <3>3, <3>4, <3>5
    <2>3. \A w \in Workers : StatusOK(w)'
      BY <1>0, <1>1, <1>3, <2>1, StatusUntouched DEF AtRest
    <2>4. QED  BY <2>2, <2>3
  <1>7. ASSUME NEW w \in Workers, TakeScan(w) PROVE Goal
    <2>1. PICK s \in Scans : Take(w, s) /\ UNCHANGED apiVars
      BY <1>7 DEF TakeScan
    <2>2. /\ job[s] = "waiting" /\ job' = [job EXCEPT ![s] = "active"]
          /\ pc' = [pc EXCEPT ![w] = "readScanning"] /\ target' = [target EXCEPT ![w] = s]
          /\ UNCHANGED <<faults, record, api, lateAdds>>
      BY <2>1 DEF Take, TakeJob, Goto, repoVars, apiVars
    <2>3. target[w] = NoScan
      BY <1>0, <2>1 DEF Take, TypeInv, RunShape
    <2>4. \A t \in Scans : CallOK(t)' /\ RecordOK(t)'
      BY <1>1, <1>3, <2>2 DEF CallOK, RecordOK
    <2>5. \A t \in Scans : JobOK(t)'
      <3> SUFFICES ASSUME NEW t \in Scans, faults = 0 PROVE JobOK(t)'
        BY <2>2 DEF JobOK
      <3>1. CASE t = s
        BY <1>1, <1>3, <2>2, <3>1 DEF JobOK
      <3>2. CASE t # s
        <4>1. job'[t] = job[t]
          BY <1>3, <2>2, <3>2
        <4>2. \A v \in Workers : (target[v] = t) = (target'[v] = t)
          <5>1. target'[w] = s /\ \A v \in Workers \ {w} : target'[v] = target[v]
            BY <1>3, <2>2
          <5>2. QED  BY <2>3, <3>2, <5>1, NamesAssumption
        <4>3. QED  BY <1>1, <2>2, <4>1, <4>2 DEF JobOK
      <3>3. QED  BY <3>1, <3>2
    <2>6. StatusOK(w)'
      BY <1>1, <1>3, <2>2 DEF StatusOK, Scanning, JobOK
    <2>7. \A v \in Workers \ {w} : StatusOK(v)'
      BY <1>0, <1>1, <1>3, <2>2, StatusUntouched
    <2>8. QED  BY <2>4, <2>5, <2>6, <2>7
  <1>8. ASSUME NEW w \in Workers, Run(w) PROVE Goal
    <2>1. Process(w) /\ UNCHANGED <<queueVars, apiVars>>
      BY <1>8 DEF Run
    <2>2. /\ target[w] \in Scans /\ target' = target /\ job[target[w]] # "none"
          /\ \A t \in Scans \ {target[w]} : record'[t] = record[t]
          /\ \A v \in Workers \ {w} : pc'[v] = pc[v]
      BY <1>0, <2>1, ProcessFrame, NamesAssumption DEF JobHeld
    <2>3. \A v \in Workers \ {w} : target[v] # NoScan => target[v] \in Scans \ {target[w]}
      BY <1>0, <1>3, <2>2, OwnedMeansOneWriter DEF OneWriter
    <2>4. StatusOK(w)' /\ RecordOK(target[w])'
      BY <1>0, <1>1, <2>1, <2>2, ProcessOrder
    <2>5. \A v \in Workers \ {w} : StatusOK(v)'
      BY <1>0, <1>1, <1>2, <2>2, <2>3, StatusUntouched
    <2>6. \A t \in Scans : RecordOK(t)'
      BY <1>1, <2>2, <2>4 DEF RecordOK
    <2>7. \A t \in Scans : CallOK(t)' /\ JobOK(t)'
      <3> SUFFICES ASSUME NEW t \in Scans PROVE CallOK(t)' /\ JobOK(t)'
        OBVIOUS
      <3>1. UNCHANGED <<job, api, lateAdds>>
        BY <2>1 DEF queueVars, apiVars
      <3>2. CASE t = target[w]
        <4>1. ~(api[t] \in {"idle", "creating", "adding"})
          BY <1>0, <1>1, <2>2, <3>2 DEF JobAfterRecord, CallOK
        <4>2. QED  BY <1>1, <1>2, <2>2, <3>1, <3>2, <4>1 DEF CallOK, JobOK
      <3>3. CASE t # target[w]
        BY <1>1, <1>2, <2>2, <3>1, <3>3 DEF CallOK, JobOK
      <3>4. QED  BY <3>2, <3>3
    <2>8. QED  BY <2>4, <2>5, <2>6, <2>7
  <1>9. ASSUME NEW w \in Workers, ForgetRun(w), UNCHANGED repoVars
        PROVE  (\A v \in Workers : StatusOK(v)') /\ \A s \in Scans : RecordOK(s)'
    <2>1. record' = record /\ pc' = [pc EXCEPT ![w] = "idle"] /\ target' = [target EXCEPT ![w] = NoScan]
      BY <1>9 DEF ForgetRun, Goto, repoVars
    <2>2. StatusOK(w)'
      BY <1>3, <2>1 DEF StatusOK, Scanning
    <2>3. \A v \in Workers \ {w} : StatusOK(v)'
      BY <1>0, <1>1, <1>2, <1>3, <2>1, StatusUntouched
    <2>4. QED  BY <1>1, <2>1, <2>2, <2>3 DEF RecordOK
  <1>10. ASSUME NEW w \in Workers, Complete(w) PROVE Goal
    <2>1. /\ ForgetRun(w) /\ UNCHANGED <<repoVars, apiVars, faults>>
          /\ \E o \in {"completed", "failed"} : SettleJob(w, target[w], o)
          /\ pc[w] # "idle"
      BY <1>10 DEF Complete, Settle
    <2>2. target[w] \in Scans /\ job[target[w]] # "none"
      BY <1>0, <1>3, <2>1, NamesAssumption DEF JobHeld, TypeInv, RunShape
    <2>3. /\ \A t \in Scans \ {target[w]} : job'[t] = job[t]
          /\ job'[target[w]] \notin {"none", "active"}
          /\ job'[target[w]] # "waiting" \/ job'[target[w]] = job[target[w]]
          /\ target' = [target EXCEPT ![w] = NoScan]
      BY <1>0, <1>3, <2>1, <2>2, NamesAssumption
         DEF SettleJob, ForgetRun, JobHeld, queueVars
    <2>4. UNCHANGED <<record, api, lateAdds>>
      BY <2>1 DEF repoVars, apiVars
    <2>5. \A t \in Scans : \A v \in Workers :
             /\ target'[v] = t => target[v] = t
             /\ t # target[w] /\ target[v] = t => target'[v] = t
      BY <1>3, <2>3, NamesAssumption
    <2>6. \A t \in Scans : CallOK(t)'
      BY <1>1, <2>2, <2>3, <2>4 DEF CallOK
    <2>7. \A t \in Scans : JobOK(t)'
      <3> SUFFICES ASSUME NEW t \in Scans, faults = 0 PROVE JobOK(t)'
        BY <2>1 DEF JobOK
      <3>1. CASE t = target[w]
        BY <1>1, <2>2, <2>3, <2>4, <2>5, <3>1 DEF JobOK
      <3>2. CASE t # target[w]
        BY <1>1, <2>3, <2>4, <2>5, <3>2 DEF JobOK
      <3>3. QED  BY <3>1, <3>2
    <2>8. QED  BY <1>9, <2>1, <2>6, <2>7
  <1>11. ASSUME NEW w \in Workers, Crash(w) PROVE Goal
    <2>1. /\ ForgetRun(w) /\ UNCHANGED <<repoVars, queueVars>> /\ faults' # 0
          /\ \A t \in Scans : api'[t] \in {api[t], "lost"}
          /\ lateAdds' \subseteq lateAdds
      BY <1>0, <1>11, FaultsGrow DEF Crash, Fault, LoseCalls
    <2>2. \A t \in Scans : CallOK(t)' /\ JobOK(t)'
      BY <1>1, <2>1 DEF CallOK, JobOK, repoVars, queueVars
    <2>3. QED  BY <1>9, <2>1, <2>2
  <1>12. ASSUME UNCHANGED vars PROVE Goal
    BY <1>0, <1>1, <1>12, StatusUntouched
       DEF vars, repoVars, queueVars, apiVars, runVars, CallOK, RecordOK, JobOK
  <1>13. Goal
    BY <1>4, <1>5, <1>6, <1>7, <1>8, <1>10, <1>11, <1>12 DEF Next
  <1>14. QED  BY <1>0, <1>13 DEF OrderInv

LEMMA OrderInit == Init => OrderInv
  <1> SUFFICES ASSUME Init PROVE OrderInv
    OBVIOUS
  <1>1. RecordHeld /\ \A s \in Scans : CallOK(s) /\ RecordOK(s) /\ JobOK(s)
    BY NamesAssumption
       DEF Init, QueueInit, ServiceInit, RepositoryInit, ProcessorInit, RecordHeld, NeedsRecord,
           CallOK, RecordOK, JobOK, Missing
  <1>2. \A w \in Workers : StatusOK(w)
    BY DEF Init, ProcessorInit, StatusOK, Scanning
  <1>3. QED  BY <1>1, <1>2, SafeInit DEF OrderInv

-----------------------------------------------------------------------------
(* The steps of ScanContract, in terms of the records and lists. *)
View(s) == [status |-> record[s].status,
            total  |-> IF Finished(s) THEN record[s].count ELSE 0,
            pages  |-> IF Finished(s) THEN vulns[s] ELSE << >>,
            reason |-> record[s].error]

\* Only scan s looks different afterwards
LEMMA ContractMoves ==
    ASSUME TypeInv, faults \in Nat, faults' = faults \/ faults' = faults + 1,
           NEW s \in Scans, NEW new, NEW n, NEW found, NEW given,
           \A t \in Scans \ {s} : View(t)' = View(t),
           View(s)' = [status |-> new, total |-> n, pages |-> found, reason |-> given]
    PROVE  /\ Contract!Become(s, new, n, found)
           /\ Contract!Explain(s, given)
           /\ given = record[s].error =>
                 UNCHANGED [t \in Scans |-> record[t].error]
  <1> DEFINE statusM == [t \in Scans |-> record[t].status]
             totalM  == [t \in Scans |-> IF Finished(t) THEN record[t].count ELSE 0]
             pagesM  == [t \in Scans |-> IF Finished(t) THEN vulns[t] ELSE << >>]
             reasonM == [t \in Scans |-> record[t].error]
  <1>1. \A t \in Scans \ {s} : /\ statusM'[t] = statusM[t] /\ totalM'[t] = totalM[t]
                              /\ pagesM'[t] = pagesM[t] /\ reasonM'[t] = reasonM[t]
    BY DEF View
  <1>2. /\ statusM'[s] = new /\ totalM'[s] = n
        /\ pagesM'[s] = found /\ reasonM'[s] = given
    BY DEF View
  <1>3. /\ statusM' = [statusM EXCEPT ![s] = new]
        /\ totalM' = [totalM EXCEPT ![s] = n]
        /\ pagesM' = [pagesM EXCEPT ![s] = found]
        /\ reasonM' = [reasonM EXCEPT ![s] = given]
    BY <1>1, <1>2
  <1>4. (faults > 0)' \in {faults > 0, TRUE}
    <2>1. CASE faults' = faults
      BY <2>1
    <2>2. CASE faults' = faults + 1
      <3>1. faults' > 0
        BY <2>2
      <3>2. QED  BY <3>1, Zenon
    <2>3. QED  BY <2>1, <2>2
  <1>5. given = record[s].error => reasonM' = reasonM
    <2> SUFFICES ASSUME given = reasonM[s] PROVE reasonM' = reasonM
      OBVIOUS
    <2>1. \A t \in Scans : reasonM'[t] = reasonM[t]
      BY <1>1, <1>2
    <2>2. QED  BY <2>1
  <1>6. QED
    BY <1>3, <1>4, <1>5 DEF Contract!Become, Contract!Explain

\* No scan looks different afterwards
LEMMA ContractRests ==
    ASSUME faults \in Nat, faults' = faults \/ faults' = faults + 1,
           \A t \in Scans : View(t)' = View(t)
    PROVE  [Contract!Next]_(Contract!vars)
  <1>1. \A t \in Scans : /\ record'[t].status = record[t].status
                        /\ record'[t].error = record[t].error
                        /\ (IF Finished(t) THEN record[t].count ELSE 0)'
                              = (IF Finished(t) THEN record[t].count ELSE 0)
                        /\ (IF Finished(t) THEN vulns[t] ELSE << >>)'
                              = (IF Finished(t) THEN vulns[t] ELSE << >>)
    BY DEF View
  <1>2. /\ UNCHANGED [t \in Scans |-> record[t].status]
        /\ UNCHANGED [t \in Scans |-> IF Finished(t) THEN record[t].count ELSE 0]
        /\ UNCHANGED [t \in Scans |-> IF Finished(t) THEN vulns[t] ELSE << >>]
        /\ UNCHANGED [t \in Scans |-> record[t].error]
    BY <1>1
  <1>3. CASE faults' = faults
    BY <1>2, <1>3 DEF Contract!vars
  <1>4. CASE faults' = faults + 1
    <2>1. (faults > 0)' = TRUE
      BY <1>4
    <2>2. Contract!GoWrong
      BY <1>2, <2>1 DEF Contract!GoWrong
    <2>3. QED  BY <2>2 DEF Contract!Next
  <1>5. QED  BY <1>3, <1>4

\* The SET of a record changes its own view only
LEMMA ViewAfterSet ==
    ASSUME TypeInv, NEW s \in Scans, NEW r \in Records, SetRecord(s, r)
    PROVE  /\ \A t \in Scans \ {s} : View(t)' = View(t)
           /\ View(s)' = [status |-> r.status,
                          total  |-> IF r.status = "FINISHED" THEN r.count ELSE 0,
                          pages  |-> IF r.status = "FINISHED" THEN vulns[s] ELSE << >>,
                          reason |-> r.error]
  BY DEF TypeInv, TypeOK, RepositoryOK, SetRecord, View, Finished

\* No view changes while the records and the lists of FINISHED scans stay
LEMMA ViewStays ==
    ASSUME record' = record,
           \A t \in Scans : record[t].status = "FINISHED" => vulns'[t] = vulns[t]
    PROVE  \A t \in Scans : View(t)' = View(t)
  BY DEF View, Finished

(* updateStatus(SCANNING) is Begin; repeated, it may find any status. *)
LEMMA ScanningBegins ==
    ASSUME OrderInv, NEW w \in Workers, MarkScanning(w), Fault("redis") \/ UNCHANGED faults
    PROVE  [Contract!Next]_(Contract!vars)
  <1>1. /\ TypeInv /\ RunsOK /\ record \in [Scans -> Records]
        /\ faults \in Nat /\ (faults' = faults \/ faults' = faults + 1)
    BY FaultAssumption
       DEF OrderInv, SafeInv, TypeInv, TypeOK, RepositoryOK, FaultsOK, Fault
  <1>2. PICK s \in Scans, given \in BOOLEAN : s = target[w] /\ given = record[s].error
    BY <1>1, NamesAssumption DEF TypeInv, TypeOK, ProcessorOK, RunShape, Records, MarkScanning
  <1>3. /\ record[s] # Missing /\ RecordOK(s) /\ StatusOK(w)
        /\ pc[w] = "writeScanning"
    BY <1>1, <1>2 DEF OrderInv, SafeInv, RecordHeld, NeedsRecord, MarkScanning, TypeInv, RunShape
  <1>4. /\ record[s].status \in {"QUEUED", "SCANNING", "FINISHED", "FAILED"}
        /\ faults = 0 => record[s].status = "QUEUED"
    BY <1>1, <1>2, <1>3 DEF RecordOK, StatusOK, Records, Statuses
  <1>5. PICK r \in Records : /\ r.status = "SCANNING" /\ r.error = given
                             /\ Write(w, r, "clear", "readFailed")
    BY <1>1, <1>2, Patched
  <1>6. CASE UNCHANGED repoVars
    BY <1>1, <1>2, <1>6, ViewStays, ContractRests DEF repoVars
  <1>7. CASE SetRecord(s, r)
    <2>1. /\ \A t \in Scans \ {s} : View(t)' = View(t)
          /\ View(s)' = [status |-> "SCANNING", total |-> 0, pages |-> << >>,
                         reason |-> given]
      BY <1>1, <1>2, <1>5, <1>7, ViewAfterSet
    <2>2. CASE record[s].status = "SCANNING"
      <3>1. View(s)' = View(s)
        BY <1>2, <2>1, <2>2 DEF View, Finished
      <3>2. QED  BY <1>1, <1>2, <2>1, <3>1, ContractRests
    <2>3. CASE record[s].status # "SCANNING"
      <3>1. /\ Contract!Become(s, "SCANNING", 0, << >>)
            /\ UNCHANGED [t \in Scans |-> record[t].error]
        BY <1>1, <1>2, <2>1, ContractMoves
      <3>2. record[s].status = "QUEUED" \/ (faults' > 0 /\ record[s].status \in {"FINISHED", "FAILED"})
        BY <1>1, <1>2, <1>4, <2>3
      <3>3. [t \in Scans |-> record[t].status][s] = record[s].status
        BY <1>1, <1>2
      <3>4. Contract!Begin(s)
        BY <3>1, <3>2, <3>3, Zenon DEF Contract!Begin
      <3>5. QED  BY <1>1, <1>2, <3>4, Zenon DEF Contract!Next
    <2>4. QED  BY <2>2, <2>3
  <1>8. QED  BY <1>1, <1>2, <1>5, <1>6, <1>7 DEF Write, Await

(* markFinished is Finish: the list is whole when the SET is sent. *)
LEMMA FinishedFinishes ==
    ASSUME OrderInv, NEW w \in Workers, MarkFinished(w), Fault("redis") \/ UNCHANGED faults
    PROVE  [Contract!Next]_(Contract!vars)
  <1>1. /\ TypeInv /\ RunsOK /\ record \in [Scans -> Records]
        /\ faults \in Nat /\ (faults' = faults \/ faults' = faults + 1)
    BY FaultAssumption
       DEF OrderInv, SafeInv, TypeInv, TypeOK, RepositoryOK, FaultsOK, Fault
  <1>2. PICK s \in Scans, given \in BOOLEAN : s = target[w] /\ given = record[s].error
    BY <1>1, NamesAssumption DEF TypeInv, TypeOK, ProcessorOK, RunShape, Records, MarkFinished
  <1>3. PICK n \in 0..MaxBatches :
           n = pushed[w] /\ record[s].status = "SCANNING" /\ vulns[s] = Contract!Whole(n)
    BY <1>1, <1>2 DEF OrderInv, StatusOK, Scanning, RunsOK, RunOK, Working, Stored, Full,
                Contract!Whole, MarkFinished, TypeInv, TypeOK, ProcessorOK
  <1>4. PICK r \in Records : /\ r.status = "FINISHED" /\ r.error = given
                             /\ r.count = n
                             /\ Write(w, r, "resolved", "readFailed")
    BY <1>1, <1>2, <1>3, Patched
  <1>5. CASE UNCHANGED repoVars
    BY <1>1, <1>2, <1>5, ViewStays, ContractRests DEF repoVars
  <1>6. CASE SetRecord(s, r)
    <2>1. /\ \A t \in Scans \ {s} : View(t)' = View(t)
          /\ View(s)' = [status |-> "FINISHED", total |-> n,
                         pages |-> Contract!Whole(n), reason |-> given]
      BY <1>1, <1>2, <1>3, <1>4, <1>6, ViewAfterSet
    <2>2. /\ Contract!Become(s, "FINISHED", n, Contract!Whole(n))
          /\ UNCHANGED [t \in Scans |-> record[t].error]
      BY <1>1, <1>2, <2>1, ContractMoves
    <2>3. [t \in Scans |-> record[t].status][s] = "SCANNING"
      BY <1>1, <1>2, <1>3
    <2>4. Contract!Finish(s)
      BY <1>3, <2>2, <2>3, Zenon DEF Contract!Finish
    <2>5. QED  BY <1>1, <1>2, <2>4, Zenon DEF Contract!Next
  <1>7. QED  BY <1>1, <1>2, <1>4, <1>5, <1>6 DEF Write, Await

(* markFailed is Fail; over a recorded failure it changes nothing. *)
LEMMA FailedFails ==
    ASSUME OrderInv, NEW w \in Workers, MarkFailed(w), Fault("redis") \/ UNCHANGED faults
    PROVE  [Contract!Next]_(Contract!vars)
  <1>1. /\ TypeInv /\ RunsOK /\ record \in [Scans -> Records]
        /\ faults \in Nat /\ (faults' = faults \/ faults' = faults + 1)
    BY FaultAssumption
       DEF OrderInv, SafeInv, TypeInv, TypeOK, RepositoryOK, FaultsOK, Fault
  <1>2. PICK s \in Scans : s = target[w]
    BY <1>1, NamesAssumption DEF TypeInv, TypeOK, ProcessorOK, RunShape, MarkFailed
  <1>3. PICK given \in BOOLEAN : given = TRUE
    BY Zenon
  <1>4. /\ record[s] # Missing /\ RecordOK(s) /\ StatusOK(w)
        /\ pc[w] = "writeFailed"
    BY <1>1, <1>2 DEF OrderInv, SafeInv, RecordHeld, NeedsRecord, MarkFailed, TypeInv, RunShape
  <1>5. /\ record[s].status \in {"QUEUED", "SCANNING", "FINISHED", "FAILED"}
        /\ faults = 0 => record[s].status = "SCANNING"
    BY <1>1, <1>2, <1>4 DEF RecordOK, StatusOK, Records, Statuses
  <1>6. PICK r \in Records : /\ r.status = "FAILED" /\ r.error = given
                             /\ Write(w, r, "discard", "rejected")
    BY <1>1, <1>2, <1>3, Patched
  <1>7. CASE UNCHANGED repoVars
    BY <1>1, <1>2, <1>7, ViewStays, ContractRests DEF repoVars
  <1>8. CASE SetRecord(s, r)
    <2>1. /\ \A t \in Scans \ {s} : View(t)' = View(t)
          /\ View(s)' = [status |-> "FAILED", total |-> 0, pages |-> << >>, reason |-> given]
      BY <1>1, <1>2, <1>6, <1>8, ViewAfterSet
    <2>2. CASE record[s].status = "FAILED"
      <3>1. View(s)' = View(s)
        BY <1>4, <1>3, <2>1, <2>2, Zenon DEF View, Finished, RecordOK
      <3>2. QED  BY <1>1, <1>2, <2>1, <3>1, ContractRests
    <2>3. CASE record[s].status # "FAILED"
      <3>1. /\ Contract!Become(s, "FAILED", 0, << >>)
            /\ Contract!Explain(s, given)
        BY <1>1, <1>2, <2>1, ContractMoves
      <3>2. record[s].status = "SCANNING" \/ (faults' > 0 /\ record[s].status \in {"QUEUED", "FINISHED"})
        BY <1>1, <1>2, <1>5, <2>3
      <3>3. [t \in Scans |-> record[t].status][s] = record[s].status
        BY <1>1, <1>2
      <3>4. Contract!Fail(s)
        BY <1>3, <3>1, <3>2, <3>3, Zenon DEF Contract!Fail
      <3>5. QED  BY <1>1, <1>2, <3>4, Zenon DEF Contract!Next
    <2>4. QED  BY <2>2, <2>3
  <1>9. QED  BY <1>1, <1>2, <1>6, <1>7, <1>8 DEF Write, Await

\* Every other step of process() leaves what clients see.
LEMMA ProcessRests ==
    ASSUME TypeInv, RunsOK, NEW w \in Workers, Process(w),
           ~(MarkScanning(w) \/ MarkFinished(w) \/ MarkFailed(w)),
           "resend" \notin FaultKinds
    PROVE  \A t \in Scans : View(t)' = View(t)
  <1>1. record' = record
    BY DEF Process, ReadForScanning, ReadForFinished, ReadForFailed, Read, ClearFindings,
           DiscardFindings, DropList, Push, PushAgain, TailPush, PushBatch, Arm, TailExpire,
           ArmExpiry, Await, RunEngine, Parse, StreamBreaks, repoVars
  <1>2. vulns' = vulns \/ pc[w] \in Working \/ tail[w] # "none"
    BY DEF Process, ReadForScanning, ReadForFinished, ReadForFailed, Read, ClearFindings,
           DiscardFindings, Push, PushAgain, TailPush, Arm, TailExpire, ArmExpiry, Await,
           RunEngine, Parse, StreamBreaks, repoVars, Working
  <1>3. vulns' = vulns \/ record[target[w]].status # "FINISHED"
    BY <1>2 DEF RunsOK, RunOK
  <1>4. \A t \in Scans \ {target[w]} : vulns'[t] = vulns[t]
    BY ProcessFrame
  <1>5. QED  BY <1>1, <1>3, <1>4, ViewStays

\* What the record of a new scan, and a missing one, say
LEMMA FreshRecords ==
    /\ Missing \in Records /\ Missing.status = "NONE" /\ Missing.error = FALSE
    /\ NewRecord \in Records /\ NewRecord.status = "QUEUED" /\ NewRecord.error = FALSE
  <1>1. Missing \in Records /\ NewRecord \in Records
    BY BatchAssumption DEF Missing, NewRecord, Records, Statuses
  <1>2. Missing.status = "NONE" /\ NewRecord.status = "QUEUED"
    BY DEF Missing, NewRecord
  <1>3. Missing.error = FALSE /\ NewRecord.error = FALSE
    BY DEF Missing, NewRecord
  <1>4. QED  BY <1>1, <1>2, <1>3

LEMMA ContractStep ==
    ASSUME OrderInv, [Next]_vars, Undisturbed
    PROVE  [Contract!Next]_(Contract!vars)
  <1>1. /\ TypeInv /\ RunsOK
        /\ record \in [Scans -> Records] /\ vulns \in [Scans -> Seq(1..MaxBatches)]
    BY DEF OrderInv, SafeInv, TypeInv, TypeOK, RepositoryOK
  <1>2. faults \in Nat /\ (faults' = faults \/ faults' = faults + 1)
    BY <1>1, FaultsGrow
  <1>3. ASSUME UNCHANGED repoVars PROVE [Contract!Next]_(Contract!vars)
    BY <1>2, <1>3, ViewStays, ContractRests DEF repoVars
  <1>4. ASSUME NEW s \in Scans, Serve(s) PROVE [Contract!Next]_(Contract!vars)
    <2>1. CASE CreateRecord(s) /\ ~UNCHANGED repoVars
      <3>1. record[s] = Missing /\ SetRecord(s, NewRecord)
        BY <2>1 DEF CreateRecord, OrderInv, CallOK
      <3>2. PICK no \in BOOLEAN : no = FALSE
        BY Zenon
      <3>3. NewRecord \in Records /\ NewRecord.status = "QUEUED" /\ NewRecord.error = no
        BY <3>2, FreshRecords, Zenon
      <3>4. /\ \A t \in Scans \ {s} : View(t)' = View(t)
            /\ View(s)' = [status |-> "QUEUED", total |-> 0, pages |-> << >>, reason |-> no]
        BY <1>1, <3>1, <3>3, ViewAfterSet
      <3>5. Contract!Become(s, "QUEUED", 0, << >>) /\ Contract!Explain(s, no)
        BY <1>1, <1>2, <3>4, ContractMoves
      <3>6. [t \in Scans |-> record[t].status][s] = "NONE"
        BY <3>1 DEF Missing
      <3>7. Contract!Accept(s)
        BY <3>2, <3>5, <3>6, Zenon DEF Contract!Accept
      <3>8. QED  BY <3>7, Zenon DEF Contract!Next
    <2>2. CASE ~(CreateRecord(s) /\ ~UNCHANGED repoVars)
      BY <1>3, <1>4, <2>2 DEF Serve, StartScan, CheckDepth, Enqueue, EnqueueTimesOut, LateAdd
    <2>3. QED  BY <2>1, <2>2
  <1>5. ASSUME NEW s \in Scans, Expiry(s) PROVE [Contract!Next]_(Contract!vars)
    <2>1. CASE DropRecord(s)
      <3>1. PICK no \in BOOLEAN : no = FALSE
        BY Zenon
      <3>2. Missing \in Records /\ Missing.status = "NONE" /\ Missing.error = no
        BY <3>1, FreshRecords, Zenon
      <3>3. SetRecord(s, Missing) /\ record[s].status # "NONE"
        BY <2>1 DEF DropRecord, SetRecord, OrderInv, RecordOK
      <3>4. /\ \A t \in Scans \ {s} : View(t)' = View(t)
            /\ View(s)' = [status |-> "NONE", total |-> 0, pages |-> << >>, reason |-> no]
        BY <1>1, <3>2, <3>3, ViewAfterSet
      <3>5. Contract!Become(s, "NONE", 0, << >>) /\ Contract!Explain(s, no)
        BY <1>1, <1>2, <3>4, ContractMoves
      <3>6. [t \in Scans |-> record[t].status][s] # "NONE"
        BY <3>3
      <3>7. Contract!Expire(s)
        BY <3>1, <3>5, <3>6, Zenon DEF Contract!Expire
      <3>8. QED  BY <3>7, Zenon DEF Contract!Next
    <2>2. CASE LapseList(s) /\ Finished(s)
      <3>1. PICK n \in 0..MaxBatches, given \in BOOLEAN :
               n = record[s].count /\ given = record[s].error
        BY <1>1 DEF Records
      <3>2. /\ \A t \in Scans \ {s} : View(t)' = View(t)
            /\ View(s)' = [status |-> "FINISHED", total |-> n, pages |-> << >>,
                           reason |-> given]
        BY <1>1, <2>2, <3>1 DEF LapseList, View, Finished
      <3>3. /\ Contract!Become(s, "FINISHED", n, << >>)
            /\ UNCHANGED [t \in Scans |-> record[t].error]
        BY <1>1, <1>2, <3>1, <3>2, ContractMoves
      <3>4. /\ [t \in Scans |-> record[t].status][s] = "FINISHED"
            /\ [t \in Scans |-> IF Finished(t) THEN record[t].count ELSE 0][s] = n
        BY <2>2, <3>1 DEF Finished
      <3>5. Contract!PagesExpire(s)
        BY <3>3, <3>4, Zenon DEF Contract!PagesExpire
      <3>6. QED  BY <3>5, Zenon DEF Contract!Next
    <2>3. CASE LapseList(s) /\ ~Finished(s)
      <3>1. record' = record /\ \A t \in Scans \ {s} : vulns'[t] = vulns[t]
        BY <1>1, <2>3 DEF LapseList
      <3>2. QED  BY <1>2, <2>3, <3>1, ViewStays, ContractRests DEF Finished
    <2>4. QED  BY <1>5, <2>1, <2>2, <2>3 DEF Expiry
  <1>6. ASSUME NEW w \in Workers, Run(w) PROVE [Contract!Next]_(Contract!vars)
    <2>1. Process(w)
      BY <1>6 DEF Run
    <2>2. MarkScanning(w) \/ MarkFinished(w) \/ MarkFailed(w)
             => Fault("redis") \/ UNCHANGED faults
      BY DEF MarkScanning, MarkFinished, MarkFailed, Write, Await
    <2>3. CASE MarkScanning(w) \/ MarkFinished(w) \/ MarkFailed(w)
      BY <2>2, <2>3, ScanningBegins, FinishedFinishes, FailedFails
    <2>4. CASE ~(MarkScanning(w) \/ MarkFinished(w) \/ MarkFailed(w))
      BY <1>1, <1>2, <2>1, <2>4, ProcessRests, ContractRests DEF Undisturbed
    <2>5. QED  BY <2>3, <2>4
  <1>7. QED
    BY <1>3, <1>4, <1>5, <1>6 DEF Next, Stalled, TakeScan, Take, Complete, Settle, Crash, vars

LEMMA ContractInit == Init => Contract!Init
  <1> SUFFICES ASSUME Init PROVE Contract!Init
    OBVIOUS
  <1>1. \A s \in Scans : record[s] = Missing /\ ~Finished(s)
    BY DEF Init, RepositoryInit, Finished, Missing
  <1>2. \A s \in Scans : record[s].status = "NONE" /\ record[s].error = FALSE
    BY <1>1, FreshRecords, Zenon
  <1>3. (faults > 0) = FALSE
    BY SMT DEF Init
  <1>4. QED
    BY <1>1, <1>2, <1>3, Zenon DEF Contract!Init

(* The system implements ScanContract, whatever crashes, whichever Redis    *)
(* commands fail, and whether or not the lock of an only worker lapses: a   *)
(* client never sees a status that skips one or goes back, before the first *)
(* fault, nor findings of a scan that are not all there.                    *)
THEOREM ContractKept ==
    ASSUME Undisturbed
    PROVE  Spec => KeepsContract
  <1>1. OrderInv /\ [Next]_vars => OrderInv' /\ [Contract!Next]_(Contract!vars)
    BY OrderStep, ContractStep
  <1>2. QED
    BY <1>1, OrderInit, ContractInit, PTL DEF Spec, KeepsContract, Contract!Spec

=============================================================================
