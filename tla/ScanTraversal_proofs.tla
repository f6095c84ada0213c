------------------------ MODULE ScanTraversal_proofs ------------------------
(***************************************************************************)
(* A client that has read all pages of a scan that was not run again has   *)
(* its findings: a theorem for any page size and any number of scans,      *)
(* workers, batches and faults.                                            *)
(***************************************************************************)
EXTENDS ScanReader_proofs, SequenceTheorems, WellFoundedInduction

(* A traversal is only whole if nothing happens to a list that has been     *)
(* counted.  Under Undisturbed a job is added once ...                      *)
Added(s) == /\ api[s] = "adding" => job[s] = "none" /\ s \notin lateAdds
            /\ s \in lateAdds => job[s] = "none"

FreshJob(s) == job[s] = "waiting" /\ stalls[s] = 0 => \A w \in Workers : target[w] # s

(* ... and a scan with a count has been through markFinished: unless its    *)
(* job has stalled, no other run of it can come, and the one that is left,  *)
(* if any, is in its catch block or done.                                   *)
AfterFinish == {"resolved"} \cup Catching \cup {"writeFailed", "discard"}

PastFinish(s) == /\ job[s] \notin {"none", "waiting"}
                 /\ \A w \in Workers : target[w] = s => pc[w] \in AfterFinish

Ended(s) == job[s] # "none" /\ (stalls[s] = 0 => PastFinish(s))

CountedOnce(s) == record[s].count > 0 => Ended(s)

OnceInv == /\ SafeInv
           /\ \A s \in Scans : Added(s) /\ FreshJob(s) /\ CountedOnce(s)

-----------------------------------------------------------------------------
(* How jobs are added. *)
LEMMA AddedStep ==
    ASSUME TypeInv, JobHeld, JobAfterRecord, \A s \in Scans : Added(s), [Next]_vars,
           Undisturbed
    PROVE  \A s \in Scans : Added(s)'
  <1> USE DEF TypeInv, TypeOK, QueueOK, ServiceOK, Added
  <1> DEFINE Goal == \A s \in Scans : Added(s)'
  <1>1. ASSUME NEW s \in Scans, Serve(s) PROVE Goal
    <2>1. CASE CheckDepth(s) \/ CreateRecord(s)
      BY <2>1 DEF CheckDepth, CreateRecord, Answer, queueVars, JobAfterRecord
    <2>2. CASE Enqueue(s) \/ LateAdd(s)
      BY <2>2 DEF Enqueue, LateAdd, Answer, AddJob, queueVars, JobAfterRecord
    <2>3. CASE EnqueueTimesOut(s)
      BY <2>3 DEF EnqueueTimesOut, Answer, AddJob, queueVars, Fault, Undisturbed
    <2>4. QED  BY <1>1, <2>1, <2>2, <2>3 DEF Serve, StartScan
  <1>2. ASSUME NEW s \in Scans, Stalled(s) PROVE Goal
    BY <1>2 DEF Stalled, StallJob, apiVars
  <1>3. ASSUME NEW s \in Scans, Expiry(s) PROVE Goal
    BY <1>3 DEF Expiry, apiVars, queueVars
  <1>4. ASSUME NEW w \in Workers, TakeScan(w) PROVE Goal
    BY <1>4 DEF TakeScan, Take, TakeJob, apiVars
  <1>5. ASSUME NEW w \in Workers, Run(w) PROVE Goal
    BY <1>5 DEF Run, apiVars, queueVars
  <1>6. ASSUME NEW w \in Workers, Complete(w) PROVE Goal
    <2>1. target[w] \in Scans /\ job[target[w]] # "none"
      BY <1>6 DEF Complete, Settle, RunShape, ProcessorOK, JobHeld
    <2>2. QED  BY <1>6, <2>1 DEF Complete, Settle, SettleJob, apiVars, queueVars
  <1>7. ASSUME NEW w \in Workers, Crash(w) PROVE Goal
    BY <1>7 DEF Crash, LoseCalls, queueVars
  <1>8. CASE UNCHANGED vars
    BY <1>8 DEF vars, apiVars, queueVars
  <1>9. QED
    BY <1>1, <1>2, <1>3, <1>4, <1>5, <1>6, <1>7, <1>8 DEF Next

(* A job that has not stalled starts out with no run. *)
LEMMA FreshJobStep ==
    ASSUME TypeInv, JobHeld, \A s \in Scans : FreshJob(s), [Next]_vars
    PROVE  \A s \in Scans : FreshJob(s)'
  <1> USE NamesAssumption
      DEF TypeInv, TypeOK, QueueOK, ProcessorOK, RunShape, JobHeld, FreshJob
  <1> DEFINE Goal == \A s \in Scans : FreshJob(s)'
  <1>1. ASSUME NEW s \in Scans, Serve(s) PROVE Goal
    BY <1>1 DEF Serve, runVars, StartScan, CheckDepth, CreateRecord, Enqueue,
                EnqueueTimesOut, LateAdd, AddJob, queueVars
  <1>2. ASSUME NEW s \in Scans, Stalled(s) PROVE Goal
    BY <1>2 DEF Stalled, StallJob, runVars
  <1>3. ASSUME NEW s \in Scans, Expiry(s) PROVE Goal
    BY <1>3 DEF Expiry, queueVars, runVars
  <1>4. ASSUME NEW w \in Workers, TakeScan(w) PROVE Goal
    BY <1>4 DEF TakeScan, Take, TakeJob
  <1>5. ASSUME NEW w \in Workers, Run(w) PROVE Goal
    <2>1. UNCHANGED <<target, job, stalls>>
      BY <1>5, ProcessTarget DEF Run, queueVars
    <2>2. QED  BY <2>1
  <1>6. ASSUME NEW w \in Workers, Complete(w) PROVE Goal
    BY <1>6 DEF Complete, Settle, SettleJob, ForgetRun, queueVars
  <1>7. ASSUME NEW w \in Workers, Crash(w) PROVE Goal
    BY <1>7 DEF Crash, ForgetRun, queueVars
  <1>8. CASE UNCHANGED vars
    BY <1>8 DEF vars, queueVars, runVars
  <1>9. QED
    BY <1>1, <1>2, <1>3, <1>4, <1>5, <1>6, <1>7, <1>8 DEF Next

(* No run comes after the one that counted, short of a stall. *)
LEMMA EndedKept ==
    ASSUME TypeInv, NEW s \in Scans, Added(s), Ended(s), [Next]_vars
    PROVE  Ended(s)' /\ (stalls'[s] = 0 => stalls[s] = 0)
  <1> DEFINE Goal == Ended(s)' /\ (stalls'[s] = 0 => stalls[s] = 0)
  <1> USE NamesAssumption
      DEF TypeInv, TypeOK, QueueOK, ProcessorOK, RunShape, Catching, AfterFinish, PastFinish, Ended
  <1>1. ASSUME NEW t \in Scans, Serve(t) PROVE Goal
    <2>1. AddJob(t) => t # s \/ UNCHANGED queueVars
      BY <1>1 DEF AddJob, Serve, StartScan, CheckDepth, CreateRecord, Enqueue,
                  EnqueueTimesOut, LateAdd, Added, queueVars
    <2>2. (AddJob(t) \/ UNCHANGED queueVars) /\ UNCHANGED runVars
      BY <1>1 DEF Serve, StartScan, CheckDepth, CreateRecord, Enqueue, EnqueueTimesOut, LateAdd
    <2>3. QED  BY <2>1, <2>2 DEF AddJob, queueVars, runVars
  <1>2. ASSUME NEW t \in Scans, Stalled(t) PROVE Goal
    BY <1>2 DEF Stalled, StallJob, runVars
  <1>3. ASSUME NEW t \in Scans, Expiry(t) PROVE Goal
    BY <1>3 DEF Expiry, queueVars, runVars
  <1>4. ASSUME NEW w \in Workers, TakeScan(w) PROVE Goal
    BY <1>4 DEF TakeScan, Take, TakeJob, Goto
  <1>5. ASSUME NEW w \in Workers, Run(w) PROVE Goal
    <2>1. Process(w) /\ UNCHANGED <<target, job, stalls>>
      BY <1>5, ProcessTarget DEF Run, queueVars
    <2>2. \A v \in Workers \ {w} : pc'[v] = pc[v]
      BY <2>1, ProcessFrame
    <2>3. pc[w] \in AfterFinish => pc'[w] \in AfterFinish
      BY <2>1 DEF Process, ReadForScanning, MarkScanning, ClearFindings, RunEngine, Parse, Push,
         PushAgain, Arm, StreamBreaks, TailPush, TailExpire, ReadForFinished, MarkFinished,
         ReadForFailed, MarkFailed, DiscardFindings, Read, Write, Await, Goto, runVars
    <2>4. QED  BY <2>1, <2>2, <2>3
  <1>6. ASSUME NEW w \in Workers, Complete(w) PROVE Goal
    BY <1>6 DEF Complete, Settle, SettleJob, ForgetRun, Goto, queueVars
  <1>7. ASSUME NEW w \in Workers, Crash(w) PROVE Goal
    BY <1>7 DEF Crash, ForgetRun, Goto, queueVars
  <1>8. CASE UNCHANGED vars
    BY <1>8 DEF vars, queueVars, runVars
  <1>9. QED
    BY <1>1, <1>2, <1>3, <1>4, <1>5, <1>6, <1>7, <1>8 DEF Next

\* Only the SET of markFinished puts a count into a record that has none.
LEMMA CountAppears ==
    ASSUME SafeInv, NEW s \in Scans, [Next]_vars, record'[s].count > 0
    PROVE  \/ record[s].count > 0
           \/ \E w \in Workers : Run(w) /\ MarkFinished(w) /\ target[w] = s
  <1> DEFINE Goal == \/ record[s].count > 0
                     \/ \E w \in Workers : Run(w) /\ MarkFinished(w) /\ target[w] = s
  <1>0. /\ TypeInv /\ \A w \in Workers : pc[w] \in Writes => snap[w] = record[target[w]]
        /\ record \in [Scans -> Records] /\ snap \in [Workers -> Records]
    BY DEF SafeInv, RunsOK, RunOK, TypeInv, TypeOK, RepositoryOK, ProcessorOK
  <1>1. CASE record' = record
    BY <1>1
  <1>2. ASSUME NEW t \in Scans, NEW r \in Records, r.count = 0,
               record' = [record EXCEPT ![t] = r]
        PROVE  Goal
    BY <1>0, <1>2
  <1>3. Missing \in Records /\ Missing.count = 0 /\ NewRecord \in Records /\ NewRecord.count = 0
    BY BatchAssumption DEF Missing, NewRecord, Records, Statuses
  <1>4. ASSUME NEW t \in Scans, Serve(t) \/ Stalled(t) \/ Expiry(t) PROVE Goal
    BY <1>1, <1>2, <1>3, <1>4
       DEF Serve, StartScan, CheckDepth, CreateRecord, Enqueue, EnqueueTimesOut, LateAdd,
           SetRecord, Stalled, Expiry, DropRecord, LapseList, repoVars
  <1>5. ASSUME NEW w \in Workers, TakeScan(w) \/ Complete(w) \/ Crash(w) PROVE Goal
    BY <1>1, <1>5 DEF TakeScan, Take, Complete, Settle, Crash, repoVars
  <1>6. ASSUME NEW w \in Workers, Run(w) PROVE Goal
    <2>0. Process(w) /\ target[w] \in Scans
      BY <1>0, <1>6, ProcessFrame DEF Run
    <2>1. CASE s # target[w]
      BY <1>0, <2>0, <2>1, ProcessFrame
    <2>2. CASE MarkFinished(w) /\ s = target[w]
      BY <1>6, <2>2
    <2>3. CASE (MarkScanning(w) \/ MarkFailed(w)) /\ s = target[w]
      <3>1. snap[w] = record[s]
        BY <1>0, <2>3 DEF MarkScanning, MarkFailed, Writes
      <3>2. /\ [snap[w] EXCEPT !.status = "SCANNING"].count = snap[w].count
            /\ [snap[w] EXCEPT !.status = "FAILED", !.error = TRUE].count = snap[w].count
        BY <1>0 DEF Records
      <3>3. record' = record \/ record'[s].count = snap[w].count
        BY <1>0, <2>0, <2>3, <3>2 DEF MarkScanning, MarkFailed, Write, Await, SetRecord, repoVars
      <3>4. QED  BY <3>1, <3>3
    <2>4. CASE ~(MarkScanning(w) \/ MarkFailed(w) \/ MarkFinished(w))
      BY <1>1, <2>0, <2>4
         DEF Process, ReadForScanning, ClearFindings, RunEngine, Parse, Push, PushAgain, Arm,
             StreamBreaks, TailPush, TailExpire, ReadForFinished, ReadForFailed, DiscardFindings,
             Read, Await, DropList, PushBatch, ArmExpiry, repoVars
    <2>5. QED  BY <2>1, <2>2, <2>3, <2>4
  <1>7. CASE UNCHANGED vars
    BY <1>1, <1>7 DEF vars, repoVars
  <1>8. QED  BY <1>4, <1>5, <1>6, <1>7 DEF Next

LEMMA OnceStep ==
    ASSUME OnceInv, [Next]_vars, Undisturbed
    PROVE  OnceInv'
  <1>1. /\ SafeInv /\ TypeInv /\ JobHeld /\ JobAfterRecord /\ OneWriter
        /\ \A s \in Scans : Added(s) /\ FreshJob(s) /\ CountedOnce(s)
    BY OwnedMeansOneWriter DEF OnceInv, SafeInv, Owned
  <1>2. SafeInv' /\ \A s \in Scans : Added(s)' /\ FreshJob(s)'
    BY <1>1, SafeStep, AddedStep, FreshJobStep
  <1>3. ASSUME NEW s \in Scans, record'[s].count > 0 PROVE Ended(s)'
    <2>1. CASE record[s].count > 0
      BY <1>1, <2>1, EndedKept DEF CountedOnce
    <2>2. ASSUME NEW w \in Workers, Run(w), MarkFinished(w), target[w] = s PROVE Ended(s)'
      <3>1. UNCHANGED <<target, job, stalls>> /\ pc'[w] \in AfterFinish
        BY <1>1, <2>2
           DEF Run, MarkFinished, Write, Await, Goto, queueVars, AfterFinish, Catching,
               TypeInv, TypeOK, ProcessorOK
      <3>2. \A v \in Workers : target[v] = s => v = w
        BY <1>1, <2>2, NamesAssumption DEF OneWriter
      <3>3. job[s] # "none" /\ (stalls[s] = 0 => job[s] # "waiting")
        BY <1>1, <2>2, NamesAssumption DEF JobHeld, FreshJob
      <3>4. QED  BY <3>1, <3>2, <3>3 DEF Ended, PastFinish
    <2>3. QED  BY <1>1, <1>3, <2>1, <2>2, CountAppears
  <1>4. QED  BY <1>2, <1>3 DEF OnceInv, CountedOnce

LEMMA OnceInit == Init => OnceInv
  <1> SUFFICES ASSUME Init PROVE OnceInv
    OBVIOUS
  <1>1. \A s \in Scans : Added(s) /\ FreshJob(s)
    BY DEF Init, QueueInit, ServiceInit, Added, FreshJob
  <1>2. \A s \in Scans : CountedOnce(s)
    BY DEF Init, RepositoryInit, Missing, CountedOnce
  <1>3. QED  BY <1>1, <1>2, SafeInit DEF OnceInv

-----------------------------------------------------------------------------
(* While a scan that was counted and has not stalled since reads FINISHED   *)
(* and its list is there, neither the record nor the list has changed.      *)
Kept(s) == stalls[s] = 0 /\ Finished(s) /\ expiry[s] # "lapsed"

LEMMA ListStill ==
    ASSUME SafeInv, NEW s \in Scans, Added(s), Ended(s), [Next]_vars, Undisturbed, Kept(s)'
    PROVE  Kept(s) /\ record'[s] = record[s] /\ vulns'[s] = vulns[s]
  <1>0. /\ TypeInv /\ Owned /\ JobAfterRecord /\ RunsOK
        /\ record \in [Scans -> Records] /\ vulns \in [Scans -> Seq(1..MaxBatches)]
        /\ expiry \in [Scans -> {"none", "armed", "lapsed"}]
    BY DEF SafeInv, TypeInv, TypeOK, RepositoryOK
  <1>1. /\ Ended(s) /\ stalls[s] = 0
        /\ record'[s].status = "FINISHED" /\ expiry'[s] # "lapsed"
    BY <1>0, EndedKept DEF Kept, Finished
  <1> DEFINE Goal == record'[s] = record[s] /\ vulns'[s] = vulns[s] /\ expiry[s] # "lapsed"
  <1>2. ASSUME record'[s] = record[s], vulns'[s] = vulns[s], expiry'[s] = expiry[s]
        PROVE  Goal
    BY <1>1, <1>2
  <1>3. ASSUME UNCHANGED repoVars PROVE Goal
    BY <1>2, <1>3 DEF repoVars
  <1>4. ASSUME NEW t \in Scans, Serve(t) PROVE Goal
    <2>1. CASE CreateRecord(t) /\ ~UNCHANGED repoVars
      <3>1. t # s
        BY <1>0, <1>1, <2>1 DEF CreateRecord, JobAfterRecord, Ended
      <3>2. QED  BY <1>0, <1>2, <2>1, <3>1 DEF CreateRecord, SetRecord
    <2>2. CASE ~(CreateRecord(t) /\ ~UNCHANGED repoVars)
      BY <1>3, <1>4, <2>2 DEF Serve, StartScan, CheckDepth, Enqueue, EnqueueTimesOut, LateAdd
    <2>3. QED  BY <2>1, <2>2
  <1>5. ASSUME NEW t \in Scans, Stalled(t) PROVE Goal
    BY <1>3, <1>5 DEF Stalled
  <1>6. ASSUME NEW t \in Scans, Expiry(t) PROVE Goal
    <2>1. CASE t = s
      BY <1>0, <1>1, <1>6, <2>1 DEF Expiry, DropRecord, LapseList, Missing
    <2>2. CASE t # s
      BY <1>0, <1>2, <1>6, <2>2 DEF Expiry, DropRecord, LapseList
    <2>3. QED  BY <2>1, <2>2
  <1>7. ASSUME NEW w \in Workers, TakeScan(w) \/ Complete(w) \/ Crash(w) PROVE Goal
    BY <1>3, <1>7 DEF TakeScan, Take, Complete, Settle, Crash
  <1>8. ASSUME NEW w \in Workers, Run(w) PROVE Goal
    <2>0. Process(w)
      BY <1>8 DEF Run
    <2>1. CASE target[w] # s
      BY <1>0, <1>2, <2>0, <2>1, ProcessFrame
    <2>2. CASE target[w] = s
      <3>1. pc[w] \in AfterFinish
        BY <1>1, <2>2 DEF Ended, PastFinish
      <3>2. (pc[w] = "discard" \/ tail[w] # "none") => record[s].status # "FINISHED"
        BY <1>0, <2>2 DEF RunsOK, RunOK, Working
      <3>3. CASE MarkFailed(w)
        <4>1. PICK r \in Records : r.status = "FAILED" /\ Write(w, r, "discard", "rejected")
          BY <1>0, <3>3, FailedWrite
        <4>2. UNCHANGED repoVars \/ SetRecord(s, r)
          BY <2>2, <4>1 DEF Write, Await
        <4>3. ~SetRecord(s, r)
          BY <1>0, <1>1, <4>1 DEF SetRecord
        <4>4. QED  BY <1>3, <4>2, <4>3
      <3>4. CASE DiscardFindings(w) \/ TailPush(w) \/ TailExpire(w)
        <4>1. record' = record /\ (pc[w] = "discard" \/ tail[w] # "none")
          BY <3>4 DEF DiscardFindings, TailPush, TailExpire, Await, DropList, PushBatch,
                      ArmExpiry, repoVars
        <4>2. QED  BY <1>1, <3>2, <4>1
      <3>5. CASE ReadForFailed(w)
        BY <1>3, <3>5 DEF ReadForFailed, Read
      <3>6. QED
        BY <2>0, <3>1, <3>3, <3>4, <3>5
           DEF AfterFinish, Catching, Process, ReadForScanning, MarkScanning, ClearFindings,
               RunEngine, Parse, Push, PushAgain, Arm, StreamBreaks, ReadForFinished, MarkFinished
    <2>3. QED  BY <2>1, <2>2
  <1>9. ASSUME UNCHANGED vars PROVE Goal
    BY <1>3, <1>9 DEF vars
  <1>10. Goal
    BY <1>4, <1>5, <1>6, <1>7, <1>8, <1>9 DEF Next
  <1>11. QED  BY <1>1, <1>10 DEF Kept, Finished

-----------------------------------------------------------------------------
(* The traversal.  The rows of the first k pages of the whole list end at   *)
(* EndOf(k); page k is what comes after those of the pages before.          *)
EndOf(k) == IF k * PageSize < total THEN k * PageSize ELSE total

PageOf(k) == SubSeq(Full(total), (k - 1) * PageSize + 1, EndOf(k))

WholeSoFar ==
    Kept(reading) =>
        /\ total = record[reading].count
        /\ \A k \in DOMAIN pages : (k - 1) * PageSize < total /\ pages[k] = PageOf(k)

WholeInv == /\ ReaderOK /\ AtEase /\ OnceInv
            /\ reading # NoScan => Ended(reading) /\ WholeSoFar

\* A page read now is the next one of the whole list.
LEMMA NextPage ==
    ASSUME WholeInv, ReadPage, Kept(reading)
    PROVE  WholeSoFar'
  <1>0. /\ reading \in Scans /\ pages \in Seq(Seq(1..MaxBatches)) /\ total \in 0..MaxBatches
        /\ found /\ offset < total /\ WholeSoFar /\ ListOK(reading)
        /\ UNCHANGED <<reading, total, record, stalls, expiry>>
    BY DEF WholeInv, AtEase, ReaderOK, ReadPage, OnceInv, SafeInv, RunsOK, vars, repoVars, queueVars
  <1>1. total = record[reading].count /\ vulns[reading] = Full(total)
    BY <1>0 DEF WholeSoFar, Kept, Finished, ListOK
  <1>2. PICK n \in Nat : n = Len(pages) * PageSize
    BY <1>0, PageAssumption
  <1>3. offset = n /\ n < total /\ (Len(pages) + 1) * PageSize = n + PageSize
    BY <1>0, <1>2, PageAssumption DEF offset
  <1>4. Len(Full(total)) = total
    BY <1>0, BatchAssumption DEF Full
  <1>5. Window(vulns[reading]) = PageOf(Len(pages) + 1)
    <2>1. EndOf(Len(pages) + 1) = IF n + PageSize < total THEN n + PageSize ELSE total
      BY <1>3 DEF EndOf
    <2>2. (Len(pages) + 1 - 1) * PageSize = n
      BY <1>0, <1>2
    <2>3. Window(vulns[reading]) = Lrange(Full(total), n + 1, n + PageSize)
      BY <1>1, <1>3 DEF Window
    <2>4. Window(vulns[reading]) = SubSeq(Full(total), n + 1, EndOf(Len(pages) + 1))
      BY <1>4, <2>1, <2>3 DEF Lrange
    <2>5. PageOf(Len(pages) + 1) = SubSeq(Full(total), n + 1, EndOf(Len(pages) + 1))
      <3>1. PICK k \in Nat : k = Len(pages) + 1
        BY <1>0
      <3>2. PICK m \in Nat : m = (k - 1) * PageSize
        BY <1>2, <2>2, <3>1
      <3>3. PageOf(k) = SubSeq(Full(total), m + 1, EndOf(k))
        BY <3>2, Zenon DEF PageOf
      <3>4. m = n
        BY <2>2, <3>1, <3>2
      <3>5. QED  BY <3>1, <3>3, <3>4
    <2>6. QED  BY <2>4, <2>5
  <1>6. pages' = Append(pages, PageOf(Len(pages) + 1))
    BY <1>5 DEF ReadPage
  <1>7. ASSUME NEW k \in DOMAIN pages'
        PROVE  (k - 1) * PageSize < total /\ pages'[k] = PageOf(k)
    <2>1. CASE k \in DOMAIN pages
      <3>1. pages'[k] = pages[k]
        BY <1>0, <1>6, <2>1
      <3>2. QED  BY <1>0, <2>1, <3>1 DEF WholeSoFar
    <2>2. CASE k = Len(pages) + 1
      <3>1. pages'[k] = PageOf(k) /\ k - 1 = Len(pages)
        BY <1>0, <1>6, <2>2
      <3>2. QED  BY <1>2, <1>3, <3>1
    <2>3. QED  BY <1>0, <1>6, <2>1, <2>2
  <1>8. \A k : PageOf(k)' = PageOf(k)
    BY <1>0 DEF PageOf, EndOf
  <1>9. QED  BY <1>0, <1>1, <1>7, <1>8 DEF WholeSoFar

LEMMA WholeStep ==
    ASSUME WholeInv, [ReaderNext]_<<vars, readerVars>>, Undisturbed
    PROVE  WholeInv'
  <1>0. [Next]_vars /\ \/ UNCHANGED readerVars
                       \/ ClientStep /\ UNCHANGED vars
    BY DEF ReaderNext, ClientStep, QueryScan, FindParent, ReadPage, Leave, readerVars
  <1>1. ReaderOK' /\ AtEase' /\ OnceInv'
    BY <1>0, ReaderTypes, OnceStep DEF WholeInv, OnceInv, SafeInv
  <1> DEFINE Goal == reading' # NoScan => Ended(reading)' /\ WholeSoFar'
  <1>2. ASSUME UNCHANGED readerVars PROVE Goal
    <2> SUFFICES ASSUME reading # NoScan PROVE Ended(reading)' /\ WholeSoFar'
      BY <1>2 DEF readerVars
    <2>1. /\ reading \in Scans /\ reading' = reading /\ UNCHANGED <<total, pages>>
          /\ SafeInv /\ TypeInv /\ Added(reading) /\ Ended(reading) /\ WholeSoFar
      BY <1>2 DEF WholeInv, ReaderOK, OnceInv, SafeInv, readerVars
    <2>2. Ended(reading)'
      <3>1. PICK s \in Scans : s = reading
        BY <2>1
      <3>2. Ended(s)'
        BY <1>0, <2>1, <3>1, EndedKept
      <3>3. QED  BY <2>1, <3>1, <3>2 DEF Ended, PastFinish
    <2>3. Kept(reading)' => Kept(reading) /\ record'[reading] = record[reading]
      <3>1. PICK s \in Scans : s = reading
        BY <2>1
      <3>2. Kept(s)' => Kept(s) /\ record'[s] = record[s]
        BY <1>0, <2>1, <3>1, ListStill
      <3>3. QED  BY <2>1, <3>1, <3>2 DEF Kept, Finished
    <2>4. \A k : PageOf(k)' = PageOf(k)
      BY <2>1 DEF PageOf, EndOf
    <2>5. WholeSoFar'
      BY <2>1, <2>3, <2>4 DEF WholeSoFar
    <2>6. QED  BY <2>2, <2>5
  <1>3. ASSUME NEW s \in Scans, QueryScan(s) PROVE Goal
    <2>1. /\ reading' = s /\ total' = record[s].count /\ pages' = << >> /\ UNCHANGED vars
          /\ record[s].count > 0
      BY <1>3 DEF QueryScan, WholeInv, AtEase
    <2>2. Ended(s)
      BY <2>1 DEF WholeInv, OnceInv, CountedOnce
    <2>3. Ended(reading)'
      BY <2>1, <2>2 DEF Ended, PastFinish, vars, queueVars, runVars
    <2>4. WholeSoFar'
      BY <2>1 DEF WholeSoFar, vars, repoVars
    <2>5. QED  BY <2>3, <2>4
  <1>4. ASSUME Stop PROVE Goal
    BY <1>4 DEF Stop
  <1>5. ASSUME reading' = reading, UNCHANGED vars PROVE Ended(reading)' = Ended(reading)
    BY <1>5 DEF Ended, PastFinish, vars, queueVars, runVars
  <1>6. ASSUME FindParent, ~Stop PROVE Goal
    <2>1. UNCHANGED <<reading, total, pages, vars>> /\ reading # NoScan
      BY <1>6 DEF FindParent
    <2>2. WholeSoFar' = WholeSoFar
      BY <2>1 DEF WholeSoFar, Kept, Finished, PageOf, EndOf, vars, repoVars, queueVars
    <2>3. QED  BY <1>5, <2>1, <2>2 DEF WholeInv
  <1>7. ASSUME ReadPage PROVE Goal
    <2>1. UNCHANGED <<reading, total, vars>> /\ reading # NoScan
      BY <1>7 DEF ReadPage, WholeInv, AtEase
    <2>2. Kept(reading)' = Kept(reading)
      BY <2>1 DEF Kept, Finished, vars, repoVars, queueVars
    <2>3. WholeSoFar'
      BY <1>7, <2>2, NextPage DEF WholeSoFar
    <2>4. QED  BY <1>5, <2>1, <2>3 DEF WholeInv
  <1>8. Goal
    BY <1>0, <1>2, <1>3, <1>4, <1>6, <1>7 DEF ClientStep, Leave
  <1>9. QED  BY <1>1, <1>8 DEF WholeInv

-----------------------------------------------------------------------------
(* FlattenSeq is defined by recursion; what follows proves what it gives    *)
(* for the pages of a whole list.                                           *)
Less == {p \in Nat \X Nat : p[1] < p[2]}

LEMMA LessWellFounded == IsWellFoundedOn(Less, Nat)
  BY NatLessThanWellFounded, Zenon DEF OpToRel, Less

LEMMA LeastNumber ==
    ASSUME NEW S, S \subseteq Nat, S # {}
    PROVE  \E n \in S : \A m \in S : n <= m
  <1>1. \E n \in S : \A m \in S : ~(<<m, n>> \in Less)
    BY LessWellFounded, WFMin, Zenon
  <1>2. PICK n \in S : \A m \in S : ~(<<m, n>> \in Less)
    BY <1>1
  <1>3. ASSUME NEW m \in S PROVE n <= m
    <2>1. m \in Nat /\ n \in Nat /\ <<m, n>> \notin Less
      BY <1>2, Zenon
    <2>2. m < n => <<m, n>> \in Less
      BY <2>1 DEF Less
    <2>3. QED  BY <2>1, <2>2
  <1>4. QED  BY <1>3

\* Whatever unfolds like the recursion is what it defines.
LEMMA FlattenUnfolds ==
    ASSUME NEW s, Len(s) \in Nat \ {0}, NEW g,
           g = [i \in 1..Len(s) |-> IF i = 1 THEN s[i] ELSE g[i-1] \o s[i]]
    PROVE  FlattenSeq(s) = g[Len(s)]
  <1> DEFINE F(f) == [i \in 1..Len(s) |-> IF i = 1 THEN s[i] ELSE f[i-1] \o s[i]]
             f == CHOOSE f : f = F(f)
  <1>1. f = F(f)
    BY Zenon
  <1>2. FlattenSeq(s) = f[Len(s)]
    BY DEF FlattenSeq
  <1> HIDE DEF f
  <1> DEFINE Bad == {i \in 1..Len(s) : f[i] # g[i]}
  <1>3. Bad = {}
    <2> SUFFICES ASSUME Bad # {} PROVE FALSE
      OBVIOUS
    <2>1. PICK n \in Bad : \A m \in Bad : n <= m
      <3>1. Bad \subseteq Nat
        OBVIOUS
      <3> HIDE DEF Bad
      <3>2. QED  BY <3>1, LeastNumber
    <2>2. n \in 1..Len(s) /\ (n # 1 => n - 1 \in 1..Len(s) /\ f[n-1] = g[n-1])
      BY <2>1
    <2>3. f[n] = IF n = 1 THEN s[n] ELSE f[n-1] \o s[n]
      BY <1>1, <2>2
    <2>4. g[n] = IF n = 1 THEN s[n] ELSE g[n-1] \o s[n]
      BY <2>2
    <2>5. QED  BY <2>1, <2>2, <2>3, <2>4
  <1>4. Len(s) \notin Bad
    BY <1>3
  <1>5. QED  BY <1>2, <1>4

LEMMA RowsJoin ==
    ASSUME NEW n \in Nat, NEW a \in 0..n, NEW b \in a..n
    PROVE  Full(a) \o SubSeq(Full(n), a + 1, b) = Full(b)
  <1> DEFINE list == Full(n)  head == Full(a)  rest == SubSeq(list, a + 1, b)
  <1>1. list \in Seq(Nat) /\ Len(list) = n /\ \A i \in 1..n : list[i] = i
    BY DEF Full
  <1>2. head \in Seq(Nat) /\ Len(head) = a /\ \A i \in 1..a : head[i] = i
    BY DEF Full
  <1> HIDE DEF list, head
  <1>3. rest \in Seq(Nat) /\ Len(rest) = b - a /\ \A i \in 1..(b - a) : rest[i] = a + i
    BY <1>1
  <1> HIDE DEF rest
  <1>4. /\ head \o rest \in Seq(Nat) /\ Len(head \o rest) = b
        /\ \A i \in 1..b : (head \o rest)[i] = i
    <2>1. /\ head \o rest \in Seq(Nat) /\ Len(head \o rest) = b
          /\ \A i \in 1..b : (head \o rest)[i] = IF i <= a THEN head[i] ELSE rest[i - a]
      BY <1>2, <1>3, ConcatProperties
    <2>2. ASSUME NEW i \in 1..b PROVE (head \o rest)[i] = i
      <3>1. CASE i <= a
        BY <1>2, <2>1, <3>1
      <3>2. CASE ~(i <= a)
        <4>1. i - a \in 1..(b - a) /\ a + (i - a) = i
          BY <3>2
        <4>2. QED  BY <1>3, <2>1, <3>2, <4>1
      <3>3. QED  BY <3>1, <3>2
    <2>3. QED  BY <2>1, <2>2
  <1>5. Full(b) \in Seq(Nat) /\ Len(Full(b)) = b /\ \A i \in 1..b : Full(b)[i] = i
    BY DEF Full
  <1>6. head \o rest = Full(b)
    BY <1>4, <1>5, SeqEqual
  <1>7. QED  BY <1>6 DEF head, rest, list

\* The pages of a whole list, put together, are the list.
LEMMA PagesJoin ==
    ASSUME ReaderOK, offset >= total,
           \A k \in DOMAIN pages : (k - 1) * PageSize < total /\ pages[k] = PageOf(k)
    PROVE  FlattenSeq(pages) = Full(total)
  <1>0. total \in Nat /\ PageSize \in Nat \ {0} /\ Len(pages) \in Nat /\ DOMAIN pages = 1..Len(pages)
    BY BatchAssumption, PageAssumption DEF ReaderOK
  <1>1. CASE Len(pages) = 0
    <2>1. total = 0 /\ pages = << >>
      BY <1>0, <1>1 DEF offset, ReaderOK
    <2>2. FlattenSeq(pages) = pages
      BY <1>1 DEF FlattenSeq
    <2>3. QED  BY <2>1, <2>2, FullGrows
  <1>2. CASE Len(pages) # 0
    <2> DEFINE g == [i \in 1..Len(pages) |-> Full(EndOf(i))]
    <2>1. ASSUME NEW i \in 1..Len(pages)
          PROVE  Full(EndOf(i)) = IF i = 1 THEN pages[i] ELSE Full(EndOf(i - 1)) \o pages[i]
      <3>1. PICK a \in Nat : a = (i - 1) * PageSize
        BY <1>0
      <3>2. i * PageSize = a + PageSize /\ a < total /\ pages[i] = PageOf(i)
        BY <1>0, <3>1
      <3>3. EndOf(i) \in a..total
        BY <1>0, <3>2 DEF EndOf
      <3>4. pages[i] = SubSeq(Full(total), a + 1, EndOf(i))
        BY <3>1, <3>2, Zenon DEF PageOf
      <3>5. Full(a) \o pages[i] = Full(EndOf(i))
        <4>1. PICK b \in a..total : b = EndOf(i)
          BY <3>3
        <4>2. Full(a) \o SubSeq(Full(total), a + 1, b) = Full(b)
          <5>1. a \in 0..total
            BY <1>0, <3>2
          <5>2. QED  BY <1>0, <4>1, <5>1, RowsJoin
        <4>3. QED  BY <3>4, <4>1, <4>2
      <3>6. CASE i = 1
        <4>1. a = 0
          BY <1>0, <3>1, <3>6
        <4>2. << >> \o pages[i] = pages[i]
          <5>1. pages[i] \in Seq(1..MaxBatches)
            BY DEF ReaderOK
          <5>2. QED  BY <5>1
        <4>3. QED  BY <3>5, <3>6, <4>1, <4>2, FullGrows
      <3>7. CASE i # 1
        <4>1. EndOf(i - 1) = a
          BY <3>1, <3>2, Zenon DEF EndOf
        <4>2. QED  BY <3>5, <3>7, <4>1
      <3>8. QED  BY <3>6, <3>7
    <2>2. g = [i \in 1..Len(pages) |-> IF i = 1 THEN pages[i] ELSE g[i-1] \o pages[i]]
      <3>1. \A i \in 1..Len(pages) : i # 1 => i - 1 \in 1..Len(pages)
        BY <1>0
      <3>2. \A i \in 1..Len(pages) :
               g[i] = IF i = 1 THEN pages[i] ELSE g[i-1] \o pages[i]
        BY <2>1, <3>1
      <3>3. QED  BY <3>2
    <2>3. FlattenSeq(pages) = g[Len(pages)]
      <3>1. Len(pages) \in Nat \ {0}
        BY <1>0, <1>2
      <3> HIDE DEF g
      <3>2. QED  BY <2>2, <3>1, FlattenUnfolds
    <2>4. EndOf(Len(pages)) = total
      <3>1. PICK n \in Nat : n = Len(pages) * PageSize
        BY <1>0
      <3>2. n >= total
        BY <3>1 DEF offset
      <3>3. EndOf(Len(pages)) = IF n < total THEN n ELSE total
        BY <3>1, Zenon DEF EndOf
      <3>4. QED  BY <1>0, <3>2, <3>3
    <2>5. g[Len(pages)] = Full(total)
      BY <1>0, <1>2, <2>4
    <2>6. QED  BY <2>3, <2>5
  <1>3. QED  BY <1>1, <1>2

LEMMA WholeImplies == WholeInv => TraversalWhole
  <1> SUFFICES ASSUME WholeInv, reading # NoScan, offset >= total, Kept(reading)
               PROVE  FlattenSeq(pages) = Full(total)
    BY DEF TraversalWhole, AllRead, Kept
  <1>1. ReaderOK /\ WholeSoFar
    BY DEF WholeInv
  <1>2. QED  BY <1>1, PagesJoin DEF WholeSoFar

(* A client that pages through the findings of a scan to the end, whatever  *)
(* the backend does meanwhile, has read all the findings that were counted, *)
(* each once and in order, if the scan still reads FINISHED then, its list  *)
(* has not expired, and BullMQ has not handed its job out again.            *)
THEOREM TraversalsWhole ==
    ASSUME Undisturbed
    PROVE  ReaderSpec => []TraversalWhole
  <1>1. ReaderInit => WholeInv
    BY ReaderStart, OnceInit DEF ReaderInit, WholeInv
  <1>2. QED  BY <1>1, WholeStep, WholeImplies, PTL DEF ReaderSpec

=============================================================================
