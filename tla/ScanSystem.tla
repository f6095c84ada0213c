----------------------------- MODULE ScanSystem -----------------------------
(***************************************************************************)
(* The scan backend: startScan calls (ScanService), workers running        *)
(* process() (ScanProcessor), the job queue between them (ScanQueue) and   *)
(* the Redis keys they leave their results in (ScanRepository), with       *)
(* process crashes, stalled jobs and the keys' TTLs.                       *)
(***************************************************************************)
EXTENDS ScanService, ScanProcessor

vars == <<faults, repoVars, queueVars, apiVars, runVars>>

Init == /\ faults = 0
        /\ RepositoryInit /\ QueueInit /\ ServiceInit /\ ProcessorInit

Serve(s) == StartScan(s) /\ UNCHANGED runVars

TakeScan(w) == \E s \in Scans : Take(w, s) /\ UNCHANGED apiVars

Run(w) == Process(w) /\ UNCHANGED <<queueVars, apiVars>>

Complete(w) == Settle(w) /\ UNCHANGED apiVars

-----------------------------------------------------------------------------
(* A process dies, with its run and any of the calls in flight; it comes    *)
(* back as an idle worker.  The job stays active under a lock nobody renews.*)
Crash(w) == /\ Fault("crash")
            /\ ForgetRun(w)
            /\ LoseCalls
            /\ UNCHANGED <<repoVars, queueVars>>

(* Mutant of Stalled: the check does not wait for the lock to lapse. *)
StalledEarly(s) == /\ StallJob(s)
                   /\ UNCHANGED <<faults, repoVars, apiVars, runVars>>

(* The stalled-jobs check finds a lapsed lock: its owner died, or is alive  *)
(* and failed to renew it.                                                  *)
Stalled(s) == /\ StallJob(s)
              /\ \/ /\ \A w \in Workers : lock[s] = w => target[w] # s
                    /\ UNCHANGED faults
                 \/ Fault("lockLoss")
              /\ UNCHANGED <<repoVars, apiVars, runVars>>

(* No step of scan s is left to come.  TTLs (24 hours by default) are far   *)
(* longer than a scan, so short of a "ttl" fault a key only expires then.   *)
AtRest(s) == /\ ~InCall(s) /\ s \notin lateAdds
             /\ job[s] \notin {"waiting", "active"}
             /\ \A w \in Workers : target[w] # s

Expiry(s) == /\ DropRecord(s) \/ LapseList(s)
             /\ (AtRest(s) /\ UNCHANGED faults) \/ Fault("ttl")
             /\ UNCHANGED <<queueVars, apiVars, runVars>>

Next == \/ \E s \in Scans : Serve(s) \/ Stalled(s) \/ Expiry(s)
        \/ \E w \in Workers : TakeScan(w) \/ Run(w) \/ Complete(w) \/ Crash(w)

Spec == Init /\ [][Next]_vars

(* A started call goes on, a free worker takes a waiting job (BullMQ blocks *)
(* on the list), a run goes on (every command of it answers or rejects, and *)
(* clone and trivy have timeouts), and the stalled-jobs check recurs.       *)
Fairness == /\ \A s \in Scans : WF_vars(InCall(s) /\ Serve(s)) /\ WF_vars(Stalled(s))
            /\ \A w \in Workers : /\ WF_vars(TakeScan(w))
                                  /\ WF_vars(Run(w))
                                  /\ WF_vars(Complete(w))

FairSpec == Spec /\ Fairness

-----------------------------------------------------------------------------
(* Every variable stays in its range. *)
TypeOK == FaultsOK /\ RepositoryOK /\ QueueOK /\ ServiceOK /\ ProcessorOK

(* A scan has one writer at a time: no two workers run the same scan.  This *)
(* is what lets ScanRepository.patch do without WATCH or a script, and it   *)
(* rests on the lock surviving crashes, redelivery and settlement.          *)
OneWriter == \A v, w \in Workers :
                 (target[v] = target[w] /\ target[v] # NoScan) => v = w

(* The read-modify-write of patch() loses no update: when the SET is sent,  *)
(* the record still is what the GET returned.                               *)
PatchIsAtomic == \A w \in Workers :
                     pc[w] \in Writes => snap[w] = record[target[w]]

(* The worker always finds a record to patch: whoever may still take or run *)
(* the job of s (a late `add` included), the record is there.               *)
RecordBeforeJob ==
    \A s \in Scans :
        job[s] \in {"waiting", "active"} \/ s \in lateAdds => record[s] # Missing

(* A scan that reads FINISHED shows all the findings it counted, each once  *)
(* and in the parser's order, until its list expires: whatever crashed, was *)
(* redelivered or failed half way, no partial list is published.            *)
FinishedIsComplete ==
    \A s \in Scans :
        record[s].status = "FINISHED" =>
            vulns[s] = Full(record[s].count) \/ expiry[s] = "lapsed"

(* A completed job leaves nothing half done: its scan has an outcome, one   *)
(* that failed has no findings, and any findings are on their way to expire.*)
CompletedIsClean ==
    \A s \in Scans :
        job[s] = "completed" =>
            /\ record[s].status \in Final \cup {"NONE"}
            /\ record[s].status = "FAILED" => vulns[s] = << >>
            /\ vulns[s] # << >> => expiry[s] = "armed"

(* No accepted scan is forgotten: while its record says QUEUED or SCANNING, *)
(* its job is on the queue or under way.                                    *)
NoneForgotten ==
    \A s \in Scans :
        api[s] = "accepted" /\ record[s].status \in {"QUEUED", "SCANNING"} =>
            job[s] \in {"waiting", "active"}

(* A findings list without a TTL is only ever transient: the run that has   *)
(* to give it one, or a redelivery that will clear it, is still to come.    *)
FindingsExpire ==
    \A s \in Scans :
        vulns[s] # << >> /\ expiry[s] = "none" => job[s] \in {"waiting", "active"}

(* The system keeps the promise of ScanContract: the many Redis commands of *)
(* a scan look to a client like the few atomic changes of its status.       *)
Finished(s) == record[s].status = "FINISHED"

Contract == INSTANCE ScanContract WITH
    faulty <- faults > 0,
    reason <- [s \in Scans |-> record[s].error],
    status <- [s \in Scans |-> record[s].status],
    total  <- [s \in Scans |-> IF Finished(s) THEN record[s].count ELSE 0],
    pages  <- [s \in Scans |-> IF Finished(s) THEN vulns[s] ELSE << >>]

KeepsContract == Contract!Spec

(* Every run goes through process() in the order of its try, catch and      *)
(* finally blocks, or dies: no failing await gets past the recording of the *)
(* failure.                                                                 *)
StageOf(w) ==
    CASE pc[w] \in {"readScanning", "writeScanning", "clear"} -> "start"
      [] pc[w] \in {"parse", "push", "expire"}                -> "parse"
      [] pc[w] \in {"readFinished", "writeFinished"}          -> "finish"
      [] pc[w] \in {"readFailed", "writeFailed", "discard"}   -> "record"
      [] pc[w] \in {"resolved", "rejected"}                   -> "cleanup"
      [] OTHER                                                -> pc[w]

InStages == INSTANCE RunStages WITH stage <- [w \in Workers |-> StageOf(w)]

RunsInStages == InStages!Spec

(* Every accepted scan ends: from some point on, for good, its record says  *)
(* FINISHED or FAILED, or has expired.                                      *)
AcceptedScanEnds ==
    \A s \in Scans :
        api[s] = "accepted" ~> [](record[s].status \in Final \cup {"NONE"})

-----------------------------------------------------------------------------
(* What the repository's comments and README say, and some faults refute.   *)

(* "this caps the queue in aggregate" (scan.service.ts:51-52) *)
QueueCapped == Cardinality(Waiting) <= MaxQueueDepth

(* "`status` moves QUEUED -> SCANNING -> FINISHED (or FAILED ...)" *)
(* (README.md:299): an outcome, once given, is not taken back.     *)
OutcomeIsFinal ==
    [][\A s \in Scans :
          record[s].status \in Final =>
              record'[s].status \in {record[s].status, "NONE"}]_vars

(* "Whatever the cause, the scan is marked FAILED rather than left stuck in *)
(* SCANNING" (scan.processor.ts:66-67)                                      *)
NotStuck == \A s \in Scans : job[s] = "failed" => record[s].status # "SCANNING"

=============================================================================
