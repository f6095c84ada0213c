----------------------------- MODULE ScanQueue -----------------------------
(***************************************************************************)
(* The BullMQ queue "scan" as src/scan uses it: startScan adds one job per *)
(* scan id (jobId: id, attempts: 1, removeOnComplete), the worker takes it *)
(* under a lock, and settles it when process() settles.  BullMQ's Lua      *)
(* scripts are atomic, so each is one operator.  External code: what is    *)
(* modelled is the contract scan.service.ts and scan.processor.ts rely on. *)
(***************************************************************************)
EXTENDS ScanEnvironment

CONSTANT MaxStalledCount    \* BullMQ's worker option, 1 by default

ASSUME StallAssumption == MaxStalledCount \in Nat

VARIABLES job,      \* job[s]: where the job of scan s is
          lock,     \* lock[s]: the worker whose token locks it
          stalls    \* stalls[s]: how often it was found stalled

queueVars == <<job, lock, stalls>>

JobStates == {"none", "waiting", "active", "completed", "failed"}

QueueOK == /\ job \in [Scans -> JobStates]
           /\ lock \in [Scans -> Workers \cup {NoWorker}]
           /\ stalls \in [Scans -> 0..MaxStalledCount]

QueueInit == /\ job = [s \in Scans |-> "none"]
             /\ lock = [s \in Scans |-> NoWorker]
             /\ stalls = [s \in Scans |-> 0]

Waiting == {s \in Scans : job[s] = "waiting"}

(* add: a job that exists under this id is left alone.  A completed job was *)
(* removed (removeOnComplete), so it does not count as existing.            *)
AddJob(s) == IF job[s] \in {"none", "completed"}
               THEN /\ job' = [job EXCEPT ![s] = "waiting"]
                    /\ stalls' = [stalls EXCEPT ![s] = 0]
                    /\ UNCHANGED lock
               ELSE UNCHANGED queueVars

(* moveToActive: a free worker takes a waiting job and its lock *)
TakeJob(w, s) == /\ job[s] = "waiting"
                 /\ job' = [job EXCEPT ![s] = "active"]
                 /\ lock' = [lock EXCEPT ![s] = w]
                 /\ UNCHANGED stalls

(* moveToFinished: refused ("Missing lock") to a worker that lost the lock. *)
(* attempts: 1, so a rejected run is never retried.                         *)
SettleJob(w, s, outcome) ==
    IF lock[s] = w
      THEN /\ job' = [job EXCEPT ![s] = outcome]
           /\ lock' = [lock EXCEPT ![s] = NoWorker]
           /\ UNCHANGED stalls
      ELSE UNCHANGED queueVars

(* Mutants of StallJob: the limit compared off by one, and not allowing any. *)
StallJobOffByOne(s) ==
    /\ job[s] = "active"
    /\ lock' = [lock EXCEPT ![s] = NoWorker]
    /\ job' = [job EXCEPT ![s] = IF stalls[s] <= MaxStalledCount THEN "waiting" ELSE "failed"]
    /\ stalls' = [stalls EXCEPT ![s] = @ + 1]

StallJobFails(s) == /\ job[s] = "active"
                    /\ lock' = [lock EXCEPT ![s] = NoWorker]
                    /\ job' = [job EXCEPT ![s] = "failed"]
                    /\ UNCHANGED stalls

(* moveStalledJobsToWait: an active job whose lock has lapsed goes back to  *)
(* the queue, or fails without process() being called once it has stalled   *)
(* too often.                                                               *)
StallJob(s) == /\ job[s] = "active"
               /\ lock' = [lock EXCEPT ![s] = NoWorker]
               /\ IF stalls[s] < MaxStalledCount
                    THEN /\ job' = [job EXCEPT ![s] = "waiting"]
                         /\ stalls' = [stalls EXCEPT ![s] = @ + 1]
                    ELSE /\ job' = [job EXCEPT ![s] = "failed"]
                         /\ UNCHANGED stalls

=============================================================================
