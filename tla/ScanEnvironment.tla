-------------------------- MODULE ScanEnvironment --------------------------
(***************************************************************************)
(* What every other module of the scan backend is parameterised by: the    *)
(* scans that are requested, the worker processes that run them, and the   *)
(* faults the environment may inject.                                      *)
(*                                                                         *)
(* A fault of kind                                                         *)
(*   "crash"     kills a process (container restart, OOM kill, deploy);    *)
(*   "redis"     makes one ioredis command reject, executed or not         *)
(*               (maxRetriesPerRequest: 3 gives up on a lost connection);  *)
(*   "resend"    makes ioredis send a command again after a reconnection,  *)
(*               the first copy having been executed;                      *)
(*   "lockLoss"  lets a BullMQ lock lapse while its owner still runs (a    *)
(*               blocked event loop, a paused container);                  *)
(*   "ttl"       lets a key expire while its scan is still being worked on.*)
(* A run of TLC picks the kinds it studies and how many faults may happen. *)
(***************************************************************************)
EXTENDS Naturals, Sequences, FiniteSets

CONSTANTS Scans,        \* the ids startScan generates (randomUUID)
          NoScan,       \* "this worker has no job"
          Workers,      \* one per Node process: @Processor has concurrency 1
          NoWorker,     \* "nobody holds this job's lock"
          MaxBatches,   \* bound: batches of findings a report yields at most
          FaultKinds, MaxFaults

ASSUME NamesAssumption == NoScan \notin Scans /\ NoWorker \notin Workers

ASSUME BatchAssumption == MaxBatches \in Nat

ASSUME FaultAssumption ==
    /\ FaultKinds \subseteq {"crash", "redis", "resend", "lockLoss", "ttl"}
    /\ MaxFaults \in Nat

VARIABLE faults         \* how many faults have happened

FaultsOK == faults \in 0..MaxFaults

Fault(kind) == /\ kind \in FaultKinds
               /\ faults < MaxFaults
               /\ faults' = faults + 1

=============================================================================
