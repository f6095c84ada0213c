--------------------------- MODULE ScanProcessor ---------------------------
(***************************************************************************)
(* process() of src/scan/scan.processor.ts, one await per step, for every  *)
(* worker.  pc[w] names the await the run of worker w is suspended at:     *)
(*                                                                         *)
(*   readScanning, writeScanning   updateStatus(SCANNING): GET, SET        *)
(*   clear                         deleteVulnerabilities before the run    *)
(*   engine                        git clone, then trivy                   *)
(*   parse                         the parser between two batches          *)
(*   push, expire                  appendVulnerabilities: RPUSH, EXPIRE    *)
(*   readFinished, writeFinished   markFinished: GET, SET                  *)
(*   readFailed, writeFailed       markFailed in the catch: GET, SET       *)
(*   discard                       deleteVulnerabilities in the catch      *)
(*   resolved, rejected            process() has settled                   *)
(***************************************************************************)
EXTENDS ScanRepository, ScanQueue

VARIABLES pc,
          target,   \* target[w]: job.data.scanId of its run
          snap,     \* snap[w]: `existing`, the record as patch() read it
          pushed,   \* pushed[w]: batches handed to the sink
          tail      \* tail[w]: the command of a sink write that was still in
                    \* flight when the stream failed under it, "none" if none

runVars == <<pc, target, snap, pushed, tail>>

Reads  == {"readScanning", "readFinished", "readFailed"}
Writes == {"writeScanning", "writeFinished", "writeFailed"}
Stages == {"idle", "clear", "engine", "parse", "push", "expire", "discard",
           "resolved", "rejected"} \cup Reads \cup Writes

ProcessorOK == /\ pc \in [Workers -> Stages]
               /\ target \in [Workers -> Scans \cup {NoScan}]
               /\ snap \in [Workers -> Records]
               /\ pushed \in [Workers -> 0..MaxBatches]
               /\ tail \in [Workers -> {"none", "push", "expire"}]

ProcessorInit == /\ pc = [w \in Workers |-> "idle"]
                 /\ target = [w \in Workers |-> NoScan]
                 /\ snap = [w \in Workers |-> Missing]
                 /\ pushed = [w \in Workers |-> 0]
                 /\ tail = [w \in Workers |-> "none"]

Goto(w, stage) == pc' = [pc EXCEPT ![w] = stage]

(* What is left of a run once the process is free again, or dead. *)
ForgetRun(w) == /\ Goto(w, "idle")
                /\ target' = [target EXCEPT ![w] = NoScan]
                /\ snap' = [snap EXCEPT ![w] = Missing]
                /\ pushed' = [pushed EXCEPT ![w] = 0]
                /\ tail' = [tail EXCEPT ![w] = "none"]

-----------------------------------------------------------------------------
(* `await <command>`: it resolves, or it rejects after the command was or   *)
(* was not executed.                                                        *)
Await(w, Command, next, onError) ==
    \/ Command /\ Goto(w, next) /\ UNCHANGED faults
    \/ /\ Fault("redis")
       /\ Command \/ UNCHANGED repoVars
       /\ Goto(w, onError)

(* Mutant of Read: patch() trusts the record it read the last time. *)
ReadCached(w, found, missing, onError) ==
    /\ snap' = [snap EXCEPT ![w] = IF @ = Missing THEN record[target[w]] ELSE @]
    /\ Goto(w, found)
    /\ UNCHANGED <<target, pushed, tail, repoVars, faults>>

(* findById inside patch(): a missing record makes the patch a no-op *)
Read(w, found, missing, onError) ==
    /\ \/ /\ snap' = [snap EXCEPT ![w] = record[target[w]]]
          /\ Goto(w, IF record[target[w]] = Missing THEN missing ELSE found)
          /\ UNCHANGED faults
       \/ /\ Fault("redis")
          /\ Goto(w, onError)
          /\ UNCHANGED snap
    /\ UNCHANGED <<target, pushed, tail, repoVars>>

(* the SET of patch(): { ...existing, ...partial } *)
Write(w, merged, next, onError) ==
    /\ Await(w, SetRecord(target[w], merged), next, onError)
    /\ UNCHANGED <<target, snap, pushed, tail>>

-----------------------------------------------------------------------------
Take(w, s) == /\ pc[w] = "idle"
              /\ TakeJob(w, s)
              /\ Goto(w, "readScanning")
              /\ target' = [target EXCEPT ![w] = s]
              /\ UNCHANGED <<snap, pushed, tail, repoVars, faults>>

(* Mutant of ReadForScanning: a run starts without updateStatus. *)
ReadForScanningSkipped(w) ==
    /\ pc[w] = "readScanning"
    /\ Goto(w, "clear")
    /\ UNCHANGED <<target, snap, pushed, tail, repoVars, faults>>

ReadForScanning(w) == /\ pc[w] = "readScanning"
                      /\ Read(w, "writeScanning", "clear", "readFailed")

MarkScanning(w) ==
    /\ pc[w] = "writeScanning"
    /\ Write(w, [snap[w] EXCEPT !.status = "SCANNING"], "clear", "readFailed")

(* Mutant of ClearFindings: a repeated run is trusted never to happen. *)
ClearFindingsSkipped(w) ==
    /\ pc[w] = "clear"
    /\ Goto(w, "engine")
    /\ UNCHANGED <<target, snap, pushed, tail, repoVars, faults>>

ClearFindings(w) == /\ pc[w] = "clear"
                    /\ Await(w, DropList(target[w]), "engine", "readFailed")
                    /\ UNCHANGED <<target, snap, pushed, tail>>

(* Mutant of RunEngine: the engine runs outside the try block. *)
RunEngineUncaught(w) ==
    /\ pc[w] = "engine"
    /\ Goto(w, "parse") \/ Goto(w, "rejected")
    /\ UNCHANGED <<target, snap, pushed, tail, repoVars, faults>>

(* git clone and trivy: both bounded by a timeout, both may fail *)
RunEngine(w) == /\ pc[w] = "engine"
                /\ Goto(w, "parse") \/ Goto(w, "readFailed")
                /\ UNCHANGED <<target, snap, pushed, tail, repoVars, faults>>

(* The parser hands over the next batch, reaches the end, or rejects *)
Parse(w) ==
    /\ pc[w] = "parse"
    /\ \/ /\ pushed[w] < MaxBatches
          /\ pushed' = [pushed EXCEPT ![w] = @ + 1]
          /\ Goto(w, "push")
       \/ Goto(w, "readFinished") /\ UNCHANGED pushed
       \/ Goto(w, "readFailed") /\ UNCHANGED pushed
    /\ UNCHANGED <<target, snap, tail, repoVars, faults>>

(* Mutant of Push: an error of the sink is swallowed. *)
PushUnchecked(w) ==
    /\ pc[w] = "push"
    /\ Await(w, PushBatch(target[w], pushed[w]), "expire", "expire")
    /\ UNCHANGED <<target, snap, pushed, tail>>

Push(w) == /\ pc[w] = "push"
           /\ Await(w, PushBatch(target[w], pushed[w]), "expire", "readFailed")
           /\ UNCHANGED <<target, snap, pushed, tail>>

(* RPUSH is not idempotent, and a resent one appends twice *)
PushAgain(w) == /\ pc[w] = "push"
                /\ Fault("resend")
                /\ PushBatch(target[w], pushed[w])
                /\ UNCHANGED runVars

(* Mutant of Arm: no EXPIRE after a batch. *)
ArmSkipped(w) == /\ pc[w] = "expire"
                 /\ Goto(w, "parse")
                 /\ UNCHANGED <<target, snap, pushed, tail, repoVars, faults>>

Arm(w) == /\ pc[w] = "expire"
          /\ Await(w, ArmExpiry(target[w]), "parse", "readFailed")
          /\ UNCHANGED <<target, snap, pushed, tail>>

(* The stream fails while a batch is being written: the parser rejects at   *)
(* once and the write goes on behind the catch block.                       *)
StreamBreaks(w) == /\ pc[w] \in {"push", "expire"}
                   /\ Goto(w, "readFailed")
                   /\ tail' = [tail EXCEPT ![w] = pc[w]]
                   /\ UNCHANGED <<target, snap, pushed, repoVars, faults>>

TailPush(w) ==
    /\ tail[w] = "push"
    /\ \/ /\ PushBatch(target[w], pushed[w])
          /\ tail' = [tail EXCEPT ![w] = "expire"]
          /\ UNCHANGED faults
       \/ /\ Fault("redis")
          /\ PushBatch(target[w], pushed[w]) \/ UNCHANGED repoVars
          /\ tail' = [tail EXCEPT ![w] = "none"]
    /\ UNCHANGED <<pc, target, snap, pushed>>

TailExpire(w) == /\ tail[w] = "expire"
                 /\ \/ ArmExpiry(target[w]) /\ UNCHANGED faults
                    \/ Fault("redis") /\ (ArmExpiry(target[w]) \/ UNCHANGED repoVars)
                 /\ tail' = [tail EXCEPT ![w] = "none"]
                 /\ UNCHANGED <<pc, target, snap, pushed>>

ReadForFinished(w) == /\ pc[w] = "readFinished"
                      /\ Read(w, "writeFinished", "resolved", "readFailed")

MarkFinished(w) ==
    /\ pc[w] = "writeFinished"
    /\ Write(w, [snap[w] EXCEPT !.status = "FINISHED", !.count = pushed[w]],
             "resolved", "readFailed")

(* The catch block.  One connection answers in order, so its GET is served  *)
(* after a leftover RPUSH, and its SET and DEL after the leftover EXPIRE.   *)
ReadForFailed(w) == /\ pc[w] = "readFailed"
                    /\ tail[w] # "push"
                    /\ Read(w, "writeFailed", "discard", "rejected")

MarkFailed(w) ==
    /\ pc[w] = "writeFailed"
    /\ tail[w] = "none"
    /\ Write(w, [snap[w] EXCEPT !.status = "FAILED", !.error = TRUE],
             "discard", "rejected")

(* Mutants of DiscardFindings: its error is swallowed; it is left out. *)
DiscardFindingsUnchecked(w) ==
    /\ pc[w] = "discard"
    /\ tail[w] = "none"
    /\ Await(w, DropList(target[w]), "resolved", "resolved")
    /\ UNCHANGED <<target, snap, pushed, tail>>

DiscardFindingsSkipped(w) ==
    /\ pc[w] = "discard"
    /\ Goto(w, "resolved")
    /\ UNCHANGED <<target, snap, pushed, tail, repoVars, faults>>

DiscardFindings(w) == /\ pc[w] = "discard"
                      /\ tail[w] = "none"
                      /\ Await(w, DropList(target[w]), "resolved", "rejected")
                      /\ UNCHANGED <<target, snap, pushed, tail>>

(* process() settled and cleaned up; BullMQ completes or fails the job.  A  *)
(* scan whose failure was recorded completes like any other.                *)
Settle(w) ==
    /\ pc[w] \in {"resolved", "rejected"}
    /\ tail[w] = "none"
    /\ SettleJob(w, target[w], IF pc[w] = "resolved" THEN "completed" ELSE "failed")
    /\ ForgetRun(w)
    /\ UNCHANGED <<repoVars, faults>>

(* What process() itself does, without touching the queue *)
Process(w) ==
    \/ ReadForScanning(w) \/ MarkScanning(w) \/ ClearFindings(w) \/ RunEngine(w)
    \/ Parse(w) \/ Push(w) \/ PushAgain(w) \/ Arm(w)
    \/ StreamBreaks(w) \/ TailPush(w) \/ TailExpire(w)
    \/ ReadForFinished(w) \/ MarkFinished(w)
    \/ ReadForFailed(w) \/ MarkFailed(w) \/ DiscardFindings(w)

=============================================================================
