---------------------------- MODULE ScanService ----------------------------
(***************************************************************************)
(* startScan of src/scan/scan.service.ts, one call per scan id: read the   *)
(* depth of the queue, create the record, add the job.  Each await is a    *)
(* step of its own, so calls interleave with each other and with workers.  *)
(***************************************************************************)
EXTENDS ScanRepository, ScanQueue

CONSTANT MaxQueueDepth      \* config scan.maxQueueDepth (SCAN_MAX_QUEUE_DEPTH)

ASSUME DepthAssumption == MaxQueueDepth \in Nat \ {0}

VARIABLES api,        \* api[s]: how far the call that generated id s is
          lateAdds    \* scans whose timed-out `add` is still in the offline
                      \* queue of the BullMQ connection

apiVars == <<api, lateAdds>>

ApiStates == {"idle", "creating", "adding", "accepted",
              "refused",     \* 503, nothing written
              "timedOut",    \* 503 from the enqueueing, the record exists
              "errored",     \* the record could not be created
              "lost"}        \* the process died during the call

ServiceOK == /\ api \in [Scans -> ApiStates]
             /\ lateAdds \subseteq Scans

ServiceInit == /\ api = [s \in Scans |-> "idle"]
               /\ lateAdds = {}

InCall(s) == api[s] \in {"creating", "adding"}

Answer(s, result) == api' = [api EXCEPT ![s] = result]

-----------------------------------------------------------------------------
(* getWaitingCount, under withQueueTimeout: the 503 of a full queue, the    *)
(* 503 of a queue that does not answer, or on to the record.                *)
CheckDepth(s) ==
    /\ api[s] = "idle"
    /\ \/ /\ Cardinality(Waiting) < MaxQueueDepth
          /\ Answer(s, "creating")
          /\ UNCHANGED faults
       \/ /\ Cardinality(Waiting) >= MaxQueueDepth
          /\ Answer(s, "refused")
          /\ UNCHANGED faults
       \/ Fault("redis") /\ Answer(s, "refused")
    /\ UNCHANGED <<lateAdds, repoVars, queueVars>>

(* Mutant of CreateRecord: a failing `create` does not stop the call. *)
CreateRecordUnchecked(s) ==
    /\ api[s] = "creating"
    /\ \/ SetRecord(s, NewRecord) /\ UNCHANGED faults
       \/ UNCHANGED repoVars /\ Fault("redis")
    /\ Answer(s, "adding")
    /\ UNCHANGED <<lateAdds, queueVars>>

CreateRecord(s) ==
    /\ api[s] = "creating"
    /\ \/ /\ SetRecord(s, NewRecord)
          /\ Answer(s, "adding")
          /\ UNCHANGED faults
       \/ /\ Fault("redis")
          /\ SetRecord(s, NewRecord) \/ UNCHANGED repoVars
          /\ Answer(s, "errored")
    /\ UNCHANGED <<lateAdds, queueVars>>

(* scanQueue.add answers in time *)
Enqueue(s) ==
    /\ api[s] = "adding"
    /\ AddJob(s)
    /\ Answer(s, "accepted")
    /\ UNCHANGED <<faults, lateAdds, repoVars>>

(* The wait for `add` runs out.  withTimeout stops waiting and cancels      *)
(* nothing: the command ran and its reply is late, or it is still queued in *)
(* the client (the connection retries for ever) and runs later, or both:    *)
(* executed, and sent again after the reconnection.                         *)
EnqueueTimesOut(s) ==
    /\ api[s] = "adding"
    /\ Answer(s, "timedOut")
    /\ \/ Fault("redis") /\ AddJob(s) /\ UNCHANGED lateAdds
       \/ Fault("redis") /\ lateAdds' = lateAdds \cup {s} /\ UNCHANGED queueVars
       \/ Fault("resend") /\ lateAdds' = lateAdds \cup {s} /\ AddJob(s)
    /\ UNCHANGED repoVars

LateAdd(s) ==
    /\ s \in lateAdds
    /\ lateAdds' = lateAdds \ {s}
    /\ AddJob(s)
    /\ UNCHANGED <<api, faults, repoVars>>

(* The process dies: any of the calls it was serving end here, and so do    *)
(* the commands its client had not sent.                                    *)
LoseCalls ==
    \E calls \in SUBSET {s \in Scans : InCall(s)}, unsent \in SUBSET lateAdds :
        /\ api' = [s \in Scans |-> IF s \in calls THEN "lost" ELSE api[s]]
        /\ lateAdds' = lateAdds \ unsent

StartScan(s) == \/ CheckDepth(s) \/ CreateRecord(s)
                \/ Enqueue(s) \/ EnqueueTimesOut(s) \/ LateAdd(s)

=============================================================================
