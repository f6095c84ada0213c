---------------------------- MODULE ScanContract ----------------------------
(***************************************************************************)
(* What a client of the GraphQL API is promised about a scan, with none of *)
(* the queue, the workers or the Redis commands behind it: the status only *)
(* moves QUEUED -> SCANNING -> FINISHED or FAILED, the reason comes with   *)
(* FAILED, and the findings of a FINISHED scan appear together with that   *)
(* status, whole and in order, and do not change until they expire.        *)
(*                                                                         *)
(* That is before anything goes wrong.  Once a process has died or a Redis *)
(* command has failed (faulty), a run may be repeated: its failure may     *)
(* replace an answer that was already given, and its success keeps the     *)
(* reason of the failure it replaces.  The whole-findings part of the      *)
(* promise stays.                                                          *)
(***************************************************************************)
EXTENDS Naturals

CONSTANTS Scans, MaxBatches

VARIABLES status,   \* status of the scan, "NONE" when there is no record
          total,    \* criticalVulnerabilityCount, where the scan is FINISHED
          pages,    \* what paging reads, where the scan is FINISHED
          reason,   \* errorMessage is set
          faulty    \* something has gone wrong in the deployment

vars == <<status, total, pages, reason, faulty>>

Whole(n) == [i \in 1..n |-> i]

Init == /\ status = [s \in Scans |-> "NONE"]
        /\ total = [s \in Scans |-> 0]
        /\ pages = [s \in Scans |-> << >>]
        /\ reason = [s \in Scans |-> FALSE]
        /\ faulty = FALSE

Become(s, new, n, found) == /\ status' = [status EXCEPT ![s] = new]
                            /\ total' = [total EXCEPT ![s] = n]
                            /\ pages' = [pages EXCEPT ![s] = found]
                            /\ faulty' \in {faulty, TRUE}

Explain(s, given) == reason' = [reason EXCEPT ![s] = given]

Accept(s) == /\ status[s] = "NONE"
             /\ Become(s, "QUEUED", 0, << >>)
             /\ Explain(s, FALSE)

Begin(s) == /\ \/ status[s] = "QUEUED"
               \/ faulty' /\ status[s] \in {"FINISHED", "FAILED"}
            /\ Become(s, "SCANNING", 0, << >>)
            /\ UNCHANGED reason

Finish(s) == /\ status[s] = "SCANNING"
             /\ \E n \in 0..MaxBatches : Become(s, "FINISHED", n, Whole(n))
             /\ UNCHANGED reason

Fail(s) == /\ \/ status[s] = "SCANNING"
              \/ faulty' /\ status[s] \in {"QUEUED", "FINISHED"}
           /\ Become(s, "FAILED", 0, << >>)
           /\ Explain(s, TRUE)

(* The TTLs of the findings and of the record *)
PagesExpire(s) == /\ status[s] = "FINISHED"
                  /\ Become(s, "FINISHED", total[s], << >>)
                  /\ UNCHANGED reason

Expire(s) == /\ status[s] # "NONE"
             /\ Become(s, "NONE", 0, << >>)
             /\ Explain(s, FALSE)

GoWrong == faulty' = TRUE /\ UNCHANGED <<status, total, pages, reason>>

Next == \/ GoWrong
        \/ \E s \in Scans : \/ Accept(s) \/ Begin(s) \/ Finish(s) \/ Fail(s)
                            \/ PagesExpire(s) \/ Expire(s)

Spec == Init /\ [][Next]_vars

=============================================================================
