--------------------------- MODULE ScanRepository ---------------------------
(***************************************************************************)
(* The Redis side of src/scan/scan.repository.ts: the record scan:<id> and *)
(* the findings list scan:<id>:vulns, and one operator per Redis command   *)
(* the repository sends.  A repository method of several commands (patch = *)
(* GET then SET, appendVulnerabilities = RPUSH then EXPIRE) is several      *)
(* steps of its caller: other clients and crashes come in between.         *)
(*                                                                         *)
(* The unit of findings is the batch handed to the sink; batch n of a      *)
(* report is the number n, and criticalVulnerabilityCount counts batches.  *)
(***************************************************************************)
EXTENDS ScanEnvironment

VARIABLES record,   \* record[s]: the value of key scan:<s>
          vulns,    \* vulns[s]: the list scan:<s>:vulns, << >> when missing
          expiry    \* expiry[s]: "none", "armed" (EXPIRE set) or "lapsed" (the
                    \* list is missing because its TTL ran out)

repoVars == <<record, vulns, expiry>>

Statuses == {"QUEUED", "SCANNING", "FINISHED", "FAILED"}
Final    == {"FINISHED", "FAILED"}

Missing   == [status |-> "NONE", count |-> 0, error |-> FALSE]
NewRecord == [status |-> "QUEUED", count |-> 0, error |-> FALSE]

Records == [status : Statuses \cup {"NONE"}, count : 0..MaxBatches, error : BOOLEAN]

\* The first n batches of a report, in the order the parser saw them.
Full(n) == [i \in 1..n |-> i]

RepositoryOK == /\ record \in [Scans -> Records]
                /\ vulns \in [Scans -> Seq(1..MaxBatches)]
                /\ expiry \in [Scans -> {"none", "armed", "lapsed"}]

RepositoryInit == /\ record = [s \in Scans |-> Missing]
                  /\ vulns = [s \in Scans |-> << >>]
                  /\ expiry = [s \in Scans |-> "none"]

-----------------------------------------------------------------------------
(* SET scan:<s> r EX ttl *)
SetRecord(s, r) == /\ record' = [record EXCEPT ![s] = r]
                   /\ UNCHANGED <<vulns, expiry>>

(* RPUSH scan:<s>:vulns batch; a key it creates has no TTL *)
PushBatch(s, batch) ==
    /\ vulns' = [vulns EXCEPT ![s] = Append(@, batch)]
    /\ expiry' = [expiry EXCEPT ![s] = IF vulns[s] = << >> THEN "none" ELSE @]
    /\ UNCHANGED record

(* EXPIRE scan:<s>:vulns ttl; no effect on a key that does not exist *)
ArmExpiry(s) == /\ expiry' = [expiry EXCEPT ![s] = IF vulns[s] = << >> THEN @ ELSE "armed"]
                /\ UNCHANGED <<record, vulns>>

(* DEL scan:<s>:vulns *)
DropList(s) == /\ vulns' = [vulns EXCEPT ![s] = << >>]
               /\ expiry' = [expiry EXCEPT ![s] = "none"]
               /\ UNCHANGED record

-----------------------------------------------------------------------------
(* The two TTLs.  Redis drops the keys on its own. *)
DropRecord(s) == /\ record[s] # Missing
                 /\ record' = [record EXCEPT ![s] = Missing]
                 /\ UNCHANGED <<vulns, expiry>>

LapseList(s) == /\ expiry[s] = "armed"
                /\ vulns' = [vulns EXCEPT ![s] = << >>]
                /\ expiry' = [expiry EXCEPT ![s] = "lapsed"]
                /\ UNCHANGED record

=============================================================================
