----------------------------- MODULE RunStages -----------------------------
(***************************************************************************)
(* The try / catch / finally of process() (src/scan/scan.processor.ts) and *)
(* nothing else: which part of it a run may enter after which.  Whatever   *)
(* step fails, the failure is recorded first and the temporary files go    *)
(* last.  ScanProcessor, which sees the Redis commands of a run, and       *)
(* ScanPipeline, which sees its files and children, both implement it: they *)
(* are two views of one program.                                           *)
(***************************************************************************)
CONSTANT Workers

VARIABLE stage  \* stage[w]: "idle", or the part of process() w is in:
                \* "start"   updateStatus and deleteVulnerabilities
                \* "engine"  the clone and trivy
                \* "parse"   extractCriticalVulnerabilities
                \* "finish"  markFinished
                \* "record"  the catch block
                \* "cleanup" the finally block, and what follows it

Init == stage = [w \in Workers |-> "idle"]

Enter(w, next) == stage' = [stage EXCEPT ![w] = next]

(* An await resolves, or there are none to come *)
Continue(w) ==
    \/ stage[w] = "idle"    /\ Enter(w, "start")
    \/ stage[w] = "start"   /\ Enter(w, "engine")
    \/ stage[w] = "engine"  /\ Enter(w, "parse")
    \/ stage[w] = "parse"   /\ Enter(w, "finish")
    \/ stage[w] = "cleanup" /\ Enter(w, "idle")

Catch(w) == /\ stage[w] \in {"start", "engine", "parse", "finish"}
            /\ Enter(w, "record")

\* The catch block may reject half way: the finally block runs all the same
Finally(w) == stage[w] \in {"finish", "record"} /\ Enter(w, "cleanup")

Die(w) == Enter(w, "idle")

Next == \E w \in Workers : Continue(w) \/ Catch(w) \/ Finally(w) \/ Die(w)

Spec == Init /\ [][Next]_stage

=============================================================================
