---------------------------- MODULE FindingsCopy ----------------------------
(***************************************************************************)
(* What process() may assume of extractCriticalVulnerabilities: findings   *)
(* 1, 2, 3, ... are handed to the sink one batch at a time, in order, each *)
(* once; it returns only after all of them were stored, with their number; *)
(* after it threw, at most the batch that was being written still lands.   *)
(* This is the loop parse / push / tail of ScanProcessor.                  *)
(***************************************************************************)
EXTENDS Naturals, Sequences

CONSTANT MaxBatch       \* findings in a batch, at most

VARIABLES stage,        \* "parse", "push" (a batch is being written), "tail"
                        \* (it still is, after the throw), "threw", "done"
          batch,        \* the batch being written
          stored,       \* what the sink has stored
          count         \* the totalCount returned

vars == <<stage, batch, stored, count>>

NextBatch(k) == [i \in 1..k |-> Len(stored) + i]

Init == stage = "parse" /\ batch = << >> /\ stored = << >> /\ count = 0

Hand == /\ stage = "parse"
        /\ \E k \in 1..MaxBatch : batch' = NextBatch(k)
        /\ stage' = "push"
        /\ UNCHANGED <<stored, count>>

Store == /\ stage \in {"push", "tail"}
         /\ stored' = stored \o batch
         /\ batch' = << >>
         /\ \/ stage = "push" /\ stage' = "parse" /\ UNCHANGED count
            \/ stage = "push" /\ stage' = "done" /\ count' = Len(stored')
            \/ stage = "tail" /\ stage' = "threw" /\ UNCHANGED count

Lose == /\ stage \in {"push", "tail"}
        /\ stored' \in {stored, stored \o batch}
        /\ batch' = << >>
        /\ stage' = "threw"
        /\ UNCHANGED count

Break == /\ \/ stage = "parse" /\ stage' = "threw"
            \/ stage = "push" /\ stage' = "tail"
         /\ UNCHANGED <<batch, stored, count>>

Return == /\ stage = "parse"
          /\ stage' = "done"
          /\ count' = Len(stored)
          /\ UNCHANGED <<batch, stored>>

Next == Hand \/ Store \/ Lose \/ Break \/ Return

Spec == Init /\ [][Next]_vars

=============================================================================
