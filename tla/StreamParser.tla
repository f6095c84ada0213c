---------------------------- MODULE StreamParser ----------------------------
(***************************************************************************)
(* extractCriticalVulnerabilities of                                       *)
(* src/scan/trivy/trivy-stream-parser.service.ts: one call, as the event   *)
(* loop runs it.  Events of the stream (data, error, end) and settlements  *)
(* of sink writes come in any order Node allows; the handlers share        *)
(* buffer, failed and the promise chain `pending`.                         *)
(*                                                                         *)
(* A report is the sequence of its targets, a target the number of its     *)
(* CRITICAL findings; findings are numbered in report order (the index in  *)
(* toCriticalVulnerability), so totalCount is the last number given.       *)
(***************************************************************************)
EXTENDS Naturals, Sequences

CONSTANTS FlushBatchSize,   \* FLUSH_BATCH_SIZE
          MaxTargets,       \* bound: targets of a report
          MaxTarget         \* bound: findings of one target

ASSUME SizeAssumption == /\ FlushBatchSize \in Nat \ {0}
                         /\ MaxTargets \in Nat /\ MaxTarget \in Nat

VARIABLES keyed,    \* the report has a `Results` key
          left,     \* targets the stream has not emitted yet
          broken,   \* the stream has emitted an error
          flowing,  \* not paused
          ended,    \* 'end' was emitted: the final write is chained
          totalCount, buffer, failed,
          pending,  \* flushes chained and not settled; the first is being written
          drained,  \* the final write has settled
          outcome,  \* of the call: "waiting", "returned" or "threw"
          sink      \* the findings stored, in order

vars == <<keyed, left, broken, flowing, ended, totalCount, buffer, failed,
          pending, drained, outcome, sink>>

Numbers(first, n) == [i \in 1..n |-> first + i]

Reports == UNION {[1..n -> 0..MaxTarget] : n \in 0..MaxTargets}

Init == /\ keyed \in BOOLEAN
        /\ left \in IF keyed THEN Reports ELSE {<< >>}
        /\ broken = FALSE /\ flowing = TRUE /\ ended = FALSE
        /\ totalCount = 0 /\ buffer = << >> /\ failed = FALSE
        /\ pending = << >> /\ drained = FALSE
        /\ outcome = "waiting" /\ sink = << >>

(* A promise settles once: later calls of resolve and reject do nothing. *)
SettleAs(result) == outcome' = IF outcome = "waiting" THEN result ELSE outcome

(* fail() *)
Reject == failed' = TRUE /\ SettleAs("threw")

-----------------------------------------------------------------------------
(* Mutants of Data: every finding is counted twice; the stream is not paused. *)
DataCountsTwice ==
    /\ flowing /\ ~ended /\ left # << >>
    /\ left' = Tail(left)
    /\ totalCount' = totalCount + 2 * Head(left)
    /\ buffer' = buffer \o Numbers(totalCount, Head(left))
    /\ UNCHANGED <<keyed, broken, flowing, ended, failed, pending, drained, outcome, sink>>

DataUnpaused ==
    /\ flowing /\ ~ended /\ left # << >>
    /\ left' = Tail(left)
    /\ totalCount' = totalCount + Head(left)
    /\ LET grown == buffer \o Numbers(totalCount, Head(left))
       IN  IF Len(grown) < FlushBatchSize \/ failed
             THEN buffer' = grown /\ UNCHANGED pending
             ELSE buffer' = << >> /\ pending' = Append(pending, grown)
    /\ UNCHANGED <<keyed, broken, flowing, ended, failed, drained, outcome, sink>>

(* 'data': count and buffer the target's findings; a full buffer becomes a  *)
(* chained write, and the stream is paused until it is stored.              *)
Data ==
    /\ flowing /\ ~ended /\ left # << >>
    /\ left' = Tail(left)
    /\ totalCount' = totalCount + Head(left)
    /\ LET grown == buffer \o Numbers(totalCount, Head(left))
       IN  IF Len(grown) < FlushBatchSize \/ failed
             THEN buffer' = grown /\ UNCHANGED <<pending, flowing>>
             ELSE /\ buffer' = << >>
                  /\ pending' = Append(pending, grown)
                  /\ flowing' = FALSE
    /\ UNCHANGED <<keyed, broken, ended, failed, drained, outcome, sink>>

(* 'error': malformed or truncated JSON, a failing read; also while paused. *)
(* Targets already past the tokenizer may still be emitted, 'end' is not.   *)
StreamError ==
    /\ ~broken /\ ~ended
    /\ broken' = TRUE
    /\ Reject
    /\ UNCHANGED <<keyed, left, flowing, ended, totalCount, buffer, pending, drained, sink>>

(* 'end' follows the last target.  Node emits it even to a paused stream    *)
(* when that target was already the last one buffered.                      *)
End ==
    /\ left = << >> /\ ~ended /\ ~broken
    /\ ended' = TRUE
    /\ UNCHANGED <<keyed, left, broken, flowing, totalCount, buffer, failed, pending,
                   drained, outcome, sink>>

(* Mutant of WriteOk: the stream is not resumed. *)
WriteOkUnresumed ==
    /\ pending # << >>
    /\ sink' = sink \o Head(pending)
    /\ pending' = Tail(pending)
    /\ UNCHANGED <<keyed, left, broken, flowing, ended, totalCount, buffer, failed, drained,
                   outcome>>

(* A flush settles; the stream resumes unless the call has failed. *)
WriteOk ==
    /\ pending # << >>
    /\ sink' = sink \o Head(pending)
    /\ pending' = Tail(pending)
    /\ flowing' = (flowing \/ ~failed)
    /\ UNCHANGED <<keyed, left, broken, ended, totalCount, buffer, failed, drained, outcome>>

WriteFails ==
    /\ pending # << >>
    /\ sink' \in {sink, sink \o Head(pending)}
    /\ pending' = Tail(pending)
    /\ Reject
    /\ UNCHANGED <<keyed, left, broken, flowing, ended, totalCount, buffer, drained>>

(* Mutant of FinalWriteOk: what the last flush left behind is dropped. *)
FinalWriteDropped ==
    /\ ended /\ ~drained /\ pending = << >>
    /\ buffer' = << >>
    /\ drained' = TRUE
    /\ SettleAs(IF keyed THEN "returned" ELSE "threw")
    /\ UNCHANGED <<keyed, left, broken, flowing, ended, totalCount, failed, pending, sink>>

(* The final write, chained by 'end' behind the flushes: what is left in    *)
(* the buffer, then resolve().  A report without `Results` is refused.      *)
FinalWriteOk ==
    /\ ended /\ ~drained /\ pending = << >>
    /\ sink' = sink \o buffer
    /\ buffer' = << >>
    /\ drained' = TRUE
    /\ SettleAs(IF keyed THEN "returned" ELSE "threw")
    /\ UNCHANGED <<keyed, left, broken, flowing, ended, totalCount, failed, pending>>

(* An empty batch is not sent, so it cannot fail (appendVulnerabilities) *)
FinalWriteFails ==
    /\ ended /\ ~drained /\ pending = << >> /\ buffer # << >>
    /\ sink' \in {sink, sink \o buffer}
    /\ drained' = TRUE
    /\ Reject
    /\ UNCHANGED <<keyed, left, broken, flowing, ended, totalCount, buffer, pending>>

Next == \/ Data \/ StreamError \/ End
        \/ WriteOk \/ WriteFails \/ FinalWriteOk \/ FinalWriteFails

Spec == Init /\ [][Next]_vars

(* The file is read on while nothing pauses the stream, and every sink      *)
(* write settles (its Redis commands resolve or reject).                    *)
Fairness == /\ WF_vars(Data) /\ WF_vars(End)
            /\ WF_vars(WriteOk \/ WriteFails)
            /\ WF_vars(FinalWriteOk \/ FinalWriteFails)

FairSpec == Spec /\ Fairness

-----------------------------------------------------------------------------
Findings == Seq(1..(MaxTargets * MaxTarget))

(* Every variable stays in its range. *)
TypeOK == /\ {keyed, broken, flowing, ended, failed, drained} \subseteq BOOLEAN
          /\ left \in Seq(0..MaxTarget)
          /\ totalCount \in 0..(MaxTargets * MaxTarget)
          /\ buffer \in Findings /\ sink \in Findings
          /\ pending \in Seq(Findings)
          /\ outcome \in {"waiting", "returned", "threw"}

(* Memory stays bounded however long the report is: until the call fails,   *)
(* findings are held in one batch being written and a buffer below the      *)
(* flush size, never both at once.                                          *)
MemoryBounded ==
    ~failed => /\ Len(buffer) < FlushBatchSize
               /\ Len(pending) <= 1
               /\ pending # << >> => /\ buffer = << >>
                                     /\ Len(pending[1]) < FlushBatchSize + MaxTarget

(* The callbacks implement the sequential copying loop process() relies on. *)
Writing == IF pending # << >> THEN Head(pending)
           ELSE IF ended /\ ~drained THEN buffer ELSE << >>

Copy == INSTANCE FindingsCopy WITH
    MaxBatch <- FlushBatchSize + MaxTarget - 1,
    stage    <- CASE outcome = "returned" -> "done"
                  [] outcome = "threw" -> IF Writing = << >> THEN "threw" ELSE "tail"
                  [] outcome = "waiting" -> IF Writing = << >> THEN "parse" ELSE "push",
    batch    <- Writing,
    stored   <- sink,
    count    <- IF outcome = "returned" THEN totalCount ELSE 0

CopiesFindings == Copy!Spec

(* The call settles: pausing for a write never strands the stream. *)
Settles == <>(outcome # "waiting")

=============================================================================
