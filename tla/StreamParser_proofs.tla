------------------------- MODULE StreamParser_proofs -------------------------
(***************************************************************************)
(* Theorems about StreamParser, for any flush size and any report.         *)
(***************************************************************************)
EXTENDS StreamParser, SequenceTheorems, TLAPS

MaxFindings == MaxTargets * MaxTarget

Types == /\ left \in Seq(0..MaxTarget)
         /\ totalCount \in 0..MaxFindings
         /\ buffer \in Seq(1..MaxFindings) /\ sink \in Seq(1..MaxFindings)
         /\ pending \in Seq(Seq(1..MaxFindings))
         /\ outcome \in {"waiting", "returned", "threw"}

Flags == {keyed, broken, flowing, ended, failed, drained} \subseteq BOOLEAN

(* The targets still to come fit under the bound. *)
RoomLeft == totalCount + Len(left) * MaxTarget <= MaxFindings

(* At most one batch is being written, and while it is the stream is paused *)
(* and nothing is buffered.                                                 *)
OneWrite == /\ Len(pending) <= 1
            /\ pending # << >> => /\ ~flowing /\ ~drained /\ buffer = << >>
                                  /\ Len(pending[1]) \in 1..(FlushBatchSize + MaxTarget - 1)
            /\ ~failed => Len(buffer) < FlushBatchSize

(* What has happened to the stream, and what the call has answered.  After  *)
(* a write has failed, the stream stays paused with nothing in its buffer.  *)
Verdict == /\ broken => failed /\ ~ended
           /\ drained => ended /\ outcome # "waiting"
           /\ failed => outcome = "threw"
           /\ outcome = "threw" => failed \/ drained
           /\ outcome = "returned" => drained
           /\ failed /\ ~broken /\ ~drained => ~flowing /\ buffer = << >>

(* Until the call has its answer, what is stored and what is held together  *)
(* are the findings counted so far, in order.                               *)
Held == IF pending # << >> THEN pending[1] ELSE buffer

InOrder == outcome = "waiting" => /\ Held = Numbers(Len(sink), Len(Held))
                                  /\ totalCount = Len(sink) + Len(Held)

ParserInv == Types /\ RoomLeft /\ OneWrite /\ Verdict /\ InOrder

-----------------------------------------------------------------------------
\* A queue of at most one batch
LEMMA OneBatch ==
    ASSUME NEW T, NEW q \in Seq(T), Len(q) <= 1, q # << >>
    PROVE  Len(q) = 1 /\ q[1] \in T /\ Head(q) = q[1] /\ Tail(q) = << >>
  <1>1. Len(q) \in Nat \ {0}
    BY EmptySeq, Zenon
  <1>2. Len(q) = 1
    BY <1>1
  <1>3. q[1] \in T /\ Head(q) = q[1]
    BY <1>2
  <1>4. Tail(q) \in Seq(T) /\ Len(Tail(q)) = Len(q) - 1
    BY HeadTailProperties, Zenon
  <1>5. Len(Tail(q)) = 0
    BY <1>2, <1>4
  <1>6. Tail(q) = << >>
    <2>1. Tail(q) # << >> => Len(Tail(q)) \in Nat \ {0}
      BY <1>4, EmptySeq, Zenon
    <2>2. QED  BY <1>5, <2>1
  <1>7. QED  BY <1>2, <1>3, <1>6

LEMMA FirstBatch ==
    ASSUME NEW T, NEW b \in T
    PROVE  LET q == Append(<< >>, b) IN
           q \in Seq(T) /\ Len(q) = 1 /\ q # << >> /\ q[1] = b
  OBVIOUS

LEMMA NumbersType ==
    ASSUME NEW first \in Nat, NEW n \in Nat
    PROVE  /\ Len(Numbers(first, n)) = n
           /\ n = 0 => Numbers(first, n) = << >>
           /\ first + n <= MaxFindings => Numbers(first, n) \in Seq(1..MaxFindings)
  <1>1. Numbers(first, n) \in [1..n -> Nat]
    BY DEF Numbers
  <1>2. ASSUME first + n <= MaxFindings PROVE Numbers(first, n) \in Seq(1..MaxFindings)
    <2>1. MaxFindings \in Nat
      BY SizeAssumption DEF MaxFindings
    <2>2. \A i \in 1..n : first + i \in 1..MaxFindings
      BY <1>2, <2>1
    <2>3. QED  BY <2>2 DEF Numbers
  <1>3. QED  BY <1>1, <1>2 DEF Numbers

\* Two runs of numbers, one after the other, are one.
LEMMA NumbersJoin ==
    ASSUME NEW first \in Nat, NEW m \in Nat, NEW n \in Nat
    PROVE  Numbers(first, m) \o Numbers(first + m, n) = Numbers(first, m + n)
  <1> DEFINE a == Numbers(first, m)
             b == Numbers(first + m, n)
  <1>1. a \in Seq(Nat) /\ Len(a) = m /\ \A i \in 1..m : a[i] = first + i
    BY DEF Numbers
  <1>2. b \in Seq(Nat) /\ Len(b) = n /\ \A i \in 1..n : b[i] = first + m + i
    BY DEF Numbers
  <1> HIDE DEF a, b
  <1>3. /\ a \o b \in Seq(Nat) /\ Len(a \o b) = m + n
        /\ \A i \in 1..(m + n) : (a \o b)[i] = IF i <= m THEN a[i] ELSE b[i - m]
    BY <1>1, <1>2, ConcatProperties
  <1> DEFINE c == Numbers(first, m + n)
  <1>4. c \in Seq(Nat) /\ Len(c) = m + n /\ \A i \in 1..(m + n) : c[i] = first + i
    BY DEF Numbers
  <1> HIDE DEF c
  <1>5. \A i \in 1..(m + n) : (a \o b)[i] = c[i]
    <2> SUFFICES ASSUME NEW i \in 1..(m + n) PROVE (a \o b)[i] = first + i
      BY <1>4
    <2>1. CASE i <= m
      BY <1>1, <1>3, <2>1
    <2>2. CASE ~(i <= m)
      <3>1. i - m \in 1..n /\ first + m + (i - m) = first + i
        BY <2>2
      <3>2. QED  BY <1>2, <1>3, <2>2, <3>1
    <2>3. QED  BY <2>1, <2>2
  <1>6. a \o b = c
    BY <1>3, <1>4, <1>5, SeqEqual
  <1>7. QED  BY <1>6 DEF a, b, c

\* Targets are used up, findings are counted, and the sum stays below the bound.
LEMMA TargetCounted ==
    ASSUME Types, RoomLeft, left # << >>
    PROVE  /\ Head(left) \in 0..MaxTarget /\ Tail(left) \in Seq(0..MaxTarget)
           /\ totalCount + Head(left) \in 0..MaxFindings
           /\ totalCount + Head(left) + Len(Tail(left)) * MaxTarget <= MaxFindings
  <1>1. /\ Head(left) \in 0..MaxTarget /\ Tail(left) \in Seq(0..MaxTarget)
        /\ Len(Tail(left)) = Len(left) - 1 /\ Len(left) \in Nat \ {0}
    BY HeadTailProperties, EmptySeq, Zenon DEF Types
  <1>2. MaxTarget \in Nat /\ MaxFindings \in Nat /\ totalCount \in Nat
    BY SizeAssumption DEF MaxFindings, Types
  <1>3. (Len(left) - 1) * MaxTarget \in Nat
    BY <1>1, <1>2
  <1>4. Len(left) * MaxTarget = (Len(left) - 1) * MaxTarget + MaxTarget
    BY <1>1, <1>2
  <1>5. totalCount + ((Len(left) - 1) * MaxTarget + MaxTarget) <= MaxFindings
    BY <1>4 DEF RoomLeft
  <1> DEFINE rest == (Len(left) - 1) * MaxTarget
  <1>6. rest = Len(Tail(left)) * MaxTarget /\ rest \in Nat
        /\ totalCount + (rest + MaxTarget) <= MaxFindings
    BY <1>1, <1>3, <1>5
  <1> HIDE DEF rest
  <1>7. QED  BY <1>1, <1>2, <1>6

LEMMA ParserStart == Init => ParserInv
  <1> SUFFICES ASSUME Init PROVE ParserInv
    OBVIOUS
  <1>1. left \in Seq(0..MaxTarget) /\ Len(left) \in 0..MaxTargets
    <2>1. CASE left \in Reports
      <3>1. PICK n \in 0..MaxTargets : left \in [1..n -> 0..MaxTarget]
        BY <2>1 DEF Reports
      <3>2. QED  BY <3>1, SizeAssumption
    <2>2. CASE left = << >>
      BY <2>2, SizeAssumption
    <2>3. QED  BY <2>1, <2>2 DEF Init
  <1>2. Len(left) * MaxTarget <= MaxTargets * MaxTarget
    <2>1. (MaxTargets - Len(left)) * MaxTarget >= 0
      BY <1>1, SizeAssumption
    <2>2. (MaxTargets - Len(left)) * MaxTarget = MaxTargets * MaxTarget - Len(left) * MaxTarget
      BY <1>1, SizeAssumption
    <2>3. MaxTargets * MaxTarget \in Nat /\ Len(left) * MaxTarget \in Nat
      BY <1>1, SizeAssumption
    <2>4. QED  BY <2>1, <2>2, <2>3
  <1>3. Types /\ RoomLeft
    <2>1. MaxFindings \in Nat /\ Len(left) * MaxTarget \in Nat
      BY <1>1, SizeAssumption DEF MaxFindings
    <2>2. RoomLeft
      BY <1>2, <2>1 DEF RoomLeft, MaxFindings, Init
    <2>3. QED  BY <1>1, <2>1, <2>2 DEF Types, Init
  <1>4. OneWrite /\ Verdict
    BY SizeAssumption DEF OneWrite, Verdict, Init
  <1>5. InOrder
    BY NumbersType DEF InOrder, Held, Init
  <1>6. QED  BY <1>3, <1>4, <1>5 DEF ParserInv

-----------------------------------------------------------------------------
(* What 'data' makes of the buffer, before it is flushed or kept *)
LEMMA Grown ==
    ASSUME ParserInv, Data
    PROVE  LET grown == buffer \o Numbers(totalCount, Head(left)) IN
           /\ pending = << >> /\ ~ended /\ ~drained
           /\ grown \in Seq(1..MaxFindings)
           /\ Len(grown) = Len(buffer) + Head(left)
           /\ outcome = "waiting" =>
                 /\ grown = Numbers(Len(sink), Len(grown))
                 /\ totalCount + Head(left) = Len(sink) + Len(grown)
  <1> DEFINE n == Head(left)
             new == Numbers(totalCount, n)
             grown == buffer \o new
  <1>1. pending = << >> /\ ~ended /\ ~drained
    BY DEF Data, ParserInv, OneWrite, Verdict
  <1>2. /\ totalCount \in Nat /\ n \in Nat /\ totalCount + n <= MaxFindings
        /\ buffer \in Seq(1..MaxFindings) /\ Len(buffer) \in Nat /\ Len(sink) \in Nat
    <2>1. n \in 0..MaxTarget /\ totalCount + n \in 0..MaxFindings
      BY TargetCounted DEF ParserInv, Data
    <2>2. QED  BY <2>1 DEF ParserInv, Types
  <1>3. new \in Seq(1..MaxFindings) /\ Len(new) = n
    BY <1>2, NumbersType
  <1>4. grown \in Seq(1..MaxFindings) /\ Len(grown) = Len(buffer) + n
    BY <1>2, <1>3, ConcatProperties
  <1>5. ASSUME outcome = "waiting"
        PROVE  grown = Numbers(Len(sink), Len(grown)) /\ totalCount + n = Len(sink) + Len(grown)
    <2>1. buffer = Numbers(Len(sink), Len(buffer)) /\ totalCount = Len(sink) + Len(buffer)
      BY <1>1, <1>5 DEF ParserInv, InOrder, Held
    <2>2. Numbers(Len(sink), Len(buffer)) \o Numbers(Len(sink) + Len(buffer), n)
             = Numbers(Len(sink), Len(buffer) + n)
      BY <1>2, NumbersJoin
    <2>3. grown = Numbers(Len(sink), Len(buffer) + n)
      BY <2>1, <2>2
    <2>4. totalCount + n = Len(sink) + (Len(buffer) + n)
      BY <1>2, <2>1
    <2>5. QED  BY <1>4, <2>3, <2>4
  <1>6. QED  BY <1>1, <1>4, <1>5

LEMMA DataStep ==
    ASSUME ParserInv, Data
    PROVE  ParserInv'
  <1> DEFINE grown == buffer \o Numbers(totalCount, Head(left))
  <1>1. /\ pending = << >> /\ ~ended /\ ~drained
        /\ grown \in Seq(1..MaxFindings) /\ Len(grown) = Len(buffer) + Head(left)
        /\ outcome = "waiting" => /\ grown = Numbers(Len(sink), Len(grown))
                                  /\ totalCount + Head(left) = Len(sink) + Len(grown)
    BY Grown
  <1>2. /\ Head(left) \in 0..MaxTarget
        /\ left' \in Seq(0..MaxTarget) /\ totalCount' \in 0..MaxFindings
        /\ totalCount' = totalCount + Head(left)
        /\ RoomLeft'
    BY TargetCounted DEF Data, ParserInv, RoomLeft
  <1>3. /\ UNCHANGED <<broken, ended, failed, drained, outcome, sink>>
        /\ flowing /\ left # << >>
        /\ IF Len(grown) < FlushBatchSize \/ failed
             THEN buffer' = grown /\ UNCHANGED <<pending, flowing>>
             ELSE buffer' = << >> /\ pending' = Append(pending, grown) /\ flowing' = FALSE
    BY DEF Data
  <1>4. Len(buffer) \in Nat /\ (~failed => Len(buffer) < FlushBatchSize)
    BY DEF ParserInv, Types, OneWrite
  <1> HIDE DEF grown
  <1>5. CASE Len(grown) < FlushBatchSize \/ failed
    <2>1. buffer' = grown /\ pending' = << >> /\ flowing'
      BY <1>1, <1>3, <1>5
    <2>2. Types'
      BY <1>1, <1>2, <1>3, <2>1 DEF ParserInv, Types
    <2>3. OneWrite'
      BY <1>3, <1>5, <2>1 DEF OneWrite
    <2>4. Verdict'
      BY <1>1, <1>3, <2>1 DEF ParserInv, Verdict
    <2>5. InOrder'
      BY <1>1, <1>2, <1>3, <2>1 DEF InOrder, Held
    <2>6. QED  BY <1>2, <2>2, <2>3, <2>4, <2>5 DEF ParserInv
  <1>6. CASE ~(Len(grown) < FlushBatchSize \/ failed)
    <2>1. /\ buffer' = << >> /\ ~flowing'
          /\ pending' \in Seq(Seq(1..MaxFindings)) /\ Len(pending') = 1
          /\ pending' # << >> /\ pending'[1] = grown
      BY <1>1, <1>3, <1>6, FirstBatch
    <2>2. Types'
      BY <1>1, <1>2, <1>3, <2>1, EmptySeq DEF ParserInv, Types
    <2>3. Len(grown) \in 1..(FlushBatchSize + MaxTarget - 1)
      BY <1>1, <1>2, <1>4, <1>6, SizeAssumption
    <2>4. OneWrite'
      BY <1>1, <1>3, <2>1, <2>3, SizeAssumption DEF OneWrite
    <2>5. Verdict'
      BY <1>1, <1>3, <1>6, <2>1 DEF ParserInv, Verdict
    <2>6. InOrder'
      BY <1>1, <1>2, <1>3, <2>1 DEF InOrder, Held
    <2>7. QED  BY <1>2, <2>2, <2>4, <2>5, <2>6 DEF ParserInv
  <1>7. QED  BY <1>5, <1>6

(* The other events of the stream, and the settlements of the writes *)
LEMMA EventStep ==
    ASSUME ParserInv, StreamError \/ End \/ WriteOk \/ WriteFails
                      \/ FinalWriteOk \/ FinalWriteFails
    PROVE  ParserInv'
  <1>0. /\ Types /\ RoomLeft /\ OneWrite /\ Verdict /\ InOrder
        /\ FlushBatchSize \in Nat \ {0} /\ MaxTarget \in Nat
    BY SizeAssumption DEF ParserInv
  <1>1. \A b \in Seq(1..MaxFindings) :
           sink \o b \in Seq(1..MaxFindings) /\ Len(sink \o b) = Len(sink) + Len(b)
    BY <1>0, ConcatProperties DEF Types
  <1>2. UNCHANGED <<left, totalCount>> => RoomLeft'
    BY <1>0 DEF RoomLeft
  <1>3. CASE StreamError
    <2>1. /\ UNCHANGED <<left, flowing, ended, totalCount, buffer, pending, drained, sink>>
          /\ broken' /\ failed' /\ ~ended
          /\ outcome' = IF outcome = "waiting" THEN "threw" ELSE outcome
      BY <1>3 DEF StreamError, Reject, SettleAs
    <2>2. outcome' = "threw"
      BY <1>0, <2>1 DEF Types, Verdict
    <2>3. QED
      BY <1>0, <1>2, <2>1, <2>2 DEF ParserInv, Types, OneWrite, Verdict, InOrder
  <1>4. CASE End
    <2>1. /\ UNCHANGED <<left, broken, flowing, totalCount, buffer, failed, pending, drained,
                         outcome, sink>>
          /\ ended' /\ ~broken
      BY <1>4 DEF End
    <2>2. QED
      BY <1>0, <1>2, <2>1 DEF ParserInv, Types, OneWrite, Verdict, InOrder, Held
  <1>5. ASSUME pending # << >>
        PROVE  /\ pending[1] \in Seq(1..MaxFindings)
               /\ Head(pending) = pending[1] /\ Tail(pending) = << >>
               /\ buffer = << >> /\ ~flowing /\ ~drained
               /\ outcome # "returned"
    BY <1>0, <1>5, OneBatch DEF Types, OneWrite, Verdict
  <1>6. CASE WriteOk
    <2>1. /\ UNCHANGED <<left, broken, ended, totalCount, buffer, failed, drained, outcome>>
          /\ pending # << >> /\ pending' = << >>
          /\ sink' = sink \o pending[1]
          /\ flowing' <=> ~failed
      BY <1>5, <1>6 DEF WriteOk
    <2>2. sink' \in Seq(1..MaxFindings) /\ Len(sink') = Len(sink) + Len(pending[1])
      BY <1>1, <1>5, <2>1
    <2>3. Types'
      BY <1>0, <2>1, <2>2, EmptySeq DEF Types
    <2>4. OneWrite' /\ Verdict'
      BY <1>0, <1>5, <2>1 DEF OneWrite, Verdict
    <2>5. InOrder'
      BY <1>0, <1>5, <2>1, <2>2, NumbersType DEF InOrder, Held, Types
    <2>6. QED  BY <1>2, <2>1, <2>3, <2>4, <2>5 DEF ParserInv
  <1>7. CASE WriteFails
    <2>1. /\ UNCHANGED <<left, broken, flowing, ended, totalCount, buffer, drained>>
          /\ pending # << >> /\ pending' = << >>
          /\ sink' = sink \/ sink' = sink \o pending[1]
          /\ failed' /\ outcome' = IF outcome = "waiting" THEN "threw" ELSE outcome
      BY <1>5, <1>7 DEF WriteFails, Reject, SettleAs
    <2>2. outcome' = "threw"
      BY <1>0, <1>5, <2>1 DEF Types
    <2>3. sink' \in Seq(1..MaxFindings)
      BY <1>0, <1>1, <1>5, <2>1 DEF Types
    <2>4. Types'
      BY <1>0, <2>1, <2>2, <2>3, EmptySeq DEF Types
    <2>5. OneWrite' /\ Verdict' /\ InOrder'
      BY <1>0, <1>5, <2>1, <2>2 DEF OneWrite, Verdict, InOrder
    <2>6. QED  BY <1>2, <2>1, <2>4, <2>5 DEF ParserInv
  <1>8. CASE FinalWriteOk
    <2>1. /\ UNCHANGED <<left, broken, flowing, ended, totalCount, failed, pending>>
          /\ ended /\ pending = << >> /\ buffer' = << >> /\ drained'
          /\ sink' = sink \o buffer
          /\ outcome' # "waiting" /\ outcome' \in {"returned", "threw"}
          /\ outcome # "waiting" => outcome' = outcome
      BY <1>0, <1>8 DEF FinalWriteOk, SettleAs, Types
    <2>2. sink' \in Seq(1..MaxFindings)
      BY <1>0, <1>1, <2>1 DEF Types
    <2>3. Types'
      BY <1>0, <2>1, <2>2, EmptySeq DEF Types
    <2>4. OneWrite' /\ Verdict' /\ InOrder'
      BY <1>0, <2>1 DEF OneWrite, Verdict, InOrder
    <2>5. QED  BY <1>2, <2>1, <2>3, <2>4 DEF ParserInv
  <1>9. CASE FinalWriteFails
    <2>1. /\ UNCHANGED <<left, broken, flowing, ended, totalCount, buffer, pending>>
          /\ ended /\ ~drained /\ pending = << >> /\ drained'
          /\ sink' = sink \/ sink' = sink \o buffer
          /\ failed' /\ outcome' = IF outcome = "waiting" THEN "threw" ELSE outcome
      BY <1>9 DEF FinalWriteFails, Reject, SettleAs
    <2>2. outcome' = "threw"
      BY <1>0, <2>1 DEF Types, Verdict
    <2>3. sink' \in Seq(1..MaxFindings)
      BY <1>0, <1>1, <2>1 DEF Types
    <2>4. Types'
      BY <1>0, <2>1, <2>2, <2>3 DEF Types
    <2>5. OneWrite' /\ Verdict' /\ InOrder'
      BY <1>0, <2>1, <2>2 DEF OneWrite, Verdict, InOrder
    <2>6. QED  BY <1>2, <2>1, <2>4, <2>5 DEF ParserInv
  <1>10. QED  BY <1>3, <1>4, <1>6, <1>7, <1>8, <1>9

LEMMA ParserStep == ParserInv /\ [Next]_vars => ParserInv'
  <1> SUFFICES ASSUME ParserInv, [Next]_vars PROVE ParserInv'
    OBVIOUS
  <1>1. CASE Next
    BY <1>1, DataStep, EventStep DEF Next
  <1>2. CASE UNCHANGED vars
    BY <1>2 DEF vars, ParserInv, Types, RoomLeft, OneWrite, Verdict, InOrder, Held
  <1>3. QED  BY <1>1, <1>2

LEMMA FlagsStep == Flags /\ [Next]_vars => Flags'
  <1> SUFFICES ASSUME Flags, [Next]_vars PROVE Flags'
    OBVIOUS
  <1>1. /\ keyed \in BOOLEAN /\ broken \in BOOLEAN /\ flowing \in BOOLEAN
        /\ ended \in BOOLEAN /\ failed \in BOOLEAN /\ drained \in BOOLEAN
    BY Zenon DEF Flags
  <1>2. flowing' \in BOOLEAN
    BY <1>1, Zenon
       DEF Next, Data, StreamError, End, WriteOk, WriteFails, FinalWriteOk, FinalWriteFails, vars
  <1>3. ended' \in BOOLEAN /\ drained' \in BOOLEAN
    BY <1>1, Zenon
       DEF Next, Data, StreamError, End, WriteOk, WriteFails, FinalWriteOk, FinalWriteFails, vars
  <1>4. keyed' \in BOOLEAN /\ broken' \in BOOLEAN
    BY <1>1, Zenon
       DEF Next, Data, StreamError, End, WriteOk, WriteFails, FinalWriteOk, FinalWriteFails, vars
  <1>5. failed' \in BOOLEAN
    BY <1>1, Zenon
       DEF Next, Data, StreamError, End, WriteOk, WriteFails, FinalWriteOk, FinalWriteFails,
           Reject, vars
  <1>6. QED  BY <1>2, <1>3, <1>4, <1>5, Zenon DEF Flags

LEMMA FlagsStart == Init => Flags
  BY Zenon DEF Init, Flags

(* Every reachable state is well typed: no finding gets a number beyond the *)
(* findings of the report, in the buffer, in a batch or in the sink.        *)
THEOREM ParserTypeCorrect == Spec => []TypeOK
  <1>1. ParserInv /\ Flags => TypeOK
    BY DEF ParserInv, Types, Flags, TypeOK, Findings, MaxFindings
  <1>2. QED
    BY <1>1, ParserStart, ParserStep, FlagsStart, FlagsStep, PTL DEF Spec

(* Until the call fails it never holds more than one batch being written or *)
(* a buffer below the flush size, whatever the order of stream events and   *)
(* settlements of writes.                                                   *)
THEOREM ParserMemory == Spec => []MemoryBounded
  <1>1. ParserInv => MemoryBounded
    BY SizeAssumption DEF ParserInv, Types, OneWrite, MemoryBounded
  <1>2. QED  BY <1>1, ParserStart, ParserStep, PTL DEF Spec

-----------------------------------------------------------------------------
(* FindingsCopy.  Its stage, by the verdict on the call and what is being   *)
(* written.                                                                 *)
StageNow == CASE outcome = "returned" -> "done"
              [] outcome = "threw" -> IF Writing = << >> THEN "threw" ELSE "tail"
              [] outcome = "waiting" -> IF Writing = << >> THEN "parse" ELSE "push"

CountNow == IF outcome = "returned" THEN totalCount ELSE 0

Quiet == <<StageNow, Writing, sink, CountNow>>

LEMMA DataCopies ==
    ASSUME ParserInv, Data
    PROVE  Copy!Hand \/ UNCHANGED Quiet
  <1> DEFINE grown == buffer \o Numbers(totalCount, Head(left))
  <1>1. /\ pending = << >> /\ ~ended /\ ~drained
        /\ grown \in Seq(1..MaxFindings) /\ Len(grown) = Len(buffer) + Head(left)
        /\ outcome = "waiting" => grown = Numbers(Len(sink), Len(grown))
    BY Grown
  <1>2. /\ UNCHANGED <<ended, drained, outcome, sink>>
        /\ IF Len(grown) < FlushBatchSize \/ failed
             THEN buffer' = grown /\ UNCHANGED pending
             ELSE pending' = Append(pending, grown)
    BY DEF Data
  <1>3. /\ outcome \in {"waiting", "threw"} /\ (outcome = "threw" => failed)
        /\ Len(buffer) \in Nat /\ (~failed => Len(buffer) < FlushBatchSize)
        /\ Head(left) \in 0..MaxTarget
    BY <1>1, TargetCounted DEF ParserInv, Types, Verdict, OneWrite, Data
  <1>4. Writing = << >>
    BY <1>1 DEF Writing
  <1> HIDE DEF grown
  <1>5. CASE Len(grown) < FlushBatchSize \/ failed
    <2>1. Writing' = << >>
      BY <1>1, <1>2, <1>5 DEF Writing
    <2>2. QED  BY <1>2, <1>3, <1>4, <2>1 DEF Quiet, StageNow, CountNow
  <1>6. CASE ~(Len(grown) < FlushBatchSize \/ failed)
    <2>1. /\ outcome = "waiting" /\ outcome' = "waiting"
          /\ Len(grown) \in 1..(FlushBatchSize + MaxTarget - 1)
      BY <1>1, <1>2, <1>3, <1>6, SizeAssumption
    <2>2. pending' \in Seq(Seq(1..MaxFindings)) /\ pending' # << >> /\ pending'[1] = grown
          /\ Len(pending') = 1
      BY <1>1, <1>2, <1>6, FirstBatch
    <2>3. Writing' = grown
      <3>1. Head(pending') = grown
        BY <2>2
      <3>2. QED  BY <2>2, <3>1 DEF Writing
    <2>4. grown # << >>
      BY <2>1
    <2>5. StageNow = "parse" /\ StageNow' = "push" /\ CountNow' = CountNow
      BY <1>4, <2>1, <2>3, <2>4 DEF StageNow, CountNow
    <2>6. grown = Copy!NextBatch(Len(grown))
      BY <1>1, <2>1 DEF Numbers, Copy!NextBatch
    <2>7. QED
      BY <1>2, <2>1, <2>3, <2>5, <2>6 DEF Copy!Hand, StageNow, CountNow
  <1>7. QED  BY <1>5, <1>6

(* A batch is handed over by 'end', stored or lost by the settlement of its *)
(* write; an error breaks the loop, the final write ends it.                *)
LEMMA EventCopies ==
    ASSUME ParserInv, StreamError \/ End \/ WriteOk \/ WriteFails
                      \/ FinalWriteOk \/ FinalWriteFails
    PROVE  Copy!Next \/ UNCHANGED Quiet
  <1>0. /\ Types /\ OneWrite /\ Verdict /\ InOrder
        /\ FlushBatchSize \in Nat \ {0} /\ MaxTarget \in Nat
        /\ outcome \in {"waiting", "returned", "threw"}
    BY SizeAssumption DEF ParserInv, Types
  <1>1. ASSUME pending # << >>
        PROVE  /\ Writing = pending[1] /\ Writing # << >>
               /\ Head(pending) = pending[1] /\ Tail(pending) = << >>
               /\ buffer = << >> /\ ~drained
               /\ outcome # "returned"
    <2>1. /\ Head(pending) = pending[1] /\ Tail(pending) = << >>
          /\ pending[1] \in Seq(1..MaxFindings) /\ Len(pending[1]) # 0
      BY <1>0, <1>1, OneBatch DEF Types, OneWrite
    <2>2. pending[1] # << >>
      BY <2>1
    <2>3. QED  BY <1>0, <1>1, <2>1, <2>2 DEF Writing, OneWrite, Verdict
  <1>2. CASE StreamError
    <2>1. /\ UNCHANGED <<ended, buffer, pending, drained, sink>> /\ ~ended
          /\ outcome' = IF outcome = "waiting" THEN "threw" ELSE outcome
      BY <1>2 DEF StreamError, Reject, SettleAs
    <2>2. Writing' = Writing /\ outcome # "returned"
      BY <1>0, <2>1 DEF Writing, Verdict
    <2>3. CASE outcome = "waiting"
      <3>1. Copy!Break
        BY <2>1, <2>2, <2>3 DEF Copy!Break, StageNow, CountNow
      <3>2. QED  BY <3>1 DEF Copy!Next
    <2>4. CASE outcome = "threw"
      BY <2>1, <2>2, <2>4 DEF Quiet, StageNow, CountNow
    <2>5. QED  BY <1>0, <2>2, <2>3, <2>4
  <1>3. CASE End
    <2>1. /\ UNCHANGED <<buffer, failed, pending, drained, outcome, sink, totalCount>>
          /\ ended' /\ ~broken /\ ~ended
      BY <1>3 DEF End
    <2>2. CASE pending # << >> \/ buffer = << >>
      <3>1. Writing' = Writing
        BY <2>1, <2>2 DEF Writing
      <3>2. QED  BY <2>1, <3>1 DEF Quiet, StageNow, CountNow
    <2>3. CASE pending = << >> /\ buffer # << >>
      <3>1. outcome = "waiting" /\ ~drained /\ ~failed
        BY <1>0, <2>1, <2>3 DEF Verdict
      <3>2. Writing = << >> /\ Writing' = buffer
        BY <2>1, <2>3, <3>1 DEF Writing
      <3>3. Len(buffer) \in 1..(FlushBatchSize + MaxTarget - 1)
        <4>1. Len(buffer) \in Nat \ {0}
          BY <1>0, <2>3, EmptySeq, Zenon DEF Types
        <4>2. QED  BY <1>0, <3>1, <4>1 DEF OneWrite
      <3>4. buffer = Copy!NextBatch(Len(buffer))
        BY <1>0, <2>3, <3>1 DEF InOrder, Held, Numbers, Copy!NextBatch
      <3>5. Copy!Hand
        BY <2>1, <2>3, <3>1, <3>2, <3>3, <3>4 DEF Copy!Hand, StageNow, CountNow
      <3>6. QED  BY <3>5 DEF Copy!Next
    <2>4. QED  BY <2>2, <2>3
  <1>4. CASE WriteOk
    <2>1. /\ UNCHANGED <<ended, buffer, drained, outcome, totalCount>>
          /\ pending # << >> /\ pending' = << >> /\ sink' = sink \o Writing
      BY <1>1, <1>4 DEF WriteOk
    <2>2. Writing' = << >>
      BY <1>1, <2>1 DEF Writing
    <2>3. CASE outcome = "waiting"
      <3>1. Copy!Store
        BY <1>1, <2>1, <2>2, <2>3 DEF Copy!Store, StageNow, CountNow
      <3>2. QED  BY <3>1 DEF Copy!Next
    <2>4. CASE outcome = "threw"
      <3>1. Copy!Store
        BY <1>1, <2>1, <2>2, <2>4 DEF Copy!Store, StageNow, CountNow
      <3>2. QED  BY <3>1 DEF Copy!Next
    <2>5. QED  BY <1>0, <1>1, <2>1, <2>3, <2>4
  <1>5. CASE WriteFails
    <2>1. /\ UNCHANGED <<ended, buffer, drained, totalCount>>
          /\ pending # << >> /\ pending' = << >> /\ sink' \in {sink, sink \o Writing}
          /\ outcome' = IF outcome = "waiting" THEN "threw" ELSE outcome
      BY <1>1, <1>5 DEF WriteFails, Reject, SettleAs
    <2>2. Writing' = << >> /\ outcome \in {"waiting", "threw"} /\ outcome' = "threw"
      BY <1>0, <1>1, <2>1 DEF Writing
    <2>3. StageNow \in {"push", "tail"} /\ StageNow' = "threw" /\ CountNow = 0 /\ CountNow' = 0
      BY <1>1, <2>1, <2>2 DEF StageNow, CountNow
    <2>4. Copy!Lose
      BY <2>1, <2>2, <2>3 DEF Copy!Lose, StageNow, CountNow
    <2>5. QED  BY <2>4 DEF Copy!Next
  <1>6. CASE FinalWriteOk
    <2>1. /\ UNCHANGED <<ended, pending, totalCount, failed>>
          /\ ended /\ ~drained /\ drained' /\ pending = << >> /\ buffer' = << >>
          /\ sink' = sink \o Writing
          /\ outcome' = IF outcome = "waiting" THEN IF keyed THEN "returned" ELSE "threw"
                        ELSE outcome
      BY <1>6 DEF FinalWriteOk, SettleAs, Writing
    <2>2. Writing' = << >> /\ Writing = buffer /\ outcome # "returned"
      BY <1>0, <2>1 DEF Writing, Verdict
    <2>3. ASSUME Writing = << >> PROVE sink' = sink
      BY <1>0, <2>1, <2>3, ConcatEmptySeq DEF Types
    <2>4. CASE outcome = "threw"
      <3>1. Writing = << >>
        BY <1>0, <2>1, <2>2, <2>4 DEF Verdict
      <3>2. QED  BY <2>1, <2>2, <2>3, <2>4, <3>1 DEF Quiet, StageNow, CountNow
    <2>5. CASE outcome = "waiting"
      <3>1. totalCount = Len(sink) + Len(Writing)
        BY <1>0, <2>1, <2>2, <2>5 DEF InOrder, Held
      <3>2. Len(sink') = totalCount
        BY <1>0, <2>1, <2>2, <3>1, ConcatProperties DEF Types
      <3>3. CASE outcome' = "returned" /\ Writing # << >>
        <4>1. Copy!Store
          BY <2>1, <2>2, <2>5, <3>2, <3>3 DEF Copy!Store, StageNow, CountNow
        <4>2. QED  BY <4>1 DEF Copy!Next
      <3>4. CASE outcome' = "returned" /\ Writing = << >>
        <4>1. sink' = sink
          BY <2>3, <3>4
        <4>2. Copy!Return
          BY <2>1, <2>2, <2>5, <3>2, <3>4, <4>1 DEF Copy!Return, StageNow, CountNow
        <4>3. QED  BY <4>2 DEF Copy!Next
      <3>5. CASE outcome' = "threw" /\ Writing # << >>
        <4>1. Copy!Lose
          BY <2>1, <2>2, <2>5, <3>5 DEF Copy!Lose, StageNow, CountNow
        <4>2. QED  BY <4>1 DEF Copy!Next
      <3>6. CASE outcome' = "threw" /\ Writing = << >>
        <4>1. sink' = sink
          BY <2>3, <3>6
        <4>2. Copy!Break
          BY <2>1, <2>2, <2>5, <3>6, <4>1 DEF Copy!Break, StageNow, CountNow
        <4>3. QED  BY <4>2 DEF Copy!Next
      <3>7. QED  BY <2>1, <2>5, <3>3, <3>4, <3>5, <3>6
    <2>6. QED  BY <1>0, <2>2, <2>4, <2>5
  <1>7. CASE FinalWriteFails
    <2>1. /\ UNCHANGED <<ended, buffer, pending, totalCount>>
          /\ ended /\ ~drained /\ drained' /\ pending = << >> /\ buffer # << >>
          /\ Writing = buffer /\ sink' \in {sink, sink \o Writing}
          /\ outcome' = IF outcome = "waiting" THEN "threw" ELSE outcome
      BY <1>7 DEF FinalWriteFails, Reject, SettleAs, Writing
    <2>2. Writing' = << >> /\ outcome = "waiting" /\ outcome' = "threw"
      BY <1>0, <2>1 DEF Writing, Verdict
    <2>3. Copy!Lose
      BY <2>1, <2>2 DEF Copy!Lose, StageNow, CountNow
    <2>4. QED  BY <2>3 DEF Copy!Next
  <1>8. QED  BY <1>2, <1>3, <1>4, <1>5, <1>6, <1>7

(* The event handlers, whatever the order the event loop runs them in,      *)
(* implement the sequential copying loop ScanProcessor models: findings     *)
(* reach the sink in order and once, the call returns after the last of     *)
(* them is stored and with their number, and after a failure at most the    *)
(* batch that was being written still lands.                                *)
THEOREM CopyRefined == Spec => CopiesFindings
  <1>1. Init => Copy!Init
    BY DEF Init, Copy!Init, StageNow, CountNow, Writing
  <1>2. ParserInv /\ [Next]_vars => [Copy!Next]_Quiet
    <2> SUFFICES ASSUME ParserInv, [Next]_vars PROVE Copy!Next \/ UNCHANGED Quiet
      OBVIOUS
    <2>1. CASE Next
      BY <2>1, DataCopies, EventCopies DEF Next, Copy!Next
    <2>2. CASE UNCHANGED vars
      BY <2>2 DEF vars, Quiet, StageNow, CountNow, Writing
    <2>3. QED  BY <2>1, <2>2
  <1>3. QED
    BY <1>1, <1>2, ParserStart, ParserStep, PTL
       DEF Spec, CopiesFindings, Copy!Spec, Copy!vars, Quiet, StageNow, CountNow

=============================================================================
