-------------------------- MODULE ScanReader_proofs --------------------------
(***************************************************************************)
(* Theorems about ScanReader, for any page size and any number of scans,   *)
(* workers, batches and faults.                                            *)
(***************************************************************************)
EXTENDS ScanReader, ScanSystem_proofs

(* A client that reads nothing has nothing in hand. *)
AtEase == reading = NoScan => ~found /\ pages = << >>

(* A list is, at any time, the beginning of a report; a batch that is still *)
(* being pushed behind the catch block is the one that comes next.          *)
ListInPlace(s) == \E n \in 0..MaxBatches : vulns[s] = Full(n)

TailOK(w) == tail[w] = "push" => vulns[target[w]] = Full(pushed[w] - 1)

PlaceInv == /\ SafeInv
            /\ \A s \in Scans : ListInPlace(s)
            /\ \A w \in Workers : TailOK(w)

RowsInv == ReaderOK /\ AtEase /\ PlaceInv /\ RowsInPlace

-----------------------------------------------------------------------------
\* What LRANGE returns of a list
LEMMA LrangeRows ==
    ASSUME NEW T, NEW list \in Seq(T), NEW first \in Nat \ {0}, NEW last \in Nat
    PROVE  /\ Lrange(list, first, last) \in Seq(T)
           /\ \A i \in DOMAIN Lrange(list, first, last) :
                 /\ first + i - 1 \in 1..Len(list)
                 /\ Lrange(list, first, last)[i] = list[first + i - 1]
  <1> DEFINE end == IF last < Len(list) THEN last ELSE Len(list)
  <1>1. end \in Nat /\ end <= Len(list)
    OBVIOUS
  <1> HIDE DEF end
  <1>2. SubSeq(list, first, end) \in Seq(T)
    BY <1>1
  <1>3. \A i \in DOMAIN SubSeq(list, first, end) :
           /\ first + i - 1 \in 1..Len(list)
           /\ SubSeq(list, first, end)[i] = list[first + i - 1]
    BY <1>1
  <1>4. Lrange(list, first, last) = SubSeq(list, first, end)
    BY DEF Lrange, end
  <1>5. QED  BY <1>2, <1>3, <1>4

\* The offset of the next page
LEMMA OffsetType ==
    ASSUME ReaderOK
    PROVE  offset \in Nat
  <1>1. Len(pages) \in Nat
    BY DEF ReaderOK
  <1>2. QED  BY <1>1, PageAssumption DEF offset

(* A step of the client, as far as its own variables go *)
LEMMA ClientTypes ==
    ASSUME TypeInv, ReaderOK, AtEase, ClientStep
    PROVE  ReaderOK' /\ AtEase'
  <1>1. ASSUME NEW s \in Scans, QueryScan(s) PROVE ReaderOK' /\ AtEase'
    <2>1. record[s].count \in 0..MaxBatches
      BY DEF TypeInv, TypeOK, RepositoryOK, Records
    <2>2. QED
      BY <1>1, <2>1, NamesAssumption DEF QueryScan, ReaderOK, AtEase, offset
  <1>2. ASSUME Stop PROVE ReaderOK' /\ AtEase'
    <2>1. found' \in BOOLEAN /\ ~found'
      BY <1>2, Zenon DEF Stop
    <2>2. /\ reading' \in Scans \cup {NoScan} /\ total' \in 0..MaxBatches
          /\ pages' = << >> /\ pages' \in Seq(Seq(1..MaxBatches))
      BY <1>2, BatchAssumption DEF Stop
    <2>3. QED  BY <2>1, <2>2, Zenon DEF ReaderOK, AtEase
  <1>3. CASE FindParent
    BY <1>2, <1>3 DEF FindParent, ReaderOK, AtEase, offset
  <1>4. CASE ReadPage
    <2>1. reading \in Scans
      BY <1>4 DEF ReadPage, AtEase, ReaderOK
    <2>2. Window(vulns[reading]) \in Seq(1..MaxBatches)
      <3>1. offset + 1 \in Nat \ {0} /\ offset + PageSize \in Nat
        BY OffsetType, PageAssumption
      <3>2. vulns[reading] \in Seq(1..MaxBatches)
        BY <2>1 DEF TypeInv, TypeOK, RepositoryOK
      <3>3. QED  BY <3>1, <3>2, LrangeRows DEF Window
    <2>3. QED
      <3>1. found' \in BOOLEAN /\ ~found'
        BY <1>4, Zenon DEF ReadPage
      <3>2. pages' \in Seq(Seq(1..MaxBatches))
        BY <1>4, <2>2 DEF ReadPage, ReaderOK
      <3>3. reading' = reading /\ total' = total /\ reading' # NoScan
        BY <1>4, <2>1, NamesAssumption DEF ReadPage
      <3>4. QED  BY <3>1, <3>2, <3>3, Zenon DEF ReaderOK, AtEase
  <1>5. CASE Leave
    BY <1>2, <1>5 DEF Leave
  <1>6. QED  BY <1>1, <1>3, <1>4, <1>5 DEF ClientStep

LEMMA ReaderTypes ==
    ASSUME TypeInv, ReaderOK, AtEase, [ReaderNext]_<<vars, readerVars>>
    PROVE  TypeInv' /\ ReaderOK' /\ AtEase'
  <1>1. [Next]_vars
    BY DEF ReaderNext, ClientStep, QueryScan, FindParent, ReadPage, Leave
  <1>2. CASE UNCHANGED readerVars
    BY <1>1, <1>2, TypeInvStep, Zenon DEF readerVars, ReaderOK, AtEase, offset
  <1>3. QED
    BY <1>1, <1>2, TypeInvStep, ClientTypes DEF ReaderNext

LEMMA ReaderStart == ReaderInit => TypeInv /\ ReaderOK /\ AtEase
  <1> SUFFICES ASSUME ReaderInit PROVE TypeInv /\ ReaderOK /\ AtEase
    OBVIOUS
  <1>1. found \in BOOLEAN /\ ~found
    BY Zenon DEF ReaderInit
  <1>2. /\ reading \in Scans \cup {NoScan} /\ total \in 0..MaxBatches
        /\ pages = << >> /\ pages \in Seq(Seq(1..MaxBatches))
    BY BatchAssumption DEF ReaderInit
  <1>3. TypeInv
    BY TypeInvInit DEF ReaderInit
  <1>4. QED  BY <1>1, <1>2, <1>3, Zenon DEF ReaderOK, AtEase

(* The client never asks for a page past the last one, and what it has in   *)
(* hand are pages of findings, under every kind of fault.                   *)
THEOREM ReaderCorrect == ReaderSpec => []ReaderOK
  <1>1. ReaderInit => TypeInv /\ ReaderOK /\ AtEase
    BY ReaderStart
  <1>2. TypeInv /\ ReaderOK /\ AtEase /\ [ReaderNext]_<<vars, readerVars>>
           => TypeInv' /\ ReaderOK' /\ AtEase'
    BY ReaderTypes
  <1>3. QED  BY <1>1, <1>2, PTL DEF ReaderSpec

-----------------------------------------------------------------------------
(* A step of process(), as far as its own run and list are concerned: an    *)
(* RPUSH meets the list it expects, whichever await it belongs to.          *)
LEMMA ProcessInPlace ==
    ASSUME TypeInv, NEW w \in Workers, Process(w), RunOK(w), TailOK(w),
           ListInPlace(target[w]), "resend" \notin FaultKinds
    PROVE  TailOK(w)' /\ ListInPlace(target[w])'
  <1>0. target[w] \in Scans /\ target' = target
    BY ProcessFrame
  <1>1. /\ vulns \in [Scans -> Seq(1..MaxBatches)] /\ pushed \in [Workers -> 0..MaxBatches]
        /\ tail \in [Workers -> {"none", "push", "expire"}]
        /\ (pc[w] = "push" \/ tail[w] = "push") => pushed[w] > 0
        /\ 0 \in 0..MaxBatches
    BY BatchAssumption DEF TypeInv, TypeOK, RepositoryOK, ProcessorOK, RunShape
  <1>2. pc[w] = "push" => vulns[target[w]] = Full(pushed[w] - 1)
    BY DEF RunOK, Working, Stored
  <1>3. ASSUME PushBatch(target[w], pushed[w]), pc[w] = "push" \/ tail[w] = "push"
        PROVE  ListInPlace(target[w])'
    <2>1. vulns'[target[w]] = Append(Full(pushed[w] - 1), pushed[w])
      BY <1>0, <1>1, <1>2, <1>3 DEF PushBatch, TailOK
    <2>2. pushed[w] \in Nat \ {0}
      BY <1>1, <1>3
    <2>3. vulns'[target[w]] = Full(pushed[w])
      BY <2>1, <2>2, FullGrows
    <2>4. QED  BY <1>0, <1>1, <2>3 DEF ListInPlace
  <1>4. ASSUME UNCHANGED vulns PROVE ListInPlace(target[w])'
    BY <1>0, <1>4 DEF ListInPlace
  <1>5. ASSUME UNCHANGED <<vulns, pushed, tail>> PROVE TailOK(w)' /\ ListInPlace(target[w])'
    BY <1>0, <1>4, <1>5 DEF TailOK
  <1>6. CASE ReadForScanning(w) \/ ReadForFinished(w) \/ ReadForFailed(w)
    BY <1>5, <1>6 DEF ReadForScanning, ReadForFinished, ReadForFailed, Read, repoVars
  <1>7. CASE MarkScanning(w) \/ MarkFinished(w) \/ MarkFailed(w)
    BY <1>5, <1>7 DEF MarkScanning, MarkFinished, MarkFailed, Write, Await, SetRecord, repoVars
  <1>8. CASE ClearFindings(w) \/ DiscardFindings(w)
    <2>1. tail'[w] # "push"
      BY <1>1, <1>8 DEF ClearFindings, DiscardFindings, TypeInv, RunShape, Catching
    <2>2. vulns' = vulns \/ vulns'[target[w]] = Full(0)
      BY <1>0, <1>1, <1>8, FullGrows DEF ClearFindings, DiscardFindings, Await, DropList, repoVars
    <2>3. QED  BY <1>0, <1>1, <1>4, <2>1, <2>2 DEF TailOK, ListInPlace
  <1>9. CASE Push(w)
    <2>1. UNCHANGED <<pushed, tail>> /\ tail[w] # "push"
      BY <1>9 DEF Push, TypeInv, RunShape, Catching
    <2>2. PushBatch(target[w], pushed[w]) \/ UNCHANGED vulns
      BY <1>9 DEF Push, Await, repoVars
    <2>3. QED  BY <1>3, <1>4, <1>9, <2>1, <2>2 DEF TailOK, Push
  <1>10. CASE TailPush(w)
    <2>1. tail'[w] # "push" /\ (PushBatch(target[w], pushed[w]) \/ UNCHANGED vulns)
      BY <1>1, <1>10 DEF TailPush, repoVars
    <2>2. QED  BY <1>3, <1>4, <1>10, <2>1 DEF TailOK, TailPush
  <1>11. CASE PushAgain(w)
    BY <1>11 DEF PushAgain, Fault
  <1>12. CASE Arm(w) \/ TailExpire(w)
    <2>1. UNCHANGED <<vulns, pushed>> /\ (tail' = tail \/ tail'[w] = "none")
      BY <1>1, <1>12 DEF Arm, TailExpire, Await, ArmExpiry, repoVars
    <2>2. QED  BY <1>0, <1>4, <2>1 DEF TailOK
  <1>13. CASE StreamBreaks(w)
    <2>1. UNCHANGED <<vulns, pushed>> /\ tail'[w] = pc[w]
      BY <1>1, <1>13 DEF StreamBreaks, repoVars
    <2>2. QED  BY <1>0, <1>2, <1>4, <2>1 DEF TailOK
  <1>14. CASE RunEngine(w) \/ Parse(w)
    <2>1. UNCHANGED <<vulns, tail>> /\ tail[w] # "push"
      BY <1>14 DEF RunEngine, Parse, repoVars, TypeInv, RunShape, Catching
    <2>2. QED  BY <1>4, <2>1 DEF TailOK
  <1>15. QED
    BY <1>6, <1>7, <1>8, <1>9, <1>10, <1>11, <1>12, <1>13, <1>14 DEF Process

LEMMA PlaceStep ==
    ASSUME PlaceInv, [Next]_vars, Undisturbed
    PROVE  PlaceInv'
  <1>0. /\ SafeInv' /\ TypeInv /\ Owned /\ RunsOK
        /\ 0 \in 0..MaxBatches
        /\ vulns \in [Scans -> Seq(1..MaxBatches)]
        /\ target \in [Workers -> Scans \cup {NoScan}]
        /\ tail \in [Workers -> {"none", "push", "expire"}]
    BY SafeStep, BatchAssumption
       DEF PlaceInv, SafeInv, TypeInv, TypeOK, RepositoryOK, ProcessorOK
  <1>1. (\A s \in Scans : ListInPlace(s)) /\ \A w \in Workers : TailOK(w)
    BY DEF PlaceInv
  <1> DEFINE Goal == (\A s \in Scans : ListInPlace(s)') /\ \A w \in Workers : TailOK(w)'
  <1>2. ASSUME UNCHANGED vulns,
               \A w \in Workers : \/ tail'[w] = "none"
                                  \/ /\ target'[w] = target[w] /\ pushed'[w] = pushed[w]
                                     /\ tail'[w] = tail[w]
        PROVE  Goal
    BY <1>1, <1>2 DEF ListInPlace, TailOK
  <1>3. ASSUME NEW s \in Scans, Serve(s) PROVE Goal
    BY <1>2, <1>3
       DEF Serve, StartScan, CheckDepth, CreateRecord, Enqueue, EnqueueTimesOut, LateAdd,
           SetRecord, repoVars, runVars
  <1>4. ASSUME NEW s \in Scans, Stalled(s) PROVE Goal
    BY <1>2, <1>4 DEF Stalled, repoVars, runVars
  <1>5. ASSUME NEW s \in Scans, Expiry(s) PROVE Goal
    <2>1. /\ \A w \in Workers : target[w] # s
          /\ UNCHANGED <<tail, pushed, target>>
          /\ \/ vulns' = vulns
             \/ vulns' = [vulns EXCEPT ![s] = << >>]
      BY <1>5 DEF Expiry, Fault, Undisturbed, AtRest, DropRecord, LapseList, runVars
    <2>2. \A t \in Scans : ListInPlace(t)'
      BY <1>0, <1>1, <2>1, FullGrows DEF ListInPlace
    <2>3. \A w \in Workers : target[w] = NoScan \/ vulns'[target[w]] = vulns[target[w]]
      BY <1>0, <2>1
    <2>4. \A w \in Workers : target[w] = NoScan => tail[w] = "none"
      BY <1>0 DEF TypeInv, RunShape, Catching
    <2>5. QED  BY <1>1, <2>1, <2>2, <2>3, <2>4 DEF TailOK
  <1>6. ASSUME NEW w \in Workers, TakeScan(w) PROVE Goal
    <2>1. /\ UNCHANGED <<vulns, tail, pushed>> /\ tail[w] = "none"
          /\ \A v \in Workers \ {w} : target'[v] = target[v]
      BY <1>0, <1>6 DEF TakeScan, Take, repoVars, TypeInv, RunShape, Catching
    <2>2. QED  BY <1>2, <2>1
  <1>7. ASSUME NEW w \in Workers, Run(w) PROVE Goal
    <2>1. Process(w)
      BY <1>7 DEF Run
    <2>2. /\ target[w] \in Scans /\ target' = target
          /\ \A t \in Scans \ {target[w]} : vulns'[t] = vulns[t]
          /\ \A v \in Workers \ {w} : pushed'[v] = pushed[v] /\ tail'[v] = tail[v]
      BY <1>0, <2>1, ProcessFrame
    <2>3. TailOK(w)' /\ ListInPlace(target[w])'
      BY <1>0, <1>1, <2>1, <2>2, ProcessInPlace DEF RunsOK, Undisturbed
    <2>4. \A t \in Scans : ListInPlace(t)'
      BY <1>1, <2>2, <2>3 DEF ListInPlace
    <2>5. \A v \in Workers \ {w} :
             target[v] = NoScan \/ target[v] \in Scans \ {target[w]}
      BY <1>0, <2>2, OwnedMeansOneWriter DEF OneWriter
    <2>6. \A v \in Workers : target[v] = NoScan => tail[v] = "none"
      BY <1>0 DEF TypeInv, RunShape, Catching
    <2>7. \A v \in Workers \ {w} : TailOK(v)'
      BY <1>1, <2>2, <2>5, <2>6 DEF TailOK
    <2>8. QED  BY <2>3, <2>4, <2>7
  <1>8. ASSUME NEW w \in Workers, Complete(w) \/ Crash(w) PROVE Goal
    <2>1. ForgetRun(w) /\ UNCHANGED repoVars
      BY <1>8 DEF Complete, Settle, Crash
    <2>2. QED
      BY <1>0, <1>2, <2>1 DEF ForgetRun, repoVars, TypeInv, TypeOK, ProcessorOK
  <1>9. ASSUME UNCHANGED vars PROVE Goal
    BY <1>2, <1>9 DEF vars, repoVars, runVars
  <1>10. QED
    BY <1>0, <1>3, <1>4, <1>5, <1>6, <1>7, <1>8, <1>9 DEF Next, PlaceInv

LEMMA PlaceInit == Init => PlaceInv
  <1> SUFFICES ASSUME Init PROVE PlaceInv
    OBVIOUS
  <1>1. \A s \in Scans : ListInPlace(s)
    BY FullGrows, BatchAssumption DEF Init, RepositoryInit, ListInPlace
  <1>2. \A w \in Workers : TailOK(w)
    BY DEF Init, ProcessorInit, TailOK
  <1>3. QED  BY <1>1, <1>2, SafeInit DEF PlaceInv

-----------------------------------------------------------------------------
(* A page read from the beginning of a report has its rows in place. *)
LEMMA PageInPlace ==
    ASSUME ReaderOK, AtEase, PlaceInv, RowsInPlace, ReadPage
    PROVE  RowsInPlace'
  <1>1. /\ reading \in Scans /\ pages \in Seq(Seq(1..MaxBatches))
        /\ vulns[reading] \in Seq(1..MaxBatches)
    BY DEF ReadPage, AtEase, ReaderOK, PlaceInv, SafeInv, TypeInv, TypeOK, RepositoryOK
  <1> DEFINE page == Window(vulns[reading])
  <1>2. pages' = Append(pages, page)
    BY DEF ReadPage
  <1>3. PICK n \in 0..MaxBatches : vulns[reading] = Full(n)
    BY <1>1 DEF PlaceInv, ListInPlace
  <1>4. offset \in Nat /\ offset = Len(pages) * PageSize
    BY OffsetType DEF offset
  <1>5. \A i \in DOMAIN page : page[i] = offset + i
    <2>1. \A i \in DOMAIN page : offset + i \in 1..Len(vulns[reading])
                                /\ page[i] = vulns[reading][offset + i]
      <3>1. PICK list \in Seq(1..MaxBatches), first \in Nat \ {0}, last \in Nat :
               list = vulns[reading] /\ first = offset + 1 /\ last = offset + PageSize
        BY <1>1, <1>4, PageAssumption
      <3>2. page = Lrange(list, first, last)
        BY <3>1 DEF Window
      <3>3. \A i \in DOMAIN Lrange(list, first, last) :
               /\ first + i - 1 \in 1..Len(list)
               /\ Lrange(list, first, last)[i] = list[first + i - 1]
        BY LrangeRows
      <3> HIDE DEF page
      <3>4. \A i \in DOMAIN page : i \in Int /\ first + i - 1 = offset + i
        <4>1. page \in Seq(1..MaxBatches)
          BY <3>2, LrangeRows
        <4>2. QED  BY <1>4, <3>1, <4>1
      <3>5. QED  BY <3>1, <3>2, <3>3, <3>4
    <2>2. Len(vulns[reading]) = n /\ \A j \in 1..n : vulns[reading][j] = j
      BY <1>3, BatchAssumption DEF Full
    <2>3. QED  BY <2>1, <2>2
  <1> HIDE DEF page
  <1>6. ASSUME NEW k \in DOMAIN pages' PROVE \A i \in DOMAIN pages'[k] : pages'[k][i] = (k - 1) * PageSize + i
    <2>1. CASE k \in DOMAIN pages
      <3>1. pages'[k] = pages[k]
        BY <1>1, <1>2, <2>1
      <3>2. QED  BY <2>1, <3>1 DEF RowsInPlace
    <2>2. CASE k = Len(pages) + 1
      <3>1. pages'[k] = page /\ k - 1 = Len(pages)
        BY <1>1, <1>2, <2>2
      <3>2. (k - 1) * PageSize = offset
        BY <1>4, <3>1
      <3>3. QED  BY <1>5, <3>1, <3>2
    <2>3. QED  BY <1>1, <1>2, <2>1, <2>2
  <1>7. QED  BY <1>6 DEF RowsInPlace

LEMMA RowsStep ==
    ASSUME RowsInv, [ReaderNext]_<<vars, readerVars>>, Undisturbed
    PROVE  RowsInv'
  <1>1. ReaderOK' /\ AtEase'
    BY ReaderTypes DEF RowsInv, PlaceInv, SafeInv
  <1>2. PlaceInv'
    BY PlaceStep DEF RowsInv, ReaderNext, ClientStep, QueryScan, FindParent, ReadPage, Leave
  <1>3. pages' = pages \/ pages' = << >> \/ ReadPage
    BY DEF ReaderNext, ClientStep, QueryScan, FindParent, Leave, Stop, readerVars
  <1>4. RowsInPlace'
    BY <1>3, PageInPlace DEF RowsInv, RowsInPlace
  <1>5. QED  BY <1>1, <1>2, <1>4 DEF RowsInv

(* No row is ever read at an offset that is not its own, whatever run the   *)
(* pages of a traversal come from: a list is the beginning of the report at *)
(* any time, whatever crashes and whichever Redis commands fail, and with   *)
(* one worker also if its lock lapses under it.                             *)
THEOREM PagesInPlace ==
    ASSUME Undisturbed
    PROVE  ReaderSpec => []RowsInPlace
  <1>1. ReaderInit => RowsInv
    <2> SUFFICES ASSUME ReaderInit PROVE RowsInv
      OBVIOUS
    <2>1. RowsInPlace
      BY DEF ReaderInit, RowsInPlace
    <2>2. QED  BY <2>1, ReaderStart, PlaceInit DEF ReaderInit, RowsInv
  <1>2. RowsInv => RowsInPlace
    BY DEF RowsInv
  <1>3. QED  BY <1>1, <1>2, RowsStep, PTL DEF ReaderSpec

=============================================================================
