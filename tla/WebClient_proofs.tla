-------------------------- MODULE WebClient_proofs --------------------------
(***************************************************************************)
(* Theorems about WebPoller and ResultPages, for any scans, any number of  *)
(* polls in flight and of pages.                                           *)
(***************************************************************************)
EXTENDS ResultPages, TLAPS

(* NoForeignResult only needs the types with it to be inductive: a reply is *)
(* compared with the scan that is followed when it is delivered.            *)
ClientInv == TypeOK /\ NoForeignResult

PollRecords == [scan : Scans, reply : Answers \cup {"none"}]

-----------------------------------------------------------------------------
\* A bag of polls stays one when a poll is sent or comes back
LEMMA PollSent ==
    ASSUME NEW B, IsABag(B), BagToSet(B) \subseteq PollRecords, NEW x \in PollRecords
    PROVE  IsABag(BagAdd(B, x)) /\ BagToSet(BagAdd(B, x)) \subseteq PollRecords
  <1>1. /\ DOMAIN B \subseteq PollRecords
        /\ \A e \in DOMAIN B : B[e] \in Nat /\ B[e] > 0
    BY DEF IsABag, BagToSet
  <1>2. CASE x \in DOMAIN B
    BY <1>1, <1>2 DEF IsABag, BagToSet, BagAdd
  <1>3. CASE x \notin DOMAIN B
    BY <1>1, <1>3 DEF IsABag, BagToSet, BagAdd
  <1> QED
    BY <1>2, <1>3

LEMMA PollBack ==
    ASSUME NEW B, IsABag(B), BagToSet(B) \subseteq PollRecords, NEW x
    PROVE  IsABag(BagRemove(B, x)) /\ BagToSet(BagRemove(B, x)) \subseteq PollRecords
  <1>1. /\ DOMAIN B \subseteq PollRecords
        /\ \A e \in DOMAIN B : B[e] \in Nat /\ B[e] > 0
    BY DEF IsABag, BagToSet
  <1> QED
    BY <1>1 DEF IsABag, BagToSet, BagRemove

LEMMA NoFailures == 0 \in 0..MaxFailures
  BY ClientAssumption

\* A step of the server changes the status of one scan
LEMMA ServerMoves ==
    ASSUME TypeOK, NEW s \in Scans,
           \/ Server!Begin(s) \/ Server!Finish(s) \/ Server!Fail(s)
           \/ Server!Expire(s) \/ Server!Accept(s)
    PROVE  status' \in [Scans -> InProgress \cup Final \cup {"NONE"}]
  BY DEF TypeOK, InProgress, Final, Server!Begin, Server!Finish, Server!Fail, Server!Expire,
     Server!Accept, Server!Become

\* The reply to a poll of the scan that is followed
LEMMA PollShown ==
    ASSUME ClientInv, NEW p \in PollRecords, p.reply # "none", Deliver(p)
    PROVE  ClientInv'
  <1> USE DEF ClientInv
  <1>1. IsABag(polls') /\ BagToSet(polls') \subseteq PollRecords
    BY PollBack DEF TypeOK, Deliver, PollRecords
  <1>2. UNCHANGED <<status, started, interval, start>>
    BY DEF Deliver
  <1>3. CASE activeScanId # p.scan
    BY <1>1, <1>2, <1>3 DEF Deliver, client, TypeOK, NoForeignResult, PollRecords
  <1>4. CASE activeScanId = p.scan /\ p.reply = "failed"
    <2>1. /\ pollFailures' \in 0..MaxFailures
          /\ pollingStopped' \in BOOLEAN /\ error' = TRUE
          /\ UNCHANGED <<shown, shownStatus, starting, activeScanId>>
      BY <1>4, ClientAssumption DEF Deliver, PollFailed, TypeOK
    <2> QED
      BY <1>1, <1>2, <2>1 DEF TypeOK, NoForeignResult, PollRecords
  <1>5. CASE activeScanId = p.scan /\ p.reply # "failed"
    <2>1. Updated(p.scan, p.reply) /\ UNCHANGED <<starting, activeScanId>>
      BY <1>5 DEF Deliver
    <2>2. CASE p.reply = "NONE"
      BY <1>1, <1>2, <2>1, <2>2 DEF Updated, TypeOK, NoForeignResult, PollRecords
    <2>3. CASE p.reply # "NONE"
      <3>1. p.reply \in InProgress \cup Final /\ p.scan \in Scans
        BY <1>5, <2>3 DEF PollRecords, Answers
      <3>2. /\ shown' = p.scan /\ shownStatus' = p.reply /\ error' = FALSE
            /\ pollFailures' = 0 /\ UNCHANGED pollingStopped
        BY <2>1, <2>3 DEF Updated
      <3>3. shown' # NoScan /\ shownStatus' # "NONE" /\ starting = FALSE
        BY <1>5, <3>1, <3>2, ClientAssumption DEF InProgress, Final, TypeOK, NoForeignResult
      <3>4. TypeOK'
        <4>1. /\ shown' \in Scans /\ shownStatus' \in InProgress \cup Final
              /\ pollFailures' \in 0..MaxFailures /\ error' \in BOOLEAN
          BY <3>1, <3>2, NoFailures
        <4> QED
          BY <1>1, <1>2, <2>1, <3>2, <3>3, <4>1 DEF TypeOK, PollRecords
      <3>5. NoForeignResult'
        BY <1>5, <2>1, <3>2, <3>3 DEF NoForeignResult
      <3> QED
        BY <3>4, <3>5
    <2> QED
      BY <2>2, <2>3
  <1> QED
    BY <1>3, <1>4, <1>5

LEMMA ClientStep ==
    ASSUME ClientInv, [Next]_vars
    PROVE  ClientInv'
  <1> USE DEF ClientInv, client
  <1>1. ASSUME NEW s \in Scans, Advance(s) \/ Vanish(s)
        PROVE  ClientInv'
    <2>1. status' \in [Scans -> InProgress \cup Final \cup {"NONE"}]
      BY <1>1, ServerMoves DEF Advance, Vanish
    <2> QED
      BY <1>1, <2>1 DEF Advance, Vanish, TypeOK, NoForeignResult
  <1>2. CASE RejectInput
    BY <1>2 DEF RejectInput, TypeOK, NoForeignResult
  <1>3. CASE HandleStart
    BY <1>3, NoFailures DEF HandleStart, TypeOK, NoForeignResult
  <1>4. CASE ServeStart
    <2>1. ASSUME NEW s \in Scans \ started, Server!Accept(s)
          PROVE  status' \in [Scans -> InProgress \cup Final \cup {"NONE"}]
      BY <2>1, ServerMoves
    <2> QED
      BY <1>4, <2>1 DEF ServeStart, TypeOK, NoForeignResult
  <1>5. CASE StartReplied
    BY <1>5, ClientAssumption DEF StartReplied, TypeOK, NoForeignResult, InProgress
  <1>6. CASE HandleRetryPolling
    BY <1>6, NoFailures DEF HandleRetryPolling, TypeOK, NoForeignResult
  <1>7. CASE RunEffect
    BY <1>7 DEF RunEffect, Polling, TypeOK, NoForeignResult
  <1>8. CASE Tick
    <2>1. Poll(interval, "none") \in PollRecords
      BY <1>8 DEF Tick, Poll, PollRecords, TypeOK
    <2>2. IsABag(polls') /\ BagToSet(polls') \subseteq PollRecords
      BY <1>8, <2>1, PollSent DEF Tick, TypeOK, PollRecords
    <2> QED
      BY <1>8, <2>2 DEF Tick, TypeOK, NoForeignResult, PollRecords
  <1>9. ASSUME NEW p \in BagToSet(polls), Serve(p)
        PROVE  ClientInv'
    <2>1. PICK answer \in {status[p.scan], "failed"} :
              polls' = BagAdd(BagRemove(polls, p), Poll(p.scan, answer))
      BY <1>9 DEF Serve
    <2>2. p.scan \in Scans /\ Poll(p.scan, answer) \in PollRecords
      BY <1>9 DEF TypeOK, Poll, PollRecords, Answers
    <2>3. PICK left : left = BagRemove(polls, p)
      OBVIOUS
    <2>4. IsABag(left) /\ BagToSet(left) \subseteq PollRecords
      BY <2>3, PollBack DEF TypeOK, PollRecords
    <2>5. IsABag(polls') /\ BagToSet(polls') \subseteq PollRecords
      BY <2>1, <2>2, <2>3, <2>4, PollSent
    <2> QED
      BY <1>9, <2>5 DEF Serve, TypeOK, NoForeignResult, PollRecords
  <1>10. ASSUME NEW p \in BagToSet(polls), Deliver(p)
         PROVE  ClientInv'
    <2>1. p \in PollRecords /\ p.reply # "none"
      BY <1>10 DEF Deliver, TypeOK, PollRecords
    <2> QED
      BY <1>10, <2>1, PollShown
  <1>11. CASE UNCHANGED vars
    BY <1>11 DEF vars, TypeOK, NoForeignResult
  <1> QED
    BY <1>1, <1>2, <1>3, <1>4, <1>5, <1>6, <1>7, <1>8, <1>9, <1>10, <1>11 DEF Next

LEMMA ClientInit == Init => ClientInv
  <1> SUFFICES ASSUME Init PROVE ClientInv
    OBVIOUS
  <1>1. IsABag(polls) /\ BagToSet(polls) = {}
    BY DEF Init, EmptyBag, SetToBag, IsABag, BagToSet
  <1> QED
    BY <1>1, NoFailures DEF Init, ClientInv, TypeOK, NoForeignResult, Answers, InProgress
LEMMA ClientInvariant == Spec => []ClientInv
  <1>1. Init => ClientInv
    BY ClientInit
  <1>2. ClientInv /\ [Next]_vars => ClientInv'
    BY ClientStep
  <1> QED
    BY <1>1, <1>2, PTL DEF Spec

(* Every variable of the polling client stays in its range, with any number *)
(* of polls in flight, answered late and in any order.                      *)
THEOREM ClientTypeCorrect == Spec => []TypeOK
  BY ClientInvariant, PTL DEF ClientInv

(* A poll of a scan the user has left never shows, however late it is       *)
(* answered: the check against activeScanId in App is enough.               *)
THEOREM LatePollsIgnored == Spec => []NoForeignResult
  BY ClientInvariant, PTL DEF ClientInv

-----------------------------------------------------------------------------
(* The request of the load effect's last run is the only one that may still *)
(* be heard; rows that are not loading are of the page it asked for.        *)
LoadedPage == [scan |-> loaded.scan, page |-> loaded.page]

LiveIsLoaded == \A f \in fetches : f.live => f.of = LoadedPage

RowsAreLoaded == ~loadingPage => rows \in {LoadedPage, NoRows, Failed}

PagesInv == ClientInv /\ PagesOK /\ LiveIsLoaded /\ RowsAreLoaded

LEMMA FirstPage == 0 \in 0..PageCount-1
  BY PagesAssumption

\* The component is mounted anew
LEMMA Unmounted ==
    ASSUME Unmount
    PROVE  PagesOK' /\ LiveIsLoaded' /\ RowsAreLoaded'
  BY FirstPage DEF Unmount, PagesOK, LiveIsLoaded, RowsAreLoaded, NotRun, NoRows

LEMMA LoadEffectKeeps ==
    ASSUME PagesInv, LoadEffect
    PROVE  PagesOK' /\ LiveIsLoaded' /\ RowsAreLoaded'
  <1> USE DEF PagesInv, ClientInv
  <1> DEFINE cancelled == {Fetch(f.of, FALSE) : f \in fetches}
  <1>1. shown \in Scans /\ page \in 0..PageCount-1 /\ UNCHANGED <<vars, page>>
    BY DEF LoadEffect, TypeOK, PagesOK
  <1>2. /\ loaded' = Deps
        /\ Deps \in [scan : Scans \cup {NoScan}, finished : BOOLEAN, page : 0..PageCount-1]
        /\ LoadedPage' = ShownPage /\ ShownPage \in Pages
    BY <1>1 DEF LoadEffect, Deps, LoadedPage, ShownPage, Pages
  <1>3. /\ cancelled \subseteq [of : Pages, live : BOOLEAN]
        /\ \A f \in cancelled : f.live = FALSE
    <2>1. ASSUME NEW g \in cancelled
          PROVE  g \in [of : Pages, live : BOOLEAN] /\ g.live = FALSE
      <3>1. PICK f \in fetches : g = Fetch(f.of, FALSE)
        BY <2>1
      <3>2. f.of \in Pages
        BY DEF PagesOK
      <3> QED
        BY <3>1, <3>2 DEF Fetch
    <2> QED
      BY <2>1
  <1>4. CASE HasRows
    <2>1. /\ fetches' = cancelled \cup {Fetch(ShownPage, TRUE)}
          /\ loadingPage' = TRUE /\ rows' = rows
      BY <1>4 DEF LoadEffect
    <2>2. Fetch(ShownPage, TRUE) \in [of : Pages, live : BOOLEAN]
      BY <1>2 DEF Fetch
    <2>3. PagesOK'
      BY <1>1, <1>2, <1>3, <2>1, <2>2 DEF PagesOK
    <2>4. LiveIsLoaded'
      BY <1>2, <1>3, <2>1 DEF LiveIsLoaded, Fetch
    <2> QED
      BY <2>1, <2>3, <2>4 DEF RowsAreLoaded
  <1>5. CASE ~HasRows
    <2>1. fetches' = cancelled /\ rows' = NoRows /\ UNCHANGED loadingPage
      BY <1>5 DEF LoadEffect
    <2>2. PagesOK'
      BY <1>1, <1>2, <1>3, <2>1 DEF PagesOK
    <2> QED
      BY <1>3, <2>1, <2>2 DEF LiveIsLoaded, RowsAreLoaded
  <1> QED
    BY <1>4, <1>5

LEMMA ReceiveKeeps ==
    ASSUME PagesInv, NEW f \in fetches, Receive(f)
    PROVE  PagesOK' /\ LiveIsLoaded' /\ RowsAreLoaded'
  <1> USE DEF PagesInv
  <1>1. f.of \in Pages /\ f.live \in BOOLEAN
    BY DEF PagesOK
  <1>2. fetches' = fetches \ {f} /\ UNCHANGED <<page, loaded>>
    BY DEF Receive
  <1>3. CASE f.live
    <2>1. loadingPage' = FALSE /\ rows' \in {NoRows, Failed, f.of}
      BY <1>3 DEF Receive, Answer
    <2>2. f.of = LoadedPage
      BY <1>3 DEF LiveIsLoaded
    <2>3. LoadedPage' = LoadedPage
      BY <1>2 DEF LoadedPage
    <2> QED
      BY <1>1, <1>2, <2>1, <2>2, <2>3 DEF PagesOK, LiveIsLoaded, RowsAreLoaded
  <1>4. CASE ~f.live
    BY <1>2, <1>4 DEF Receive, PagesOK, LiveIsLoaded, RowsAreLoaded, LoadedPage
  <1> QED
    BY <1>3, <1>4

LEMMA PagesStep ==
    ASSUME PagesInv, [PagesNext]_webVars
    PROVE  PagesInv'
  <1> USE DEF PagesInv
  <1>1. CASE AppSteps
    <2>1. ClientInv'
      BY <1>1, ClientStep DEF AppSteps
    <2>2. CASE Unmount
      BY <2>1, <2>2, Unmounted
    <2>3. CASE UNCHANGED view
      BY <2>1, <2>3 DEF view, PagesOK, LiveIsLoaded, RowsAreLoaded, LoadedPage
    <2> QED
      BY <1>1, <2>2, <2>3 DEF AppSteps
  <1>2. ASSUME UNCHANGED vars
        PROVE  ClientInv'
    BY <1>2, ClientStep
  <1>3. CASE LoadEffect
    BY <1>2, <1>3, LoadEffectKeeps DEF LoadEffect
  <1>4. CASE NextPage \/ PrevPage
    <2>1. page' \in 0..PageCount-1
      BY <1>4, PagesAssumption DEF NextPage, PrevPage, PagesOK
    <2>2. UNCHANGED <<vars, rows, loadingPage, loaded, fetches>>
      BY <1>4 DEF NextPage, PrevPage
    <2> QED
      BY <1>2, <2>1, <2>2 DEF PagesOK, LiveIsLoaded, RowsAreLoaded, LoadedPage
  <1>5. ASSUME NEW f \in fetches, Receive(f)
        PROVE  PagesInv'
    BY <1>2, <1>5, ReceiveKeeps DEF Receive
  <1>6. CASE UNCHANGED webVars
    BY <1>2, <1>6 DEF webVars, view, PagesOK, LiveIsLoaded, RowsAreLoaded, LoadedPage
  <1> QED
    BY <1>1, <1>3, <1>4, <1>5, <1>6 DEF PagesNext

LEMMA PagesInvariant == PagesSpec => []PagesInv
  <1>1. PagesInit => PagesInv
    <2> SUFFICES ASSUME PagesInit PROVE PagesInv
      OBVIOUS
    <2>1. ClientInv
      BY ClientInit DEF PagesInit
    <2>2. PagesOK /\ LiveIsLoaded /\ RowsAreLoaded
      BY FirstPage DEF PagesInit, PagesOK, LiveIsLoaded, RowsAreLoaded, NotRun, NoRows
    <2> QED
      BY <2>1, <2>2 DEF PagesInv
  <1>2. PagesInv /\ [PagesNext]_webVars => PagesInv'
    BY PagesStep
  <1> QED
    BY <1>1, <1>2, PTL DEF PagesSpec

(* Every variable of ScanResult stays in its range: paging does not leave   *)
(* the pages there are, whatever scan is shown in place of the last one.    *)
THEOREM PagesTypeCorrect == PagesSpec => []PagesOK
  BY PagesInvariant, PTL DEF PagesInv

(* The label above the rows is true, whichever page request is answered     *)
(* last and whatever polls and starts do to the scan under it: cancelling   *)
(* the requests of earlier runs of the effect is enough.                    *)
THEOREM LabelIsTrue == PagesSpec => []RowsMatchLabel
  <1>1. PagesInv => RowsMatchLabel
    BY DEF PagesInv, RowsAreLoaded, LoadedPage, RowsMatchLabel, ShownPage, Deps
  <1> QED
    BY <1>1, PagesInvariant, PTL

(* ScanResult does not disturb App: what holds of WebPoller holds under it. *)
THEOREM AppUnderPages == PagesSpec => [](TypeOK /\ NoForeignResult)
  BY PagesInvariant, PTL DEF PagesInv, ClientInv


=============================================================================
