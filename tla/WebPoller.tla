------------------------------ MODULE WebPoller ------------------------------
(***************************************************************************)
(* The polling client: App of web/src/App.tsx with the requests of         *)
(* web/src/api.ts.  The interval fires whether or not earlier polls were   *)
(* answered, and nothing cancels a poll that was sent, so replies arrive   *)
(* late, in any order, and for scans the user has left.                    *)
(*                                                                         *)
(* A poll is a record of the scan it asks for and of the reply on its way  *)
(* back; the server answers it with the status at that moment.  Polls have *)
(* no identity: those in flight are a bag.                                 *)
(***************************************************************************)
EXTENDS Naturals, Bags, BagsExt

CONSTANTS Scans,            \* ids the server may return to startScan
          NoScan,
          MaxPolls,         \* bound: polls in flight at once
          MaxFailures       \* MAX_CONSECUTIVE_POLL_FAILURES

ASSUME ClientAssumption == /\ NoScan \notin Scans
                           /\ {MaxPolls, MaxFailures} \subseteq Nat \ {0}

VARIABLES status,           \* status[s]: what the server would answer
          started,          \* scans the server has accepted
          shown,            \* scan.id, NoScan for null
          shownStatus,      \* scan.status
          starting, pollingStopped,
          error,            \* there is a message (whichever)
          activeScanId,     \* the ref of that name
          pollFailures,
          interval,         \* scan the interval that is set polls, NoScan
          start,            \* reply to startScan on its way: a scan, "failed"
          polls             \* the bag of polls in flight

client == <<shown, shownStatus, starting, pollingStopped, error, activeScanId, pollFailures>>
vars == <<status, started, client, interval, start, polls>>

InProgress == {"QUEUED", "SCANNING"}
Final      == {"FINISHED", "FAILED"}
Answers    == InProgress \cup Final \cup {"NONE", "failed"}

Poll(s, reply) == [scan |-> s, reply |-> reply]

Tracked == shown # NoScan /\ shownStatus \in InProgress

\* The effect sets an interval
Polling == Tracked /\ ~pollingStopped

\* The form is disabled
Busy == starting \/ Polling

CanRetryPolling == pollingStopped /\ Tracked /\ error

Init == /\ status = [s \in Scans |-> "NONE"] /\ started = {}
        /\ shown = NoScan /\ shownStatus = "NONE"
        /\ starting = FALSE /\ pollingStopped = FALSE /\ error = FALSE
        /\ activeScanId = NoScan /\ pollFailures = 0
        /\ interval = NoScan /\ start = "none"
        /\ polls = EmptyBag

-----------------------------------------------------------------------------
(* The server does what ScanContract lets it do before the first fault: it  *)
(* begins a scan, gives it an outcome, and forgets it.                      *)
Server == INSTANCE ScanContract WITH
    MaxBatches <- 0,
    total  <- [s \in Scans |-> 0],
    pages  <- [s \in Scans |-> << >>],
    reason <- [s \in Scans |-> status[s] = "FAILED"],
    faulty <- FALSE

Advance(s) == /\ Server!Begin(s) \/ Server!Finish(s) \/ Server!Fail(s)
              /\ UNCHANGED <<started, client, interval, start, polls>>

Vanish(s) == /\ Server!Expire(s)
             /\ UNCHANGED <<started, client, interval, start, polls>>

-----------------------------------------------------------------------------
(* handleStart on a URL that isValidRepositoryUrl refuses: a message, and   *)
(* the scan of before stays                                                 *)
RejectInput == /\ ~Busy
               /\ error' = TRUE
               /\ UNCHANGED <<shown, shownStatus, starting, pollingStopped, activeScanId,
                              pollFailures, status, started, interval, start, polls>>

(* handleStart up to its await *)
HandleStart == /\ ~Busy
               /\ starting' = TRUE /\ error' = FALSE
               /\ shown' = NoScan /\ shownStatus' = "NONE"
               /\ pollingStopped' = FALSE /\ pollFailures' = 0
               /\ activeScanId' = NoScan
               /\ start' = "sent"
               /\ UNCHANGED <<status, started, interval, polls>>

ServeStart == /\ start = "sent"
              /\ \/ \E s \in Scans \ started :
                       /\ started' = started \cup {s}
                       /\ Server!Accept(s)
                       /\ start' = s
                 \/ start' = "failed" /\ UNCHANGED <<started, status>>
              /\ UNCHANGED <<client, interval, polls>>

StartReplied ==
    /\ start \in Scans \cup {"failed"}
    /\ start' = "none" /\ starting' = FALSE
    /\ IF start = "failed"
         THEN error' = TRUE /\ UNCHANGED <<shown, shownStatus, activeScanId>>
         ELSE /\ shown' = start /\ shownStatus' = "QUEUED"
              /\ activeScanId' = start
              /\ UNCHANGED error
    /\ UNCHANGED <<status, started, pollingStopped, pollFailures, interval, polls>>

(* The effect runs after a render: it clears the interval of the state that *)
(* was rendered before and sets one for the new state.  Until then the old  *)
(* interval may fire once more.                                             *)
RunEffect == /\ interval' = IF Polling THEN shown ELSE NoScan
             /\ interval' # interval
             /\ UNCHANGED <<status, started, client, start, polls>>

(* Mutant of Tick: SCANNING is missing from IN_PROGRESS_STATUSES. *)
TickWhileQueued ==
    /\ interval # NoScan /\ shownStatus = "QUEUED" /\ BagCardinality(polls) < MaxPolls
    /\ polls' = BagAdd(polls, Poll(interval, "none"))
    /\ UNCHANGED <<status, started, client, interval, start>>

(* The interval fires *)
Tick == /\ interval # NoScan /\ BagCardinality(polls) < MaxPolls
        /\ polls' = BagAdd(polls, Poll(interval, "none"))
        /\ UNCHANGED <<status, started, client, interval, start>>

(* The server answers a poll, or graphqlRequest will throw *)
Serve(p) == /\ p.reply = "none"
            /\ \E answer \in {status[p.scan], "failed"} :
                   polls' = BagAdd(BagRemove(polls, p), Poll(p.scan, answer))
            /\ UNCHANGED <<status, started, client, interval, start>>

(* Mutant of Updated: a scan that is gone is shown like any other. *)
UpdatedUnchecked(s, updated) ==
    /\ pollFailures' = 0 /\ error' = FALSE
    /\ shown' = s /\ shownStatus' = updated
    /\ UNCHANGED pollingStopped

(* The two callbacks of a poll of s *)
Updated(s, updated) ==
    IF updated = "NONE"
      THEN /\ pollingStopped' = TRUE /\ error' = TRUE
           /\ UNCHANGED <<shown, shownStatus, pollFailures>>
      ELSE /\ pollFailures' = 0 /\ error' = FALSE
           /\ shown' = s /\ shownStatus' = updated
           /\ UNCHANGED pollingStopped

PollFailed ==
    /\ pollFailures' = IF pollFailures < MaxFailures THEN pollFailures + 1 ELSE pollFailures
    /\ pollingStopped' = (pollingStopped \/ pollFailures' = MaxFailures)
    /\ error' = TRUE
    /\ UNCHANGED <<shown, shownStatus>>

(* Mutant of Deliver: the reply is not checked against activeScanId. *)
DeliverAnyway(p) ==
    /\ p.reply # "none"
    /\ polls' = BagRemove(polls, p)
    /\ IF p.reply = "failed" THEN PollFailed ELSE Updated(p.scan, p.reply)
    /\ UNCHANGED <<status, started, starting, activeScanId, interval, start>>

Deliver(p) ==
    /\ p.reply # "none"
    /\ polls' = BagRemove(polls, p)
    /\ IF activeScanId = p.scan
         THEN /\ IF p.reply = "failed" THEN PollFailed ELSE Updated(p.scan, p.reply)
              /\ UNCHANGED <<starting, activeScanId>>
         ELSE UNCHANGED client
    /\ UNCHANGED <<status, started, interval, start>>

HandleRetryPolling == /\ CanRetryPolling
                      /\ pollFailures' = 0 /\ error' = FALSE /\ pollingStopped' = FALSE
                      /\ UNCHANGED <<shown, shownStatus, starting, activeScanId,
                                     status, started, interval, start, polls>>

Next == \/ \E s \in Scans : Advance(s) \/ Vanish(s)
        \/ RejectInput \/ HandleStart \/ ServeStart \/ StartReplied \/ HandleRetryPolling \/ RunEffect
        \/ Tick \/ \E p \in BagToSet(polls) : Serve(p) \/ Deliver(p)

Spec == Init /\ [][Next]_vars

(* Renders happen, the interval fires, and requests go on being answered or *)
(* failing, in any order.  Neither the user nor the server owes anything.   *)
Fairness == /\ WF_vars(RunEffect) /\ WF_vars(Tick)
            /\ WF_vars(\E p \in BagToSet(polls) : Serve(p))
            /\ WF_vars(\E p \in BagToSet(polls) : Deliver(p))

FairSpec == Spec /\ Fairness

-----------------------------------------------------------------------------
(* Every variable stays in its range. *)
TypeOK == /\ status \in [Scans -> InProgress \cup Final \cup {"NONE"}]
          /\ started \subseteq Scans
          /\ {shown, activeScanId, interval} \subseteq Scans \cup {NoScan}
          /\ shownStatus \in InProgress \cup Final \cup {"NONE"}
          /\ shown = NoScan <=> shownStatus = "NONE"
          /\ {starting, pollingStopped, error} \subseteq BOOLEAN
          /\ pollFailures \in 0..MaxFailures
          /\ start \in Scans \cup {"none", "sent", "failed"}
          /\ IsABag(polls)
          /\ BagToSet(polls) \subseteq [scan : Scans, reply : Answers \cup {"none"}]

(* A poll of a scan the user has left never shows: not while the next scan  *)
(* is being started, and not in place of it.                                *)
NoForeignResult == /\ shown = activeScanId
                   /\ starting => shown = NoScan

(* The outcome of a scan is shown for good: if it has one and goes on being *)
(* followed, from some point on the page says what the server says, however *)
(* many polls failed, overlapped or came back late.                         *)
OutcomeShown ==
    \A s \in Scans :
        <>[](status[s] \in Final /\ activeScanId = s /\ ~pollingStopped)
            => <>[](shownStatus = status[s])

(* "so stop and say why" (App.tsx:46-47), "stop retrying automatically and  *)
(* let the user decide" (App.tsx:17-18): a scan in progress that is not     *)
(* polled any more comes with a message, and with it the Retry button.      *)
StopIsTold == pollingStopped /\ Tracked => CanRetryPolling

=============================================================================
