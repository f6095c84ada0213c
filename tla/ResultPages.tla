----------------------------- MODULE ResultPages -----------------------------
(***************************************************************************)
(* ScanResult of web/src/App.tsx: the findings of the scan App shows, page *)
(* by page.  Its props come from WebPoller, so a late poll may take a      *)
(* FINISHED scan back to SCANNING and again to FINISHED under a page       *)
(* request, and a start unmounts the component with its request in flight. *)
(***************************************************************************)
EXTENDS WebPoller

CONSTANTS Vulnerable,       \* scans with findings; total is 0 for the others
          PageCount         \* their number of pages

ASSUME PagesAssumption == Vulnerable \subseteq Scans /\ PageCount \in Nat \ {0}

VARIABLES page,
          rows,             \* vulnerabilities: the page they are of, or NoRows;
                            \* Failed where pageError is set, whatever they are
          loadingPage,
          loaded,           \* the dependencies the load effect last ran for
          fetches           \* page requests in flight; live unless cancelled

view    == <<page, rows, loadingPage, loaded, fetches>>
webVars == <<vars, view>>

Pages  == [scan : Scans, page : 0..PageCount-1]
NoRows == [scan |-> NoScan, page |-> 0]
Failed == [scan |-> NoScan, page |-> 1]

\* finished && total > 0: there are rows, a label and the two buttons
HasRows == shownStatus = "FINISHED" /\ shown \in Vulnerable

ShownPage == [scan |-> shown, page |-> page]

\* [scan.id, finished, total, page]
Deps   == [scan |-> shown, finished |-> shownStatus = "FINISHED", page |-> page]
NotRun == [scan |-> NoScan, finished |-> FALSE, page |-> 0]

Fetch(p, live) == [of |-> p, live |-> live]

PagesInit == /\ Init
             /\ page = 0 /\ rows = NoRows
             /\ loadingPage = FALSE
             /\ loaded = NotRun /\ fetches = {}

-----------------------------------------------------------------------------
(* With scan = null the component is unmounted: its state is gone, and so   *)
(* is whoever would hear of its requests.                                   *)
Unmount == /\ page' = 0 /\ rows' = NoRows
           /\ loadingPage' = FALSE
           /\ loaded' = NotRun /\ fetches' = {}

(* A step of App *)
AppSteps == Next /\ IF shown' = NoScan THEN Unmount ELSE UNCHANGED view

(* The load effect, after the cleanup of its last run cancelled the request *)
(* that run had made                                                        *)
LoadEffect ==
    /\ shown # NoScan /\ loaded # Deps
    /\ loaded' = Deps
    /\ LET cancelled == {Fetch(f.of, FALSE) : f \in fetches}
       IN  IF HasRows
             THEN /\ fetches' = cancelled \cup {Fetch(ShownPage, TRUE)}
                  /\ loadingPage' = TRUE
                  /\ UNCHANGED rows
             ELSE /\ fetches' = cancelled /\ rows' = NoRows
                  /\ UNCHANGED loadingPage
    /\ UNCHANGED <<vars, page>>

(* What getVulnerabilities may come to: the page, no rows because the list  *)
(* or the record has expired, or an error                                   *)
Answer(f) == {NoRows, Failed} \cup (IF status[f.of.scan] = "NONE" THEN {} ELSE {f.of})

(* Mutant of Receive: the callbacks do not look at `cancelled`. *)
ReceiveAnyway(f) == /\ fetches' = fetches \ {f}
                    /\ loadingPage' = FALSE
                    /\ rows' \in Answer(f)
                    /\ UNCHANGED <<vars, page, loaded>>

(* Mutant of Receive: loadingPage is reset in the then callback only. *)
ReceiveUnfinally(f) ==
    /\ fetches' = fetches \ {f}
    /\ IF f.live
         THEN /\ rows' \in Answer(f)
              /\ loadingPage' = (rows' = Failed)
         ELSE UNCHANGED <<rows, loadingPage>>
    /\ UNCHANGED <<vars, page, loaded>>

(* A page request is answered or throws *)
Receive(f) == /\ fetches' = fetches \ {f}
              /\ IF f.live
                   THEN rows' \in Answer(f) /\ loadingPage' = FALSE
                   ELSE UNCHANGED <<rows, loadingPage>>
              /\ UNCHANGED <<vars, page, loaded>>

(* Mutant of NextPage: the button is not disabled on the last page. *)
NextPageUnbounded == /\ HasRows /\ ~loadingPage
                     /\ page' = page + 1
                     /\ UNCHANGED <<vars, rows, loadingPage, loaded, fetches>>

NextPage == /\ HasRows /\ ~loadingPage /\ page < PageCount - 1
            /\ page' = page + 1
            /\ UNCHANGED <<vars, rows, loadingPage, loaded, fetches>>

PrevPage == /\ HasRows /\ ~loadingPage /\ page > 0
            /\ page' = page - 1
            /\ UNCHANGED <<vars, rows, loadingPage, loaded, fetches>>

PagesNext == \/ AppSteps \/ LoadEffect \/ NextPage \/ PrevPage
             \/ \E f \in fetches : Receive(f)

PagesSpec == PagesInit /\ [][PagesNext]_webVars

(* Effects run, and a request is answered or fails. *)
PagesFairness == /\ Fairness
                 /\ WF_webVars(LoadEffect)
                 /\ WF_webVars(\E f \in fetches : f.live /\ Receive(f))

FairPagesSpec == PagesSpec /\ PagesFairness

-----------------------------------------------------------------------------
(* Every variable of ScanResult stays in its range. *)
PagesOK == /\ page \in 0..PageCount-1
           /\ rows \in Pages \cup {NoRows, Failed}
           /\ loadingPage \in BOOLEAN
           /\ loaded \in [scan : Scans \cup {NoScan}, finished : BOOLEAN, page : 0..PageCount-1]
           /\ fetches \subseteq [of : Pages, live : BOOLEAN]

(* "Showing 6-10 of 12" tells the truth: once the effect has run, rows that  *)
(* are neither loading nor excused by an error message are those of the      *)
(* scan and page of the label, whichever request was answered last.          *)
RowsMatchLabel == HasRows /\ loaded = Deps /\ ~loadingPage
                     => rows \in {ShownPage, NoRows, Failed}

(* A page request does not disable the buttons for good, not even one that   *)
(* was cancelled: only the effect of a scan FINISHED again releases them.    *)
PageLoads == HasRows /\ loadingPage ~> ~(HasRows /\ loadingPage)

=============================================================================
