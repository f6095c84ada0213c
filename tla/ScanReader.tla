----------------------------- MODULE ScanReader -----------------------------
(***************************************************************************)
(* A client of the GraphQL API that reads the findings of a scan, page     *)
(* after page, while the backend of ScanSystem goes on: the scan it reads  *)
(* may be run again, fail or expire between two pages, and between the two *)
(* Redis commands of one page.                                             *)
(***************************************************************************)
EXTENDS ScanSystem, SequencesExt

CONSTANT PageSize       \* limit, from 1 to 200

ASSUME PageAssumption == PageSize \in Nat \ {0}

VARIABLES reading,      \* the scan whose findings are read, NoScan
          total,        \* criticalVulnerabilityCount, as the client read it
          found,        \* the request under way has found its scan
          pages         \* the pages read so far

readerVars == <<reading, total, found, pages>>

ReaderInit == /\ Init
              /\ reading = NoScan /\ total = 0 /\ found = FALSE /\ pages = << >>

offset == Len(pages) * PageSize

Stop == reading' = NoScan /\ total' = 0 /\ found' = FALSE /\ pages' = << >>

-----------------------------------------------------------------------------
(* scan(id), of a scan that says it has findings.  The resolver does not    *)
(* ask for the status, and a repeated run keeps the count of the first.     *)
QueryScan(s) == /\ reading = NoScan
                /\ record[s].count > 0
                /\ reading' = s /\ total' = record[s].count
                /\ UNCHANGED <<found, pages, vars>>

(* Mutant of FindParent: the client asks for pages past the total. *)
FindParentUnbounded ==
    /\ reading # NoScan /\ ~found
    /\ IF record[reading] = Missing
         THEN Stop
         ELSE found' = TRUE /\ UNCHANGED <<reading, total, pages>>
    /\ UNCHANGED vars

(* The next page is the query scan(id) { criticalVulnerabilities }: first   *)
(* the parent; without one the answer is null and the client stops ...      *)
FindParent == /\ reading # NoScan /\ ~found /\ offset < total
              /\ IF record[reading] = Missing
                   THEN Stop
                   ELSE found' = TRUE /\ UNCHANGED <<reading, total, pages>>
              /\ UNCHANGED vars

\* LRANGE first-1 last-1; what lies beyond the list is cut off
Lrange(list, first, last) ==
    SubSeq(list, first, IF last < Len(list) THEN last ELSE Len(list))

(* Mutant of Window: LRANGE taken to exclude its upper end. *)
WindowTooLong(list) == Lrange(list, offset + 1, offset + PageSize + 1)

Window(list) == Lrange(list, offset + 1, offset + PageSize)

(* ... then the list. *)
ReadPage == /\ found
            /\ pages' = Append(pages, Window(vulns[reading]))
            /\ found' = FALSE
            /\ UNCHANGED <<reading, total, vars>>

AllRead == reading # NoScan /\ offset >= total

Leave == AllRead /\ Stop /\ UNCHANGED vars

ClientStep == FindParent \/ ReadPage \/ Leave \/ \E s \in Scans : QueryScan(s)

ReaderNext == (Next /\ UNCHANGED readerVars) \/ ClientStep

ReaderSpec == ReaderInit /\ [][ReaderNext]_<<vars, readerVars>>

-----------------------------------------------------------------------------
(* Every variable of the client stays in its range, and it never asks for a *)
(* page past the last one.                                                  *)
ReaderOK == /\ reading \in Scans \cup {NoScan}
            /\ total \in 0..MaxBatches
            /\ found \in BOOLEAN
            /\ found => offset < total
            /\ pages \in Seq(Seq(1..MaxBatches))

(* "element N is the Nth finding the parser saw, on every read": whatever   *)
(* run the pages of one traversal come from, also one that is refilling the *)
(* list or has failed, no row is read at an offset that is not its own.     *)
RowsInPlace ==
    \A k \in DOMAIN pages :
        \A i \in DOMAIN pages[k] : pages[k][i] = (k - 1) * PageSize + i

(* A traversal misses and repeats nothing: its pages, put together, are the *)
(* findings that were counted, unless the scan was run again or failed      *)
(* meanwhile, or its list has expired.                                      *)
TraversalWhole ==
    AllRead /\ stalls[reading] = 0 /\ Finished(reading) /\ expiry[reading] # "lapsed"
        => FlattenSeq(pages) = Full(total)

=============================================================================
