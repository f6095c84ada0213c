# Code Guardian: TLA+ models, checks and proofs

Code Guardian scans a public GitHub repository for CRITICAL vulnerabilities: a GraphQL mutation
queues a job, a worker clones the repository, runs trivy, streams trivy's report into Redis, and a
web page polls for the outcome. This directory models the parts that keep state and run
concurrently, checks them with TLC on small instances, and proves the most important facts with
TLAPS for instances of any size. Paths below are those of the repository, under `src/`.

## Inventory

| Component | State | Operations | Interacts with |
|---|---|---|---|
| scan service (`scan.service.ts`, `with-timeout.ts`) | none but its calls in flight | `startScan`: read queue depth, create record, add job, each an await; `getScan`, `getVulnerabilities` read | repository, queue |
| scan repository (`scan.repository.ts`) | Redis: record `scan:<id>`, list `scan:<id>:vulns`, both with a TTL | `create`, `updateStatus`, `markFinished`, `markFailed` (the last three through `patch`: GET, then SET), `appendVulnerabilities` (RPUSH, then EXPIRE), `deleteVulnerabilities` | Redis |
| job queue (BullMQ, external) | jobs, locks, stalled counters | `add`, `getWaitingCount`, take, settle, stalled check | service, worker |
| scan processor (`scan.processor.ts`) | its run: scan id, temporary paths | `process`, `cleanup` | repository, cloner, runner, parser |
| git cloner, trivy runner (`trivy/*.ts`) | temporary directory, child processes, timers | `cloneToTemp`, `runFilesystemScan` | git, trivy, file system |
| trivy stream parser (`trivy-stream-parser.service.ts`) | buffer, chain of writes, paused or not | `extractCriticalVulnerabilities` and its event handlers | report file, sink (the repository) |
| web client (`web/src/App.tsx`, `api.ts`) | shown scan, polling state, polls in flight | start, poll, retry, page | GraphQL API |
| GraphQL layer (`scan.resolver.ts`, `scan.mapper.ts`, `dto/`) | none | `startScan`; `scan`; `criticalVulnerabilities`, a page of findings | service |
| error codes (`common/errors/*.ts`) | none | code of a failure, text for the client | cloner, runner, parser, worker |
| throttling, configuration, bootstrap, scripts | none (framework, wiring, test tooling) | | |

What is hard here: several processes and one event loop each; commands that fail, fail after they
were executed, or are sent twice; crashes between any two awaits, with BullMQ handing the job to
somebody else; an `add` that times out and runs later; child processes that hang or outlive their
timeout; stream events against a promise chain; replies that overtake each other. `PROJECT.json`
lists each of these hazards at its line, with the properties that watch it.

What makes each component correct:

- *service*: a job never exists without its record; an accepted scan is not forgotten.
- *repository and worker*: one writer per record, so that `patch` without WATCH loses no update;
  FINISHED never shows a partial list; a failed scan keeps no findings; a list does not stay
  without a TTL; every accepted scan gets an outcome.
- *parser*: every finding reaches the sink once and in order, memory is bounded, the call settles.
- *cloner, runner, cleanup*: temporary paths go whatever fails, no child is abandoned, the only
  worker is freed.
- *reads*: a row is read at its own offset, and a traversal misses and repeats none.
- *error codes*: the client is told what happened, whatever words are in the message.
- *web client*: it shows the scan it follows, and in the end its outcome.

## Modules

```
ScanEnvironment    names, bounds, kinds of fault
  ScanRepository   record, findings list, TTLs          scan.repository.ts
  ScanQueue        BullMQ as src/scan uses it            (external)
    ScanService    startScan                             scan.service.ts, with-timeout.ts
    ScanProcessor  process(), await by await             scan.processor.ts, patch, append
      ScanSystem   all of them, crashes, stalls, expiry; fairness and properties
        MCScanSystem        symmetry for TLC
        ScanReader          a client paging through findings  scan.resolver.ts, getVulnerabilities
          MCScanReader      symmetry for TLC
          ScanReader_proofs       what the client reads, row by row
            ScanTraversal_proofs  what it has read in the end
        ScanSystem_proofs         types, locks, records, findings
          ScanOutcome_proofs      completed jobs, accepted scans
          ScanRefinement_proofs   ScanContract and RunStages
ScanContract       what a client is promised; ScanSystem implements it
RunStages          try, catch, finally of process(); ScanSystem and ScanPipeline implement it
StreamParser       the parser's event handlers           trivy-stream-parser.service.ts
FindingsCopy       the sequential copy it implements
  StreamParser_proofs
ScanPipeline       children, timers, temporary files     scan.processor.ts, git-cloner, trivy-runner
  ScanPipeline_proofs
WebPoller          App and its polls, on ScanContract    web/src/App.tsx, api.ts
  ResultPages      ScanResult and its page requests      web/src/App.tsx, api.ts
    WebClient_proofs
```

`PROJECT.json` maps every definition to the lines it stands for.

**ScanSystem.** One step is one await: everything a handler does between two awaits happens at
once, and every Redis command is atomic, so other clients, other workers and crashes come in
exactly where the code lets them. `pc[w]` names the await at which worker `w` is suspended,
`snap[w]` is `existing` in `patch`, `pushed[w]` the number of batches handed to the sink. A command
either resolves, or (`Fault("redis")`) rejects after it was executed or without having been; every
rejection goes where the code's `catch` sends it. `tail[w]` is a sink write that the stream's
failure has left in flight; its commands reach Redis before the catch block's on the same
connection. Findings are counted in batches, batch *n* of a report being the number *n*, so that
losing, repeating or reordering one is visible.

**Faults** are injected by kind and counted; a configuration chooses kinds and number: `crash` (a
process dies, with any subset of the calls it was serving and of the commands it had not sent),
`redis`, `resend` (ioredis repeats a command after a reconnection), `lockLoss` (a lock lapses under
a live worker), `ttl` (a key expires under a scan at work; without it keys expire only when no step
of the scan is left).

**ScanReader** adds one client of the API that reads the findings of a scan page by page. A page is
a GET (the resolver's parent) and an LRANGE, and the backend goes on between the two and between
pages. It starts from any record that has a count, because the resolver does not ask for the status
and a repeated run keeps the count of the first.

**StreamParser** lets `data`, `error`, `end` and the settlement of writes happen in any order Node
allows, over every report of up to `MaxTargets` targets with up to `MaxTarget` findings each.

**ScanPipeline** is the same `process()` seen from disk and process table. git is interrupted by
simple-git's block timeout and awaited; trivy is signalled and not awaited. `cleanup`'s two
removals settle independently. An error is its code, `foreign` if it is not a `ScanEngineError`;
where the code is read from a message (`Sniff`), the message is the set of deciding words in it,
any of them by chance, since it quotes URL and paths. `failure` remembers what really happened.

**RunStages** is the skeleton of `process()`: start, engine, parse, finish, with `record` (the catch
block) and `cleanup` (the finally block). Both `ScanSystem`, whose engine step hides the children,
and `ScanPipeline`, whose Redis steps hide the commands, implement it (`RunsInStages`). That makes
their steps comparable: every way through one view is a way through the same blocks in the other,
and `RunEngine` settling, which `ScanSystem` assumes, is `WorkerFreed` of `ScanPipeline`.

**WebPoller** separates React's effect (`RunEffect`) from the state it depends on, so a stale
interval may fire once more. Polls have no identity: those in flight are a bag, answered and
delivered in any order. Its server is `ScanContract`, by `INSTANCE`, restricted to what it allows
before the first fault; `KeepsContract` is what entitles it to that. Which message is shown does
not matter to any property, so `error` says whether there is one.

**ResultPages** adds `ScanResult`, whose props are the state of `WebPoller`: a step of App leaves
its state alone unless it renders `scan = null`, which unmounts it. The load effect is a step after
the render that made it necessary; its cleanup marks the earlier request as cancelled, and that
request is still answered some time. `rows` stands for two variables of the code: it is the page
the rows in the table are of, or `Failed` while `pageError` is set, when the rows beside the message
are left out.

## Runs

Bounds are small because every property is about one scan, one worker, or a pair of them; a second
of each, two faults and two batches give every interleaving the code distinguishes (a repeated run
after a crash, a second fault while handling the first, a list that is partial). Three batches in
pages of two make the last page a short one.

| Run | Instance | Shows |
|---|---|---|
| `faults` | 2 scans, 2 workers, 2 batches, 2 faults of crash, redis | `TypeOK`, `OneWriter`, `PatchIsAtomic`, `RecordBeforeJob`, `FinishedIsComplete`, `CompletedIsClean`; `ScanSystem` refines `ScanContract` (`KeepsContract`) and `RunStages` (`RunsInStages`) |
| `single_fault` | same, one fault of crash, resend, ttl; fairness | `NoneForgotten`, `CompletedIsClean`, `FindingsExpire`, and `AcceptedScanEnds` (liveness) |
| `one_process` | 1 worker, 2 scans, 3 batches read 2 at a time by one client, 2 faults of crash, redis, lockLoss | in docker-compose's deployment a lost lock is harmless: `PatchIsAtomic`, `FinishedIsComplete`; for the client `ReaderOK`, `RowsInPlace`, `TraversalWhole` |
| `parser` | up to 4 targets of up to 3 findings, flush size 3; fairness | `TypeOK`, `MemoryBounded`, `Settles`; the handlers implement `FindingsCopy` (`CopiesFindings`) |
| `pipeline` | 2 jobs, 2 faults (failing removals, crashes); fairness | `TypeOK`, `LeftoversAccounted`, `NoStrayChild`, `FailureReportedAsIs`, `WorkerFreed`; `ScanPipeline` refines `RunStages` (`RunsInStages`) |
| `web` | 2 scans, one with 2 pages of findings, 2 polls in flight, 2 failures to stop; fairness | `TypeOK`, `NoForeignResult`, `OutcomeShown`; for `ScanResult` `PagesOK`, `RowsMatchLabel`, `PageLoads` |
| `queue_cap`, `outcome`, `stuck`, `immortal`, `endless_clone`, `stranded` | as small as shows it | a sentence of the repository that the code does not keep, see Findings |

The passing runs set `CHECK_DEADLOCK FALSE`: a system all of whose scans have ended may stop, and
injected faults run out. Symmetry (over scans and workers) is used only in runs without liveness.
Bounded counters are `faults`, `stalls` (by BullMQ's `maxStalledCount`), `pushed` (`MaxBatches`),
`run` (`MaxRuns`), the polls in flight of `WebPoller` (`MaxPolls`), and `pollFailures`, which stops at the limit it is
compared with.

Each property of a passing run has a mutant in `PROJECT.json`: a plausible bug in one mapped
definition (a dropped guard, a swallowed error, a skipped clear) under which TLC refutes it.

### The contract

`ScanContract` is the client's view: status, count, pages and the presence of a reason, changed
atomically. Before the first fault the status moves QUEUED, SCANNING, FINISHED or FAILED and never
back, findings appear whole and in order together with FINISHED, and the reason together with
FAILED. After a fault a repeated run may take an outcome back, its failure may replace it, and its
success keeps the old reason; the promise about whole findings is not weakened.

### Fairness, and why the code justifies it

- A started call goes on, and a run goes on: every Redis command answers or rejects
  (`maxRetriesPerRequest: 3`), the enqueueing is cut off by `withTimeout`, clone and trivy have
  timers, the parser settles (run `parser`). Which branch is taken is never fair.
- A free worker takes a waiting job (BullMQ blocks on the list), and the stalled check recurs.
- After a crash the process comes back. `docker-compose.yml` sets no restart policy, so this is an
  assumption about the operator.
- Parser: the file is read on while the stream flows, and a write settles.
- Pipeline: timers fire and an interrupted git exits. Nothing is assumed of a child left alone,
  except that trivy's `close` comes with its exit (nobody inherits its stderr). `WorkerFreed`
  excepts a git that never stops talking; `endless_clone` shows why.
- Web: renders happen, the interval fires, and requests go on being answered or failing (some request,
  not each one: a poll may be overtaken for ever). Nothing is assumed of
  the user, of the server's scan, or of the network's success.

## Proofs

The theorems hold for any number of scans, workers, batches, faults, targets, runs, polls and pages,
from the named assumptions in the modules (the "none" values are not members of their sets, bounds
and sizes are naturals) and, where the table says so, a condition on the kinds of fault.
`LocksKept` is: no `lockLoss`, or only one worker. `Undisturbed` is: only `crash`, `redis` and
`lockLoss`, and `LocksKept`; it covers the `faults` run and docker-compose's deployment.
`WithinPatience` is: no `redis`, `LocksKept`, and at most `MaxStalledCount` faults.

| Module | Theorem | Condition | Says |
|---|---|---|---|
| `ScanSystem_proofs` | `TypeCorrect` | none | `[](TypeOK /\ RunShape)` |
| | `SingleWriter` | `LocksKept` | `[]OneWriter` |
| | `RecordFirst` | no `ttl` | `[]RecordBeforeJob` |
| | `AtomicPatches` | `LocksKept`, no `ttl` | `[]PatchIsAtomic` |
| | `WholeFindings` | `Undisturbed` | `[]FinishedIsComplete` |
| `ScanOutcome_proofs` | `CompletedClean` | `LocksKept` | `[]CompletedIsClean` |
| | `NoScanForgotten` | `WithinPatience` | `[]NoneForgotten` |
| | `ListsExpire` | `WithinPatience` | `[]FindingsExpire` |
| `ScanRefinement_proofs` | `StagesKept` | none | `RunsInStages`: implements `RunStages` |
| | `ContractKept` | `Undisturbed` | `KeepsContract`: implements `ScanContract` |
| `ScanReader_proofs` | `ReaderCorrect` | none | `[]ReaderOK` |
| | `PagesInPlace` | `Undisturbed` | `[]RowsInPlace` |
| `ScanTraversal_proofs` | `TraversalsWhole` | `Undisturbed` | `[]TraversalWhole` |
| `StreamParser_proofs` | `ParserTypeCorrect`, `ParserMemory` | none | `[]TypeOK`, `[]MemoryBounded` |
| | `CopyRefined` | none | `CopiesFindings`: implements `FindingsCopy` |
| `ScanPipeline_proofs` | `PipelineTypeCorrect` | none | `[]TypeOK` |
| | `ChildrenWaitedFor` | none | `[]NoStrayChild` |
| | `ReasonReachesClient` | none | `[]FailureReportedAsIs` |
| | `LeftoversPaidFor` | none | `[]LeftoversAccounted` |
| | `PipelineInStages` | none | `RunsInStages`: implements `RunStages` |
| `WebClient_proofs` | `ClientTypeCorrect`, `LatePollsIgnored` | none | `[]TypeOK`, `[]NoForeignResult` |
| | `PagesTypeCorrect`, `LabelIsTrue` | none | `[]PagesOK`, `[]RowsMatchLabel` |
| | `AppUnderPages` | none | the first two with `ScanResult` mounted |

The conditions are needed: with two processes and `lockLoss` TLC refutes `OneWriter` and
`PatchIsAtomic`; a resent RPUSH refutes `FinishedIsComplete`; the runs `stuck` and `immortal` show
what a failing command does to the promises `NoneForgotten` and `FindingsExpire` are about.

Every strengthening below was checked by TLC before it was proved.

**Ownership.** `TypeOK` alone is not inductive: a batch in flight could have number 0, and a run no
scan. `RunShape` adds that a worker is idle exactly when it has no scan, that a batch being written
exists, and that a leftover write only outlives the parser in the catch block. `JobHeld` says that
a run's job has been added and is not completed, and that it is locked by the run's worker if it is
active; `HoldsLock` (a run's job is active and locked by its worker, from take to
settlement or crash) makes whoever stalls or takes a job find its lock free. `Owned` is the two
together, or, if there is only one process, `JobHeld` alone: there a lapsed lock lets the job go
back to a worker that is still busy with it, and cannot take it.

**Records and findings.** `JobAfterRecord` (a call still to create its record has no job, now or
later) shows that `create` never overwrites a record under a worker; `RecordHeld` adds that whoever
needs a record finds it. `JobAfterRecord` and `Owned` are
enough for `AtomicPatches`, repeated commands included: between the GET and the SET nobody else
writes (`SnapOK`). `RunOK` follows one run through the code: at a SET the snapshot is the record;
from the clear on, until the outcome, the record does not read FINISHED; between two batches the
list is exactly what was handed over. `ListOK` is `FinishedIsComplete` per scan. The conjunction
`SafeInv` is inductive: `ProcessFrame` says that a step of `process()` touches only its own scan, so
by `OneWriter` the other runs and lists are untouched, and `ProcessLocal` does its own.

**Outcomes.** `RunClean` is what a run may rely on at each await between the engine and its end
(the list will expire, a discarded scan has FAILED, a resolved one is decided); `JobClean` carries
it over to the completed job, which nobody writes to again. It holds while Redis commands fail and
repeat, because a rejection never leads to `resolved`. `JobForgiven` counts: every stall is paid
for by a crash or a lapsed lock, and an orphaned job (active, its worker dead) has a payment still to
be used. So while faults do not exceed `MaxStalledCount` BullMQ never fails a job, and an accepted
scan keeps one until it is completed, which `CleanInv` says is clean.

**Contract and stages.** Both refinements map a step of each action to a step or a stutter.
For `RunStages` the shape of the code is enough (`StageMoves`, `StageStays`). For `ScanContract`
the state before the first fault matters: `OrderInv` adds to `SafeInv` and `RecordHeld` what
records look like before their call has returned (`CallOK`), that fields of a record belong
together (`RecordOK`), that without faults a waiting job's record reads QUEUED (`JobOK`), and what
status each await of a run finds (`StatusOK`). The SETs of `markFinished` and `markFailed` are the
contract's steps; clearing, pushing and discarding findings are hidden by the view, which shows
findings of FINISHED scans only.

**Reader.** `PlaceInv` says that at any time a list is the beginning of a report, and that a push
left in flight by a broken stream is the batch that comes next (`TailOK`); with `LrangeRows` a page
read at an offset has exactly the rows of that offset.

**Traversal.** `OnceInv` adds to `SafeInv` that a job is added once (`Added`), that one that has not
stalled starts with no run (`FreshJob`), and that a scan with a count has been through
`markFinished` (`CountedOnce`): until its job stalls no other run of it comes, and the one that is
left, if any, is in its catch block or done (`Ended`). So a list whose scan reads FINISHED at the end
is the one that was counted (`ListStill`), and page *k* is what follows the pages before it
(`WholeSoFar`). `FlattenUnfolds` replaces the induction over the recursive definition of
`FlattenSeq` by a least counterexample: whatever unfolds like the recursion agrees with it.

**Parser.** `ParserInv`: what was counted and what the report may still add stays within bounds
(`RoomLeft`); at most one write is pending, and then the buffer is empty (`OneWrite`); the flags
agree with the outcome (`Verdict`); sink and held findings are one unbroken sequence of numbers
(`InOrder`). The copy of `FindingsCopy` is at the stage the outcome says, and writing exactly when
a write is pending.

**Pipeline.** `SafeInv` describes each stage: which child may be alive, which paths exist, and
that a reason that really happened is the error's code from the throw to the record (`Progress`,
`Waiting`, `Reason`). `Debts` counts the paths given up (an earlier run's, or this run's when its
removal is behind it): a removal that failed has lost one, a crash two at most. That is stronger
than `LeftoversAccounted`, and inductive.

**Web client.** `ClientInv` needs nothing beyond the types and the property itself: a reply is dropped when its
scan is not the one followed. `PagesInv` adds that a live request is for the page loaded last
(`LiveIsLoaded`) and that, with no load under way, so are the rows (`RowsAreLoaded`).

Only model-checked:

- Liveness (`AcceptedScanEnds`, `Settles`, `WorkerFreed`, `OutcomeShown`, `PageLoads`): fairness
  and ENABLED are outside this prover's reach.
- That the bag of polls in flight stays below `MaxPolls`: `WebPoller` states the bound as a guard,
  and the size of a bag is a recursion over sets.

## Findings

With a run (details and quotations in `PROJECT.json`):

- `queue_cap`: concurrent calls overrun the queue cap between the depth check and the add.
- `outcome`: a crash after `markFinished` lets the redelivered run take FINISHED back.
- `stuck`: a failing command of `markFailed` leaves SCANNING for good.
- `immortal`: RPUSH without its EXPIRE, then a failing `markFailed`: a list without a TTL.
- `endless_clone`: the clone's timeout limits silence, not time.
- `stranded`: a poll answered after polling stopped removes the Retry button with the message.

Seen while modelling, without a run of their own:

- The comment in `patch` (`scan.repository.ts:117-120`) says two workers cannot patch the same key.
  With two processes and a lapsed lock they do (`OneWriter` with `lockLoss`).
- `patch` merges, so a run repeated after `markFailed` ends FINISHED with the old `errorMessage`;
  `ScanContract` allows it after a fault only.
- If the delete after `markFailed` rejects, a FAILED scan keeps its findings until their TTL.
- A target that straddles `FLUSH_BATCH_SIZE` makes a batch larger than it, which `README.md:125-126`
  and `449-453`, the parser's comment (45-47) and a test's (`trivy-stream-parser.spec.ts:300-301`)
  rule out. The test's targets of 100 findings fill 500 exactly. `MemoryBounded` has the real bound:
  almost one target more. In `parser` (flush size 3) `Len(pending[1]) <= FlushBatchSize` fails after
  two targets.
- A resent RPUSH stores a batch twice: the list is longer than `criticalVulnerabilityCount`, so
  `FinishedIsComplete` is not checked with `resend`.
- A trivy that outlives its abort may write its report after cleanup (the exception in
  `LeftoversAccounted`), and a crash leaves both temporary paths with nothing to sweep them.
- A late poll reply can put SCANNING over FINISHED; polling then resumes and repairs it
  (`OutcomeShown`).
- When a page request fails, the rows of the page before stay under the new page's label, next to
  the message (`RowsMatchLabel` excuses it); a page whose list has expired is an empty table under
  "12 found", without a message.
- The `cancelled` flag of `ScanResult` matters only after such a late reply: the buttons are
  disabled while a page loads, and a new scan unmounts the component (App shows `null` in between),
  so the page reset on `scan.id` never has anything to reset.
- `cloneToTemp` reads its code from git's words, so a network `timed out`, or a repository with
  `timeout` in its name, reports "took too long and was cancelled" (`FailureReportedAsIs` is about
  the other direction: a full disk or an interruption is never called anything else). A failing
  `mkdtemp` reports UNKNOWN even when the disk is full.
- "element N is the Nth finding the parser saw, on every read" (`vulnerability-page.args.ts:13`)
  holds by position (`RowsInPlace`), also while a repeated run refills the list; but that run clones
  again, so if the repository has changed, pages of one traversal come from two reports. A resent
  RPUSH shifts every row behind it.
- `criticalVulnerabilities` is not gated by the status: rows of a scan that is still being parsed,
  and may fail, are readable. `criticalVulnerabilityCount` outlives its run: a scan that is repeated
  says SCANNING, and one whose `markFinished` was executed but rejected says FAILED, with the count.
- A page that has seen FINISHED stops polling, so it never learns that a redelivered run took the
  outcome back; `OutcomeShown` is checked against the contract before the first fault.
- A graceful shutdown quits the record connection (`redis.module.ts:56`) whatever run is going. Its
  next command rejects, and so does the catch block's: two faults of kind `redis`, then a crash. If
  BullMQ still fails the job, its scan says SCANNING until its TTL (`NotStuck`).
- A job that stalls more often than `maxStalledCount` is failed by BullMQ without `process()`:
  two crashes refute `NotStuck` as well.
- `fail()` of the parser leaves the stream paused and never destroys it, so a large report whose
  sink failed stays open, and its disk space in use after `cleanup` has unlinked it.
- The page's URL check accepts `https://github.com/../..`, which the server's refuses, although
  `api.ts:29` calls it a mirror; the user then reads the server's message (a failed start).

## Not modelled

Validation, configuration and bootstrap keep no state of their own (their values are the
CONSTANTS). Rate limiting is @nestjs/throttler's; `src/` only gives its numbers. The contents of findings, URLs and messages are abstracted to
numbers and codes. `directorySizeBytes` is a sum over a tree: it returns, exceeds the limit, or
fails. Redis itself is atomic commands and expiry; its persistence is not modelled. The shutdown
order of Nest's hooks is external; what it does to a run is a sequence of the faults above. A scan's total is fixed in `ResultPages`; the
effects React repeats in development (StrictMode) are left out. A null among a target's
`Vulnerabilities`, which trivy does not write, would throw inside the parser's 'data' listener
(`trivy-stream-parser.service.ts:124-129`), outside its promise: as an uncaught exception it ends
the process, which is a fault of kind `crash`.

## Plan

Done, in this order: ScanEnvironment to ScanSystem with ScanContract, StreamParser with
FindingsCopy, ScanSystem_proofs, ScanPipeline, WebPoller, ResultPages, RunStages, ScanReader; then
the other proof modules: ScanOutcome, ScanRefinement, ScanReader, StreamParser, ScanPipeline,
WebClient.

Left, where a proof could still say more:

1. The safety half of the liveness properties: no await of `process()`, and no state of the parser,
   is left without a step that can be taken (stated with guards, since ENABLED is out of reach).
2. `NoScanForgotten` and `ListsExpire` for a system in which Redis commands fail before they are
   recorded only: `stuck` and `immortal` need a failing `markFailed`.
3. The bound of the bag of polls, with an invariant over numbers of polls instead of the bag's size.
A bound in place of the queue cap was considered and left out: any number of calls may be between
the check and the add, so the bound would be their number, which the code does not limit.
