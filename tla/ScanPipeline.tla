---------------------------- MODULE ScanPipeline ----------------------------
(***************************************************************************)
(* What one worker process leaves on its disk and in its process table:    *)
(* process() with GitClonerService, TrivyRunnerService and cleanup(), run  *)
(* after run.  The Redis side of the same steps is ScanProcessor's; here a *)
(* Redis command only resolves or rejects.                                 *)
(*                                                                         *)
(* The two children are stopped in two ways.  simple-git's `timeout.block` *)
(* interrupts git after a silence of that length and rejects once git has  *)
(* exited.  AbortSignal.timeout sends trivy a signal and rejects at once:  *)
(* trivy may still be alive, and write its report, while the run goes on.  *)
(***************************************************************************)
EXTENDS Naturals, FiniteSets

CONSTANTS MaxRuns,      \* bound: jobs this process takes
          MaxFaults     \* bound: removals that fail and crashes, together

ASSUME BoundsAssumption == MaxRuns \in Nat /\ MaxFaults \in Nat

VARIABLES run,          \* number of the current, or of the last, job
          stage,        \* the await it is suspended at
          code,         \* code of the error being handled, "none"
          git,          \* "none", "running" or "stopping" (interrupted)
          silent,       \* git has paused: its timer may fire before it talks
          trivy,        \* trivy[r]: "none", "running", "stopping" (aborted,
                        \* alive), "stopped" (aborted, gone), "ended"
          repoDir,      \* the variable repoDir of process() is set
          repo, report, \* repo[r], report[r]: the path of run r exists
          toRemove,     \* removals of cleanup() that have not settled
          shown,        \* shown[r]: the code whose text is in the record
          failure,      \* failure[r]: what really happened to the clone of r,
                        \* "none", "diskFull", "interrupted" or "other"
          rmFailures, crashes

runVars   == <<run, stage, code, repoDir, toRemove, shown>>
childVars == <<git, silent, trivy, failure>>
fileVars  == <<repo, report>>
faultVars == <<rmFailures, crashes>>
vars == <<runVars, childVars, fileVars, faultVars>>

Runs == 1..MaxRuns

Codes == {"CLONE_FAILED", "TRIVY_SPAWN_FAILED", "TRIVY_EXEC_FAILED", "PARSE_FAILED",
          "DISK_FULL", "TIMED_OUT", "REPO_TOO_LARGE", "UNKNOWN"}

\* The words of a message that decide on a code.  A message quotes the URL of
\* the repository and paths inside it, so it may hold any of them by chance.
Words == {"enospc", "timeout"}

(* Mutant of Sniff: the two tests the other way round. *)
SniffTimeoutFirst(words) == CASE "timeout" \in words -> "TIMED_OUT"
                              [] "enospc" \in words  -> "DISK_FULL"
                              [] OTHER               -> "CLONE_FAILED"

\* cloneToTemp, on errors that are not ScanEngineErrors
Sniff(words) == CASE "enospc" \in words -> "DISK_FULL"
                  [] words = {"timeout"} -> "TIMED_OUT"
                  [] words = {}          -> "CLONE_FAILED"

\* toPublicErrorMessage: MESSAGES has a text for each code
Public(thrown) == IF thrown \in Codes THEN thrown ELSE "UNKNOWN"

Stages == {"idle", "prepare", "clone", "measure", "unclone", "spawn", "scan", "parse",
           "finish", "record", "cleanup"}

Init == /\ run = 0 /\ stage = "idle" /\ code = "none"
        /\ git = "none" /\ silent = FALSE
        /\ trivy = [r \in Runs |-> "none"]
        /\ repoDir = FALSE /\ toRemove = {}
        /\ repo = [r \in Runs |-> FALSE] /\ report = [r \in Runs |-> FALSE]
        /\ shown = [r \in Runs |-> "none"] /\ failure = [r \in Runs |-> "none"]
        /\ rmFailures = 0 /\ crashes = 0

Goto(next) == stage' = next /\ UNCHANGED <<run, code, repoDir, toRemove, shown>>

\* An error with this code ("foreign": not a ScanEngineError) reaches the catch
\* block of process()
Throw(c) == /\ stage' = "record"
            /\ code' = c
            /\ UNCHANGED <<run, repoDir, toRemove, shown>>

\* cloneToTemp failed: its own catch block removes the directory first
GiveUpClone(c) == /\ stage' = "unclone"
                  /\ code' = c
                  /\ UNCHANGED <<run, repoDir, toRemove, shown>>

MayFault == rmFailures + crashes < MaxFaults

-----------------------------------------------------------------------------
Start == /\ stage = "idle" /\ run < MaxRuns
         /\ run' = run + 1
         /\ stage' = "prepare" /\ code' = "none" /\ repoDir' = FALSE
         /\ UNCHANGED <<toRemove, shown, childVars, fileVars, faultVars>>

(* updateStatus, deleteVulnerabilities and mkdtemp, whose errors are        *)
(* foreign.  Then git is started.                                           *)
Prepare == /\ stage = "prepare"
           /\ \/ /\ repo' = [repo EXCEPT ![run] = TRUE]
                 /\ git' = "running" /\ silent' = FALSE
                 /\ Goto("clone")
                 /\ UNCHANGED <<report, trivy, failure>>
              \/ Throw("foreign") /\ UNCHANGED <<fileVars, childVars>>
           /\ UNCHANGED faultVars

(* The block timeout runs from git's last output *)
GitFallsSilent == /\ git = "running" /\ ~silent
                  /\ silent' = TRUE
                  /\ UNCHANGED <<git, trivy, failure, runVars, fileVars, faultVars>>

GitTalks == /\ git = "running" /\ silent
            /\ silent' = FALSE
            /\ UNCHANGED <<git, trivy, failure, runVars, fileVars, faultVars>>

(* Mutant of GitTimeout: simple-git is not given a timeout. *)
GitTimeoutMissing == git = "running" /\ silent /\ UNCHANGED vars

GitTimeout == /\ git = "running" /\ silent
              /\ git' = "stopping"
              /\ UNCHANGED <<silent, trivy, failure, runVars, fileVars, faultVars>>

\* git failed, and why: a full disk is in its message, other failures say
\* anything, the interruption is "block timeout reached"
GitFails(why) ==
    /\ failure' = [failure EXCEPT ![run] = why]
    /\ \E words \in SUBSET Words :
           /\ why = "diskFull" => "enospc" \in words
           /\ why = "interrupted" => words = {"timeout"}
           /\ GiveUpClone(Sniff(words))

GitExits == /\ git # "none"
            /\ git' = "none"
            /\ \/ git = "running" /\ Goto("measure") /\ UNCHANGED failure
               \/ git = "running" /\ \E why \in {"diskFull", "other"} : GitFails(why)
               \/ git = "stopping" /\ GitFails("interrupted")
            /\ UNCHANGED <<silent, trivy, fileVars, faultVars>>

(* assertWithinSizeLimit over directorySizeBytes: the tree is within the    *)
(* limit or above it, or the walk fails, on a path that may hold any word.  *)
Measure == /\ stage = "measure"
           /\ \/ /\ stage' = "spawn" /\ repoDir' = TRUE
                 /\ UNCHANGED <<run, code, toRemove, shown>>
              \/ GiveUpClone("REPO_TOO_LARGE")
              \/ \E words \in SUBSET Words : GiveUpClone(Sniff(words))
           /\ UNCHANGED <<childVars, fileVars, faultVars>>

(* If this removal fails, its error replaces the one being handled, and     *)
(* process() has no repoDir to remove.                                      *)
Unclone == /\ stage = "unclone"
           /\ \/ /\ repo' = [repo EXCEPT ![run] = FALSE]
                 /\ Throw(code)
                 /\ UNCHANGED rmFailures
              \/ /\ MayFault /\ rmFailures' = rmFailures + 1
                 /\ Throw("foreign")
                 /\ UNCHANGED repo
           /\ UNCHANGED <<report, childVars, crashes>>

-----------------------------------------------------------------------------
(* Mutant of Spawn: a code the table of public messages does not know. *)
SpawnMiscoded == /\ stage = "spawn"
                 /\ Throw("SPAWN_FAILED")
                 /\ UNCHANGED <<childVars, fileVars, faultVars>>

Spawn == /\ stage = "spawn"
         /\ \/ /\ trivy' = [trivy EXCEPT ![run] = "running"]
               /\ Goto("scan")
            \/ Throw("TRIVY_SPAWN_FAILED") /\ UNCHANGED trivy
         /\ UNCHANGED <<git, silent, failure, fileVars, faultVars>>

(* As long as it lives, aborted or not, trivy may create its report *)
TrivyWrites(r) == /\ trivy[r] \in {"running", "stopping"} /\ ~report[r]
                  /\ report' = [report EXCEPT ![r] = TRUE]
                  /\ UNCHANGED <<repo, runVars, childVars, faultVars>>

(* Mutants of TrivyTimeout: the wait ends and nothing is stopped; the child *)
(* is stopped and its exit status decides.                                  *)
TrivyTimeoutUnsignalled ==
    /\ stage = "scan" /\ trivy[run] = "running"
    /\ Throw("TIMED_OUT")
    /\ UNCHANGED <<childVars, fileVars, faultVars>>

TrivyTimeoutUntold ==
    /\ stage = "scan" /\ trivy[run] = "running"
    /\ trivy' = [trivy EXCEPT ![run] = "stopping"]
    /\ Throw("TRIVY_EXEC_FAILED")
    /\ UNCHANGED <<git, silent, failure, fileVars, faultVars>>

TrivyTimeout == /\ stage = "scan" /\ trivy[run] = "running"
                /\ trivy' = [trivy EXCEPT ![run] = "stopping"]
                /\ Throw("TIMED_OUT")
                /\ UNCHANGED <<git, silent, failure, fileVars, faultVars>>

(* 'close' with exit code 0, report or no report, or with another one *)
TrivyCloses == /\ stage = "scan" /\ trivy[run] = "running"
               /\ trivy' = [trivy EXCEPT ![run] = "ended"]
               /\ \/ Goto("parse")
                  \/ \E c \in {"TRIVY_EXEC_FAILED", "DISK_FULL"} : Throw(c)
               /\ UNCHANGED <<git, silent, failure, fileVars, faultVars>>

AbortedTrivyExits(r) == /\ trivy[r] = "stopping"
                        /\ trivy' = [trivy EXCEPT ![r] = "stopped"]
                        /\ UNCHANGED <<git, silent, failure, runVars, fileVars, faultVars>>

Clean == /\ stage' = "cleanup"
         /\ toRemove' = (IF repoDir THEN {"repo"} ELSE {}) \cup {"report"}
         /\ UNCHANGED <<run, code, repoDir>>

(* Mutant of Parse: the parser is called outside the try block. *)
ParseUncaught == /\ stage = "parse"
                 /\ \/ report[run] /\ Goto("finish")
                    \/ Clean /\ UNCHANGED shown
                 /\ UNCHANGED <<childVars, fileVars, faultVars>>

(* A missing report fails the parser's read stream *)
Parse == /\ stage = "parse"
         /\ \/ report[run] /\ Goto("finish")
            \/ Throw("PARSE_FAILED")
         /\ UNCHANGED <<childVars, fileVars, faultVars>>

Finish == /\ stage = "finish"
          /\ \/ Clean /\ UNCHANGED shown
             \/ Throw("foreign")
          /\ UNCHANGED <<childVars, fileVars, faultVars>>

(* markFailed and deleteVulnerabilities; the finally block follows also     *)
(* when one of them rejects                                                 *)
Record == /\ stage = "record"
          /\ Clean
          /\ shown' = [shown EXCEPT ![run] = Public(code)] \/ UNCHANGED shown
          /\ UNCHANGED <<childVars, fileVars, faultVars>>

Path(p) == IF p = "repo" THEN repo ELSE report

(* Mutant of Remove: two awaits, one after the other, where the failure of  *)
(* the first skips the second.                                              *)
RemoveAll(p) ==
    /\ p \in toRemove
    /\ \/ /\ repo' = IF p = "repo" THEN [repo EXCEPT ![run] = FALSE] ELSE repo
          /\ report' = IF p = "report" THEN [report EXCEPT ![run] = FALSE] ELSE report
          /\ toRemove' = toRemove \ {p}
          /\ stage' = IF toRemove = {p} THEN "idle" ELSE "cleanup"
          /\ UNCHANGED rmFailures
       \/ /\ MayFault /\ Path(p)[run]
          /\ rmFailures' = rmFailures + 1
          /\ toRemove' = {} /\ stage' = "idle"
          /\ UNCHANGED fileVars
    /\ UNCHANGED <<run, code, repoDir, shown, childVars, crashes>>

(* One removal of cleanup() settles.  Promise.allSettled waits for both,    *)
(* whatever became of the other; only then is process() over.               *)
Remove(p) ==
    /\ p \in toRemove
    /\ toRemove' = toRemove \ {p}
    /\ stage' = IF toRemove = {p} THEN "idle" ELSE "cleanup"
    /\ \/ /\ repo' = IF p = "repo" THEN [repo EXCEPT ![run] = FALSE] ELSE repo
          /\ report' = IF p = "report" THEN [report EXCEPT ![run] = FALSE] ELSE report
          /\ UNCHANGED rmFailures
       \/ /\ MayFault /\ Path(p)[run]
          /\ rmFailures' = rmFailures + 1
          /\ UNCHANGED fileVars
    /\ UNCHANGED <<run, code, repoDir, shown, childVars, crashes>>

(* The Node process is PID 1 of its container: its children die with it,    *)
(* the files of /tmp stay.                                                  *)
Crash == /\ MayFault /\ crashes' = crashes + 1
         /\ stage' = "idle" /\ toRemove' = {}
         /\ git' = "none"
         /\ trivy' = [r \in Runs |-> CASE trivy[r] = "running" -> "ended"
                                       [] trivy[r] = "stopping" -> "stopped"
                                       [] OTHER -> trivy[r]]
         /\ UNCHANGED <<run, code, repoDir, shown, silent, failure, fileVars, rmFailures>>

-----------------------------------------------------------------------------
Process == \/ Prepare \/ Measure \/ Unclone \/ Spawn \/ Parse \/ Finish \/ Record
           \/ \E p \in toRemove : Remove(p)

Children == \/ GitFallsSilent \/ GitTalks \/ GitTimeout \/ GitExits
            \/ TrivyTimeout \/ TrivyCloses
            \/ \E r \in Runs : TrivyWrites(r) \/ AbortedTrivyExits(r)

Next == Start \/ Process \/ Children \/ Crash

Spec == Init /\ [][Next]_vars

(* Redis commands and file operations settle, the two timers fire, and git  *)
(* exits once interrupted.  Nothing is assumed of a child left alone.       *)
Fairness == /\ WF_vars(Process)
            /\ WF_vars(GitFallsSilent) /\ WF_vars(GitTimeout)
            /\ WF_vars(git = "stopping" /\ GitExits)
            /\ WF_vars(TrivyTimeout)

FairSpec == Spec /\ Fairness

-----------------------------------------------------------------------------
(* Every variable stays in its range. *)
TypeOK == /\ run \in 0..MaxRuns /\ stage \in Stages
          /\ code \in Codes \cup {"none", "foreign"}
          /\ git \in {"none", "running", "stopping"}
          /\ trivy \in [Runs -> {"none", "running", "stopping", "stopped", "ended"}]
          /\ {silent, repoDir} \subseteq BOOLEAN
          /\ {repo, report} \subseteq [Runs -> BOOLEAN]
          /\ toRemove \subseteq {"repo", "report"}
          /\ shown \in [Runs -> Codes \cup {"none"}]
          /\ failure \in [Runs -> {"none", "diskFull", "interrupted", "other"}]
          /\ rmFailures + crashes \in 0..MaxFaults

Over(r) == r < run \/ (r = run /\ stage = "idle")

(* Cleanup runs no matter which step failed, and one failing removal does   *)
(* not prevent the other: the paths left behind by runs that are over are   *)
(* no more than removals failed, and two for each crash.  The one exception *)
(* is the report of a trivy that outlived its timeout.                      *)
LeftoversAccounted ==
    Cardinality({r \in Runs : Over(r) /\ repo[r]})
      + Cardinality({r \in Runs : Over(r) /\ report[r]
                                  /\ trivy[r] \notin {"stopping", "stopped"}})
    <= rmFailures + 2 * crashes

(* No child is abandoned: one that still runs is being waited for, or was   *)
(* told to stop.                                                            *)
NoStrayChild == /\ git # "none" => stage = "clone"
                /\ \A r \in Runs : trivy[r] = "running" => r = run /\ stage = "scan"

(* The reason a client reads is what happened, whatever other words are in  *)
(* the message: a full disk is not reported as a timeout, nor an aborted    *)
(* clone or trivy as a failure of its own (the killed child has an exit     *)
(* status too).  Only a removal that fails on the way hides the reason.     *)
Told(r, reason) == \/ shown[r] \in {"none", reason}
                   \/ shown[r] = "UNKNOWN" /\ rmFailures > 0

FailureReportedAsIs ==
    \A r \in Runs :
        /\ trivy[r] \in {"stopping", "stopped"} => shown[r] \in {"none", "TIMED_OUT"}
        /\ failure[r] = "interrupted" => Told(r, "TIMED_OUT")
        /\ failure[r] = "diskFull" => Told(r, "DISK_FULL")

(* The children, files and timers of a run keep to the try, catch and       *)
(* finally blocks that ScanProcessor's Redis commands keep to.              *)
StageOf == CASE stage = "prepare" -> "start"
             [] stage \in {"clone", "measure", "unclone", "spawn", "scan"} -> "engine"
             [] OTHER -> stage

ThisProcess == {"this process"}

InStages == INSTANCE RunStages WITH Workers <- ThisProcess,
                                    stage <- [w \in ThisProcess |-> StageOf]

RunsInStages == InStages!Spec

(* The worker, which takes one job at a time, is freed again and again,     *)
(* whatever hangs, unless git goes on talking for ever.                     *)
WorkerFreed == []<>(stage = "idle") \/ []<><<GitTalks>>_vars

(* "Hard wall-clock cap on `git clone`" (configuration.ts:14): every clone  *)
(* comes to an end.                                                         *)
CloneIsCapped == git = "running" ~> git # "running"

=============================================================================
