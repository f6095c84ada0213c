------------------------ MODULE ScanPipeline_proofs ------------------------
(***************************************************************************)
(* Theorems about ScanPipeline, for any number of jobs, of removals that   *)
(* fail and of crashes.                                                    *)
(***************************************************************************)
EXTENDS ScanPipeline, FiniteSetTheorems, TLAPS

Counted == rmFailures \in Nat /\ crashes \in Nat

(* A run that has not begun has left no trace. *)
Fresh == /\ \A r \in Runs : r > run => /\ trivy[r] = "none" /\ ~repo[r] /\ ~report[r]
                                       /\ shown[r] = "none" /\ failure[r] = "none"
         /\ run = 0 => stage = "idle"

(* What the stage says of the children, the paths and the record of the     *)
(* current run.                                                             *)
Waiting == /\ git # "none" => stage = "clone"
           /\ \A r \in Runs : trivy[r] = "running" => r = run /\ stage = "scan"
           /\ stage = "cleanup" <=> toRemove # {}

Progress ==
    stage # "idle" =>
        /\ stage = "prepare" => ~repo[run]
        /\ stage \in {"spawn", "scan", "parse", "finish"} => repoDir
        /\ stage # "cleanup" => shown[run] = "none"
        /\ stage \notin {"unclone", "record", "cleanup"} => failure[run] = "none"
        /\ trivy[run] \in {"stopping", "stopped"} => stage \in {"record", "cleanup"}

(* The error on its way to the record is the one that happened. *)
Carried(reason) == \/ code = reason
                   \/ stage = "record" /\ code = "foreign" /\ rmFailures > 0

Reason ==
    stage \in {"unclone", "record"} =>
        /\ failure[run] = "interrupted" => Carried("TIMED_OUT")
        /\ failure[run] = "diskFull" => Carried("DISK_FULL")
        /\ trivy[run] \in {"stopping", "stopped"} => code = "TIMED_OUT"

(* The paths that nothing will remove any more: those of the runs that are  *)
(* over, and those of the current run that process() has given up.          *)
RepoGivenUp == \/ stage = "record" /\ ~repoDir
               \/ stage = "cleanup" /\ "repo" \notin toRemove

ReportGivenUp == stage = "cleanup" /\ "report" \notin toRemove

LostRepos == {r \in Runs : repo[r] /\ (Over(r) \/ (r = run /\ RepoGivenUp))}

LostReports == {r \in Runs : /\ report[r] /\ trivy[r] \notin {"stopping", "stopped"}
                             /\ Over(r) \/ (r = run /\ ReportGivenUp)}

(* A removal that failed has lost one path, a crash two at most. *)
Debts == Cardinality(LostRepos) + Cardinality(LostReports) <= rmFailures + 2 * crashes

SafeInv == /\ TypeOK /\ Counted /\ Fresh /\ Waiting /\ Progress /\ Reason
           /\ FailureReportedAsIs

PipelineInv == SafeInv /\ Debts

-----------------------------------------------------------------------------

LEMMA RunNow ==
    ASSUME SafeInv, stage # "idle"
    PROVE  run \in Runs
  BY BoundsAssumption DEF SafeInv, TypeOK, Fresh, Runs

LEMMA SniffedCode ==
    ASSUME NEW words \in SUBSET Words
    PROVE  /\ Sniff(words) \in Codes
           /\ "enospc" \in words => Sniff(words) = "DISK_FULL"
           /\ words = {"timeout"} => Sniff(words) = "TIMED_OUT"
  <1>1. words = {} \/ words = {"timeout"} \/ "enospc" \in words
    BY DEF Words
  <1> QED
    BY <1>1 DEF Sniff, Codes

\* The directory is made and git is started, or one of the calls rejects
LEMMA PrepareSafe ==
    ASSUME SafeInv, Prepare
    PROVE  SafeInv'
  <1> USE DEF SafeInv, runVars, childVars, fileVars, faultVars
  <1>1. run \in Runs
    BY RunNow DEF Prepare
  <1>2. CASE Throw("foreign") /\ UNCHANGED <<fileVars, childVars>>
    BY <1>1, <1>2 DEF Prepare, Throw, TypeOK, Counted, Stages, Codes, Fresh, Waiting,
       Progress, Reason, Carried, FailureReportedAsIs, Told
  <1>3. CASE /\ repo' = [repo EXCEPT ![run] = TRUE]
             /\ git' = "running" /\ silent' = FALSE
             /\ Goto("clone")
             /\ UNCHANGED <<report, trivy, failure>>
    <2>1. repo' \in [Runs -> BOOLEAN] /\ \A r \in Runs : r # run => repo'[r] = repo[r]
      BY <1>1, <1>3 DEF TypeOK
    <2>2. TypeOK' /\ Counted'
      BY <1>3, <2>1 DEF Prepare, Goto, TypeOK, Counted, Stages
    <2>3. Fresh'
      BY <1>1, <1>3, <2>1, BoundsAssumption DEF Prepare, Goto, Fresh, TypeOK, Runs
    <2> QED
      BY <1>1, <1>3, <2>2, <2>3 DEF Prepare, Goto, TypeOK, Waiting, Progress, Reason,
         FailureReportedAsIs, Told
  <1> QED
    BY <1>2, <1>3 DEF Prepare

\* The clone has failed with these words
LEMMA GiveUpSafe ==
    ASSUME SafeInv, NEW why \in {"diskFull", "interrupted", "other"},
           git # "none", git' = "none", GitFails(why),
           UNCHANGED <<silent, trivy, fileVars, faultVars>>
    PROVE  SafeInv'
  <1> USE DEF SafeInv, fileVars, faultVars
  <1>1. run \in Runs /\ stage = "clone"
    BY RunNow DEF Waiting
  <1>2. PICK words \in SUBSET Words : /\ why = "diskFull" => "enospc" \in words
                                      /\ why = "interrupted" => words = {"timeout"}
                                      /\ GiveUpClone(Sniff(words))
    BY DEF GitFails
  <1>3. PICK c \in Codes : /\ GiveUpClone(c)
                           /\ why = "diskFull" => c = "DISK_FULL"
                           /\ why = "interrupted" => c = "TIMED_OUT"
    BY <1>2, SniffedCode
  <1>4. /\ failure' = [failure EXCEPT ![run] = why]
        /\ failure' \in [Runs -> {"none", "diskFull", "interrupted", "other"}]
        /\ failure'[run] = why
        /\ \A r \in Runs : r # run => failure'[r] = failure[r]
    BY <1>1 DEF GitFails, TypeOK
  <1>5. TypeOK' /\ Counted'
    BY <1>3, <1>4 DEF GiveUpClone, TypeOK, Counted, Stages
  <1>6. Fresh'
    BY <1>1, <1>3, <1>4, BoundsAssumption DEF GiveUpClone, Fresh, TypeOK, Runs
  <1>7. Waiting' /\ Progress' /\ Reason'
    BY <1>1, <1>3, <1>4 DEF GiveUpClone, Waiting, Progress, Reason, Carried, TypeOK
  <1>8. FailureReportedAsIs'
    BY <1>1, <1>3, <1>4 DEF GiveUpClone, Progress, FailureReportedAsIs, Told, TypeOK
  <1> QED
    BY <1>5, <1>6, <1>7, <1>8

\* cloneToTemp removes its directory, or fails to
LEMMA UncloneSafe ==
    ASSUME SafeInv, Unclone
    PROVE  SafeInv'
  <1> USE DEF SafeInv, childVars
  <1>1. run \in Runs
    BY RunNow DEF Unclone
  <1>2. CASE repo' = [repo EXCEPT ![run] = FALSE] /\ Throw(code) /\ UNCHANGED rmFailures
    <2>1. repo' \in [Runs -> BOOLEAN] /\ \A r \in Runs : r # run => repo'[r] = repo[r]
      BY <1>1, <1>2 DEF TypeOK
    <2>2. TypeOK' /\ Counted'
      BY <1>2, <2>1 DEF Unclone, Throw, TypeOK, Counted, Stages
    <2>3. Fresh'
      BY <1>1, <1>2, <2>1, BoundsAssumption DEF Unclone, Throw, Fresh, TypeOK, Runs
    <2> QED
      BY <1>1, <1>2, <2>2, <2>3 DEF Unclone, Throw, TypeOK, Waiting, Progress, Reason,
         Carried, FailureReportedAsIs, Told
  <1>3. CASE MayFault /\ rmFailures' = rmFailures + 1 /\ Throw("foreign") /\ UNCHANGED repo
    <2>1. TypeOK' /\ Counted'
      BY <1>3, BoundsAssumption DEF Unclone, Throw, MayFault, TypeOK, Counted, Stages
    <2> QED
      BY <1>1, <1>3, <2>1 DEF Unclone, Throw, TypeOK, Counted, Fresh, Waiting, Progress,
         Reason, Carried, FailureReportedAsIs, Told
  <1> QED
    BY <1>2, <1>3 DEF Unclone

\* What is gone from one place is there nowhere new
LEMMA CutAPath ==
    ASSUME NEW f \in [Runs -> BOOLEAN], NEW g, NEW r \in Runs,
           g = f \/ g = [f EXCEPT ![r] = FALSE]
    PROVE  g \in [Runs -> BOOLEAN] /\ \A q \in Runs : g[q] => f[q]
  <1>1. CASE g = f
    BY <1>1
  <1>2. CASE g = [f EXCEPT ![r] = FALSE]
    BY <1>2
  <1> QED
    BY <1>1, <1>2

\* One removal of the finally block settles
LEMMA RemoveSafe ==
    ASSUME SafeInv, NEW p \in toRemove, Remove(p)
    PROVE  SafeInv'
  <1> USE DEF SafeInv, childVars
  <1>1. run \in Runs /\ stage = "cleanup"
    BY RunNow DEF Waiting
  <1>2. repo' \in [Runs -> BOOLEAN] /\ \A r \in Runs : repo'[r] => repo[r]
    BY <1>1, CutAPath DEF Remove, fileVars, TypeOK
  <1>3. report' \in [Runs -> BOOLEAN] /\ \A r \in Runs : report'[r] => report[r]
    BY <1>1, CutAPath DEF Remove, fileVars, TypeOK
  <1>4. /\ rmFailures' \in Nat /\ rmFailures' >= rmFailures
        /\ rmFailures' + crashes' \in 0..MaxFaults
    BY BoundsAssumption DEF Remove, MayFault, TypeOK, Counted
  <1>5. TypeOK' /\ Counted'
    BY <1>2, <1>3, <1>4 DEF Remove, TypeOK, Counted, Stages
  <1>6. Fresh'
    BY <1>1, <1>2, <1>3 DEF Remove, Fresh
  <1>7. Waiting' /\ Progress' /\ Reason'
    BY <1>1 DEF Remove, Waiting, Progress, Reason, TypeOK
  <1>8. FailureReportedAsIs'
    BY <1>4 DEF Remove, FailureReportedAsIs, Told, Counted, TypeOK
  <1> QED
    BY <1>5, <1>6, <1>7, <1>8

\* trivy exits by itself, and what it did decides
LEMMA TrivyClosesSafe ==
    ASSUME SafeInv, TrivyCloses
    PROVE  SafeInv'
  <1> USE DEF SafeInv, fileVars, faultVars
  <1>1. run \in Runs
    BY RunNow DEF TrivyCloses
  <1>2. /\ trivy' \in [Runs -> {"none", "running", "stopping", "stopped", "ended"}]
        /\ trivy'[run] = "ended"
        /\ \A r \in Runs : r # run => trivy'[r] = trivy[r]
    BY <1>1 DEF TrivyCloses, TypeOK
  <1>3. PICK next \in {"parse", "record"}, c \in Codes \cup {"none", "foreign"} :
            stage' = next /\ code' = c
    BY DEF TrivyCloses, Goto, Throw, Codes, TypeOK
  <1>4. UNCHANGED <<run, repoDir, toRemove, shown, git, silent, failure, fileVars, faultVars>>
    BY DEF TrivyCloses, Goto, Throw
  <1>5. TypeOK' /\ Counted'
    BY <1>2, <1>3, <1>4 DEF TypeOK, Counted, Stages
  <1>6. Fresh'
    BY <1>1, <1>2, <1>3, <1>4, BoundsAssumption DEF Fresh, TypeOK, Runs
  <1>7. Waiting' /\ Progress' /\ Reason'
    BY <1>1, <1>2, <1>3, <1>4 DEF TrivyCloses, Waiting, Progress, Reason, TypeOK
  <1>8. FailureReportedAsIs'
    BY <1>2, <1>4 DEF FailureReportedAsIs, Told, TypeOK
  <1> QED
    BY <1>5, <1>6, <1>7, <1>8

\* Every step keeps what the other invariants rest on
LEMMA SafeStep ==
    ASSUME SafeInv, [Next]_vars
    PROVE  SafeInv'
  <1> USE DEF SafeInv, runVars, childVars, fileVars, faultVars
  <1>1. CASE Start
    <2>1. run' = run + 1 /\ run' \in 1..MaxRuns /\ run' \in Runs
      BY <1>1, BoundsAssumption DEF Start, TypeOK, Runs
    <2>2. /\ run' \in 0..MaxRuns
          /\ stage' = "prepare" /\ code' = "none" /\ repoDir' = FALSE
          /\ UNCHANGED <<toRemove, shown, childVars, fileVars, faultVars>>
      BY <1>1, <2>1, BoundsAssumption DEF Start
    <2>3. TypeOK' /\ Counted'
      BY <2>2 DEF TypeOK, Counted, Stages
    <2>4. Fresh'
      BY <1>1, <2>1, BoundsAssumption DEF Start, Fresh, TypeOK, Runs
    <2>5. trivy[run'] = "none" /\ ~repo[run'] /\ shown[run'] = "none" /\ failure[run'] = "none"
      BY <2>1, BoundsAssumption DEF Fresh, TypeOK, Runs
    <2> QED
      BY <1>1, <2>1, <2>2, <2>3, <2>4, <2>5 DEF Start, Waiting, Progress, Reason,
         FailureReportedAsIs, Told
  <1>2. CASE Measure
    <2>1. run \in Runs
      BY <1>2, RunNow DEF Measure
    <2>2. CASE stage' = "spawn" /\ repoDir' = TRUE /\ UNCHANGED <<run, code, toRemove, shown>>
      BY <1>2, <2>1, <2>2 DEF Measure, TypeOK, Counted, Stages, Fresh, Waiting, Progress,
         Reason, FailureReportedAsIs, Told
    <2>3. ASSUME NEW c \in Codes, GiveUpClone(c)
          PROVE  SafeInv'
      BY <1>2, <2>1, <2>3 DEF Measure, GiveUpClone, TypeOK, Counted, Stages, Fresh, Waiting,
         Progress, Reason, FailureReportedAsIs, Told
    <2> QED
      BY <1>2, <2>2, <2>3, SniffedCode DEF Measure, Codes
  <1>3. CASE Spawn
    <2>1. run \in Runs
      BY <1>3, RunNow DEF Spawn
    <2>2. CASE trivy' = [trivy EXCEPT ![run] = "running"] /\ Goto("scan")
      <3>1. /\ trivy' \in [Runs -> {"none", "running", "stopping", "stopped", "ended"}]
            /\ trivy'[run] = "running"
            /\ \A r \in Runs : r # run => trivy'[r] = trivy[r]
        BY <2>1, <2>2 DEF TypeOK
      <3>2. TypeOK' /\ Counted'
        BY <1>3, <2>2, <3>1 DEF Spawn, Goto, TypeOK, Counted, Stages
      <3>3. Fresh'
        BY <1>3, <2>1, <2>2, <3>1, BoundsAssumption DEF Spawn, Goto, Fresh, TypeOK, Runs
      <3> QED
        BY <1>3, <2>1, <2>2, <3>1, <3>2, <3>3 DEF Spawn, Goto, Waiting, Progress, Reason,
           FailureReportedAsIs, Told
    <2>3. CASE Throw("TRIVY_SPAWN_FAILED") /\ UNCHANGED trivy
      BY <1>3, <2>1, <2>3 DEF Spawn, Throw, TypeOK, Counted, Stages, Codes, Fresh, Waiting,
         Progress, Reason, Carried, FailureReportedAsIs, Told
    <2> QED
      BY <1>3, <2>2, <2>3 DEF Spawn
  <1>4. CASE GitExits
    <2>1. CASE git = "running" /\ Goto("measure") /\ UNCHANGED failure
      BY <1>4, <2>1, RunNow DEF GitExits, Goto, TypeOK, Counted, Stages, Fresh, Waiting,
         Progress, Reason, FailureReportedAsIs, Told
    <2> QED
      BY <1>4, <2>1, GiveUpSafe DEF GitExits
  <1>5. CASE Parse
    BY <1>5, BoundsAssumption DEF Parse, Goto, Throw, TypeOK, Counted, Fresh,
       Waiting, Progress, Reason, Carried, FailureReportedAsIs, Told, Runs,
       Stages, Codes
  <1>6. CASE Finish
    BY <1>6, BoundsAssumption DEF Finish, Clean, Throw, TypeOK, Counted, Fresh,
       Waiting, Progress, Reason, Carried, FailureReportedAsIs, Told, Runs,
       Stages, Codes
  <1>7. CASE Record
    BY <1>7, BoundsAssumption DEF Record, Clean, Public, TypeOK, Counted, Fresh,
       Waiting, Progress, Reason, Carried, FailureReportedAsIs, Told, Runs,
       Stages, Codes
  <1>8. CASE GitFallsSilent
    BY <1>8, BoundsAssumption DEF GitFallsSilent, TypeOK, Counted, Fresh,
       Waiting, Progress, Reason, Carried, FailureReportedAsIs, Told, Runs,
       Stages, Codes
  <1>9. CASE GitTalks
    BY <1>9, BoundsAssumption DEF GitTalks, TypeOK, Counted, Fresh, Waiting,
       Progress, Reason, Carried, FailureReportedAsIs, Told, Runs, Stages, Codes
  <1>10. CASE GitTimeout
    BY <1>10, BoundsAssumption DEF GitTimeout, TypeOK, Counted, Fresh, Waiting,
       Progress, Reason, Carried, FailureReportedAsIs, Told, Runs, Stages, Codes
  <1>11. CASE TrivyTimeout
    BY <1>11, BoundsAssumption DEF TrivyTimeout, Throw, TypeOK, Counted, Fresh,
       Waiting, Progress, Reason, Carried, FailureReportedAsIs, Told, Runs,
       Stages, Codes
  <1>12. CASE Crash
    BY <1>12, BoundsAssumption DEF Crash, MayFault, TypeOK, Counted, Fresh,
       Waiting, Progress, Reason, Carried, FailureReportedAsIs, Told, Runs,
       Stages, Codes
  <1>13. ASSUME NEW r \in Runs, TrivyWrites(r)
         PROVE  SafeInv'
    <2>1. /\ report' \in [Runs -> BOOLEAN]
          /\ \A q \in Runs : q # r => report'[q] = report[q]
      BY <1>13 DEF TrivyWrites, TypeOK
    <2>2. ~(r > run)
      BY <1>13 DEF TrivyWrites, Fresh
    <2>3. UNCHANGED <<repo, runVars, childVars, faultVars>>
      BY <1>13 DEF TrivyWrites
    <2> QED
      BY <2>1, <2>2, <2>3 DEF TypeOK, Counted, Fresh, Waiting, Progress, Reason, Carried,
         FailureReportedAsIs, Told
  <1>14. ASSUME NEW r \in Runs, AbortedTrivyExits(r)
         PROVE  SafeInv'
    <2>1. /\ trivy' \in [Runs -> {"none", "running", "stopping", "stopped", "ended"}]
          /\ trivy[r] = "stopping" /\ trivy'[r] = "stopped"
          /\ \A q \in Runs : q # r => trivy'[q] = trivy[q]
      BY <1>14 DEF AbortedTrivyExits, TypeOK
    <2>2. ~(r > run)
      BY <2>1 DEF Fresh
    <2>3. UNCHANGED <<git, silent, failure, runVars, fileVars, faultVars>>
      BY <1>14 DEF AbortedTrivyExits
    <2>4. TypeOK' /\ Counted'
      BY <2>1, <2>3 DEF TypeOK, Counted
    <2>5. Fresh' /\ Waiting'
      BY <2>1, <2>2, <2>3 DEF Fresh, Waiting
    <2>6. Progress' /\ Reason'
      BY <2>1, <2>3, RunNow DEF Progress, Reason, Carried
    <2>7. FailureReportedAsIs'
      BY <2>1, <2>3 DEF FailureReportedAsIs, Told
    <2> QED
      BY <2>4, <2>5, <2>6, <2>7
  <1>15. CASE UNCHANGED vars
    BY <1>15 DEF vars, TypeOK, Counted, Fresh, Waiting, Progress, Reason, Carried,
       FailureReportedAsIs, Told
  <1> QED
    BY <1>1, <1>2, <1>3, <1>4, <1>5, <1>6, <1>7, <1>8, <1>9, <1>10, <1>11, <1>12, <1>13, <1>14, <1>15, PrepareSafe, UncloneSafe, RemoveSafe,
       TrivyClosesSafe DEF Next, Process, Children
-----------------------------------------------------------------------------
\* Counting two sets of runs, one after a step and one before it
LEMMA LostOnes ==
    ASSUME NEW old \in SUBSET Runs, NEW new \in SUBSET Runs
    PROVE  /\ Cardinality(old) \in Nat /\ Cardinality(new) \in Nat
           /\ new \subseteq old => Cardinality(new) <= Cardinality(old)
           /\ \A r : new \subseteq old \cup {r} => Cardinality(new) <= Cardinality(old) + 1
  <1>1. IsFiniteSet(Runs)
    BY BoundsAssumption, FS_Interval DEF Runs
  <1>2. IsFiniteSet(old) /\ IsFiniteSet(new)
    BY <1>1, FS_Subset
  <1>3. Cardinality(old) \in Nat /\ Cardinality(new) \in Nat
    BY <1>2, FS_CardinalityType
  <1>4. ASSUME new \subseteq old
        PROVE  Cardinality(new) <= Cardinality(old)
    BY <1>2, <1>4, FS_Subset
  <1>5. ASSUME NEW r, new \subseteq old \cup {r}
        PROVE  Cardinality(new) <= Cardinality(old) + 1
    <2>1. /\ IsFiniteSet(old \cup {r})
          /\ \/ Cardinality(old \cup {r}) = Cardinality(old)
             \/ Cardinality(old \cup {r}) = Cardinality(old) + 1
      BY <1>2, FS_AddElement
    <2>2. Cardinality(new) <= Cardinality(old \cup {r})
      BY <1>5, <2>1, FS_Subset
    <2> QED
      BY <1>3, <2>1, <2>2
  <1> QED
    BY <1>3, <1>4, <1>5

\* A step that loses no path is free, one that loses one is a removal that
\* failed, one that loses two is a crash
NothingLost == /\ LostRepos' \subseteq LostRepos /\ LostReports' \subseteq LostReports
               /\ rmFailures' >= rmFailures /\ crashes' = crashes

OneLost == /\ \/ LostRepos' \subseteq LostRepos \cup {run} /\ LostReports' \subseteq LostReports
              \/ LostRepos' \subseteq LostRepos /\ LostReports' \subseteq LostReports \cup {run}
           /\ rmFailures' = rmFailures + 1 /\ crashes' = crashes

TwoLost == /\ LostRepos' \subseteq LostRepos \cup {run}
           /\ LostReports' \subseteq LostReports \cup {run}
           /\ rmFailures' = rmFailures /\ crashes' = crashes + 1

LEMMA DebtsPaid ==
    ASSUME Counted, Counted', Debts, NothingLost \/ OneLost \/ TwoLost
    PROVE  Debts'
  <1>1. PICK a \in SUBSET Runs, b \in SUBSET Runs, c \in SUBSET Runs, d \in SUBSET Runs :
            a = LostRepos /\ b = LostReports /\ c = LostRepos' /\ d = LostReports'
    BY DEF LostRepos, LostReports
  <1>2. Cardinality(a) + Cardinality(b) <= rmFailures + 2 * crashes
    BY <1>1 DEF Debts
  <1>3. Cardinality(c) + Cardinality(d) <= rmFailures' + 2 * crashes'
    <2>1. /\ Cardinality(a) \in Nat /\ Cardinality(c) \in Nat
          /\ c \subseteq a => Cardinality(c) <= Cardinality(a)
          /\ c \subseteq a \cup {run} => Cardinality(c) <= Cardinality(a) + 1
      BY LostOnes
    <2>2. /\ Cardinality(b) \in Nat /\ Cardinality(d) \in Nat
          /\ d \subseteq b => Cardinality(d) <= Cardinality(b)
          /\ d \subseteq b \cup {run} => Cardinality(d) <= Cardinality(b) + 1
      BY LostOnes
    <2>3. CASE NothingLost
      BY <1>1, <1>2, <2>1, <2>2, <2>3 DEF NothingLost, Counted
    <2>4. CASE OneLost
      BY <1>1, <1>2, <2>1, <2>2, <2>4 DEF OneLost, Counted
    <2>5. CASE TwoLost
      BY <1>1, <1>2, <2>1, <2>2, <2>5 DEF TwoLost, Counted
    <2> QED
      BY <2>3, <2>4, <2>5
  <1> QED
    BY <1>1, <1>3 DEF Debts
\* No other step loses a path that cleanup() could still have removed
LEMMA LostStep ==
    ASSUME SafeInv, SafeInv', [Next]_vars
    PROVE  NothingLost \/ OneLost \/ TwoLost
  <1> USE DEF SafeInv, runVars, childVars, fileVars, faultVars
  <1>1. ASSUME Start PROVE NothingLost
    BY <1>1, RunNow DEF Start, NothingLost, LostRepos, LostReports, Over,
       RepoGivenUp, ReportGivenUp, TypeOK, Counted, Fresh, Waiting, Progress,
       Runs
  <1>2. ASSUME Prepare PROVE NothingLost
    BY <1>2, RunNow DEF Prepare, Goto, Throw, NothingLost, LostRepos,
       LostReports, Over, RepoGivenUp, ReportGivenUp, TypeOK, Counted, Fresh,
       Waiting, Progress, Runs
  <1>3. ASSUME Measure PROVE NothingLost
    BY <1>3, RunNow DEF Measure, GiveUpClone, NothingLost, LostRepos,
       LostReports, Over, RepoGivenUp, ReportGivenUp, TypeOK, Counted, Fresh,
       Waiting, Progress, Runs
  <1>4. ASSUME Unclone PROVE NothingLost \/ OneLost
    BY <1>4, RunNow DEF Unclone, Throw, NothingLost, OneLost, LostRepos,
       LostReports, Over, RepoGivenUp, ReportGivenUp, TypeOK, Counted, Fresh,
       Waiting, Progress, Runs
  <1>5. ASSUME Spawn PROVE NothingLost
    <2>1. stage \notin {"idle", "cleanup"} /\ repoDir
      BY <1>5 DEF Spawn, Progress
    <2>2. /\ stage' # "idle" /\ UNCHANGED <<run, repo, report, rmFailures, crashes>>
          /\ \A r \in Runs : r # run => trivy'[r] = trivy[r]
      BY <1>5, <2>1 DEF Spawn, Goto, Throw, TypeOK
    <2>3. ~RepoGivenUp' /\ ~ReportGivenUp'
      BY <1>5, <2>1 DEF Spawn, Goto, Throw, RepoGivenUp, ReportGivenUp
    <2> QED
      BY <2>1, <2>2, <2>3 DEF NothingLost, LostRepos, LostReports, Over, TypeOK, Counted, Runs
  <1>6. ASSUME Parse PROVE NothingLost
    <2>1. stage \notin {"idle", "cleanup"} /\ repoDir
      BY <1>6 DEF Parse, Progress
    <2>2. /\ stage' # "idle" /\ UNCHANGED <<run, repo, report, rmFailures, crashes>>
          /\ \A r \in Runs : r # run => trivy'[r] = trivy[r]
      BY <1>6, <2>1 DEF Parse, Goto, Throw, TypeOK
    <2>3. ~RepoGivenUp' /\ ~ReportGivenUp'
      BY <1>6, <2>1 DEF Parse, Goto, Throw, RepoGivenUp, ReportGivenUp
    <2> QED
      BY <2>1, <2>2, <2>3 DEF NothingLost, LostRepos, LostReports, Over, TypeOK, Counted, Runs
  <1>7. ASSUME Finish PROVE NothingLost
    <2>1. stage \notin {"idle", "cleanup"} /\ repoDir
      BY <1>7 DEF Finish, Progress
    <2>2. /\ stage' # "idle" /\ UNCHANGED <<run, repo, report, rmFailures, crashes>>
          /\ \A r \in Runs : r # run => trivy'[r] = trivy[r]
      BY <1>7, <2>1 DEF Finish, Clean, Throw, TypeOK
    <2>3. ~RepoGivenUp' /\ ~ReportGivenUp'
      BY <1>7, <2>1 DEF Finish, Clean, Throw, RepoGivenUp, ReportGivenUp
    <2> QED
      BY <2>1, <2>2, <2>3 DEF NothingLost, LostRepos, LostReports, Over, TypeOK, Counted, Runs
  <1>8. ASSUME Record PROVE NothingLost
    BY <1>8, RunNow DEF Record, Clean, NothingLost, LostRepos, LostReports,
       Over, RepoGivenUp, ReportGivenUp, TypeOK, Counted, Fresh, Waiting,
       Progress, Runs
  <1>9. ASSUME GitFallsSilent PROVE NothingLost
    BY <1>9, RunNow DEF GitFallsSilent, NothingLost, LostRepos, LostReports,
       Over, RepoGivenUp, ReportGivenUp, TypeOK, Counted, Fresh, Waiting,
       Progress, Runs
  <1>10. ASSUME GitTalks PROVE NothingLost
    BY <1>10, RunNow DEF GitTalks, NothingLost, LostRepos, LostReports, Over,
       RepoGivenUp, ReportGivenUp, TypeOK, Counted, Fresh, Waiting, Progress,
       Runs
  <1>11. ASSUME GitTimeout PROVE NothingLost
    BY <1>11, RunNow DEF GitTimeout, NothingLost, LostRepos, LostReports, Over,
       RepoGivenUp, ReportGivenUp, TypeOK, Counted, Fresh, Waiting, Progress,
       Runs
  <1>12. ASSUME GitExits PROVE NothingLost
    BY <1>12, RunNow DEF GitExits, Goto, GitFails, GiveUpClone, NothingLost,
       LostRepos, LostReports, Over, RepoGivenUp, ReportGivenUp, TypeOK,
       Counted, Fresh, Waiting, Progress, Runs
  <1>13. ASSUME TrivyTimeout PROVE NothingLost
    BY <1>13, RunNow DEF TrivyTimeout, Throw, NothingLost, LostRepos,
       LostReports, Over, RepoGivenUp, ReportGivenUp, TypeOK, Counted, Fresh,
       Waiting, Progress, Runs
  <1>14. ASSUME TrivyCloses PROVE NothingLost
    <2>1. stage \notin {"idle", "cleanup"} /\ repoDir
      BY <1>14 DEF TrivyCloses, Progress
    <2>2. /\ stage' # "idle" /\ UNCHANGED <<run, repo, report, rmFailures, crashes>>
          /\ \A r \in Runs : r # run => trivy'[r] = trivy[r]
      <3>1. stage' \in {"parse", "record"} /\ UNCHANGED run
        BY <1>14 DEF TrivyCloses, Goto, Throw
      <3>2. trivy' = [trivy EXCEPT ![run] = "ended"] /\ UNCHANGED <<fileVars, faultVars>>
        BY <1>14 DEF TrivyCloses
      <3> QED
        BY <3>1, <3>2 DEF TypeOK
    <2>3. ~RepoGivenUp' /\ ~ReportGivenUp'
      BY <1>14, <2>1 DEF TrivyCloses, Goto, Throw, RepoGivenUp, ReportGivenUp
    <2> QED
      BY <2>1, <2>2, <2>3 DEF NothingLost, LostRepos, LostReports, Over, TypeOK, Counted, Runs
  <1>15. ASSUME Crash PROVE TwoLost
    BY <1>15, RunNow DEF Crash, TwoLost, LostRepos, LostReports, Over,
       RepoGivenUp, ReportGivenUp, TypeOK, Counted, Fresh, Waiting, Progress,
       Runs
  <1>16. ASSUME NEW p \in Runs, TrivyWrites(p) PROVE NothingLost
    BY <1>16, RunNow DEF TrivyWrites, NothingLost, LostRepos, LostReports, Over,
       RepoGivenUp, ReportGivenUp, TypeOK, Counted, Fresh, Waiting, Progress,
       Runs
  <1>17. ASSUME NEW p \in Runs, AbortedTrivyExits(p) PROVE NothingLost
    BY <1>17, RunNow DEF AbortedTrivyExits, NothingLost, LostRepos, LostReports,
       Over, RepoGivenUp, ReportGivenUp, TypeOK, Counted, Fresh, Waiting,
       Progress, Runs
  <1>18. ASSUME NEW p \in toRemove, Remove(p) PROVE NothingLost \/ OneLost
    BY <1>18, RunNow DEF Remove, NothingLost, OneLost, LostRepos, LostReports,
       Over, RepoGivenUp, ReportGivenUp, TypeOK, Counted, Fresh, Waiting,
       Progress, Runs
  <1>19. ASSUME UNCHANGED vars PROVE NothingLost
    BY <1>19 DEF vars, NothingLost, LostRepos, LostReports, Over, RepoGivenUp, ReportGivenUp,
       Counted
  <1> QED
    BY <1>1, <1>2, <1>3, <1>4, <1>5, <1>6, <1>7, <1>8, <1>9, <1>10, <1>11, <1>12, <1>13, <1>14, <1>15, <1>16, <1>17, <1>18, <1>19 DEF Next, Process, Children
-----------------------------------------------------------------------------
LEMMA PipelineInvariant == Spec => []PipelineInv
  <1>1. Init => PipelineInv
    <2> SUFFICES ASSUME Init PROVE PipelineInv
      OBVIOUS
    <2>1. SafeInv
      <3>1. TypeOK /\ Counted
        <4>1. /\ repo \in [Runs -> BOOLEAN] /\ report \in [Runs -> BOOLEAN]
              /\ trivy \in [Runs -> {"none", "running", "stopping", "stopped", "ended"}]
              /\ shown \in [Runs -> Codes \cup {"none"}]
              /\ failure \in [Runs -> {"none", "diskFull", "interrupted", "other"}]
          BY DEF Init
        <4>2. /\ run \in 0..MaxRuns /\ stage \in Stages
              /\ rmFailures + crashes \in 0..MaxFaults /\ Counted
          BY BoundsAssumption DEF Init, Counted, Stages
        <4>3. silent \in BOOLEAN /\ repoDir \in BOOLEAN
          BY DEF Init
        <4> QED
          BY <4>1, <4>2, <4>3 DEF Init, TypeOK
      <3>2. Fresh /\ Waiting /\ Progress /\ Reason
        BY DEF Init, Fresh, Waiting, Progress, Reason
      <3>3. FailureReportedAsIs
        BY DEF Init, FailureReportedAsIs, Told
      <3> QED
        BY <3>1, <3>2, <3>3 DEF SafeInv
    <2>2. LostRepos = {} /\ LostReports = {}
      BY DEF Init, LostRepos, LostReports
    <2>3. Debts
      BY <2>2, FS_EmptySet DEF Init, Debts
    <2> QED
      BY <2>1, <2>3 DEF PipelineInv
  <1>2. PipelineInv /\ [Next]_vars => PipelineInv'
    <2> SUFFICES ASSUME PipelineInv, [Next]_vars PROVE PipelineInv'
      OBVIOUS
    <2>1. SafeInv'
      BY SafeStep DEF PipelineInv
    <2>2. NothingLost \/ OneLost \/ TwoLost
      BY <2>1, LostStep DEF PipelineInv
    <2> QED
      BY <2>1, <2>2, DebtsPaid DEF PipelineInv, SafeInv
  <1> QED
    BY <1>1, <1>2, PTL DEF Spec

(* Every variable of a worker's pipeline stays in its range, in as many runs *)
(* and under as many faults as there are.                                   *)
THEOREM PipelineTypeCorrect == Spec => []TypeOK
  BY PipelineInvariant, PTL DEF PipelineInv, SafeInv

(* No child process is abandoned: git runs only while the clone is awaited, *)
(* and a trivy that nobody waits for has been told to stop, after a crash   *)
(* in the middle of anything too.                                           *)
THEOREM ChildrenWaitedFor == Spec => []NoStrayChild
  <1>1. PipelineInv => NoStrayChild
    BY DEF PipelineInv, SafeInv, Waiting, NoStrayChild
  <1> QED
    BY <1>1, PipelineInvariant, PTL

(* The reason of a failure is the reason the client reads: the error that   *)
(* reaches the catch block of process() still tells a full disk and a       *)
(* timeout from other failures, unless a removal failed on the way.         *)
THEOREM ReasonReachesClient == Spec => []FailureReportedAsIs
  BY PipelineInvariant, PTL DEF PipelineInv, SafeInv

(* The disk of a worker fills only as fast as removals fail and the process *)
(* crashes: cleanup() misses no path that it could still remove.            *)
THEOREM LeftoversPaidFor == Spec => []LeftoversAccounted
  <1> DEFINE Repos == {r \in Runs : Over(r) /\ repo[r]}
             Reports == {r \in Runs : Over(r) /\ report[r]
                                      /\ trivy[r] \notin {"stopping", "stopped"}}
  <1>1. PipelineInv => LeftoversAccounted
    <2> SUFFICES ASSUME PipelineInv PROVE LeftoversAccounted
      OBVIOUS
    <2>1. PICK a \in SUBSET Runs, b \in SUBSET Runs, c \in SUBSET Runs, d \in SUBSET Runs :
              a = LostRepos /\ b = LostReports /\ c = Repos /\ d = Reports
      BY DEF LostRepos, LostReports
    <2>2. c \subseteq a /\ d \subseteq b
      BY <2>1 DEF LostRepos, LostReports
    <2>3. Cardinality(c) <= Cardinality(a) /\ Cardinality(d) <= Cardinality(b)
      BY <2>2, LostOnes
    <2>4. Cardinality(a) + Cardinality(b) <= rmFailures + 2 * crashes
      BY <2>1 DEF PipelineInv, Debts
    <2>5. /\ Cardinality(a) \in Nat /\ Cardinality(b) \in Nat
          /\ Cardinality(c) \in Nat /\ Cardinality(d) \in Nat
      BY LostOnes
    <2>6. Cardinality(c) + Cardinality(d) <= rmFailures + 2 * crashes
      BY <2>3, <2>4, <2>5 DEF PipelineInv, SafeInv, Counted
    <2> QED
      BY <2>1, <2>6 DEF LeftoversAccounted
  <1> QED
    BY <1>1, PipelineInvariant, PTL
-----------------------------------------------------------------------------
(* The files, timers and children of a run keep to the try, catch and       *)
(* finally blocks that the Redis commands of ScanProcessor keep to          *)
(* (StagesKept in ScanRefinement_proofs): the two views of process() fit.   *)
THEOREM PipelineInStages == Spec => RunsInStages
  <1> DEFINE View == [w \in ThisProcess |-> StageOf]
  <1>1. Init => InStages!Init
    BY DEF Init, InStages!Init, StageOf, ThisProcess
  <1>2. PipelineInv /\ [Next]_vars => [InStages!Next]_View
    <2> SUFFICES ASSUME PipelineInv, [Next]_vars
                 PROVE  [InStages!Next]_View
      OBVIOUS
    <2>1. \/ StageOf' = StageOf
          \/ StageOf = "idle" /\ StageOf' = "start"
          \/ StageOf = "start" /\ StageOf' = "engine"
          \/ StageOf = "engine" /\ StageOf' = "parse"
          \/ StageOf = "parse" /\ StageOf' = "finish"
          \/ StageOf = "cleanup" /\ StageOf' = "idle"
          \/ StageOf \in {"start", "engine", "parse", "finish"} /\ StageOf' = "record"
          \/ StageOf \in {"finish", "record"} /\ StageOf' = "cleanup"
          \/ StageOf' = "idle"
      <3> USE DEF PipelineInv, SafeInv, runVars, StageOf
      <3>1. CASE Start \/ Crash
        BY <3>1 DEF Start, Crash
      <3>2. CASE Prepare \/ Measure \/ Unclone \/ Spawn
        BY <3>2 DEF Prepare, Measure, Unclone, Spawn, Goto, Throw, GiveUpClone
      <3>3. CASE Parse \/ Finish \/ Record
        BY <3>3 DEF Parse, Finish, Record, Goto, Throw, Clean
      <3>4. ASSUME NEW p \in toRemove, Remove(p)
            PROVE  StageOf' = StageOf \/ StageOf' = "idle"
        BY <3>4 DEF Remove, Waiting
      <3>5. CASE GitExits
        BY <3>5 DEF GitExits, Waiting, Goto, GitFails, GiveUpClone
      <3>6. CASE TrivyTimeout \/ TrivyCloses
        BY <3>6 DEF TrivyTimeout, TrivyCloses, Goto, Throw
      <3>7. ASSUME \/ GitFallsSilent \/ GitTalks \/ GitTimeout
                   \/ \E r \in Runs : TrivyWrites(r) \/ AbortedTrivyExits(r)
                   \/ UNCHANGED vars
            PROVE  StageOf' = StageOf
        BY <3>7 DEF GitFallsSilent, GitTalks, GitTimeout, TrivyWrites, AbortedTrivyExits, vars
      <3> QED
        BY <3>1, <3>2, <3>3, <3>4, <3>5, <3>6, <3>7 DEF Next, Process, Children
    <2>2. View' = [View EXCEPT !["this process"] = StageOf']
          /\ View["this process"] = StageOf
      BY DEF ThisProcess
    <2> QED
      BY <2>1, <2>2 DEF InStages!Next, InStages!Continue, InStages!Catch, InStages!Finally,
         InStages!Die, InStages!Enter, ThisProcess
  <1> QED
    BY <1>1, <1>2, PipelineInvariant, PTL DEF Spec, RunsInStages, InStages!Spec


=============================================================================
