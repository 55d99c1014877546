------------------------------ MODULE Tracking ------------------------------
(***************************************************************************)
(* What the users of the cluster see of a submission: the status the job   *)
(* summary derives from the tasks (JobSummary.java), the counts the        *)
(* tracker page shows (getTrackingInfo of JobState.java), the results a    *)
(* report is made of, and the two lists of the REST API                    *)
(* (RestController.java).  All of them are queries the master answers      *)
(* between two commands, and none changes its state; the summary and the   *)
(* counts are computed from different parts of it.                         *)
(***************************************************************************)
EXTENDS Master

JobsOf(t) == {j \in Jobs : TrackingOf[j] = t}

\* Submissions none of whose jobs is mixed up with another one.
ClearSubmissions == {t \in Trackings : JobsOf(t) \subseteq Clear}

(***************************************************************************)
(* The status of a submission: COMPLETED if all its tasks are, otherwise   *)
(* the first of a list that some task has.  What is in none of the cases,  *)
(* a postponed task above all, counts as FAILED.                           *)
(***************************************************************************)
\* Variant: one completed task is enough.
CompletedByOne(shown) == "COMPLETED" \in shown

AllCompleted(shown) == shown \subseteq {"COMPLETED"}

Precedence == <<"FAILED", "PENDING", "TIMEDOUT", "STARTED">>

\* The statuses of all tasks of the submission.
Shown(d, t) == UNION {Range(d.tasks[j]) : j \in JobsOf(t)}

\* The first status of the list that some task has.
FirstOf(shown) ==
  LET found == {i \in DOMAIN Precedence : Precedence[i] \in shown}
  IN  IF found # {}
      THEN Precedence[CHOOSE i \in found : \A k \in found : i <= k]
      ELSE "FAILED"

getStatus(d, t) ==
  IF AllCompleted(Shown(d, t)) THEN "COMPLETED" ELSE FirstOf(Shown(d, t))

completedJob(d, t) == getStatus(d, t) = "COMPLETED"

\* Variant: what is not completed is running.
RunningUntilCompleted(d, t) == getStatus(d, t) # "COMPLETED"

runningJob(d, t) == getStatus(d, t) \in {"STARTED", "PENDING"}

(***************************************************************************)
(* The tracker page, and the results a report is generated from: per job,  *)
(* the number of results recorded for it.                                  *)
(***************************************************************************)
getCompletedResults(d, t) == [j \in JobsOf(t) |-> d.completed[j]]

getTrackingInfo(d, t) ==
  [pendingCount    |-> Cardinality({i \in DOMAIN d.pending : TrackingOf[d.pending[i]] = t}),
   inProgressCount |-> Cardinality(d.inProgress \cap JobsOf(t)),
   completed       |-> getCompletedResults(d, t),
   failed          |-> [j \in JobsOf(t) |-> d.failed[j]]]

(***************************************************************************)
(* The lists of submissions: running and completed tests.                  *)
(***************************************************************************)
getJobSummary(d) == {t \in Trackings : HasSummary(d, t)}

getRunningSummary(d)      == {t \in getJobSummary(d) : runningJob(d, t)}
getCompletedJobSummary(d) == {t \in getJobSummary(d) : ~runningJob(d, t)}

(***************************************************************************)
(* Properties.                                                             *)
(***************************************************************************)
Untouched(d, t) ==
  LET info == getTrackingInfo(d, t)
  IN  info.pendingCount = 0 /\ info.inProgressCount = 0

(***************************************************************************)
(* A submission is shown as COMPLETED only if the tracker shows none of    *)
(* its jobs pending or in progress and no failure, and its report is made  *)
(* of one result for every job of it that was accepted - through           *)
(* timeouts, reassignment, repeated reports and restarts, and whatever is  *)
(* reported of other submissions (JobSummary.java against JobState.java).  *)
(***************************************************************************)
CompletedMeansFinished ==
  \A t \in getJobSummary(db) \cap ClearSubmissions :
    completedJob(db, t) =>
      /\ Untouched(db, t)
      /\ \A j \in JobsOf(t) :
           /\ getTrackingInfo(db, t).failed[j] = 0
           /\ getCompletedResults(db, t)[j] = (IF j \in db.accepted THEN 1 ELSE 0)

(***************************************************************************)
(* A submission in the list of running tests has a job that is pending or  *)
(* in progress: it leaves the list when its last job gets its verdict.     *)
(* Only while no failed job is sent again: the second task of such a job   *)
(* stays PENDING for good.                                                 *)
(***************************************************************************)
RunningMeansOpen ==
  \A t \in getRunningSummary(db) \cap ClearSubmissions : ~Untouched(db, t)

(***************************************************************************)
(* The list of completed tests holds submissions that are over             *)
(* (completed.component.html:8: "Includes jobs that are completed.").      *)
(* Broken: a submission whose tasks were postponed, or one of whose tasks  *)
(* failed or timed out while others run, is listed as well.                *)
(***************************************************************************)
CompletedListIsOver ==
  \A t \in getCompletedJobSummary(db) : Untouched(db, t)

(***************************************************************************)
(* A submission that is shown as COMPLETED stays so, unless another job of *)
(* it is accepted: neither late messages nor a restart take it back.       *)
(***************************************************************************)
CompletedIsKept ==
  [][\A t \in getJobSummary(db) \cap ClearSubmissions :
       /\ completedJob(db, t)
       /\ \A j \in JobsOf(t) : Len(db'.tasks[j]) <= Len(db.tasks[j])
       /\ JobsOf(t) \cap mixed' = {}
       => t \in getJobSummary(db') /\ completedJob(db', t)]_<<db, mixed>>
=============================================================================
