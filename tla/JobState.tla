------------------------------ MODULE JobState ------------------------------
(***************************************************************************)
(* The master's job database (JobState.java): an immutable value that      *)
(* `updated` maps, one domain event at a time, to the next one.  The       *)
(* persistent actor keeps the events in its journal and rebuilds the       *)
(* value from them.                                                        *)
(*                                                                         *)
(* The value is a record.  `pending` is the queue of jobs nobody works     *)
(* on, `inProgress`, `accepted` and `done` are the sets of ids of the      *)
(* class, `completed` and `failed` count, per job, the recorded results    *)
(* (worker results are told apart by the job they carry only), and         *)
(* `tasks` lists the status of every task the job summary holds for the    *)
(* job: the code looks a task up with findFirst, so only the first one     *)
(* ever changes.                                                           *)
(*                                                                         *)
(* A job id is generated by `new Job(...)` (a random UUID), so a job and   *)
(* its id are one member of Jobs.                                          *)
(***************************************************************************)
EXTENDS Naturals, Sequences, Functions

CONSTANTS
  Jobs,          \* every job a run may submit
  NoJob,         \* the null job of a result, the id of what is no job
  Trackings,     \* the submissions jobs belong to
  TrackingOf     \* the trackingId of each job

ASSUME JobsAssumption ==
  /\ NoJob \notin Jobs
  /\ TrackingOf \in [Jobs -> Trackings]

Status ==
  {"PENDING", "STARTED", "COMPLETED", "FAILED", "TIMEDOUT", "POSTPONED"}

JobStates ==
  [pending    : Seq(Jobs),
   inProgress : SUBSET Jobs,
   accepted   : SUBSET Jobs,
   done       : SUBSET Jobs,
   completed  : [Jobs -> Nat],
   failed     : [Jobs -> Nat],
   tasks      : [Jobs -> Seq(Status)]]

EmptyJobState ==
  [pending    |-> <<>>,
   inProgress |-> {},
   accepted   |-> {},
   done       |-> {},
   completed  |-> [j \in Jobs |-> 0],
   failed     |-> [j \in Jobs |-> 0],
   tasks      |-> [j \in Jobs |-> <<>>]]

(***************************************************************************)
(* Queries.                                                                *)
(***************************************************************************)
hasJob(d) == d.pending # <<>>

nextJob(d) == Head(d.pending)

\* Variant: only the queue is searched for a job that is sent again.
AcceptedIfQueued(d, j) == j \in Range(d.pending)

isAccepted(d, j) == j \in d.accepted

\* Variant: every accepted job passes for one in progress.
InProgressIfAccepted(d, j) == j \in d.accepted

isInProgress(d, j) == j \in d.inProgress

\* Variant: a repeated report is not recognised.
NeverDone(d, j) == FALSE

isDone(d, j) == j \in d.done

\* The job summary of a tracking id exists once one of its jobs was accepted.
HasSummary(d, t) == \E k \in Jobs : TrackingOf[k] = t /\ d.tasks[k] # <<>>

\* getByWork(j), then setStatus(st) on the task found, for every job of S.
SetStatus(tasks, S, st) ==
  [j \in Jobs |-> IF j \in S /\ tasks[j] # <<>>
                  THEN [tasks[j] EXCEPT ![1] = st]
                  ELSE tasks[j]]

(***************************************************************************)
(* The events.  Each operator is one private constructor of the class; a   *)
(* CanX predicate says when the constructor returns instead of throwing.   *)
(* JobAccepted and JobTimedOut take a sequence of jobs, because one        *)
(* command of the master may persist several of them in a row: applying    *)
(* the sequence is applying its elements from left to right (checked in    *)
(* module MasterJournal).                                                  *)
(***************************************************************************)
\* Variant: a job accepted again gets no second task.
AcceptedWithOneTask(d, s) ==
  [d EXCEPT !.pending  = @ \o s,
            !.accepted = @ \cup Range(s),
            !.tasks    = [j \in Jobs |-> IF j \in Range(s) THEN <<"PENDING">> ELSE @[j]]]

JobAccepted(d, s) ==
  [d EXCEPT !.pending  = @ \o s,
            !.accepted = @ \cup Range(s),
            !.tasks    = [j \in Jobs |-> IF j \in Range(s)
                                         THEN Append(@[j], "PENDING")
                                         ELSE @[j]]]

\* removeFirst throws on an empty queue, the constructor on another head.
CanStart(d, j) == hasJob(d) /\ nextJob(d) = j

JobStarted(d, j) ==
  [d EXCEPT !.pending    = Tail(@),
            !.inProgress = @ \cup {j},
            !.tasks      = SetStatus(@, {j}, "STARTED")]

\* result.job.trackingId must lead to a summary: no null job, no unknown one.
CanRecord(d, r) == r # NoJob /\ HasSummary(d, TrackingOf[r])

\* One more recorded result that names r.
OneMore(count, r) == [count EXCEPT ![r] = @ + 1]

JobCompleted(d, j, r) ==
  [d EXCEPT !.inProgress = @ \ {j},
            !.done       = @ \cup {j},
            !.completed  = OneMore(@, r),
            !.tasks      = SetStatus(@, {r}, "COMPLETED")]

JobFailed(d, j, r) ==
  [d EXCEPT !.inProgress = @ \ {j},
            !.accepted   = @ \ {j},
            !.failed     = OneMore(@, r),
            !.tasks      = SetStatus(@, {r}, "FAILED")]

\* Variant: the job is taken from the event, whatever its state.
TimesOutAnyJob(d, s) == TRUE

\* pendingJobs.addLast(null) throws when the job is not in progress.
CanTimeOut(d, s) == IsInjective(s) /\ Range(s) \subseteq d.inProgress

\* Variant: the job summary is not told.
TimedOutSilently(d, s) ==
  [d EXCEPT !.pending    = @ \o s,
            !.inProgress = @ \ Range(s)]

JobTimedOut(d, s) ==
  [d EXCEPT !.pending    = @ \o s,
            !.inProgress = @ \ Range(s),
            !.tasks      = SetStatus(@, Range(s), "TIMEDOUT")]

\* The head goes to the tail; the status changes for the job the event names.
CanPostpone(d) == hasJob(d)

\* Variant: the head is removed and not put back.
PostponedForGood(d, j) ==
  [d EXCEPT !.pending = Tail(@),
            !.tasks   = SetStatus(@, {j}, "POSTPONED")]

JobPostponed(d, j) ==
  [d EXCEPT !.pending = Append(Tail(@), Head(@)),
            !.tasks   = SetStatus(@, {j}, "POSTPONED")]

(***************************************************************************)
(* What makes a database sound.  The sets of ids follow the job an event   *)
(* names, the counts and the summary the job its result carries: what is   *)
(* said of both is said of a set S of jobs for which they are the same.    *)
(***************************************************************************)
\* Jobs the summary holds a task for.
Known(d) == {j \in Jobs : d.tasks[j] # <<>>}

\* The last acceptance of the job has failed.
HasFailed(d, j) == d.tasks[j] # <<>> /\ j \notin d.accepted

\* Jobs that were accepted and have no verdict yet.
Open(d) == Range(d.pending) \cup d.inProgress

\* The accepted jobs are split among the queue, which holds none of them
\* twice, the jobs in progress and the done ones.
Partition(d) ==
  /\ IsInjective(d.pending)
  /\ Range(d.pending) \cap d.inProgress = {}
  /\ Open(d) \cap d.done = {}
  /\ d.accepted = Open(d) \cup d.done

\* Every acceptance (one task each) is open or has one recorded verdict,
\* and the job is done exactly when that verdict is a completion.
Accounted(d, S) ==
  \A j \in S :
    /\ Len(d.tasks[j]) =
         d.completed[j] + d.failed[j] + (IF j \in Open(d) THEN 1 ELSE 0)
    /\ d.completed[j] = (IF j \in d.done THEN 1 ELSE 0)

\* The status of the task that is looked up follows the job.
ShowsStageOf(d, j) ==
  LET shown == d.tasks[j][1] IN
    /\ j \in d.inProgress => shown = "STARTED"
    /\ j \in d.done => shown = "COMPLETED"
    /\ j \in Range(d.pending) =>
         \/ shown \in {"PENDING", "TIMEDOUT", "POSTPONED"}
         \/ shown = "FAILED" /\ d.failed[j] > 0
    /\ j \notin d.accepted => shown = "FAILED"

ShowsStage(d, S) == \A j \in S : d.tasks[j] # <<>> => ShowsStageOf(d, j)

\* The other tasks of a job that was accepted again never change.
LaterTasksWait(d) ==
  \A j \in Jobs : \A i \in 2..Len(d.tasks[j]) : d.tasks[j][i] = "PENDING"
=============================================================================
