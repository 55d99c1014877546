-------------------------- MODULE RefinementProofs --------------------------
(***************************************************************************)
(* The master keeps the promises of WorkPool, for every number of workers  *)
(* and jobs, as long as recovery replays the whole journal.                *)
(*                                                                         *)
(* The argument: every step of the master leaves its job database alone,   *)
(* applies one event to it (a batch counts as one), or restarts from a     *)
(* journal to which at most one event was added (Moves, Journaled).  What  *)
(* an event does is said once, job by job (Effect), and each of the        *)
(* properties follows from that.  A verdict with the result of another     *)
(* job (Confuses) leaves all jobs but these two as they are.               *)
(*                                                                         *)
(* What the users see of a submission comes first: a status COMPLETED can  *)
(* be relied upon, and so can, further down, the list of running tests as  *)
(* long as no failed job is sent again.                                    *)
(***************************************************************************)
EXTENDS MasterRefinement, Tracking, MasterProofs, FiniteSetTheorems

-----------------------------------------------------------------------------
(***************************************************************************)
(* What the tracker shows.                                                 *)
(***************************************************************************)
\* The status COMPLETED means that every task shows it.
LEMMA CompletedShown ==
  ASSUME NEW d, NEW t, completedJob(d, t)
  PROVE  AllCompleted(Shown(d, t))
<1>1. SUFFICES ASSUME ~AllCompleted(Shown(d, t)), FirstOf(Shown(d, t)) = "COMPLETED"
               PROVE  FALSE
  BY DEF completedJob, getStatus
<1> DEFINE found == {i \in DOMAIN Precedence : Precedence[i] \in Shown(d, t)}
<1>2. DOMAIN Precedence = 1..4 /\ \A i \in 1..4 : Precedence[i] # "COMPLETED"
  BY DEF Precedence
<1>3. found # {}
  BY <1>1 DEF FirstOf
<1>4. PICK first \in found : \A k \in found : first <= k
  <2>1. found \subseteq Nat
    BY <1>2
  <2>2. QED BY <1>2, <1>3
<1>5. (CHOOSE i \in found : \A k \in found : i <= k) \in found
  BY <1>4
<1>6. QED BY <1>1, <1>2, <1>3, <1>5 DEF FirstOf

\* The tracker shows nothing pending or in progress when no job is open.
LEMMA NothingOpen ==
  ASSUME NEW d, d \in JobStates, NEW t, Open(d) \cap JobsOf(t) = {}
  PROVE  Untouched(d, t)
<1>1. {i \in DOMAIN d.pending : TrackingOf[d.pending[i]] = t} = {}
  <2>1. SUFFICES ASSUME NEW i \in DOMAIN d.pending, TrackingOf[d.pending[i]] = t
                 PROVE  FALSE
    OBVIOUS
  <2>2. d.pending[i] \in Jobs /\ d.pending[i] \in Range(d.pending)
    BY ElementOfSeq, LenProperties DEF JobStates, Range
  <2>3. QED BY <2>1, <2>2 DEF Open, JobsOf
<1>2. d.inProgress \cap JobsOf(t) = {}
  BY DEF Open
<1>3. Cardinality({}) = 0
  BY FS_EmptySet
<1>4. QED BY <1>1, <1>2, <1>3 DEF Untouched, getTrackingInfo

\* All jobs of a completed submission are done, and none of them failed.
LEMMA CompletedJobs ==
  ASSUME NEW d, NEW C \in SUBSET Jobs, Sound(d, C), NEW t, completedJob(d, t),
         NEW j \in JobsOf(t), j \in C
  PROVE  /\ j \notin Open(d)
         /\ d.failed[j] = 0
         /\ d.completed[j] = IF j \in d.accepted THEN 1 ELSE 0
<1>1. /\ d \in JobStates /\ Partition(d) /\ Accounted(d, C)
      /\ ShowsStage(d, C) /\ LaterTasksWait(d) /\ j \in Jobs
  BY DEF Sound, JobsOf
<1>2. /\ d.tasks[j] \in Seq(Status) /\ Len(d.tasks[j]) \in Nat
      /\ DOMAIN d.tasks[j] = 1..Len(d.tasks[j])
      /\ d.tasks[j] = <<>> <=> Len(d.tasks[j]) = 0
      /\ d.completed[j] \in Nat /\ d.failed[j] \in Nat
  BY <1>1, LenProperties, EmptySeq DEF JobStates
<1>3. \A i \in 1..Len(d.tasks[j]) : d.tasks[j][i] = "COMPLETED"
  <2>1. Shown(d, t) \subseteq {"COMPLETED"}
    BY CompletedShown DEF AllCompleted
  <2>2. Range(d.tasks[j]) \subseteq {"COMPLETED"}
    BY <2>1 DEF Shown
  <2>3. QED BY <1>2, <2>2 DEF Range
<1>4. Len(d.tasks[j]) = 0 \/ Len(d.tasks[j]) = 1
  <2>1. ASSUME NEW n \in Nat, 2 \notin 1..n
        PROVE  n = 0 \/ n = 1
    BY <2>1
  <2>2. ASSUME 2 \in 1..Len(d.tasks[j])
        PROVE  FALSE
    <3>1. 2 \in 2..Len(d.tasks[j])
      BY <1>2, <2>2
    <3>2. QED BY <2>2, <3>1, <1>1, <1>3 DEF LaterTasksWait
  <2>3. QED BY <2>1, <2>2, <1>2
<1>5. /\ Len(d.tasks[j]) = d.completed[j] + d.failed[j] + (IF j \in Open(d) THEN 1 ELSE 0)
      /\ d.completed[j] = (IF j \in d.done THEN 1 ELSE 0)
      /\ j \in d.accepted <=> j \in Open(d) \/ j \in d.done
  BY <1>1 DEF Accounted, Partition
<1>6. CASE d.tasks[j] = <<>>
  BY <1>2, <1>5, <1>6
<1>7. CASE d.tasks[j] # <<>>
  <2>1. ShowsStageOf(d, j) /\ d.tasks[j][1] = "COMPLETED"
    BY <1>1, <1>2, <1>3, <1>4, <1>7 DEF ShowsStage
  <2>2. j \notin Open(d) /\ j \in d.accepted
    BY <2>1 DEF ShowsStageOf, Open
  <2>3. QED BY <2>2, <1>2, <1>4, <1>5
<1>8. QED BY <1>6, <1>7

-----------------------------------------------------------------------------
(***************************************************************************)
(* A status that can be relied upon.                                       *)
(***************************************************************************)
\* A submission shown as COMPLETED is finished: nothing of it is pending or
\* in progress, no job of it failed, and its report has one result for
\* every job of it that was accepted - whatever results are reported for
\* the jobs of other submissions.
THEOREM CompletedIsFinished == Spec => []CompletedMeansFinished
<1>1. TypeInv => CompletedMeansFinished
  <2>1. SUFFICES ASSUME TypeInv, NEW t \in getJobSummary(db), completedJob(db, t),
                        JobsOf(t) \subseteq Clear
                 PROVE  /\ Untouched(db, t)
                        /\ \A j \in JobsOf(t) :
                             /\ getTrackingInfo(db, t).failed[j] = 0
                             /\ getCompletedResults(db, t)[j]
                                  = (IF j \in db.accepted THEN 1 ELSE 0)
    BY DEF CompletedMeansFinished, ClearSubmissions
  <2>2. Sound(db, Clear) /\ Clear \in SUBSET Jobs /\ db \in JobStates
    BY <2>1 DEF TypeInv, DbInv, Sound, Clear
  <2>3. \A j \in JobsOf(t) :
          /\ j \notin Open(db)
          /\ db.failed[j] = 0
          /\ db.completed[j] = IF j \in db.accepted THEN 1 ELSE 0
    BY <2>1, <2>2, CompletedJobs
  <2>4. Untouched(db, t)
    BY <2>2, <2>3, NothingOpen
  <2>5. QED BY <2>3, <2>4 DEF getTrackingInfo, getCompletedResults
<1>2. QED BY <1>1, Invariance, PTL

-----------------------------------------------------------------------------
(***************************************************************************)
(* Steps of a job database.                                                *)
(***************************************************************************)
Accepts(d, e, s) ==
  /\ IsInjective(s)
  /\ Range(s) \cap d.accepted = {}
  /\ Resends \/ \A j \in Range(s) : ~HasFailed(d, j)
  /\ e = JobAccepted(d, s)

Starts(d, e)    == hasJob(d) /\ e = JobStarted(d, nextJob(d))
Postpones(d, e) == hasJob(d) /\ e = JobPostponed(d, nextJob(d))
Completes(d, e, j) == j \in d.inProgress /\ e = JobCompleted(d, j, j)
Fails(d, e, j)     == j \in d.inProgress /\ e = JobFailed(d, j, j)
TimesOut(d, e, s)  == CanTimeOut(d, s) /\ e = JobTimedOut(d, s)

Moves(d, e) ==
  \/ e = d
  \/ \E s \in Seq(Jobs) : Accepts(d, e, s) \/ TimesOut(d, e, s)
  \/ Starts(d, e) \/ Postpones(d, e)
  \/ \E j \in Jobs : Completes(d, e, j) \/ Fails(d, e, j)

\* A verdict on j with the result of another job r.
Confuses(d, e, j, r) ==
  /\ j # r
  /\ j \in d.inProgress
  /\ e = JobCompleted(d, j, r) \/ e = JobFailed(d, j, r)

\* The live database makes a move, or restarts, and so does what is replayed;
\* or both record a verdict with another job's result.
Journaled ==
  \/ /\ mixed' = mixed
     /\ Moves(durable, durable')
     /\ Moves(db, db') \/ db' = durable'
  \/ \E j, r \in Jobs :
       /\ mixed' = mixed \cup {j, r}
       /\ Confuses(db, db', j, r)
       /\ durable' = durable \/ Confuses(durable, durable', j, r)

(***************************************************************************)
(* The effect of an event on every job: those of S come to a stage and     *)
(* get more tasks or verdicts, the others keep what they have.             *)
(***************************************************************************)
Where(d, j) ==
  IF j \in d.done THEN "completed"
  ELSE IF j \in d.inProgress THEN "running"
  ELSE IF j \in Range(d.pending) THEN "waiting"
  ELSE IF d.failed[j] > 0 THEN "failed"
  ELSE "new"

Verdicts(d, j) == d.completed[j] + d.failed[j]

Effect(d, e, S, st, tasks, verdicts) ==
  \A k \in Jobs :
    /\ Where(e, k) = IF k \in S THEN st ELSE Where(d, k)
    /\ Len(e.tasks[k]) = IF k \in S THEN Len(d.tasks[k]) + tasks ELSE Len(d.tasks[k])
    /\ Verdicts(e, k) = IF k \in S THEN Verdicts(d, k) + verdicts ELSE Verdicts(d, k)
    /\ k \notin S => e.tasks[k] = d.tasks[k]
    /\ k \in d.done => k \in e.done /\ e.completed[k] = d.completed[k]

\* What a verdict on j with the result of r leaves alone.
NoThird(d, e, j, r) ==
  \A k \in Jobs :
    /\ Len(e.tasks[k]) = Len(d.tasks[k])
    /\ k \in d.done => k \in e.done
    /\ k # r => e.tasks[k] = d.tasks[k] /\ e.completed[k] = d.completed[k]
    /\ k # j /\ k # r => Where(e, k) = Where(d, k) /\ Verdicts(e, k) = Verdicts(d, k)

\* What soundness says of one job.
LEMMA SoundJob ==
  ASSUME NEW d, NEW C \in SUBSET Jobs, Sound(d, C), NEW k \in Jobs
  PROVE  /\ d.completed[k] \in Nat /\ d.failed[k] \in Nat
         /\ Len(d.tasks[k]) \in Nat
         /\ k \in d.accepted <=> k \in Open(d) \/ k \in d.done
         /\ ~(k \in Open(d) /\ k \in d.done)
         /\ ~(k \in d.inProgress /\ k \in Range(d.pending))
         /\ k \in Open(d) <=> Where(d, k) \in {"waiting", "running"}
         /\ k \in d.inProgress <=> Where(d, k) = "running"
<1>1. d \in JobStates /\ Partition(d)
  BY DEF Sound
<1>2. d.completed[k] \in Nat /\ d.failed[k] \in Nat /\ Len(d.tasks[k]) \in Nat
  BY <1>1, LenProperties DEF JobStates
<1>3. QED BY <1>1, <1>2 DEF Partition, Open, Where

-----------------------------------------------------------------------------
(***************************************************************************)
(* The effect of each event.                                               *)
(***************************************************************************)
LEMMA AcceptsEffect ==
  ASSUME NEW d, NEW e, NEW C \in SUBSET Jobs, Sound(d, C), NEW s \in Seq(Jobs), Accepts(d, e, s)
  PROVE  /\ Effect(d, e, Range(s), "waiting", 1, 0)
         /\ Range(s) \subseteq Jobs
         /\ \A k \in Range(s) : Where(d, k) \in {"new", "failed"}
<1>1. /\ d \in JobStates /\ d.pending \in Seq(Jobs)
      /\ Range(s) \cap d.accepted = {} /\ e = JobAccepted(d, s)
  BY DEF Sound, JobStates, Accepts
<1>2. /\ e.pending = d.pending \o s
      /\ e.inProgress = d.inProgress /\ e.done = d.done
      /\ e.completed = d.completed /\ e.failed = d.failed
      /\ e.tasks = [j \in Jobs |-> IF j \in Range(s) THEN Append(d.tasks[j], "PENDING")
                                                      ELSE d.tasks[j]]
  BY <1>1 DEF JobAccepted, JobStates
<1>3. Range(e.pending) = Range(d.pending) \cup Range(s)
  BY <1>1, <1>2, ElemsConcat
<1>4. Range(s) \subseteq Jobs
  BY ElementOfSeq, LenProperties DEF Range
<1>5. ASSUME NEW k \in Range(s)
      PROVE  k \notin Open(d) /\ k \notin d.done
  BY <1>1, <1>4, <1>5, SoundJob
<1>6. ASSUME NEW k \in Jobs
      PROVE  /\ Len(Append(d.tasks[k], "PENDING")) = Len(d.tasks[k]) + 1
             /\ Verdicts(d, k) \in Nat
  BY <1>1, <1>6, AppendTask, SoundJob DEF JobStates, Status, Verdicts
<1>7. Effect(d, e, Range(s), "waiting", 1, 0)
  <2>1. SUFFICES ASSUME NEW k \in Jobs
                 PROVE  /\ Where(e, k) = IF k \in Range(s) THEN "waiting" ELSE Where(d, k)
                        /\ Len(e.tasks[k]) = IF k \in Range(s) THEN Len(d.tasks[k]) + 1
                                                               ELSE Len(d.tasks[k])
                        /\ Verdicts(e, k) = Verdicts(d, k)
                        /\ k \notin Range(s) => e.tasks[k] = d.tasks[k]
                        /\ k \in d.done => k \in e.done /\ e.completed[k] = d.completed[k]
    BY <1>6 DEF Effect
  <2>2. QED BY <1>2, <1>3, <1>5, <1>6 DEF Where, Verdicts, Open
<1>8. \A k \in Range(s) : Where(d, k) \in {"new", "failed"}
  BY <1>5 DEF Where, Open
<1>9. QED BY <1>4, <1>7, <1>8

LEMMA StartsEffect ==
  ASSUME NEW d, NEW e, NEW C \in SUBSET Jobs, Sound(d, C), Starts(d, e)
  PROVE  /\ nextJob(d) \in Jobs
         /\ Effect(d, e, {nextJob(d)}, "running", 0, 0)
         /\ Where(d, nextJob(d)) = "waiting"
<1> DEFINE j == nextJob(d)
<1>1. /\ d \in JobStates /\ d.pending \in Seq(Jobs) /\ d.pending # <<>>
      /\ d.tasks \in [Jobs -> Seq(Status)] /\ "STARTED" \in Status
      /\ IsInjective(d.pending) /\ CanStart(d, j)
      /\ e = JobStarted(d, j)
  BY DEF Sound, JobStates, Starts, hasJob, Partition, Status, CanStart
<1>2. /\ e.pending = Tail(d.pending)
      /\ e.inProgress = d.inProgress \cup {j}
      /\ e.done = d.done /\ e.completed = d.completed /\ e.failed = d.failed
      /\ e.tasks = SetStatus(d.tasks, {j}, "STARTED")
  BY <1>1 DEF JobStarted, JobStates
<1>3. /\ j \in Jobs /\ Range(d.pending) = {j} \cup Range(e.pending)
      /\ j \notin Range(e.pending)
  BY <1>1, <1>2, ElemsHeadTail DEF nextJob
<1> HIDE DEF j
<1>4. Retasked(d.tasks, e.tasks, {j}, "STARTED")
  <2>1. {j} \in SUBSET Jobs
    BY <1>3
  <2>2. QED BY <2>1, <1>1, <1>2, SetStatusTasks
<1>5. /\ j \in Open(d) /\ j \notin d.done /\ j \notin d.inProgress
      /\ \A k \in Jobs : Len(d.tasks[k]) \in Nat /\ Verdicts(d, k) \in Nat
  BY <1>3, SoundJob DEF Open, Verdicts
<1>6. Effect(d, e, {j}, "running", 0, 0)
  <2>1. ASSUME NEW k \in Jobs
        PROVE  /\ Where(e, k) = IF k = j THEN "running" ELSE Where(d, k)
               /\ Verdicts(e, k) = Verdicts(d, k)
               /\ k \in d.done => k \in e.done /\ e.completed[k] = d.completed[k]
    BY <1>2, <1>3, <1>5 DEF Where, Verdicts
  <2>2. ASSUME NEW k \in Jobs
        PROVE  /\ Len(e.tasks[k]) = Len(d.tasks[k])
               /\ Len(d.tasks[k]) + 0 = Len(d.tasks[k])
               /\ Verdicts(d, k) + 0 = Verdicts(d, k)
               /\ k # j => e.tasks[k] = d.tasks[k]
    BY <1>4, <1>5 DEF Retasked
  <2>3. QED BY <2>1, <2>2 DEF Effect
<1>7. Where(d, j) = "waiting"
  BY <1>3, <1>5 DEF Where
<1>8. QED BY <1>3, <1>6, <1>7 DEF j

LEMMA PostponesEffect ==
  ASSUME NEW d, NEW e, NEW C \in SUBSET Jobs, Sound(d, C), Postpones(d, e)
  PROVE  /\ nextJob(d) \in Jobs
         /\ Effect(d, e, {nextJob(d)}, "waiting", 0, 0)
         /\ Where(d, nextJob(d)) = "waiting"
<1> DEFINE j == nextJob(d)
<1>1. /\ d \in JobStates /\ d.pending \in Seq(Jobs) /\ d.pending # <<>>
      /\ d.tasks \in [Jobs -> Seq(Status)] /\ "POSTPONED" \in Status
      /\ CanPostpone(d) /\ e = JobPostponed(d, j)
  BY DEF Sound, JobStates, Postpones, hasJob, Status, CanPostpone
<1>2. /\ e.inProgress = d.inProgress
      /\ e.done = d.done /\ e.completed = d.completed /\ e.failed = d.failed
      /\ e.tasks = SetStatus(d.tasks, {j}, "POSTPONED")
  BY <1>1 DEF JobPostponed, JobStates
<1>3. /\ j \in Jobs /\ j \in Range(d.pending)
      /\ Range(e.pending) = Range(d.pending)
  BY <1>1, ElemsHeadTail, PostponedSound DEF nextJob
<1> HIDE DEF j
<1>4. Retasked(d.tasks, e.tasks, {j}, "POSTPONED")
  <2>1. {j} \in SUBSET Jobs
    BY <1>3
  <2>2. QED BY <2>1, <1>1, <1>2, SetStatusTasks
<1>5. /\ j \in Open(d) /\ j \notin d.done /\ j \notin d.inProgress
      /\ \A k \in Jobs : Len(d.tasks[k]) \in Nat /\ Verdicts(d, k) \in Nat
  BY <1>3, SoundJob DEF Open, Verdicts
<1>6. Effect(d, e, {j}, "waiting", 0, 0)
  <2>1. ASSUME NEW k \in Jobs
        PROVE  /\ Where(e, k) = IF k = j THEN "waiting" ELSE Where(d, k)
               /\ Verdicts(e, k) = Verdicts(d, k)
               /\ k \in d.done => k \in e.done /\ e.completed[k] = d.completed[k]
    BY <1>2, <1>3, <1>5 DEF Where, Verdicts
  <2>2. ASSUME NEW k \in Jobs
        PROVE  /\ Len(e.tasks[k]) = Len(d.tasks[k])
               /\ Len(d.tasks[k]) + 0 = Len(d.tasks[k])
               /\ Verdicts(d, k) + 0 = Verdicts(d, k)
               /\ k # j => e.tasks[k] = d.tasks[k]
    BY <1>4, <1>5 DEF Retasked
  <2>3. QED BY <2>1, <2>2 DEF Effect
<1>7. Where(d, j) = "waiting"
  BY <1>3, <1>5 DEF Where
<1>8. QED BY <1>3, <1>6, <1>7 DEF j

LEMMA CompletesEffect ==
  ASSUME NEW d, NEW e, NEW C \in SUBSET Jobs, Sound(d, C), NEW j \in Jobs, Completes(d, e, j)
  PROVE  /\ Effect(d, e, {j}, "completed", 0, 1)
         /\ Where(d, j) = "running"
<1>1. /\ d \in JobStates /\ d.tasks \in [Jobs -> Seq(Status)] /\ "COMPLETED" \in Status
      /\ d.completed \in [Jobs -> Nat]
      /\ j \in d.inProgress /\ e = JobCompleted(d, j, j)
  BY DEF Sound, JobStates, Completes, Status
<1>2. /\ e.pending = d.pending /\ e.inProgress = d.inProgress \ {j}
      /\ e.done = d.done \cup {j} /\ e.failed = d.failed
      /\ e.completed = OneMore(d.completed, j)
      /\ e.tasks = SetStatus(d.tasks, {j}, "COMPLETED")
  BY <1>1 DEF JobCompleted, JobStates
<1>3. \A k \in Jobs : e.completed[k] = IF k = j THEN d.completed[k] + 1 ELSE d.completed[k]
  <2>1. \A k \in Jobs : OneMore(d.completed, j)[k]
                          = IF k = j THEN d.completed[k] + 1 ELSE d.completed[k]
    BY <1>1, OneMoreCounts
  <2>2. QED BY <1>2, <2>1
<1>4. Retasked(d.tasks, e.tasks, {j}, "COMPLETED")
  BY <1>1, <1>2, SetStatusTasks
<1>5. /\ j \notin d.done /\ Where(d, j) = "running"
      /\ \A k \in Jobs : /\ Len(d.tasks[k]) \in Nat
                         /\ d.completed[k] \in Nat /\ d.failed[k] \in Nat
  BY <1>1, SoundJob DEF Open
<1>6. Effect(d, e, {j}, "completed", 0, 1)
  <2>1. ASSUME NEW k \in Jobs
        PROVE  /\ Where(e, k) = IF k = j THEN "completed" ELSE Where(d, k)
               /\ Verdicts(e, k) = IF k = j THEN Verdicts(d, k) + 1 ELSE Verdicts(d, k)
               /\ k \in d.done => k \in e.done /\ e.completed[k] = d.completed[k]
    <3>1. CASE k = j
      BY <1>2, <1>3, <1>5, <3>1 DEF Where, Verdicts
    <3>2. CASE k # j
      BY <1>2, <1>3, <1>5, <3>2 DEF Where, Verdicts
    <3>3. QED BY <3>1, <3>2
  <2>2. ASSUME NEW k \in Jobs
        PROVE  /\ Len(e.tasks[k]) = Len(d.tasks[k])
               /\ Len(d.tasks[k]) + 0 = Len(d.tasks[k])
               /\ k # j => e.tasks[k] = d.tasks[k]
    BY <1>4, <1>5 DEF Retasked
  <2>3. QED BY <2>1, <2>2 DEF Effect
<1>7. QED BY <1>5, <1>6

LEMMA FailsEffect ==
  ASSUME NEW d, NEW e, NEW C \in SUBSET Jobs, Sound(d, C), NEW j \in Jobs, Fails(d, e, j)
  PROVE  /\ Effect(d, e, {j}, "failed", 0, 1)
         /\ Where(d, j) = "running"
<1>1. /\ d \in JobStates /\ d.tasks \in [Jobs -> Seq(Status)] /\ "FAILED" \in Status
      /\ d.failed \in [Jobs -> Nat]
      /\ j \in d.inProgress /\ e = JobFailed(d, j, j)
  BY DEF Sound, JobStates, Fails, Status
<1>2. /\ e.pending = d.pending /\ e.inProgress = d.inProgress \ {j}
      /\ e.done = d.done /\ e.completed = d.completed
      /\ e.failed = OneMore(d.failed, j)
      /\ e.tasks = SetStatus(d.tasks, {j}, "FAILED")
  BY <1>1 DEF JobFailed, JobStates
<1>3. \A k \in Jobs : e.failed[k] = IF k = j THEN d.failed[k] + 1 ELSE d.failed[k]
  <2>1. \A k \in Jobs : OneMore(d.failed, j)[k]
                          = IF k = j THEN d.failed[k] + 1 ELSE d.failed[k]
    BY <1>1, OneMoreCounts
  <2>2. QED BY <1>2, <2>1
<1>4. Retasked(d.tasks, e.tasks, {j}, "FAILED")
  BY <1>1, <1>2, SetStatusTasks
<1>5. /\ j \notin d.done /\ j \notin Range(d.pending) /\ Where(d, j) = "running"
      /\ \A k \in Jobs : /\ Len(d.tasks[k]) \in Nat
                         /\ d.completed[k] \in Nat /\ d.failed[k] \in Nat
  BY <1>1, SoundJob DEF Open
<1>6. Effect(d, e, {j}, "failed", 0, 1)
  <2>1. ASSUME NEW k \in Jobs
        PROVE  /\ Where(e, k) = IF k = j THEN "failed" ELSE Where(d, k)
               /\ Verdicts(e, k) = IF k = j THEN Verdicts(d, k) + 1 ELSE Verdicts(d, k)
               /\ k \in d.done => k \in e.done /\ e.completed[k] = d.completed[k]
    <3>1. CASE k = j
      BY <1>2, <1>3, <1>5, <3>1 DEF Where, Verdicts
    <3>2. CASE k # j
      BY <1>2, <1>3, <1>5, <3>2 DEF Where, Verdicts
    <3>3. QED BY <3>1, <3>2
  <2>2. ASSUME NEW k \in Jobs
        PROVE  /\ Len(e.tasks[k]) = Len(d.tasks[k])
               /\ Len(d.tasks[k]) + 0 = Len(d.tasks[k])
               /\ k # j => e.tasks[k] = d.tasks[k]
    BY <1>4, <1>5 DEF Retasked
  <2>3. QED BY <2>1, <2>2 DEF Effect
<1>7. QED BY <1>5, <1>6

LEMMA TimesOutEffect ==
  ASSUME NEW d, NEW e, NEW C \in SUBSET Jobs, Sound(d, C), NEW s \in Seq(Jobs), TimesOut(d, e, s)
  PROVE  /\ Effect(d, e, Range(s), "waiting", 0, 0)
         /\ Range(s) \subseteq Jobs
         /\ \A k \in Range(s) : Where(d, k) = "running"
<1>1. /\ d \in JobStates /\ d.tasks \in [Jobs -> Seq(Status)] /\ "TIMEDOUT" \in Status
      /\ Range(s) \subseteq d.inProgress /\ Range(s) \in SUBSET Jobs
      /\ CanTimeOut(d, s) /\ e = JobTimedOut(d, s)
  BY DEF Sound, JobStates, TimesOut, CanTimeOut, Status
<1>2. /\ e.inProgress = d.inProgress \ Range(s)
      /\ e.done = d.done /\ e.completed = d.completed /\ e.failed = d.failed
      /\ e.tasks = SetStatus(d.tasks, Range(s), "TIMEDOUT")
  BY <1>1 DEF JobTimedOut, JobStates
<1>3. Range(e.pending) = Range(d.pending) \cup Range(s)
  BY <1>1, TimedOutSound
<1>4. Retasked(d.tasks, e.tasks, Range(s), "TIMEDOUT")
  BY <1>1, <1>2, SetStatusTasks
<1>5. /\ \A k \in Range(s) : k \notin d.done /\ Where(d, k) = "running"
      /\ \A k \in Jobs : Len(d.tasks[k]) \in Nat /\ Verdicts(d, k) \in Nat
  BY <1>1, SoundJob DEF Open, Verdicts
<1>6. Effect(d, e, Range(s), "waiting", 0, 0)
  BY <1>2, <1>3, <1>4, <1>5 DEF Effect, Where, Verdicts, Retasked
<1>7. QED BY <1>1, <1>5, <1>6

\* A confused verdict concerns no third job, and takes no task away.
LEMMA ConfusesEffect ==
  ASSUME NEW d, NEW e, NEW C \in SUBSET Jobs, Sound(d, C), NEW j \in Jobs, NEW r \in Jobs,
         Confuses(d, e, j, r)
  PROVE  /\ Where(d, j) = "running"
         /\ NoThird(d, e, j, r)
<1>1. /\ d \in JobStates /\ d.tasks \in [Jobs -> Seq(Status)]
      /\ {"COMPLETED", "FAILED"} \subseteq Status /\ {r} \in SUBSET Jobs
      /\ d.completed \in [Jobs -> Nat] /\ d.failed \in [Jobs -> Nat]
      /\ j \in d.inProgress
  BY DEF Sound, JobStates, Confuses, Status
<1>2. Where(d, j) = "running"
  BY <1>1, SoundJob
<1>3. PICK st \in {"COMPLETED", "FAILED"} :
        /\ e.pending = d.pending /\ e.inProgress = d.inProgress \ {j}
        /\ d.done \subseteq e.done /\ e.done \subseteq d.done \cup {j}
        /\ e.completed \in {d.completed, OneMore(d.completed, r)}
        /\ e.failed \in {d.failed, OneMore(d.failed, r)}
        /\ e.tasks = SetStatus(d.tasks, {r}, st)
  <2>1. CASE e = JobCompleted(d, j, r)
    BY <2>1, <1>1 DEF JobCompleted, JobStates
  <2>2. CASE e = JobFailed(d, j, r)
    BY <2>2, <1>1 DEF JobFailed, JobStates
  <2>3. QED BY <2>1, <2>2 DEF Confuses
<1>4. Retasked(d.tasks, e.tasks, {r}, st)
  <2>1. st \in Status
    BY <1>1
  <2>2. Retasked(d.tasks, SetStatus(d.tasks, {r}, st), {r}, st)
    BY <1>1, <2>1, SetStatusTasks
  <2>3. QED BY <1>3, <2>2
<1>5. \A k \in Jobs : k # r => e.completed[k] = d.completed[k] /\ e.failed[k] = d.failed[k]
  <2>1. \A k \in Jobs : k # r => /\ OneMore(d.completed, r)[k] = d.completed[k]
                                 /\ OneMore(d.failed, r)[k] = d.failed[k]
    BY <1>1, OneMoreCounts
  <2>2. QED BY <1>3, <2>1
<1>6. \A k \in Jobs : k # j /\ k # r => Where(e, k) = Where(d, k) /\ Verdicts(e, k) = Verdicts(d, k)
  BY <1>3, <1>5 DEF Where, Verdicts
<1>7. QED BY <1>2, <1>3, <1>4, <1>5, <1>6 DEF NoThird, Retasked

-----------------------------------------------------------------------------
(***************************************************************************)
(* Every step of the master makes a move.                                  *)
(***************************************************************************)
\* What is replayed later moves if the written events are moves of it.
LEMMA PersistMoves ==
  ASSUME NEW n, NEW ok, NEW after, Persist(n, ok, after),
         Room > 0 /\ ok => Moves(durable, after)
  PROVE  Moves(durable, durable') /\ mixed' = mixed
BY DEF Persist, Journals, Moves

\* Steps that leave the databases alone, or restart without an event.
LEMMA QuietMoves ==
  ASSUME UNCHANGED journal, db' = db \/ Restart
  PROVE  Journaled
BY DEF journal, Journaled, Moves, Restart

\* Handlers of one event that is the same move wherever it is replayed.
LEMMA EventMoves ==
  ASSUME TypeInv, NEW ok, NEW after, NEW afterDurable,
         Persist(1, ok, afterDurable), db' = after, Moves(db, after),
         durable = db => afterDurable = after
  PROVE  Journaled
<1>1. Room > 0 => Moves(durable, afterDurable)
  BY RoomSame DEF TypeInv
<1>2. QED BY <1>1, PersistMoves DEF Journaled

\* A restart after an event that cannot be applied.
LEMMA ThrownMoves ==
  ASSUME NEW n, NEW ok, NEW after, Persist(n, ok, after), Restart,
         Room > 0 /\ ok => Moves(durable, after)
  PROVE  Journaled
BY PersistMoves DEF Journaled, Restart

LEMMA ClientMoves ==
  ASSUME TypeInv, ClientStep
  PROVE  Journaled
<1>1. ASSUME NEW j \in Jobs, ClientSendsJob(j)
      PROVE  Journaled
  <2>1. CASE isAccepted(db, j)
    BY <1>1, <2>1, QuietMoves DEF ClientSendsJob, onJob
  <2>2. CASE ~isAccepted(db, j)
    <3> DEFINE after == JobAccepted(db, <<j>>)
               afterDurable == JobAccepted(durable, <<j>>)
    <3>1. Persist(1, TRUE, afterDurable) /\ db' = after
      BY <1>1, <2>2 DEF ClientSendsJob, onJob
    <3>2. <<j>> \in Seq(Jobs) /\ IsInjective(<<j>>) /\ Range(<<j>>) = {j}
      BY ElemsSingle
    <3>3. Accepts(db, after, <<j>>)
      BY <1>1, <2>2, <3>2 DEF ClientSendsJob, Accepts, isAccepted
    <3>4. Moves(db, after)
      BY <3>2, <3>3 DEF Moves
    <3>5. durable = db => afterDurable = after
      OBVIOUS
    <3> HIDE DEF after, afterDurable
    <3>6. QED BY <3>1, <3>4, <3>5, EventMoves
  <2>3. QED BY <2>1, <2>2
<1>2. ASSUME NEW s \in NewJobs
      PROVE  /\ s \in Seq(Jobs) /\ IsInjective(s) /\ Len(s) \in Nat
             /\ Range(s) \subseteq Jobs \ submitted
  BY <1>2, NewJobsFacts DEF TypeInv
<1>3. ASSUME NEW d, NEW s \in Seq(Jobs), Sound(d, Clear), Known(d) \subseteq submitted,
             IsInjective(s), Range(s) \subseteq Jobs \ submitted
      PROVE  Moves(d, JobAccepted(d, s))
  <2>1. Clear \in SUBSET Jobs
    BY DEF Clear
  <2>2. \A j \in Range(s) : j \notin d.accepted /\ ~HasFailed(d, j)
    BY <1>3, <2>1, SoundJobs DEF Known, HasFailed
  <2>3. Accepts(d, JobAccepted(d, s), s)
    BY <1>3, <2>2 DEF Accepts
  <2>4. QED BY <2>3 DEF Moves
  \* a batch, and the part of it that is replayed
<1>4. ASSUME NEW s \in Seq(Jobs), IsInjective(s), Range(s) \subseteq Jobs \ submitted
      PROVE  /\ Moves(db, JobAccepted(db, s))
             /\ Moves(durable, JobAccepted(durable, Kept(s)))
  <2>1. /\ Kept(s) \in Seq(Jobs) /\ Range(Kept(s)) \subseteq Range(s)
        /\ IsInjective(Kept(s))
    BY <1>4, KeptPrefix DEF TypeInv
  <2>2. /\ Sound(db, Clear) /\ Known(db) \subseteq submitted
        /\ Sound(durable, Clear) /\ Known(durable) \subseteq submitted
    BY DEF TypeInv, DbInv
  <2>3. Range(Kept(s)) \subseteq Jobs \ submitted
    BY <1>4, <2>1
  <2>4. QED BY <1>3, <1>4, <2>1, <2>2, <2>3
<1>5. ASSUME NEW s \in NewJobs, processCmdLineJob(s)
      PROVE  Journaled
  <2>1. Persist(Len(s), TRUE, JobAccepted(durable, Kept(s))) /\ db' = JobAccepted(db, s)
    BY <1>5 DEF processCmdLineJob
  <2>2. Moves(db, JobAccepted(db, s)) /\ Moves(durable, JobAccepted(durable, Kept(s)))
    BY <1>2, <1>4
  <2>3. QED BY <2>1, <2>2, PersistMoves DEF Journaled
<1>6. ASSUME NEW s \in NewJobs, NEW n \in 0..Len(s), CrashesInBatch(s, n)
      PROVE  Journaled
  <2> DEFINE written == SubSeq(s, 1, n)
  <2>1. Persist(n, TRUE, JobAccepted(durable, Kept(written))) /\ Restart
    BY <1>6 DEF CrashesInBatch
  <2>2. /\ written \in Seq(Jobs) /\ IsInjective(written)
        /\ Range(written) \subseteq Jobs \ submitted
    BY <1>2, ElemsPrefix
  <2> HIDE DEF written
  <2>3. Moves(durable, JobAccepted(durable, Kept(written)))
    BY <1>4, <2>2
  <2>4. QED BY <2>1, <2>3, ThrownMoves
<1>7. ASSUME NEW t \in Trackings, NEW cancel \in BOOLEAN, onTrackingInfo(t, cancel)
      PROVE  Journaled
  BY <1>7, QuietMoves DEF onTrackingInfo
<1>8. ASSUME NEW f \in Files, onUploadFile(f)
      PROVE  Journaled
  BY <1>8 DEF onUploadFile, Persist, Journals, Journaled, Moves
<1>9. QED BY <1>1, <1>5, <1>6, <1>7, <1>8 DEF ClientStep

LEMMA RequestMoves ==
  ASSUME TypeInv, NEW w \in Workers, onWorkerRequestsWork(w)
  PROVE  Journaled
<1> DEFINE j == nextJob(db)
<1>1. ASSUME hasJob(db), NEW ok, Persist(1, ok, JobStarted(durable, j)), db' = JobStarted(db, j)
      PROVE  Journaled
  <2>1. Moves(db, JobStarted(db, j))
    BY <1>1 DEF Moves, Starts
  <2>2. durable = db => JobStarted(durable, j) = JobStarted(db, j)
    OBVIOUS
  <2> HIDE DEF j
  <2>3. QED BY <1>1, <2>1, <2>2, EventMoves
<1>2. ASSUME hasJob(db), NEW ok, Persist(1, ok, JobPostponed(durable, j)),
             db' = JobPostponed(db, j)
      PROVE  Journaled
  <2>1. Moves(db, JobPostponed(db, j))
    BY <1>2 DEF Moves, Postpones
  <2>2. durable = db => JobPostponed(durable, j) = JobPostponed(db, j)
    OBVIOUS
  <2> HIDE DEF j
  <2>3. QED BY <1>2, <2>1, <2>2, EventMoves
<1>3. CASE UNCHANGED journal /\ (db' = db \/ Restart)
  BY <1>3, QuietMoves
<1>4. QED BY <1>1, <1>2, <1>3 DEF onWorkerRequestsWork, masterVars, journal, FailsOnUnknownWorker

LEMMA DoneMoves ==
  ASSUME TypeInv, NEW w \in Workers, NEW j \in Jobs, NEW r \in Jobs \cup {NoJob},
         onWorkIsDone(w, j, r)
  PROVE  Journaled
<1>1. ASSUME isInProgress(db, j), CanRecord(db, r),
             PersistVerdict(j, r, JobCompleted(durable, j, r)), db' = JobCompleted(db, j, r)
      PROVE  Journaled
  <2>1. CASE r = j
    <3>1. Persist(1, CanRecord(durable, r), JobCompleted(durable, j, r))
      BY <1>1, <2>1 DEF PersistVerdict, Persist, MixesUp
    <3>2. Moves(db, JobCompleted(db, j, r))
      BY <1>1, <2>1 DEF Moves, Completes, isInProgress
    <3>3. durable = db => JobCompleted(durable, j, r) = JobCompleted(db, j, r)
      OBVIOUS
    <3>4. QED BY <1>1, <3>1, <3>2, <3>3, EventMoves
  <2>2. CASE r # j
    <3>1. r \in Jobs
      BY <1>1 DEF CanRecord
    <3>2. mixed' = mixed \cup {j, r}
      BY <1>1, <2>2 DEF PersistVerdict, MixesUp
    <3>3. Confuses(db, db', j, r)
      BY <1>1, <2>2 DEF Confuses, isInProgress
    <3>4. durable' = durable \/ Confuses(durable, durable', j, r)
      <4>1. Room > 0 => durable = db
        BY RoomSame DEF TypeInv
      <4>2. durable' = durable \/ (Room > 0 /\ durable' = JobCompleted(durable, j, r))
        BY <1>1 DEF PersistVerdict, Journals
      <4>3. QED BY <1>1, <3>3, <4>1, <4>2
    <3>5. QED BY <3>1, <3>2, <3>3, <3>4 DEF Journaled
  <2>3. QED BY <2>1, <2>2
<1>2. ASSUME NEW ok, Persist(1, ok, durable), Restart
      PROVE  Journaled
  BY <1>2, ThrownMoves DEF Moves
<1>3. CASE UNCHANGED journal /\ (db' = db \/ Restart)
  BY <1>3, QuietMoves
<1>4. QED BY <1>1, <1>2, <1>3 DEF onWorkIsDone, masterVars, journal, FailsOnUnknownWorker

LEMMA FailedMoves ==
  ASSUME TypeInv, NEW w \in Workers, NEW j \in Jobs, NEW r \in Jobs \cup {NoJob},
         onWorkFailed(w, j, r)
  PROVE  Journaled
<1>1. ASSUME isInProgress(db, j), CanRecord(db, r),
             PersistVerdict(j, r, JobFailed(durable, j, r)), db' = JobFailed(db, j, r)
      PROVE  Journaled
  <2>1. CASE r = j
    <3>1. Persist(1, CanRecord(durable, r), JobFailed(durable, j, r))
      BY <1>1, <2>1 DEF PersistVerdict, Persist, MixesUp
    <3>2. Moves(db, JobFailed(db, j, r))
      BY <1>1, <2>1 DEF Moves, Fails, isInProgress
    <3>3. durable = db => JobFailed(durable, j, r) = JobFailed(db, j, r)
      OBVIOUS
    <3>4. QED BY <1>1, <3>1, <3>2, <3>3, EventMoves
  <2>2. CASE r # j
    <3>1. r \in Jobs
      BY <1>1 DEF CanRecord
    <3>2. mixed' = mixed \cup {j, r}
      BY <1>1, <2>2 DEF PersistVerdict, MixesUp
    <3>3. Confuses(db, db', j, r)
      BY <1>1, <2>2 DEF Confuses, isInProgress
    <3>4. durable' = durable \/ Confuses(durable, durable', j, r)
      <4>1. Room > 0 => durable = db
        BY RoomSame DEF TypeInv
      <4>2. durable' = durable \/ (Room > 0 /\ durable' = JobFailed(durable, j, r))
        BY <1>1 DEF PersistVerdict, Journals
      <4>3. QED BY <1>1, <3>3, <4>1, <4>2
    <3>5. QED BY <3>1, <3>2, <3>3, <3>4 DEF Journaled
  <2>3. QED BY <2>1, <2>2
<1>2. ASSUME NEW ok, Persist(1, ok, durable), Restart
      PROVE  Journaled
  BY <1>2, ThrownMoves DEF Moves
<1>3. CASE UNCHANGED journal /\ (db' = db \/ Restart)
  BY <1>3, QuietMoves
<1>4. QED BY <1>1, <1>2, <1>3 DEF onWorkFailed, masterVars, journal, FailsOnUnknownWorker

LEMMA TickMoves ==
  ASSUME TypeInv, onCleanupTick
  PROVE  Journaled
<1>1. PICK order \in Orders({w \in Overdue : IsBusy(w)}) : TakeBack(order)
  BY DEF onCleanupTick
<1> DEFINE late == [i \in DOMAIN order |-> workers[order[i]].job]
<1>2. /\ Persist(Len(late), CanTimeOut(durable, Kept(late)), JobTimedOut(durable, Kept(late)))
      /\ (CanTimeOut(db, late) /\ db' = JobTimedOut(db, late)) \/ Restart
  BY <1>1 DEF TakeBack
<1>3. late \in Seq(Jobs)
  BY LateJobs DEF TypeInv
<1> HIDE DEF late
<1>4. Kept(late) \in Seq(Jobs)
  BY <1>3, KeptPrefix DEF TypeInv
<1>5. CanTimeOut(durable, Kept(late)) => Moves(durable, JobTimedOut(durable, Kept(late)))
  BY <1>4 DEF Moves, TimesOut
<1>6. CanTimeOut(db, late) => Moves(db, JobTimedOut(db, late))
  BY <1>3 DEF Moves, TimesOut
<1>7. Moves(durable, durable') /\ mixed' = mixed
  BY <1>2, <1>5, PersistMoves
<1>8. QED BY <1>2, <1>6, <1>7 DEF Journaled, Restart

LEMMA NextMoves ==
  ASSUME TypeInv, Next
  PROVE  Journaled
<1>1. CASE ClientStep
  BY <1>1, ClientMoves
<1>2. ASSUME NEW w \in Workers, WorkerStep(w) \/ DeadlinePasses(w) \/ Receive(w)
      PROVE  Journaled
  <2>1. CASE \/ onRegisterWorker(w) \/ (\E j \in Jobs : onWorkInProgress(w, j))
             \/ onWorkerRequestsFile(w) \/ DeadlinePasses(w) \/ Receive(w)
             \/ \E f \in Files : onFileUploadComplete(f, HostOf[w])
    <3>1. UNCHANGED journal /\ (db' = db \/ Restart)
      BY <2>1 DEF onRegisterWorker, onWorkInProgress, onWorkerRequestsFile,
                  DeadlinePasses, Receive, onFileUploadComplete, journal
    <3>2. QED BY <3>1, QuietMoves
  <2>2. QED BY <1>2, <2>1, RequestMoves, DoneMoves, FailedMoves DEF WorkerStep
<1>3. CASE onCleanupTick
  BY <1>3, TickMoves
<1>4. CASE Crash
  BY <1>4, QuietMoves DEF Crash
<1>5. QED BY <1>1, <1>2, <1>3, <1>4 DEF Next

\* While recovery replays the whole journal, a restart is a move as well.
LEMMA StepMoves ==
  ASSUME TypeInv, MaxEvents <= ReplayTo, [Next]_masterVars
  PROVE  \/ mixed' = mixed /\ Moves(db, db')
         \/ \E j, r \in Jobs : mixed' = mixed \cup {j, r} /\ Confuses(db, db', j, r)
<1>1. durable = db
  BY MasterAssumption DEF TypeInv, DbInv
<1>2. CASE Next
  BY <1>1, <1>2, NextMoves DEF Journaled
<1>3. CASE UNCHANGED masterVars
  BY <1>3 DEF masterVars, journal, Moves
<1>4. QED BY <1>2, <1>3

-----------------------------------------------------------------------------
(***************************************************************************)
(* The theorems.                                                           *)
(***************************************************************************)
Moved(d, e) ==
  \/ \E S \in SUBSET Jobs :
       \/ /\ Effect(d, e, S, "waiting", 1, 0)
          /\ \A k \in S : Where(d, k) \in {"new", "failed"}
       \/ /\ Effect(d, e, S, "waiting", 0, 0)
          /\ \A k \in S : Where(d, k) = "running"
  \/ \E j \in Jobs :
       \/ /\ Where(d, j) = "waiting"
          /\ \/ Effect(d, e, {j}, "running", 0, 0)
             \/ Effect(d, e, {j}, "waiting", 0, 0)
       \/ /\ Where(d, j) = "running"
          /\ \E st \in {"completed", "failed"} : Effect(d, e, {j}, st, 0, 1)

\* A move, as what it does to the jobs.
LEMMA MoveEffect ==
  ASSUME NEW d, NEW e, NEW C \in SUBSET Jobs, Sound(d, C), Moves(d, e), e # d
  PROVE  Moved(d, e)
<1>1. ASSUME NEW s \in Seq(Jobs), Accepts(d, e, s)
      PROVE  /\ Range(s) \in SUBSET Jobs
             /\ Effect(d, e, Range(s), "waiting", 1, 0)
             /\ \A k \in Range(s) : Where(d, k) \in {"new", "failed"}
  BY <1>1, AcceptsEffect
<1>2. ASSUME NEW s \in Seq(Jobs), TimesOut(d, e, s)
      PROVE  /\ Range(s) \in SUBSET Jobs
             /\ Effect(d, e, Range(s), "waiting", 0, 0)
             /\ \A k \in Range(s) : Where(d, k) = "running"
  BY <1>2, TimesOutEffect
<1>3. ASSUME Starts(d, e) \/ Postpones(d, e)
      PROVE  /\ nextJob(d) \in Jobs
             /\ Where(d, nextJob(d)) = "waiting"
             /\ \/ Effect(d, e, {nextJob(d)}, "running", 0, 0)
                \/ Effect(d, e, {nextJob(d)}, "waiting", 0, 0)
  BY <1>3, StartsEffect, PostponesEffect
<1>4. ASSUME NEW j \in Jobs, Completes(d, e, j) \/ Fails(d, e, j)
      PROVE  /\ Where(d, j) = "running"
             /\ \E st \in {"completed", "failed"} : Effect(d, e, {j}, st, 0, 1)
  BY <1>4, CompletesEffect, FailsEffect
<1>5. CASE \E s \in Seq(Jobs) : Accepts(d, e, s)
  BY <1>1, <1>5 DEF Moved
<1>6. CASE \E s \in Seq(Jobs) : TimesOut(d, e, s)
  BY <1>2, <1>6 DEF Moved
<1>7. CASE Starts(d, e) \/ Postpones(d, e)
  BY <1>3, <1>7 DEF Moved
<1>8. CASE \E j \in Jobs : Completes(d, e, j) \/ Fails(d, e, j)
  BY <1>4, <1>8 DEF Moved
<1>9. QED BY <1>5, <1>6, <1>7, <1>8 DEF Moves

\* The mapping reads the jobs of the database.
LEMMA Mapped ==
  /\ stageOf = [j \in Jobs |-> IF j \in mixed THEN "confused" ELSE Where(db, j)]
  /\ acceptsOf = [j \in Jobs |-> IF j \in mixed THEN 0 ELSE Len(db.tasks[j])]
  /\ verdictsOf = [j \in Jobs |-> IF j \in mixed THEN 0 ELSE Verdicts(db, j)]
BY DEF stageOf, acceptsOf, verdictsOf, Where, Verdicts, Clear

LEMMA MappedNext ==
  /\ stageOf' = [j \in Jobs |-> IF j \in mixed' THEN "confused" ELSE Where(db', j)]
  /\ acceptsOf' = [j \in Jobs |-> IF j \in mixed' THEN 0 ELSE Len(db'.tasks[j])]
  /\ verdictsOf' = [j \in Jobs |-> IF j \in mixed' THEN 0 ELSE Verdicts(db', j)]
BY DEF stageOf, acceptsOf, verdictsOf, Where, Verdicts, Clear

\* The effect of a move on the mapped variables.
LEMMA MappedEffect ==
  ASSUME Sound(db, Clear), mixed' = mixed,
         NEW S \in SUBSET Jobs, NEW st, NEW tasks \in {0, 1}, NEW verdicts \in {0, 1},
         Effect(db, db', S, st, tasks, verdicts)
  PROVE  /\ stageOf' = Pool!Move(S \ mixed, st)
         /\ acceptsOf' = IF tasks = 1 THEN Pool!Bump(acceptsOf, S \ mixed) ELSE acceptsOf
         /\ verdictsOf' = IF verdicts = 1 THEN Pool!Bump(verdictsOf, S \ mixed) ELSE verdictsOf
<1>1. ASSUME NEW k \in Jobs
      PROVE  Len(db.tasks[k]) \in Nat /\ Verdicts(db, k) \in Nat
  BY SoundJob DEF Verdicts, Clear
<1>2. stageOf' = Pool!Move(S \ mixed, st)
  BY Mapped, MappedNext DEF Effect, Pool!Move
<1>3. acceptsOf' = IF tasks = 1 THEN Pool!Bump(acceptsOf, S \ mixed) ELSE acceptsOf
  <2>1. ASSUME NEW k \in Jobs
        PROVE  Len(db'.tasks[k]) = IF k \in S /\ tasks = 1 THEN Len(db.tasks[k]) + 1
                                                          ELSE Len(db.tasks[k])
    BY <1>1 DEF Effect
  <2>2. QED BY <2>1, Mapped, MappedNext DEF Pool!Bump
<1>4. verdictsOf' = IF verdicts = 1 THEN Pool!Bump(verdictsOf, S \ mixed) ELSE verdictsOf
  <2>1. ASSUME NEW k \in Jobs
        PROVE  Verdicts(db', k) = IF k \in S /\ verdicts = 1 THEN Verdicts(db, k) + 1
                                                           ELSE Verdicts(db, k)
    BY <1>1 DEF Effect
  <2>2. QED BY <2>1, Mapped, MappedNext DEF Pool!Bump
<1>5. QED BY <1>2, <1>3, <1>4

\* Nothing moves for the pool when only confused jobs do.
LEMMA StillPool ==
  /\ Pool!Move({}, "none") = stageOf
  /\ \A st : Pool!Move({}, st) = stageOf
  /\ Pool!Bump(acceptsOf, {}) = acceptsOf
  /\ Pool!Bump(verdictsOf, {}) = verdictsOf
BY Mapped DEF Pool!Move, Pool!Bump

\* A move of the database is a step of the work pool, or changes nothing of it.
LEMMA MovePool ==
  ASSUME Sound(db, Clear), mixed' = mixed, Moves(db, db')
  PROVE  [Pool!Next]_(Pool!vars)
<1>1. CASE db' = db
  BY <1>1, Mapped, MappedNext DEF Pool!vars
<1>2. ASSUME NEW S \in SUBSET Jobs, Effect(db, db', S, "waiting", 1, 0),
             \A k \in S : Where(db, k) \in {"new", "failed"}
      PROVE  Pool!Next
  <2>1. /\ stageOf' = Pool!Move(S \ mixed, "waiting")
        /\ acceptsOf' = Pool!Bump(acceptsOf, S \ mixed)
        /\ verdictsOf' = verdictsOf
    BY <1>2, MappedEffect
  <2>2. \A k \in S \ mixed : stageOf[k] \in {"new", "failed"}
    BY <1>2, Mapped
  <2>3. Pool!Accept(S \ mixed)
    BY <2>1, <2>2 DEF Pool!Accept
  <2>4. QED BY <2>3 DEF Pool!Next
<1>3. ASSUME NEW S \in SUBSET Jobs, Effect(db, db', S, "waiting", 0, 0),
             \A k \in S : Where(db, k) = "running"
      PROVE  Pool!Next
  <2>1. /\ stageOf' = Pool!Move(S \ mixed, "waiting")
        /\ acceptsOf' = acceptsOf /\ verdictsOf' = verdictsOf
    BY <1>3, MappedEffect
  <2>2. \A k \in S \ mixed : stageOf[k] = "running"
    BY <1>3, Mapped
  <2>3. Pool!Reclaim(S \ mixed)
    BY <2>1, <2>2 DEF Pool!Reclaim
  <2>4. QED BY <2>3 DEF Pool!Next
  \* the events of one job: a confused one is out of the pool's sight
<1>4. ASSUME NEW j \in mixed, j \in Jobs, NEW st, NEW verdicts \in {0, 1},
             Effect(db, db', {j}, st, 0, verdicts)
      PROVE  UNCHANGED Pool!vars
  <2>1. /\ stageOf' = Pool!Move({j} \ mixed, st)
        /\ acceptsOf' = acceptsOf
        /\ verdictsOf' = IF verdicts = 1 THEN Pool!Bump(verdictsOf, {j} \ mixed) ELSE verdictsOf
    BY <1>4, MappedEffect
  <2>2. {j} \ mixed = {}
    BY <1>4
  <2>3. QED BY <2>1, <2>2, StillPool DEF Pool!vars
<1>5. ASSUME NEW j \in Jobs \ mixed, Where(db, j) = "waiting",
             Effect(db, db', {j}, "running", 0, 0)
      PROVE  Pool!Next
  <2>1. /\ stageOf' = Pool!Move({j} \ mixed, "running")
        /\ acceptsOf' = acceptsOf /\ verdictsOf' = verdictsOf
    BY <1>5, MappedEffect
  <2>2. stageOf[j] = "waiting" /\ {j} \ mixed = {j}
    BY <1>5, Mapped
  <2>3. Pool!Assign(j)
    BY <2>1, <2>2 DEF Pool!Assign
  <2>4. QED BY <2>3 DEF Pool!Next
<1>6. ASSUME NEW j \in Jobs \ mixed, Where(db, j) = "waiting",
             Effect(db, db', {j}, "waiting", 0, 0)
      PROVE  UNCHANGED Pool!vars
  <2>1. /\ stageOf' = Pool!Move({j} \ mixed, "waiting")
        /\ acceptsOf' = acceptsOf /\ verdictsOf' = verdictsOf
    BY <1>6, MappedEffect
  <2>2. Pool!Move({j} \ mixed, "waiting") = stageOf
    BY <1>6, Mapped DEF Pool!Move
  <2>3. QED BY <2>1, <2>2 DEF Pool!vars
<1>7. ASSUME NEW j \in Jobs \ mixed, Where(db, j) = "running",
             NEW st \in {"completed", "failed"}, Effect(db, db', {j}, st, 0, 1)
      PROVE  Pool!Next
  <2>1. /\ stageOf' = Pool!Move({j} \ mixed, st)
        /\ acceptsOf' = acceptsOf
        /\ verdictsOf' = Pool!Bump(verdictsOf, {j} \ mixed)
    BY <1>7, MappedEffect
  <2>2. stageOf[j] = "running" /\ {j} \ mixed = {j}
    BY <1>7, Mapped
  <2>3. Pool!Finish(j, st)
    BY <2>1, <2>2 DEF Pool!Finish
  <2>4. QED BY <2>3, <1>7 DEF Pool!Next
<1>8. CASE db' # db
  <2>1. CASE \E S \in SUBSET Jobs :
               \/ /\ Effect(db, db', S, "waiting", 1, 0)
                  /\ \A k \in S : Where(db, k) \in {"new", "failed"}
               \/ /\ Effect(db, db', S, "waiting", 0, 0)
                  /\ \A k \in S : Where(db, k) = "running"
    BY <2>1, <1>2, <1>3
  <2>2. ASSUME NEW j \in Jobs,
               \/ /\ Where(db, j) = "waiting"
                  /\ \/ Effect(db, db', {j}, "running", 0, 0)
                     \/ Effect(db, db', {j}, "waiting", 0, 0)
               \/ /\ Where(db, j) = "running"
                  /\ \E st \in {"completed", "failed"} : Effect(db, db', {j}, st, 0, 1)
        PROVE  [Pool!Next]_(Pool!vars)
    <3>1. CASE j \in mixed
      BY <2>2, <3>1, <1>4
    <3>2. CASE j \notin mixed
      BY <2>2, <3>2, <1>5, <1>6, <1>7
    <3>3. QED BY <3>1, <3>2
  <2>3. Clear \in SUBSET Jobs
    BY DEF Clear
  <2>4. Moved(db, db')
    BY <1>8, <2>3, MoveEffect
  <2>5. QED BY <2>1, <2>2, <2>4 DEF Moved
<1>9. QED BY <1>1, <1>8

\* A verdict with another job's result confuses these two for the pool.
LEMMA ConfusesPool ==
  ASSUME Sound(db, Clear), NEW j \in Jobs, NEW r \in Jobs, mixed' = mixed \cup {j, r},
         Confuses(db, db', j, r)
  PROVE  Pool!Confuse(j, r)
<1>1. /\ Where(db, j) = "running" /\ j # r
      /\ \A k \in Jobs \ {j, r} :
           /\ Where(db', k) = Where(db, k) /\ Verdicts(db', k) = Verdicts(db, k)
           /\ Len(db'.tasks[k]) = Len(db.tasks[k])
  <2>1. Clear \in SUBSET Jobs
    BY DEF Clear
  <2>2. Where(db, j) = "running" /\ NoThird(db, db', j, r)
    BY <2>1, ConfusesEffect
  <2>3. QED BY <2>2 DEF Confuses, NoThird
<1>2. stageOf[j] \in {"running", "confused"}
  BY <1>1, Mapped
<1>3. stageOf' = Pool!Move({j, r}, "confused")
  BY <1>1, Mapped, MappedNext DEF Pool!Move
<1>4. acceptsOf' = Pool!Reset(acceptsOf, {j, r}) /\ verdictsOf' = Pool!Reset(verdictsOf, {j, r})
  BY <1>1, Mapped, MappedNext DEF Pool!Reset
<1>5. QED BY <1>1, <1>2, <1>3, <1>4 DEF Pool!Confuse

\* The master implements the work pool, whatever workers, clients, clocks
\* and crashes do.
THEOREM MasterImplementsWorkPool ==
  MaxEvents <= ReplayTo => (Spec => ImplementsWorkPool)
<1> SUFFICES ASSUME MaxEvents <= ReplayTo
             PROVE  Spec => ImplementsWorkPool
  OBVIOUS
<1>1. Init => Pool!Init
  <2>1. Range(<<>>) = {} /\ Len(<<>>) = 0
    BY DEF Range
  <2>2. QED BY <2>1 DEF Init, Pool!Init, stageOf, acceptsOf, verdictsOf, EmptyJobState, Clear
<1>2. TypeInv /\ [Next]_masterVars => [Pool!Next]_(Pool!vars)
  <2>1. SUFFICES ASSUME TypeInv, [Next]_masterVars
                 PROVE  [Pool!Next]_(Pool!vars)
    OBVIOUS
  <2>2. Sound(db, Clear)
    BY <2>1 DEF TypeInv, DbInv
  <2>3. CASE mixed' = mixed /\ Moves(db, db')
    BY <2>2, <2>3, MovePool
  <2>4. ASSUME NEW j \in Jobs, NEW r \in Jobs, mixed' = mixed \cup {j, r},
               Confuses(db, db', j, r)
        PROVE  Pool!Next
    BY <2>2, <2>4, ConfusesPool DEF Pool!Next
  <2>5. QED BY <2>1, <2>3, <2>4, StepMoves
<1>3. QED BY <1>1, <1>2, Invariance, PTL DEF Spec, ImplementsWorkPool, Pool!Spec

\* A completed job stays completed, with the results recorded for it.
THEOREM DoneStays == MaxEvents <= ReplayTo => (Spec => DoneIsFinal)
<1> SUFFICES ASSUME MaxEvents <= ReplayTo
             PROVE  Spec => DoneIsFinal
  OBVIOUS
<1> DEFINE Stays == \A j \in db.done : /\ j \in db'.done
                                       /\ db'.completed[j] = db.completed[j] \/ j \in mixed'
<1>1. ASSUME TypeInv, [Next]_masterVars
      PROVE  Stays
  <2>1. Sound(db, Clear) /\ Clear \in SUBSET Jobs /\ db.done \subseteq Jobs
    BY <1>1 DEF TypeInv, DbInv, Sound, JobStates, Clear
  <2>2. CASE Moves(db, db')
    <3>1. db' # db => Moved(db, db')
      BY <2>1, <2>2, MoveEffect
    <3>2. QED BY <2>1, <3>1 DEF Moved, Effect
  <2>3. ASSUME NEW j \in Jobs, NEW r \in Jobs, mixed' = mixed \cup {j, r},
               Confuses(db, db', j, r)
        PROVE  Stays
    <3>1. NoThird(db, db', j, r)
      BY <2>1, <2>3, ConfusesEffect
    <3>2. QED BY <2>1, <2>3, <3>1 DEF NoThird
  <2>4. QED BY <1>1, <2>2, <2>3, StepMoves
<1>2. TypeInv /\ [Next]_masterVars => [Stays]_<<db, mixed>>
  BY <1>1
<1>3. QED BY <1>2, Invariance, PTL DEF Spec, DoneIsFinal

\* A submission that is shown as completed stays so until another job of
\* it is accepted.
THEOREM CompletedStays == MaxEvents <= ReplayTo => (Spec => CompletedIsKept)
<1> SUFFICES ASSUME MaxEvents <= ReplayTo
             PROVE  Spec => CompletedIsKept
  OBVIOUS
<1> DEFINE Stays == \A t \in getJobSummary(db) \cap ClearSubmissions :
                      /\ completedJob(db, t)
                      /\ \A j \in JobsOf(t) : Len(db'.tasks[j]) <= Len(db.tasks[j])
                      /\ JobsOf(t) \cap mixed' = {}
                      => t \in getJobSummary(db') /\ completedJob(db', t)
<1>1. ASSUME TypeInv, [Next]_masterVars
      PROVE  Stays
  <2>1. Sound(db, Clear) /\ Clear \in SUBSET Jobs
    BY <1>1 DEF TypeInv, DbInv, Clear
  <2>2. SUFFICES ASSUME NEW t \in getJobSummary(db), completedJob(db, t),
                        JobsOf(t) \subseteq Clear, JobsOf(t) \cap mixed' = {},
                        \A j \in JobsOf(t) : Len(db'.tasks[j]) <= Len(db.tasks[j])
                 PROVE  t \in getJobSummary(db') /\ completedJob(db', t)
    BY DEF ClearSubmissions
  <2>3. ASSUME NEW j \in JobsOf(t)
        PROVE  /\ j \in Jobs /\ Len(db.tasks[j]) \in Nat
               /\ Where(db, j) \notin {"waiting", "running"}
    BY <2>1, <2>2, CompletedJobs, SoundJob DEF JobsOf
  <2>4. ASSUME NEW j \in JobsOf(t)
        PROVE  db'.tasks[j] = db.tasks[j]
    <3>1. ASSUME NEW S, NEW st, NEW verdicts, Effect(db, db', S, st, 1, verdicts)
          PROVE  db'.tasks[j] = db.tasks[j]
      BY <2>2, <2>3, <3>1 DEF Effect
    <3>2. ASSUME NEW S, NEW st, NEW verdicts, Effect(db, db', S, st, 0, verdicts),
                 \A k \in S : Where(db, k) \in {"waiting", "running"}
          PROVE  db'.tasks[j] = db.tasks[j]
      BY <2>3, <3>2 DEF Effect
    <3>3. CASE db' = db
      BY <3>3
    <3>4. CASE \E S \in SUBSET Jobs :
                 \/ Effect(db, db', S, "waiting", 1, 0)
                 \/ /\ Effect(db, db', S, "waiting", 0, 0)
                    /\ \A k \in S : Where(db, k) = "running"
      BY <3>1, <3>2, <3>4
    <3>5. CASE \E k \in Jobs, st \in {"running", "waiting", "completed", "failed"},
                  verdicts \in {0, 1} :
                 /\ Where(db, k) \in {"waiting", "running"}
                 /\ Effect(db, db', {k}, st, 0, verdicts)
      BY <3>2, <3>5
    <3>6. CASE db' # db /\ Moves(db, db')
      <4>1. Moved(db, db')
        BY <2>1, <3>6, MoveEffect
      <4>2. QED BY <3>4, <3>5, <4>1 DEF Moved
    <3>7. ASSUME NEW k \in Jobs, NEW r \in Jobs, mixed' = mixed \cup {k, r},
                 Confuses(db, db', k, r)
          PROVE  db'.tasks[j] = db.tasks[j]
      <4>1. NoThird(db, db', k, r)
        BY <2>1, <3>7, ConfusesEffect
      <4>2. QED BY <2>2, <2>3, <3>7, <4>1 DEF NoThird
    <3>8. QED BY <1>1, <3>3, <3>6, <3>7, StepMoves
  <2>5. Shown(db', t) = Shown(db, t)
    BY <2>4 DEF Shown
  <2>6. completedJob(db', t)
    BY <2>2, <2>5 DEF completedJob, getStatus
  <2>7. t \in getJobSummary(db')
    BY <2>3, <2>4 DEF getJobSummary, HasSummary, JobsOf
  <2>8. QED BY <2>6, <2>7
<1>2. TypeInv /\ [Next]_masterVars => [Stays]_<<db, mixed>>
  BY <1>1
<1>3. QED BY <1>2, Invariance, PTL DEF Spec, CompletedIsKept

-----------------------------------------------------------------------------
(***************************************************************************)
(* The list of running tests.  What soundness does not say: that finitely  *)
(* many jobs are in progress, so that they can be counted, and that a job  *)
(* has one task while no failed job is sent again.  A restart may bring    *)
(* back the journal, so both databases are concerned.                      *)
(***************************************************************************)
Few(d) ==
  /\ IsFiniteSet(d.inProgress)
  /\ ~Resends => \A j \in Jobs : Len(d.tasks[j]) <= 1

\* A move keeps it so.
LEMMA MovesFew ==
  ASSUME NEW d, NEW e, NEW C \in SUBSET Jobs, Sound(d, C), Few(d), Moves(d, e)
  PROVE  Few(e)
<1>1. IsFiniteSet(e.inProgress)
  <2>1. d \in JobStates
    BY DEF Sound
  <2>2. \/ e.inProgress \subseteq d.inProgress
        \/ e.inProgress = d.inProgress \cup {nextJob(d)}
    BY <2>1 DEF Moves, Accepts, TimesOut, Starts, Postpones, Completes, Fails, JobStates,
                JobAccepted, JobTimedOut, JobStarted, JobPostponed, JobCompleted, JobFailed
  <2>3. QED BY <2>2, FS_Subset, FS_AddElement DEF Few
<1>2. ASSUME ~Resends, NEW k \in Jobs
      PROVE  Len(e.tasks[k]) <= 1
  <2>1. Len(d.tasks[k]) \in Nat /\ Len(d.tasks[k]) <= 1
    BY <1>2, SoundJob DEF Few
  <2>2. ASSUME NEW s \in Seq(Jobs), Accepts(d, e, s)
        PROVE  Len(e.tasks[k]) <= 1
    <3>1. ASSUME k \in Range(s)
          PROVE  Len(d.tasks[k]) = 0
      <4>1. k \notin d.accepted /\ ~HasFailed(d, k)
        BY <1>2, <2>2, <3>1 DEF Accepts
      <4>2. d.tasks[k] = <<>>
        BY <4>1 DEF HasFailed
      <4>3. QED BY <4>2
    <3>2. Len(e.tasks[k]) = IF k \in Range(s) THEN Len(d.tasks[k]) + 1 ELSE Len(d.tasks[k])
      BY <2>2, AcceptsEffect DEF Effect
    <3>3. QED BY <2>1, <3>1, <3>2
  <2>3. ASSUME NEW S, NEW st, NEW verdicts, Effect(d, e, S, st, 0, verdicts)
        PROVE  Len(e.tasks[k]) <= 1
    BY <2>1, <2>3 DEF Effect
  <2>4. CASE e = d
    BY <2>1, <2>4
  <2>5. CASE \E s \in Seq(Jobs) : TimesOut(d, e, s)
    BY <2>3, <2>5, TimesOutEffect
  <2>6. CASE Starts(d, e) \/ Postpones(d, e)
    BY <2>3, <2>6, StartsEffect, PostponesEffect
  <2>7. CASE \E j \in Jobs : Completes(d, e, j) \/ Fails(d, e, j)
    BY <2>3, <2>7, CompletesEffect, FailsEffect
  <2>8. QED BY <2>2, <2>4, <2>5, <2>6, <2>7 DEF Moves
<1>3. QED BY <1>1, <1>2 DEF Few

\* So does a verdict with the result of another job.
LEMMA ConfusesFew ==
  ASSUME NEW d, NEW e, NEW C \in SUBSET Jobs, Sound(d, C), Few(d),
         NEW j \in Jobs, NEW r \in Jobs, Confuses(d, e, j, r)
  PROVE  Few(e)
<1>1. e.inProgress \subseteq d.inProgress
  BY DEF Confuses, Sound, JobStates, JobCompleted, JobFailed
<1>2. \A k \in Jobs : Len(e.tasks[k]) = Len(d.tasks[k])
  <2>1. NoThird(d, e, j, r)
    BY ConfusesEffect
  <2>2. QED BY <2>1 DEF NoThird
<1>3. QED BY <1>1, <1>2, FS_Subset DEF Few

\* A running submission has an open job.
LEMMA RunningOpen ==
  ASSUME NEW d, NEW C \in SUBSET Jobs, Sound(d, C), Few(d), ~Resends,
         NEW t, JobsOf(t) \subseteq C, runningJob(d, t)
  PROVE  \E j \in JobsOf(t) : j \in Open(d)
<1> DEFINE found == {i \in DOMAIN Precedence : Precedence[i] \in Shown(d, t)}
<1>1. DOMAIN Precedence = 1..4
  BY DEF Precedence
<1>2. FirstOf(Shown(d, t)) \in {"STARTED", "PENDING"}
  BY DEF runningJob, getStatus
<1>3. found # {}
  BY <1>2 DEF FirstOf
<1>4. PICK first \in found : \A k \in found : first <= k
  <2>1. found \subseteq 1..4
    BY <1>1
  <2>2. QED BY <1>3, <2>1
<1>5. (CHOOSE i \in found : \A k \in found : i <= k) \in found
  BY <1>4
<1>6. FirstOf(Shown(d, t)) \in Shown(d, t)
  BY <1>3, <1>5 DEF FirstOf
<1>7. PICK j \in JobsOf(t) : FirstOf(Shown(d, t)) \in Range(d.tasks[j])
  BY <1>6 DEF Shown
<1>8. /\ j \in Jobs /\ d.tasks[j] \in Seq(Status)
      /\ Len(d.tasks[j]) \in Nat /\ Len(d.tasks[j]) <= 1
      /\ DOMAIN d.tasks[j] = 1..Len(d.tasks[j])
  BY SoundJob, LenProperties DEF JobsOf, Sound, JobStates, Few
<1>9. d.tasks[j] # <<>> /\ d.tasks[j][1] \in {"STARTED", "PENDING"}
  <2>1. PICK i \in DOMAIN d.tasks[j] : d.tasks[j][i] = FirstOf(Shown(d, t))
    BY <1>7 DEF Range
  <2>2. i = 1
    BY <1>8, <2>1
  <2>3. d.tasks[j] # <<>>
    BY <1>8, <2>1, EmptySeq
  <2>4. QED BY <1>2, <2>1, <2>2, <2>3
<1>10. ShowsStageOf(d, j)
  BY <1>8, <1>9 DEF Sound, ShowsStage
<1>11. j \in d.accepted /\ j \notin d.done
  BY <1>9, <1>10 DEF ShowsStageOf
<1>12. j \in Open(d)
  BY <1>8, <1>11, SoundJob
<1>13. QED BY <1>7, <1>12

\* The tracker counts an open job.
LEMMA OpenCounted ==
  ASSUME NEW d, NEW C, Sound(d, C), Few(d), NEW t, NEW j \in JobsOf(t), j \in Open(d)
  PROVE  ~Untouched(d, t)
<1>1. d.pending \in Seq(Jobs)
  BY DEF Sound, JobStates
<1>2. ASSUME j \in d.inProgress
      PROVE  Cardinality(d.inProgress \cap JobsOf(t)) # 0
  <2>1. d.inProgress \cap JobsOf(t) # {}
    BY <1>2
  <2>2. IsFiniteSet(d.inProgress \cap JobsOf(t))
    BY FS_Subset DEF Few
  <2>3. QED BY <2>1, <2>2, FS_EmptySet
<1>3. ASSUME j \in Range(d.pending)
      PROVE  Cardinality({i \in DOMAIN d.pending : TrackingOf[d.pending[i]] = t}) # 0
  <2> DEFINE mine == {i \in DOMAIN d.pending : TrackingOf[d.pending[i]] = t}
  <2>1. DOMAIN d.pending = 1..Len(d.pending) /\ Len(d.pending) \in Nat
    BY <1>1, LenProperties
  <2>2. IsFiniteSet(1..Len(d.pending))
    BY <2>1, FS_Interval
  <2>3. mine \subseteq 1..Len(d.pending)
    BY <2>1
  <2>4. IsFiniteSet(mine)
    BY <2>2, <2>3, FS_Subset
  <2>5. mine # {}
    BY <1>3 DEF Range, JobsOf
  <2>6. QED BY <2>4, <2>5, FS_EmptySet
<1>4. QED BY <1>2, <1>3 DEF Open, Untouched, getTrackingInfo

\* A submission in the list of running tests has a job that is pending or
\* in progress, as long as clients do not send a failed job again.
THEOREM RunningIsOpen == ~Resends => (Spec => []RunningMeansOpen)
<1> SUFFICES ASSUME ~Resends
             PROVE  Spec => []RunningMeansOpen
  OBVIOUS
<1> DEFINE FewInv == Few(db) /\ Few(durable)
<1>1. Init => FewInv
  <2>1. IsFiniteSet({}) /\ Len(<<>>) = 0
    BY FS_EmptySet
  <2>2. QED BY <2>1 DEF Init, Few, EmptyJobState
<1>2. TypeInv /\ FewInv /\ [Next]_masterVars => FewInv'
  <2>1. SUFFICES ASSUME TypeInv, FewInv, [Next]_masterVars
                 PROVE  Few(db') /\ Few(durable')
    BY DEF Few
  <2>2. Sound(db, Clear) /\ Sound(durable, Clear) /\ Clear \in SUBSET Jobs
    BY <2>1 DEF TypeInv, DbInv, Clear
  <2>3. CASE Next
    <3>1. ASSUME Moves(durable, durable'), Moves(db, db') \/ db' = durable'
          PROVE  Few(db') /\ Few(durable')
      BY <2>1, <2>2, <3>1, MovesFew
    <3>2. ASSUME NEW j \in Jobs, NEW r \in Jobs, Confuses(db, db', j, r),
                 durable' = durable \/ Confuses(durable, durable', j, r)
          PROVE  Few(db') /\ Few(durable')
      BY <2>1, <2>2, <3>2, ConfusesFew
    <3>3. QED BY <2>1, <2>3, <3>1, <3>2, NextMoves DEF Journaled
  <2>4. CASE UNCHANGED masterVars
    BY <2>1, <2>4 DEF masterVars, journal
  <2>5. QED BY <2>1, <2>3, <2>4
<1>3. TypeInv /\ FewInv => RunningMeansOpen
  <2>1. SUFFICES ASSUME TypeInv, FewInv, NEW t \in getRunningSummary(db),
                        t \in ClearSubmissions
                 PROVE  ~Untouched(db, t)
    BY DEF RunningMeansOpen
  <2>2. Sound(db, Clear) /\ Clear \in SUBSET Jobs
    BY <2>1 DEF TypeInv, DbInv, Clear
  <2>3. JobsOf(t) \subseteq Clear /\ runningJob(db, t)
    BY <2>1 DEF ClearSubmissions, getRunningSummary
  <2>4. PICK j \in JobsOf(t) : j \in Open(db)
    BY <2>1, <2>2, <2>3, RunningOpen
  <2>5. QED BY <2>1, <2>2, <2>4, OpenCounted
<1>4. QED BY <1>1, <1>2, <1>3, Invariance, PTL DEF Spec
=============================================================================
