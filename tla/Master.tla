------------------------------- MODULE Master -------------------------------
(***************************************************************************)
(* The master actor (Master.java): a persistent cluster singleton that     *)
(* queues jobs, hands them to the workers that ask for work, watches over  *)
(* the workers with deadlines and distributes files.                       *)
(*                                                                         *)
(* One action is one command: its handler, the events it persists and the  *)
(* handlers of those events, which akka-persistence runs before the next   *)
(* command.  An exception in any of them restarts the actor (the default   *)
(* supervision of the singleton): the fields of the class start empty and  *)
(* the job database is replayed from the journal.  An exception during     *)
(* the replay stops the actor for good.                                    *)
(*                                                                         *)
(* The journal is represented by what recovery makes of it: `events` is    *)
(* its highest sequence number, `durable` the job database after its first *)
(* ReplayTo events (recovery() asks for no more than 100), `poisoned`      *)
(* whether one of those events throws when it is replayed.  Module         *)
(* MasterJournal keeps the events themselves and checks that the replay    *)
(* yields `durable`.                                                       *)
(*                                                                         *)
(* Time is abstract: `overdue` says that the deadline of a worker's entry  *)
(* has passed.  The specification of this module puts the actor in the     *)
(* most general environment: any worker may send any message of the        *)
(* protocol at any time, deadlines may pass at any time, and the process   *)
(* may crash between any two commands.  Module Cluster replaces that       *)
(* environment by the workers and their channels.                          *)
(*                                                                         *)
(* A report may carry the result of another job than it names: a worker    *)
(* reports what its executor answers under its current job                 *)
(* (Worker.java:62, 79), and an abort loop may answer late                 *)
(* (JarExecutor.java:167).  `mixed` keeps the jobs that a recorded verdict *)
(* of this kind names or carries; what is said of a single job's results   *)
(* and status is said of the others (Clear).                               *)
(***************************************************************************)
EXTENDS Protocol, FiniteSets

CONSTANTS
  WorkerRole,     \* the role each worker was started with
  RoleOf,         \* the role (partition) each job asks for
  HostOf,         \* the host each worker runs on
  TextFiles,      \* those not of type "lib": the master reads them from disk
  ReplayTo,       \* events replayed on recovery; 100 in the code
  MaxEvents,      \* bound on the events of a run
  MaxParallelism, \* bound on the tasks of one command line submission
  Resends         \* clients may send a job again after it failed

ASSUME MasterAssumption ==
  /\ IsFiniteSet(Workers)
  /\ DOMAIN WorkerRole = Workers /\ DOMAIN HostOf = Workers
  /\ DOMAIN RoleOf = Jobs
  /\ TextFiles \subseteq Files
  /\ ReplayTo \in Nat /\ MaxEvents \in Nat
  /\ MaxParallelism \in Nat
  /\ Resends \in BOOLEAN

VARIABLES
  workers,         \* workerId -> WorkerState; Absent for no entry
  fileTracker,     \* <<file, host>> pairs reported as uploaded
  fileDatabase,    \* files known to be distributed
  cancelRequests,  \* tracking ids asked to be cancelled
  db,              \* jobDatabase
  durable,         \* the journal: what recovery rebuilds,
  poisoned,        \*   whether recovery fails,
  events,          \*   its highest sequence number,
  mixed,           \*   and the jobs whose verdicts it mixes up (history)
  status,          \* "running", or "stopped" by a failed recovery
  submitted,       \* clients: jobs whose id has been used
  acked            \* clients: jobs the master acknowledged

volatile == <<workers, fileTracker, fileDatabase, cancelRequests>>
journal  == <<durable, poisoned, events, mixed>>
clients  == <<submitted, acked>>
masterVars == <<volatile, db, journal, status, toWorker, clients>>

(***************************************************************************)
(* Entries of the workers map.                                             *)
(***************************************************************************)
Absent == [kind |-> "absent", job |-> NoJob, overdue |-> FALSE]
Idle   == [kind |-> "idle", job |-> NoJob, overdue |-> FALSE]
Busy(j) == [kind |-> "busy", job |-> j, overdue |-> FALSE]

WorkerStates ==
  [kind : {"absent", "idle", "busy"}, job : Jobs \cup {NoJob}, overdue : BOOLEAN]

IsKnown(w) == workers[w].kind # "absent"
IsIdle(w)  == workers[w].kind = "idle"
IsBusy(w)  == workers[w].kind = "busy"

(***************************************************************************)
(* Waking idle workers.                                                    *)
(***************************************************************************)
\* n copies of WorkIsReady to every idle worker of ws
PutReady(q, n) ==
  LET room == ChannelCap - Len(q)
  IN  q \o [i \in 1..(IF n <= room THEN n ELSE room) |-> WorkIsReady]

notifyWorkers(ws, d, n) ==
  toWorker' = [w \in Workers |-> IF hasJob(d) /\ ws[w].kind = "idle"
                                 THEN PutReady(toWorker[w], n)
                                 ELSE toWorker[w]]

(***************************************************************************)
(* The journal.                                                            *)
(***************************************************************************)
\* Variant: recovery stops one event early.
RoomForOneLess == IF events + 1 < ReplayTo THEN ReplayTo - events - 1 ELSE 0

Room == IF events < ReplayTo THEN ReplayTo - events ELSE 0

\* Variants: only the first event of a batch is persisted; all of them are
\* replayed as soon as one is.
KeptFirst(s) == SubSeq(s, 1, IF s # <<>> /\ Room > 0 THEN 1 ELSE 0)
KeptWhole(s) == s

\* The events of a batch that a later recovery will replay.
Kept(s) == SubSeq(s, 1, IF Len(s) <= Room THEN Len(s) ELSE Room)

\* Writes n events; if ok, the replayed ones turn `durable` into `after`.
Journals(n, ok, after) ==
  /\ events + n <= MaxEvents
  /\ events' = events + n
  /\ durable' = IF Room > 0 /\ ok THEN after ELSE durable
  /\ poisoned' = (poisoned \/ (Room > 0 /\ ~ok))

Persist(n, ok, after) == Journals(n, ok, after) /\ UNCHANGED mixed

\* A verdict on j with the result of r.
MixesUp(j, r) == IF r = j THEN {} ELSE {j, r}

PersistVerdict(j, r, after) ==
  /\ Journals(1, CanRecord(durable, r), after)
  /\ mixed' = mixed \cup MixesUp(j, r)

\* A new instance of the actor recovers from the journal of this step.
Restart ==
  /\ workers' = [w \in Workers |-> Absent]
  /\ fileTracker' = {}
  /\ fileDatabase' = {}
  /\ cancelRequests' = {}
  /\ db' = durable'
  /\ status' = IF poisoned' THEN "stopped" ELSE "running"

Running == status = "running"

(***************************************************************************)
(* Clients.                                                                *)
(***************************************************************************)
onJob(j) ==
  /\ Running
  /\ submitted' = submitted \cup {j}
  /\ acked' = acked \cup {j}
  /\ IF isAccepted(db, j)
     THEN UNCHANGED <<volatile, db, journal, status, toWorker>>
     ELSE /\ Persist(1, TRUE, JobAccepted(durable, <<j>>))
          /\ db' = JobAccepted(db, <<j>>)
          /\ notifyWorkers(workers, db', 1)
          /\ UNCHANGED <<volatile, status>>

\* A command line submission makes one new job per parallel task.  The
\* client is told before any of them is persisted, so none is acknowledged.
processCmdLineJob(s) ==
  /\ Running
  /\ submitted' = submitted \cup Range(s)
  /\ Persist(Len(s), TRUE, JobAccepted(durable, Kept(s)))
  /\ db' = JobAccepted(db, s)
  /\ notifyWorkers(workers, db', Len(s))
  /\ UNCHANGED <<volatile, status, acked>>

\* The process crashes when the client has been told, and the first n of
\* the jobs are in the journal.
CrashesInBatch(s, n) ==
  /\ Running
  /\ submitted' = submitted \cup Range(s)
  /\ Persist(n, TRUE, JobAccepted(durable, Kept(SubSeq(s, 1, n))))
  /\ Restart
  /\ UNCHANGED <<toWorker, acked>>

onTrackingInfo(t, cancel) ==
  /\ Running
  /\ cancelRequests' = IF cancel THEN cancelRequests \cup {t} ELSE cancelRequests
  /\ UNCHANGED <<workers, fileTracker, fileDatabase, db, journal, status, toWorker, clients>>

\* The event is persisted, but recovery only logs it.
onUploadFile(f) ==
  /\ Running
  /\ Persist(1, TRUE, durable)
  /\ fileDatabase' = fileDatabase \cup {f}
  /\ UNCHANGED <<workers, fileTracker, cancelRequests, db, status, toWorker, clients>>

(***************************************************************************)
(* Workers.                                                                *)
(***************************************************************************)
\* Variant: a worker that registers is not told of the queued jobs.
RegistersUnnotified(w) ==
  /\ Running
  /\ workers' = [workers EXCEPT ![w] = IF IsKnown(w) THEN @ ELSE Idle]
  /\ UNCHANGED <<fileTracker, fileDatabase, cancelRequests, db, journal, status, toWorker, clients>>

onRegisterWorker(w) ==
  /\ Running
  /\ IF IsKnown(w)
     THEN UNCHANGED <<workers, toWorker>>
     ELSE /\ workers' = [workers EXCEPT ![w] = Idle]
          /\ IF hasJob(db) THEN Tell(w, WorkIsReady) ELSE UNCHANGED toWorker
  /\ UNCHANGED <<fileTracker, fileDatabase, cancelRequests, db, journal, status, clients>>

\* extendIdleExpiryTime(w) when w is in the map
ExtendIdleExpiryTime(w) ==
  workers' = IF IsIdle(w) THEN [workers EXCEPT ![w] = Idle] ELSE workers

\* Variant: the entry keeps naming the finished job.
StaysBusy(w) == workers

\* Whatever job a busy entry names, it becomes idle.
ChangedToIdle(w) ==
  IF IsBusy(w) THEN [workers EXCEPT ![w] = Idle] ELSE workers

\* workers.get(workerId).status of an absent entry throws.
FailsOnUnknownWorker(w) ==
  /\ ~IsKnown(w)
  /\ UNCHANGED <<journal, toWorker, clients>>
  /\ Restart

onWorkerRequestsWork(w) ==
  /\ Running
  /\ \/ /\ hasJob(db)
        /\ IsIdle(w)
        /\ LET j == nextJob(db) IN
             \/ /\ WorkerRole[w] = RoleOf[j]
                /\ Persist(1, CanStart(durable, j), JobStarted(durable, j))
                /\ db' = JobStarted(db, j)
                /\ workers' = [workers EXCEPT ![w] = Busy(j)]
                /\ Tell(w, Job(j))
             \/ /\ WorkerRole[w] # RoleOf[j]
                /\ Persist(1, CanPostpone(durable), JobPostponed(durable, j))
                /\ db' = JobPostponed(db, j)
                /\ ExtendIdleExpiryTime(w)
                /\ UNCHANGED toWorker
        /\ UNCHANGED <<fileTracker, fileDatabase, cancelRequests, status, clients>>
     \/ /\ hasJob(db)
        /\ ~IsIdle(w)
        /\ UNCHANGED masterVars
     \/ /\ ~hasJob(db)
        /\ IsKnown(w)
        /\ ExtendIdleExpiryTime(w)
        /\ UNCHANGED <<fileTracker, fileDatabase, cancelRequests, db, journal, status, toWorker, clients>>
     \/ /\ ~hasJob(db)
        /\ FailsOnUnknownWorker(w)

\* A heartbeat renews the deadline of a busy entry, whatever job it names.
onWorkInProgress(w, j) ==
  /\ Running
  /\ workers' = IF isInProgress(db, j) /\ IsBusy(w)
                THEN [workers EXCEPT ![w].overdue = FALSE]
                ELSE workers
  /\ UNCHANGED <<fileTracker, fileDatabase, cancelRequests, db, journal, status, toWorker, clients>>

onWorkIsDone(w, j, r) ==
  /\ Running
  /\ \/ /\ isDone(db, j)
        /\ Tell(w, Ack(j))
        /\ UNCHANGED <<volatile, db, journal, status, clients>>
     \/ /\ ~isDone(db, j)
        /\ ~isInProgress(db, j)
        /\ UNCHANGED masterVars
     \/ /\ ~isDone(db, j)
        /\ isInProgress(db, j)
        /\ \/ FailsOnUnknownWorker(w)
           \/ /\ IsKnown(w)
              /\ CanRecord(db, r)
              /\ PersistVerdict(j, r, JobCompleted(durable, j, r))
              /\ workers' = ChangedToIdle(w)
              /\ db' = JobCompleted(db, j, r)
              /\ Tell(w, Ack(j))
              /\ UNCHANGED <<fileTracker, fileDatabase, cancelRequests, status, clients>>
           \/ /\ IsKnown(w)
              /\ ~CanRecord(db, r)
              /\ Persist(1, CanRecord(durable, r), durable)
              /\ Restart
              /\ UNCHANGED <<toWorker, clients>>

onWorkFailed(w, j, r) ==
  /\ Running
  /\ \/ /\ ~isInProgress(db, j)
        /\ UNCHANGED masterVars
     \/ /\ isInProgress(db, j)
        /\ \/ FailsOnUnknownWorker(w)
           \/ /\ IsKnown(w)
              /\ CanRecord(db, r)
              /\ PersistVerdict(j, r, JobFailed(durable, j, r))
              /\ workers' = ChangedToIdle(w)
              /\ db' = JobFailed(db, j, r)
              /\ notifyWorkers(workers', db', 1)
              /\ UNCHANGED <<fileTracker, fileDatabase, cancelRequests, status, clients>>
           \/ /\ IsKnown(w)
              /\ ~CanRecord(db, r)
              /\ Persist(1, CanRecord(durable, r), durable)
              /\ Restart
              /\ UNCHANGED <<toWorker, clients>>

UnsentTo(w) == {f \in fileDatabase : <<f, HostOf[w]>> \notin fileTracker}

\* The role of the worker plays no part; a text file may not be readable.
onWorkerRequestsFile(w) ==
  /\ Running
  /\ UNCHANGED <<journal, clients>>
  /\ \/ UnsentTo(w) = {} /\ UNCHANGED <<volatile, db, status, toWorker>>
     \/ \E f \in UnsentTo(w) :
          Tell(w, FileJob(f)) /\ UNCHANGED <<volatile, db, status>>
     \/ UnsentTo(w) \cap TextFiles # {} /\ Restart /\ UNCHANGED toWorker

\* Variant: host and file are swapped.
TracksHostFirst(f, h) ==
  /\ Running
  /\ fileTracker' = fileTracker \cup {<<h, f>>}
  /\ UNCHANGED <<workers, fileDatabase, cancelRequests, db, journal, status, toWorker, clients>>

onFileUploadComplete(f, h) ==
  /\ Running
  /\ fileTracker' = fileTracker \cup {<<f, h>>}
  /\ UNCHANGED <<workers, fileDatabase, cancelRequests, db, journal, status, toWorker, clients>>

(***************************************************************************)
(* The cleanup tick: entries past their deadline leave the map, and the    *)
(* jobs of the busy ones are timed out in the order of the iteration over  *)
(* a HashMap, which is any order.  The handlers of the events run when     *)
(* the entries are gone; all events are in the journal before the first    *)
(* handler runs.                                                           *)
(***************************************************************************)
\* Variant: the deadline is not looked at.
OverdueOrNot == {w \in Workers : IsKnown(w)}

Overdue == {w \in Workers : IsKnown(w) /\ workers[w].overdue}

Orders(S) == Bijection(1..Cardinality(S), S)

TakeBack(order) ==
  LET late == [i \in DOMAIN order |-> workers[order[i]].job]
      left == [w \in Workers |-> IF w \in Overdue THEN Absent ELSE workers[w]]
  IN  /\ Persist(Len(late), CanTimeOut(durable, Kept(late)), JobTimedOut(durable, Kept(late)))
      /\ \/ /\ CanTimeOut(db, late)
            /\ db' = JobTimedOut(db, late)
            /\ workers' = left
            /\ notifyWorkers(left, db', Len(late))
            /\ UNCHANGED <<fileTracker, fileDatabase, cancelRequests, status>>
         \/ /\ ~CanTimeOut(db, late)
            \* the first n handlers run, the next one throws
            /\ \E n \in 0..Len(late) - 1 :
                 /\ CanTimeOut(db, SubSeq(late, 1, n))
                 /\ ~CanTimeOut(db, SubSeq(late, 1, n + 1))
                 /\ notifyWorkers(left, JobTimedOut(db, SubSeq(late, 1, n)), n)
            /\ Restart

onCleanupTick ==
  /\ Running
  /\ Overdue # {}
  /\ \E order \in Orders({w \in Overdue : IsBusy(w)}) : TakeBack(order)
  /\ UNCHANGED clients

(***************************************************************************)
(* Time and crashes.                                                       *)
(***************************************************************************)
DeadlinePasses(w) ==
  /\ Running
  /\ IsKnown(w)
  /\ ~workers[w].overdue
  /\ workers' = [workers EXCEPT ![w].overdue = TRUE]
  /\ UNCHANGED <<fileTracker, fileDatabase, cancelRequests, db, journal, status, toWorker, clients>>

Crash ==
  /\ Running
  /\ UNCHANGED <<journal, toWorker, clients>>
  /\ Restart

(***************************************************************************)
(* The specification: the master in the most general environment.          *)
(***************************************************************************)
Init ==
  /\ workers = [w \in Workers |-> Absent]
  /\ fileTracker = {}
  /\ fileDatabase = {}
  /\ cancelRequests = {}
  /\ db = EmptyJobState
  /\ durable = EmptyJobState
  /\ poisoned = FALSE
  /\ events = 0
  /\ mixed = {}
  /\ status = "running"
  /\ toWorker = [w \in Workers |-> <<>>]
  /\ submitted = {}
  /\ acked = {}

\* A client may send a job again; after a failure only if Resends.
ClientSendsJob(j) ==
  /\ Resends \/ ~HasFailed(db, j)
  /\ onJob(j)

\* The jobs of a command line submission get fresh ids.
NewJobs == UNION {Injection(1..n, Jobs \ submitted) : n \in 1..MaxParallelism}

ClientStep ==
  \/ \E j \in Jobs : ClientSendsJob(j)
  \/ \E s \in NewJobs : processCmdLineJob(s) \/ \E n \in 0..Len(s) : CrashesInBatch(s, n)
  \/ \E t \in Trackings, cancel \in BOOLEAN : onTrackingInfo(t, cancel)
  \/ \E f \in Files : onUploadFile(f)

WorkerStep(w) ==
  \/ onRegisterWorker(w)
  \/ onWorkerRequestsWork(w)
  \/ \E j \in Jobs : onWorkInProgress(w, j)
  \/ \E j, r \in Jobs : onWorkIsDone(w, j, r)
  \/ \E j \in Jobs, r \in Jobs \cup {NoJob} : onWorkFailed(w, j, r)
  \/ onWorkerRequestsFile(w)
  \/ \E f \in Files : onFileUploadComplete(f, HostOf[w])

\* The environment takes a message out of a worker's channel.
Receive(w) ==
  /\ Taken(w)
  /\ UNCHANGED <<volatile, db, journal, status, clients>>

Next ==
  \/ ClientStep
  \/ \E w \in Workers : WorkerStep(w) \/ DeadlinePasses(w) \/ Receive(w)
  \/ onCleanupTick
  \/ Crash

Spec == Init /\ [][Next]_masterVars

(***************************************************************************)
(* Properties.                                                             *)
(***************************************************************************)
TypeOK ==
  /\ workers \in [Workers -> WorkerStates]
  /\ fileTracker \subseteq Files \X {HostOf[w] : w \in Workers}
  /\ fileDatabase \subseteq Files
  /\ cancelRequests \subseteq Trackings
  /\ db \in JobStates
  /\ durable \in JobStates
  /\ poisoned \in BOOLEAN
  /\ events \in 0..MaxEvents
  /\ mixed \subseteq Jobs
  /\ status \in {"running", "stopped"}
  /\ toWorker \in [Workers -> Seq(WorkerMessages)]
  /\ submitted \subseteq Jobs
  /\ acked \subseteq Jobs

\* Jobs no recorded verdict has mixed up with another one.
Clear == Jobs \ mixed

(***************************************************************************)
(* No accepted job is lost, queued twice, run while it is queued, or       *)
(* requeued once it is done - whatever order registrations, requests,      *)
(* results of slow workers, timeouts and crashes come in, and whatever     *)
(* results the reports carry (the six constructors of JobState.java, as    *)
(* the handlers of Master.java use them).                                  *)
(***************************************************************************)
JobsConserved == Partition(db)

(***************************************************************************)
(* Every acceptance of a job is open or has exactly one recorded verdict:  *)
(* late, repeated and contradictory reports of several workers about the   *)
(* same job never record a second one (the isDone and isInProgress guards  *)
(* of onWorkIsDone and onWorkFailed), and a verdict that carries the       *)
(* result of another job harms no job but these two.                       *)
(***************************************************************************)
OneVerdictPerAcceptance == Accounted(db, Clear)

(***************************************************************************)
(* An entry of the workers map never names a job that is back in the       *)
(* queue, and no two entries name the same job: a job is on the books of   *)
(* one worker at a time, so the cleanup tick never times a job out twice.  *)
(* Only while no failed job is sent again (Resends).                       *)
(***************************************************************************)
BookedOnce ==
  \A w \in Workers :
    IsBusy(w) =>
      /\ workers[w].job \notin Range(db.pending)
      /\ \A v \in Workers \ {w} : IsBusy(v) => workers[v].job # workers[w].job

(***************************************************************************)
(* A job the master acknowledged is known to its summary, and accepted or  *)
(* recorded as failed, also after crashes and restarts of the actor        *)
(* (README: "Message that is delivered to Master is durable").  Holds as   *)
(* long as the journal is no longer than recovery() replays.  The jobs of  *)
(* a command line submission are not acknowledged: its client is told      *)
(* first (Master.java:223).                                                *)
(***************************************************************************)
AckedJobsKept ==
  \A j \in acked :
    /\ j \in Known(db)
    /\ j \in db.accepted \/ db.failed[j] > 0 \/ j \in mixed

(***************************************************************************)
(* The status a job's task shows in the job summary follows the job        *)
(* through timeouts, reassignment and restarts.  A job accepted again      *)
(* after a failure keeps showing FAILED until it starts, because only the  *)
(* first of its two tasks is ever looked up; the second one shows PENDING  *)
(* for good.                                                               *)
(***************************************************************************)
SummaryFollowsJobs == ShowsStage(db, Clear) /\ LaterTasksWait(db)

(***************************************************************************)
(* A job that is done stays done: no step, a restart included, takes its   *)
(* completion back, or adds another result to it - unless that result is   *)
(* reported for another job.                                               *)
(***************************************************************************)
DoneIsFinal ==
  [][\A j \in db.done :
       /\ j \in db'.done
       /\ db'.completed[j] = db.completed[j] \/ j \in mixed']_<<db, mixed>>
=============================================================================
