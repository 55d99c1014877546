# Formal verification of distGatling

distGatling runs Gatling load tests on a pool of machines. Users submit a
simulation through a web page or a command line client; the cluster splits it
into jobs, runs each job on a worker and reports on all of them under one
tracking id. This directory holds TLA+ specifications of what decides whether a
submitted job runs, runs once, can be cancelled, and is accounted for to the
user: the master and its persistent job database, the workers and their
executors, what they say to each other, the server between users and the
master, and the pages of the dashboard that submit and watch. TLC checks them
on small instances; TLAPS proves the central properties for all values of the
constants.

Paths below are relative to the repository; `commons/` is short for
`gatling-commons/src/main/java/com/alh/gatling/commons/`, `rest/` for
`gatling-rest/src/main/java/com/alh/gatling/` and `app/` for
`gatling-rest/static/src/app/`.

## The system

| Component | Source | State | Operations | Modelled |
|---|---|---|---|---|
| Job database | `commons/JobState.java`, `JobSummary.java`, `TaskEvent.java` | queue, jobs in progress, accepted and done ids, recorded results, task statuses per submission | one private constructor per domain event; queries | yes: `JobState`, `Tracking` |
| Master | `commons/Master.java` | workers with status and deadline, job database, files to distribute, who has them, cancel requests | one handler per message; cleanup tick; recovery | yes: `Master` |
| Journal | akka-persistence under `Master.java` | the persisted events | persist, replay | yes: `MasterJournal` |
| Worker | `commons/Worker.java` | behaviour (idle, working, waiting for an Ack), current job id | messages of the master and of the executor, three timers, supervision | partly: `Worker`; errors that kill the actor are the death of the worker |
| Job executor | `commons/JarExecutor.java`, `gatling-agent/cancel.sh` | mailbox, a thread and a process per simulation, an abort loop per simulation | run, store a file, poll for cancellation, kill | yes: `JobExecutor` |
| Protocol | `commons/MasterWorkerProtocol.java` | messages in flight | send, receive, lose | yes: `Protocol`, `Cluster` |
| Submission status and lists | `JobSummary.java`, `TrackingResult.java`, `rest/endpoint/v1/RestController.java` | derived from the job database | status, tracker page, running and completed lists | yes: `Tracking` |
| Submission through REST | `rest/service/ServerRepository.java`, `rest/endpoint/v1/FileUploadController.java`, `commons/MasterClientActor.java` | the staged file of each class name; per request: jobs asked for, jobs acknowledged | stage, ask job by job, time out, answer | yes: `Submission` |
| Command line client | `commons/CommandClientActor.java`, `Master.processCmdLineJob` | one command | send, be answered, exit | partly: `Submission`, `Master`; the upload of artifacts before it is not |
| Cancellation | `RestController.java:353`, `Master.java:264`, `JarExecutor.java:143` | set of cancel requests in the master, in memory | request, poll, kill, answer | yes: `Master`, `JobExecutor`, `DetailPage` |
| File upload end points | `FileUploadController.java`, `LibResource.java` | files on disk | store, tell the master | partly: the one that submits a simulation |
| Submission page | `app/dashboard/run/` | chosen file, busy uploader, requests under way, where the user is | choose, upload, read an answer, navigate | yes: `RunPage` |
| Detail page, login, guard | `app/dashboard/detail/`, `login/`, `services/`, `guard/`, `shared/navbar/` | what is shown, requests under way, polls, session | fetch, poll, cancel, report, navigate, log in and out | yes: `DetailPage` |
| Report executor | `commons/ReportExecutor.java` | files it leaves behind | collect results, run a report | no |
| Other pages | `app/dashboard/{home,running,completed,workers,master}` | one answer | fetch, page | no |
| Script executor, bootstrap and configuration, downloads, logs and web resources | `ScriptExecutor.java`, `ClusterFactory.java`, ... | configuration | wiring, I/O | no |

### How they interact

*Workers and master.* A worker registers every 10 s. The master keeps an entry
per worker, idle or busy with a job, each with a deadline (120 s); a cleanup
tick every 60 s drops entries past their deadline and puts the jobs of busy
ones back into the queue. When a job is accepted, fails or is taken back, every
idle worker gets `WorkIsReady`; one that is idle answers `WorkerRequestsWork`
and may be handed the head of the queue, or the head is postponed to the tail
when it asks for another role. A working worker sends a heartbeat every 30 s,
and reports its result; success is repeated every 5 s until it is acknowledged,
failure is reported once. An idle worker asks for files on the same 30 s timer.

*The journal.* The master persists an event before it changes the database, and
rebuilds the database from the journal when it is started again. Everything
else it knows (workers, files, cancel requests) is in memory only. An exception
in a handler restarts the actor; an exception during the replay stops it for
good.

*Worker and executor.* A worker hands a task to its executor, an actor of its
own. A file is stored while the actor handles the message. A simulation is
prepared and run on another thread, whose callbacks answer the worker; next to
it a loop on a scheduler thread asks the master every 60 s whether the
submission was cancelled, and if so runs `cancel.sh` and answers the worker as
well. Three threads, then, may end one job, and the answer of the third may
reach a worker that has gone on to another one.

*Users and master.* An upload stages the simulation in a file named after its
class and asks the master for one job after another, each ask with a timeout of
6 s in the server, 120 s in the actor that forwards it. When all are
acknowledged the user gets the tracking id, and the browser shows the detail
page. That page fetches the summary when it opens and every 30 s, and sends
cancellations and report requests. Answers come in any order and run callbacks
of components that may be gone; an interceptor turns some errors into a visit
of the login page. The command line client sends one command and exits when it
is told the tracking id, which is before the jobs are persisted.

### What is hard about it

Results of workers that were presumed dead; a job handed out again while the
first worker still runs it; entries that disagree with the job database; a
crash or an exception between a persisted event and its effect; events whose
replay throws; wake-ups, jobs, reports and Acks that get lost; a file job and a
job racing for one worker; a submission's status derived from tasks that change
one by one. In the executor: a kill that races the end of the simulation, and
an answer addressed to "the sender of the current message" from a thread that
does not handle a message. For users: a loop of asks that fails in the middle;
a timeout in the browser that is shorter than the work it waits for; answers
that arrive on another page; components the router keeps for another
submission; polls nobody stops. `PROJECT.json` lists each of them at its line,
with the properties that would catch it.

### What makes each component correct

* Job database: an accepted job is in exactly one of queue, progress and done;
  each acceptance gets one verdict; the task status follows the job.
* Master: its entries agree with the database; what was acknowledged survives
  restarts; what is done stays done; it can always recover.
* Journal: replaying it, one event at a time, yields the live database.
* Worker and executor: one simulation at a time, the one the worker works on;
  each report carries the result of the job it names; a result is held until it
  is acknowledged; cancelled simulations stop, and only those.
* Cluster: queued jobs start, reported results are acknowledged, files arrive;
  no job is executed twice at the same time; verdicts are recorded for the job
  they are about.
* Lists: what is shown as completed is over and complete.
* Submission: who is told a tracking id has all the jobs, and who is told of a
  failure gets no more than what was on its way.
* Pages: a choice is submitted once, a page that has submitted can be used
  again, what is shown ends up being the status, nothing spins forever.

## The modules

| Module | What it is |
|---|---|
| `JobState` | the job database as a record, an operator per event, a `CanX` predicate for when the event's constructor returns instead of throwing; what makes a database sound |
| `Protocol` | the messages, and the channels to the workers |
| `Master` | the master actor in the most general environment: any worker may send any message at any time, reports with the result of any job included; deadlines may pass at any time, crashes between any two commands |
| `WorkPool` | abstract specification: jobs wait, run, are taken back, and end with one verdict per acceptance, unless a verdict confuses two of them |
| `MasterRefinement` | the refinement mapping from `Master` to `WorkPool` |
| `MasterJournal` | `Master` with the event log it writes, and its replay |
| `Tracking` | status, counts and lists as users see them |
| `Worker` | the workers, and of their executors what workers can see: answers at any time, kills, and the late answers of abort loops |
| `Cluster` | `Master` and `Worker` composed: the handlers are fed by the other side's messages; explicit faults; fairness |
| `JobExecutor` | the executor itself with its worker, in front of an arbitrary master; it implements `Worker` |
| `Submission` | the server, the client actor, the mail between them and the master, and the command line client |
| `RunPage` | `Submission` composed with the page that sends uploads to it |
| `DetailPage` | the page that watches a submission, with session, guard and interceptor, over a status per submission |
| `MasterProofs` | proofs about the job database and the master |
| `RefinementProofs` | the lists, and that the master implements `WorkPool` |
| `JournalProofs` | recovery makes of the journal what `Master` says |
| `WorkerProofs`, `JobExecutorProofs` | the worker in front of any master; the executor implements what `Worker` has of it |
| `ClusterProofs` | master and workers together |
| `SubmissionProofs` | the submission and the page that submits |
| `DetailPageProofs` | the page that watches, its session and guard |
| `MCMaster`, `MCJournal`, `MCWorker`, `MCCluster`, `MCRunPage`, `MCDetailPage` | instances for TLC (`MCWorker` is one of `JobExecutor`) |

### State and code

**Database and master.** A job and its id are one value (`new Job(...)` draws a
random UUID). `pending`, `inProgress`, `accepted` and `done` of the record are
the collections of `JobState`; the two queues of results are counted per job
named by the result (`completed`, `failed`); `tasks[j]` is the list of statuses
of the tasks that the job summary holds for `j`. `JobSummary.getByWork` uses
`findFirst`, so only the first of them ever changes.

A report names a job and carries a result, which names a job, too. The handlers
of `JobState` move the first in the sets of ids, and count and show the second
(`JobState.java:113-131`, `142-161`). The two may differ (finding 4), so
`onWorkIsDone` and `onWorkFailed` have both as parameters, and the most general
environment sends every combination. `mixed` is a history variable: the jobs
that a recorded verdict with the result of another job names or carries. What
is said of the number of results or of the status of a job is said of the
others (`Clear`), and of submissions all of whose jobs are among them
(`ClearSubmissions`): a verdict mixed up with another job harms these two jobs
and no third one. What is said of the sets alone (`JobsConserved`,
`BookedOnce`) is said of all jobs.

One action of `Master` is one command: the handler, the events it persists, and
the handlers of those events. akka-persistence stashes other commands until
those have run, so this is atomic except for crashes, and a crash in the middle
of one with a single event is as good as a crash before or after it: what is
persisted is replayed, and nothing else survives. Messages to workers that such
a crash suppresses are covered by their loss. Two commands persist several
events. A command line submission tells its client first (`Master.java:188`,
`223`) and persists its jobs one by one: `CrashesInBatch` has the crash after
any number of them, and since the client is told before any is persisted,
none of its jobs is `acked`. In a cleanup tick (`TakeBack`) a handler that
throws restarts the actor with all events of the batch in the journal; a crash
that leaves only some of them there is a tick at which fewer deadlines had
passed, followed by a crash.

The journal appears in `Master` as what recovery makes of it: `events` (its
length), `durable` (the database after its first `ReplayTo` events) and
`poisoned` (one of those throws). That keeps the state small and lets the
proofs speak about recovery; `MasterJournal` keeps the log itself, replays it
event by event, and checks that the summary is right.

Time is a flag per entry, `overdue`. In `Master` it may be raised at any time.
In `Cluster` a deadline passes when the worker does nothing that would renew
the entry (`Renews`), or by a fault, `FallsSilent`: whatever would renew it is
lost or comes too late. Only what arrives renews an entry
(`Master.java:313-319`), so that a worker at work which is not silent in this
sense gets one of its four heartbeats per deadline through.

**Worker and executor.** A worker's behaviour is `mode`. Of its executor
`Worker` keeps what the worker can see: `executing` is what it was given and
has not answered, and its answer may come at any time; `killed` holds the
simulations it killed because their submission was cancelled, and the loop that
killed one may answer as well, whatever the worker does by then (`LateAnswer`),
or nobody hears it (`Untold`). `misled` is a history variable: the workers that
took such a late answer for one of their current task. A misled worker goes
idle while its simulation runs, takes another task, and may report the result
of either under the name of the other.

In `JobExecutor` each of those answers is a step of code: `handling` is the
message the actor is at, `run[w][j]` the thread and process of a simulation
(preparing, running, ended, killed), `loops` the abort loops that are scheduled
and `poll[w][j]` what the thread of one is doing. `Tells` evaluates
`getSender()` of the actor as line 167 does: the worker when the actor happens
to handle a message, dead letters when it handles none, an exception when the
instance was replaced since (`failedLoops`). The process outlives the agent
(`AgentDies`). `ImplementsWorker` says that all of this is a behaviour of
`Worker`, and `AnswersAreExpected` that `Worker`'s guards cut nothing off, so
`Cluster`, which has `Worker`'s steps, leaves out nothing the executor does.

**Submission.** The jobs of a request are numbered as the loop counts them:
`asked` and `acked` are the loop's counters, `jobMail` and `ackMail` what is on
its way, `accepted` what the master has persisted. Every delay is there, as
nothing forces a message to be delivered before the loop times out. The client
actor's own timeout (120 s) always comes after the loop's (6 s), so its NotOk
reaches nobody and is left out. `staged[n]` is the set of uploads whose bytes
are in the file of class name `n`: opening it truncates it, concurrent writers
mix. For a command, `batch` counts the jobs the master has made and not yet
persisted.

**Submission page.** `Visits` are instances of the component with its uploader;
`location` is where the tab is. A request has the state the browser sees
(`xhr`): `read` when the callback has parsed the answer, `broken` when the
parse throws and the rest of the handler is skipped. The page number, roles and
other fields of the form are left out.

**Detail page.** The component is the four variables it shows. The router makes
a new one when the page is entered (`Shows`) and keeps it from one submission
to another (`NavigatesInPlace`). `requests` are those under way, in `Slots`;
of a component that is gone, only a cancel request is kept, since only it can
still change anything. The polls that destroyed components leave behind are one
flag, `leaked`: all they can do is fail in a way that the interceptor answers
with the login page. `DetailTypeOK` includes that a page behind the guard is
only seen by a user who is logged in.

Operators whose comment starts with "Variant" are defective versions of the
definition that follows them (a missing guard, a lost result, a swapped order).
They are not part of the specification; substituting one makes the property it
was written for fail, which shows that the property depends on that code.

### Abstractions

Timestamps, paths, command lines, the content of files and results, logging,
paging, sorting and rendering are left out. A result is the job it names, or
nothing (`NullResults`: `JarExecutor.java:127` reports a failure with no
result, `Worker.java:182` with a result without a job). A file stands for its
tracking id and for the file job that carries it. `onReport`, `onServerInfo`
and `onUploadInfo` only read. An incarnation of a worker that was restarted has
another UUID and is another worker. Read queries of clients are operators of
`Tracking`, not actions.

A task that is issued to the same worker again is not taken before the executor
has answered for it (`OnTask`), and in `JobExecutor` not before its thread and
its loop are over (`Over`): two simulations with one job id are not told
apart. It takes a job handed back to a worker that was misled, or sent again
after a kill whose loop is still at it. The dashboard modules have one browser
tab.

## The runs

| Run | Instance | What it shows |
|---|---|---|
| `master` | 2 workers of 2 roles, submissions of 2 jobs and of 1, batches of up to 2, reports with any result, 6 events | the safety of the master against any environment, the views of `Tracking`, refinement of `WorkPool` |
| `master_replay` | 4 events of which 2 are replayed | *violated*: acknowledged jobs are forgotten |
| `journal` | 2 workers of 2 roles on one host, 2 jobs, 1 text file, failed jobs sent again, 6 events of which 5 are replayed | the log replays to what `Master` says, the live database is the recovered one; types; verdicts after a second acceptance |
| `worker` | 1 worker, 2 jobs of 2 submissions of which one may be cancelled, 1 file | worker and executor in front of an arbitrary master; the executor implements what `Worker` has of it |
| `worker_cancels` | the same | *violated*: a cancellation fails a job of another submission |
| `cluster_jobs` | 2 workers, 2 jobs, 6 events, one crash, death, loss or kill of a cancelled simulation | no double execution, books and work agree, recovery works, verdicts carry their own results, the environment of `Master` covers the workers |
| `cluster_progress` | 1 worker, 2 jobs, 1 file, one crash or loss | jobs start, waiting ends, files arrive |
| `cluster_failover` | 2 workers, 1 job, one death, or one worker silent for a deadline | the job starts on the other worker |
| `cluster_forgets` | 2 workers, 1 job, no fault | *violated*: an acknowledged job never gets a verdict |
| `cluster_slow` | 2 workers, 1 job, one worker silent for a deadline | *violated*: the master stops for good |
| `submission` | 2 visits, 2 uploads of 2 and 0 jobs, a command of 2, one class name | answers against the master's books; one submission per choice; every upload is answered, pages become free |
| `detail` | 2 submissions, one of which changes, 2 requests under way | the page ends up showing the status; no report spins forever |

### Bounds

`MaxEvents` bounds the journal, `ReplayTo` is the 100 of `recovery()`,
`ChannelCap` and `MasterCap` the messages in flight, `MaxParallelism` a command
line submission, `MaxFaults` the faults, `MaxChoices` the files chosen on a
visit, `Slots` the requests of a page under way, `Changing` the submissions
whose status moves.

* Two workers are enough for a job to move from one to another while the first
  still reports; two jobs for the order of the queue, for a heartbeat or report
  that concerns another job than the entry names, and for a batch of two
  timeouts in one tick. With three jobs a verdict that mixes up two of them
  leaves a third one, of the same or of the other submission, for which
  everything must still hold.
* Six events hold an acceptance of two jobs, a start of each, a postponement or
  timeout, and a second start or a verdict; a failure, a second acceptance and a
  second run; or an acceptance, a start and a verdict of two jobs.
* In the runs with `ReplayTo = MaxEvents` recovery replays everything, which is
  what `AckedJobsKept` and the refinement need. `journal` truncates.
* One message per channel is enough in `master`: what is sent to workers plays
  no part in its properties, as the environment may send anything anyway.
* In `Cluster` the master acts only when no channel is full, so that the bound
  never loses a message; `MaxEvents` of the liveness runs is never reached.
* The faults are bounded by one per run, for the sake of the liveness properties
  and the state space; the theorems about the cluster bound neither their number
  nor their order. With two or more the findings below combine, and most
  liveness properties fail for the reasons given there. A kill needs no second
  fault to mislead a worker: the killed simulation fails, the worker takes the
  other job, the loop answers.
* The liveness runs have no cancellation and no command lines
  (`Cancellable = {}`, `MaxParallelism = 0`). After a kill `WaitingEnds` fails: a
  misled worker that stores a file reports the result of its simulation under
  the id of the file job, which the master never acknowledges (finding 4).
* `VIEW` leaves variables out of the comparison of states that no step of the
  module reads and no property of the run depends on: in `master` what is in
  flight to workers and what is to be cancelled, in `cluster_jobs` which jobs
  were acknowledged. Jobs of one submission, and workers of one role, are
  interchangeable (`SYMMETRY`); the properties of these runs are safety
  properties.
* One worker is enough in `worker`: executors share nothing but the cancel
  requests. Two jobs of two submissions are needed for an abort loop of one to
  meet the other; the file for an actor that is busy while the loop answers.
* In `submission`, two visits let an answer arrive on another visit than the
  one that sent it, two choices on one visit let an upload be repeated; a
  parallelism of two has a middle in which the loop can fail, and none is the
  case of an empty loop.
* In `detail`, two requests let an old answer overtake a new one; one
  submission that changes and one that does not let the page go back and forth
  between different statuses.

`CHECK_DEADLOCK` is off: a run of the master may stop at its bound on events,
and a master whose recovery failed has stopped for good; a worker may be down;
all uploads may be done.

### Fairness

`ClusterSpec` assumes weak fairness of the cleanup tick, of mail being handled
on both sides and of executors answering; strong fairness of a deadline that
passes, of the timers of a worker and of a file job being stored. Timers of the
akka scheduler fire forever; in the model a timer fires only when no mail of
its worker is in flight, a condition that comes and goes, hence strong. A file
job may fail (`JarExecutor.java:101`), but not always: without that assumption
a file never arrives and nothing can be said. Crashes, deaths, losses, silence,
kills and clients have no fairness.

`ExecutorSpec` assumes weak fairness of the actor's mailbox, of a prepared
simulation starting, and of the scheduler running the abort loops (they are
repeated every 60 s until cancelled), and strong fairness of the kill: the loop
runs `cancel.sh` again after it failed, and while there is a process it does
not fail every time. Nothing makes a simulation end by itself.

`RunSpec` assumes that the server goes on with what it was sent - its asks time
out, so it never waits for the master for good - and that an answer that is
there reaches the browser or breaks. Neither the master nor the mail is fair.

`DetailSpec` assumes that the page's timer goes off again and again (strong, as
the bound on requests under way may disable it), that every request ends in
some way, and that of the infinitely many fetches of a page that stays open not
all fail: when the network is down the interceptor leaves the page.

## What the checks show

Properties that hold:

* `JobsConserved`, `OneVerdictPerAcceptance`, `DoneIsFinal`: at-least-once
  execution with exactly one recorded verdict per acceptance. The guards
  `isInProgress` and `isDone` of the handlers are what makes late, repeated and
  contradictory reports harmless to the database. A report with the result of
  another job is not harmless: it leaves the job it names without a result and
  gives the other one a result more. The properties say that it does this to no
  third job, and that even then no job is lost, queued twice, or requeued when
  it is done. `ImplementsWorkPool` says the same of whole behaviours, crashes
  included.
* `BookedOnce`: entries of the master never share a job. This needs
  `Resends = FALSE`: a job that failed and is sent again by a client may be
  booked with a worker whose old entry still names it.
* `AckedJobsKept`: acknowledged jobs survive restarts, as long as the journal
  is not longer than what recovery replays. The jobs of a command line
  submission are not acknowledged, and a crash loses those not yet persisted.
* `SummaryFollowsJobs`, `CompletedMeansFinished`, `CompletedIsKept`,
  `RunningMeansOpen`: what the dashboards say of jobs that no verdict mixed up
  is what happened. A job accepted twice keeps a second task that shows PENDING
  for good.
* `OneSimulationAtATime`, `ReportsAreOwn`, `ResultsHeld`: one simulation at a
  time, reports that carry the result of the job they name, and results that are
  held, with kills, failed kills, second answers and a dying agent, whatever the
  master sends - as long as no late answer of an abort loop has been taken for a
  current task (finding 4). `ImplementsWorker`: whatever the executor does, this
  included, is what `Worker` says of it.
* `CancelledJobsStop`: a cancelled simulation is killed, however often a kill
  fails, unless the agent dies or the master forgets the request.
* `OneExecution`, `BooksMatchWork`, `MasterSurvives`, `VerdictsAreOwn`: no job
  is executed twice at a time, the books agree with the work, the master can
  always recover, and no verdict is recorded with the result of another job. The
  run has one crash, death, loss or kill; by `JobsExecuteOnce`, `BooksAreRight`,
  `MasterRecovers` and `VerdictsCarryTheirResults` any number of them, in any
  order, does no harm. All four are said until a worker is misled. The first
  three fail when a working or waiting worker is silent for a whole deadline
  (finding 1), and when failed jobs are sent again or the journal outgrows what
  recovery replays.
* `QueuedJobsStart`, `WaitingEnds`, `FilesArrive`: no wake-up, result or file is
  lost for good. `WorkIsReady` is not repeated and is ignored by a worker that
  stores a file; what saves the job is that idle entries expire and the next
  registration notifies again.
* `MasterSpec`: every behaviour of the composition, misled workers included, is
  a behaviour of `Master`, so whatever is checked or proved of `Master` holds of
  the cluster.
* `AnswerIsComplete`, `CountIsBacked`, `AnswerSettles`: a user who is told a
  tracking id has all of the jobs; one who is told of a failure may have some of
  them running, at most one more will be added, and nothing undoes them. A
  parallelism of 0 is a success without a job.
* `UploadsAreAnswered`, `PageIsFreed`, `ChoicesSubmittedOnce`,
  `DetailIsComplete`: the page submits each choice once, and the page that
  follows a submission is only shown when it is complete, even if the user has
  gone elsewhere meanwhile.
* `DetailCatchesUp`, `SpinnerStops`: stale answers do not stick, as the next
  poll corrects them; an error the interceptor swallows ends the page instead.

Disagreements between the code and what the repository says of it
(`findings` in `PROJECT.json` quotes the lines):

1. **The master can stop for good** (`Master.java:167`, `JobState.java:171`;
   run `cluster_slow`). The heartbeats of a worker are lost or late for one
   deadline, its job is handed to another one, then the first one's result is
   recorded. The entry of the second stays busy with
   a job that is done; its deadline persists a `JobTimedOut` whose handler
   throws, on every recovery, too.
2. **Jobs in progress are not watched after a restart of the master**
   (`Master.java:115-126`, `364`, `400`; run `cluster_forgets`). No fault is
   needed: a request of a worker whose idle entry has expired throws and
   restarts the actor.
3. **Recovery stops at event 100** (`Master.java:112`; run `master_replay`).
4. **A cancellation can fail a job of another submission**
   (`JarExecutor.java:167`; run `worker_cancels`). The loop that killed a
   simulation answers the sender of the message the executor handles by then;
   the worker takes it for the failure of its current job, becomes idle, and
   the simulation it was running goes on unwatched. The master records the
   failure for one job with the result of the other: the first is no longer
   accepted and still shown as started, the second has two failures. When the
   simulation ends, its result is reported under the job the worker has by then,
   and so on: a job may be shown as completed that failed or is still pending.

The following is stated in the modules, with a comment that says it is broken,
and has no run of its own:

* `UploadsKept` (`Cluster`): uploads are persisted and never restored
  (`Master.java:122-124`).
* `CompletedListIsOver` (`Tracking`): the list of completed tests holds every
  test that is not running, among them postponed ones (`JobSummary.java:99`,
  `RestController.java:208`).
* `JobsFindTheirSimulation` (`Submission`): a second upload of the same class
  name replaces what the workers of the first have not downloaded yet
  (`FileUploadController.java:124`).
* `CanTryAgain` (`RunPage`): an answer that is not JSON, the empty one of the
  10 s timeout included, leaves the page busy for good, while the jobs run.
* `CancelShownIsRegistered` (`DetailPage`): a component that the router keeps
  says "Job Successfully Cancelled." of the submission it shows next.
* When a worker is silent for a deadline `WaitingEnds` fails, because a success reported for a job that
  was taken back is neither recorded nor acknowledged (`Master.java:301`), and
  the worker repeats it for good. This is why `cluster_failover` does not list
  it. Likewise a failure reported without a result (`Master.java:288`) is a
  persisted event that cannot be replayed; in `master` and `journal` it leads to
  the state `stopped`, where the safety properties still hold of what is left.

## What is proved

The assumptions are those named in the modules (`JobsAssumption`,
`MasterAssumption`, ...): the types of the constants, a finite set of workers,
that a file is not a job, that uploads and commands differ, and that pages do.
Nothing is assumed of the number of workers, jobs, roles, files, submissions,
visits, requests or faults, of the parallelism asked for, of the channel bounds,
or of the results that the reports in front of `Master` carry. What a theorem
needs beyond that is in its statement, or in the property it is about:

* Jobs not mixed up (`Clear`), in what the master's properties say of results and
  statuses. A verdict with the result of another job is counted for that one.
* Workers not misled, in `OneTaskAtATime`, `OneSimulationAtATime`,
  `ReportsAreOwn` and `ResultsHeld`, each worker for itself, and in
  `OneExecution`, `BooksMatchWork`, `MasterSurvives` and `VerdictsAreOwn`, all of
  them (`misled = {}`). The late answer of an abort loop is the only way to be
  misled, `worker_cancels` shows it, and nothing in the code rules it out.
* `~Resends`: clients do not send a job again that failed. No client of the
  repository does; each submission makes new jobs.
* `MaxEvents <= ReplayTo`: recovery replays the whole journal. It does not when
  there are more than 100 events (finding 3).
* `Reliable`: both of these, and of what a live worker sends or is sent within a
  deadline, something that renews its entry arrives (`"silence" \notin Faults`).
  Crashes of the master, deaths of agents, kills, and lost messages apart from
  that are not limited. `master_replay` and `cluster_slow` show what happens
  otherwise.
* `~NullResults`: a failure is reported with a result. Others are persisted and
  cannot be replayed.

| Theorem | Statement |
|---|---|
| `TypeCorrect` | `Spec => []TypeOK` |
| `JobsAreConserved` | `Spec => []JobsConserved` |
| `VerdictsAreUnique` | `Spec => []OneVerdictPerAcceptance` |
| `SummaryIsFaithful` | `Spec => []SummaryFollowsJobs` |
| `JobsAreBookedOnce` | `~Resends => (Spec => []BookedOnce)` |
| `AckedJobsAreKept` | `MaxEvents <= ReplayTo => (Spec => []AckedJobsKept)` |
| `CompletedIsFinished` | `Spec => []CompletedMeansFinished` |
| `RunningIsOpen` | `~Resends => (Spec => []RunningMeansOpen)` |
| `MasterImplementsWorkPool` | `MaxEvents <= ReplayTo => (Spec => ImplementsWorkPool)` |
| `DoneStays` | `MaxEvents <= ReplayTo => (Spec => DoneIsFinal)` |
| `CompletedStays` | `MaxEvents <= ReplayTo => (Spec => CompletedIsKept)` |
| `JournalReplaysAsSaid` | `JournalSpec => []JournalReplays` |
| `CrashesLoseNothing` | `JournalSpec => []LiveIsRecovered` |
| `JournalSpecIsMaster` | `JournalSpec => Spec` |
| `WorkersRunOneTask` | `WorkersSpec => [](WorkersTypeOK /\ OneTaskAtATime)` |
| `WorkersReportTheirJob` | `WorkersSpec => []ReportsAreOwn` |
| `WorkersHoldResults` | `WorkersSpec => ResultsHeld` |
| `ExecutorImplementsWorker` | `ExecutorSafety => ImplementsWorker` |
| `AnswersAreAwaited` | `ExecutorSafety => []AnswersAreExpected` |
| `ExecutorTypes` | `ExecutorSafety => []ExecutorTypeOK` |
| `AgentsRunOneSimulation` | `ExecutorSafety => []OneSimulationAtATime` |
| `AgentsReportTheirJob` | `ExecutorSafety => []ReportsAreOwn` |
| `AgentsHoldResults` | `ExecutorSafety => ResultsHeld` |
| `ClusterImplementsMaster` | `ClusterSafety => MasterSpec` |
| `VerdictsCarryTheirResults` | `ClusterSafety => []VerdictsAreOwn` |
| `JobsExecuteOnce` | `Reliable => (ClusterSafety => []OneExecution)` |
| `BooksAreRight` | `Reliable => (ClusterSafety => []BooksMatchWork)` |
| `MasterRecovers` | `Reliable /\ ~NullResults => (ClusterSafety => []MasterSurvives)` |
| `SubmissionTypes` | `SubmissionSpec => []SubmissionTypeOK` |
| `CountsAreBacked` | `SubmissionSpec => []CountIsBacked` |
| `AnswersAreComplete` | `SubmissionSpec => []AnswerIsComplete` |
| `AnswersSettle` | `SubmissionSpec => AnswerSettles` |
| `CommandsAreComplete` | `SubmissionSpec => []CommandIsComplete` |
| `PagesKeepPromises`, `PagesSettle` | the same for `RunSafety`, under the submission page |
| `ShownIsComplete` | `RunSafety => []DetailIsComplete` |
| `ChoicesAreSentOnce` | `RunSafety => []ChoicesSubmittedOnce` |
| `GuardHolds` | `DetailSafety => []DetailTypeOK` |

None of these specifications has fairness, so what is proved holds of the fair
ones as well.

*The database* (`MasterProofs`, first part). `Sound(d, C)` gathers the type of a
database with `Partition` and `LaterTasksWait`, and `Accounted` and `ShowsStage`
for the jobs of `C`, the clear ones. None of them is inductive alone: that a verdict is recorded once rests on the job being in
progress and nowhere else, and the status of a task rests on both. One lemma per
event says that it keeps a database sound under the condition its handler
checks (`AcceptedSound`, `StartedSound`, ...), those of the verdicts with what
remains clear: `CompletedSound` and `FailedSound` take a database that is sound
for `C` to one that is for `C` without the two jobs of a mismatch. They rest on lemmas about the
elements of a queue from which the head is removed or to which a batch is appended.

*The master* (`MasterProofs`). A restart replaces `db` by `durable`, so an
invariant of `db` alone is not inductive. `DbInv` says that both databases are sound, that
they are equal as long as recovery replays the whole journal (`events <=
ReplayTo`), and that only submitted jobs occur in them, which is why a batch of
new jobs is
never accepted twice. `mixed` belongs to the journal and survives a crash, since
the verdicts do. `TypeInv` adds the types of entries, files and
channels (`WorkersInv`, `FilesInv`, `ChannelsInv`). The lemma `PersistInv` treats
the journal once for all handlers; each action then has a lemma (`onJobDb`,
`onWorkIsDoneDb`, `onCleanupTickDb`, ...). `BookInv` adds to `BookedOnce` that a
booked job has a task: while no failed job is sent again, a job with a task is
never accepted again, so no booked job enters the queue except by the tick that
ends its booking. `AckInv` reduces `AckedJobsKept` to the jobs with a task.
`CompletedIsFinished` needs no invariant of its own: it follows from `Sound`.

*The abstract specification* (`RefinementProofs`). Every step of the master
leaves its database alone, applies one event to it (a batch counts as one), or
restarts from a journal to which at most one event was added: `Moves` and
`Journaled`, shown action by action. `Effect` says once what an event does, job
by job: which jobs it moves, to which stage, with how many more tasks and
verdicts; for a verdict with the result of another job `NoThird` says what it
leaves alone. From there on nobody looks at queues: an event with its effect is a
step of `WorkPool`, loses nothing that is done, and keeps what is completed
completed. With `MaxEvents <= ReplayTo` a restart is one of these steps or none.
`Few` (finitely many jobs in progress, one task per job while none is sent
again) is what `RunningIsOpen` needs, because the list of running tests counts.

*The journal* (`JournalProofs`). The replay is a recursive function, and the
library's induction theorems cannot be used; `Least` and `UpTo` put induction in
terms of sets of numbers. `ReplaysOn`: replaying a longer journal is replaying
the old one and then the new events. Most commands write one event, where the
replay and the handler do the same by definition; the two that write a batch
have one abstract step for it in `Master`, and `BatchReplays` compares the
databases and the verdicts event by event, `AllAccepted` and `AllTimedOut`
being the comparison at the end - all the way, up to an event that throws, or
up to where recovery stops asking. `JournalInv` adds to what is proved that a
running master never has a poisoned journal: the exception that poisons it has
restarted the actor.

*The worker* (`WorkerProofs`). The invariant has two parts, worker by worker.
`WorkerInv` always holds: a report names some task, and a success carries some
result. `OwnInv` holds until the worker is misled: the executor runs the current
task in the working behaviour and nothing otherwise; a waiting worker holds the
result of its current job; every report on its way names the job of its result.
No conjunct of it is inductive alone. A late answer that finds its worker idle
or waiting changes nothing, and one that finds it working is what `misled`
records. `View` is what the invariants of a worker depend on, and `Kept` says
that steps of others leave them alone.

*The executor* (`JobExecutorProofs`). Every step of the executor is one of
`Worker` or leaves `Worker`'s variables alone (`MovesAreSteps`), so what is
proved of `Worker` holds of it. This would say little if a guard of `Worker` -
`task \in executing[w]` in `Ends` - cut off an answer the code gives.
`AnswersAreAwaited` says that none is cut off. It needs the mailbox:
`QueueInv` says that what waits there is executing, has not begun, and waits
only once, and that what has begun is executing. It does not mention `misled`,
so it holds of executors with two simulations as well. `OneSimulationAtATime`
follows from it and `OwnInv`.

*Master and workers* (`ClusterProofs`). First, what each side puts into the
channels is what the other side's module lets its environment send
(`LocalInv`), so that `MasterProofs` and `WorkerProofs` apply and
`ClusterImplementsMaster` follows action by action, for misled workers, too.
Second, `VerdictsAreOwn`: it needs only `OwnInv` and no condition on faults.
Third, `ClaimInv`, which holds until a worker is misled (`Claimed`). A worker
claims a job from the moment the master puts it into its channel until the
master takes the last report of it: it is offered, executed, finished or
failing. Conjunct by conjunct: a worker is offered one job at a time, once
(`OfferedOnce`); a job is in one of these stages (`OneStage`); the database knows
the job as in progress, as done when it is finished, or as failed when it is
failing (`OnTheBooks`); nobody else claims it or is booked with it (`Exclusive`);
an entry names a job in progress and is overdue only when its worker claims
nothing (`Watches`), so that the cleanup tick only takes back what nobody runs;
and a failed job stays so (`FailedForGood`). Each needs the others. A claim is something
that renews an entry (`ClaimsRenew`), if the worker is where `OneStage` and
`OnTheBooks` say, so only silence lets a deadline pass against `Watches`; hence the tick takes
back what the booked worker does not claim, and by `Exclusive` nobody else does;
and a job from the queue is claimed by nobody, since claimed jobs are on the
books as something else. Most steps
only move claims to their next stage (`KeepsClaims`); the tick, the offer and the
reports have arguments of their own. `MasterRecovers` then has little left to show: an
event that throws is a timeout, a start or a failure that the books exclude.

*The detail page* (`DetailPageProofs`). `GuardHolds` needs one thing that the
types do not say: only a fetch is answered with a status (`AnswersFit`), whichever
visit of the page sent it and whenever it is answered.

*The submission* (`SubmissionProofs`). `UploadInv`: only the job the loop asked
for last has anything on its way, in one direction, and an answer is given
when the loop is over. `CommandInv` says how far a batch is.

*The page* (`SubmissionProofs`, second part). The page adds one step to the server, an upload it
refuses, which keeps its invariant (`RefusalKept`). A success is complete and
final, so a page shown because of one stays complete. Choices are counted per
visit: `Unsent` is 1 while a chosen file is not under way, and sent uploads plus
that never exceed the choices; what is under way keeps the uploader busy, and a
busy uploader sends nothing. An answer that arrives drops a file chosen while
it was awaited, which is why the count is a bound.

### Model-checked only

Liveness (`QueuedJobsStart`, `WaitingEnds`, `FilesArrive`, `CancelledJobsStop`,
`UploadsAreAnswered`, `PageIsFreed`, `DetailCatchesUp`, `SpinnerStops`) rests on
fairness and ENABLED, which the prover does not handle. Every invariant and
every action property of the passing runs, and all three refinements
(`ImplementsWorkPool`, `ImplementsWorker`, `MasterSpec`), are proved as well.

## Not modelled

* The report executor keeps no state of its own. What is hard in it - a
  download that fails is only logged, numbered files of a failed report stay
  behind - is listed as a hazard.
* The script executor: no factory creates it.
* The other pages of the dashboard show the answer of one request each; the
  lists they page through are operators of `Tracking`.
* Bootstrap and configuration, downloads, host lookup, logs and web resources:
  wiring and I/O, no state that a property could be about.
* Uploads of data and library files by the command line client and
  `LibResource`: they write a file and send the master what
  `Master.onUploadFile` models.
* Vendored scripts and style sheets of the dashboard.

## Plan

1. `ReportExecutor`: results collected from a parallel stream, files left behind.
2. Two roles in a liveness run: two pools that rotate the queue under each other.
3. The list pages, whose page number changes before its answer is there.
4. Proofs: that a kill only ends a simulation of the cancelled submission,
   whatever the answer of its loop is taken for.

## Running the checks

    tlc -config MCMaster.cfg MCMaster
    tlapm MasterProofs.tla

The `.cfg` files name their instance; the first one of each MC module has its name.
