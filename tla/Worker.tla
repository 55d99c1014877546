------------------------------- MODULE Worker -------------------------------
(***************************************************************************)
(* The worker actors (Worker.java) and their executors (JarExecutor.java). *)
(*                                                                         *)
(* A worker is a state machine over the behaviours it becomes: idle,       *)
(* working, and waiting for the master's Ack of a finished job.  One       *)
(* action is one message: of the master, of the executor, or of one of     *)
(* the three timers.  A message the current behaviour does not know is     *)
(* dropped (unhandled).  The worker never clears currentJobId.             *)
(*                                                                         *)
(* Of the executor this module keeps what the worker can see: `executing`  *)
(* is what it runs and has not answered yet, and the answer may come at    *)
(* any time.  The abort loop of a simulation it kills answers on its own   *)
(* (JarExecutor.java:167): `killed` holds the jobs whose loop has not done *)
(* so yet, and when it does, the worker takes the answer for that of its   *)
(* current task.  `misled` remembers the workers this happened to while    *)
(* they worked.  The answers are told apart by success and by the job      *)
(* their result carries.  Module JobExecutor has the executor itself, and  *)
(* implements this one.                                                    *)
(*                                                                         *)
(* The specification of this module puts the workers in front of a master  *)
(* that may send anything at any time and takes messages as it likes.      *)
(***************************************************************************)
EXTENDS Protocol

CONSTANTS
  MasterCap,     \* a worker with that many messages in flight does not act
  NullResults,   \* executors may fail a job without a result
  Cancellable    \* the submissions users may cancel

ASSUME WorkerAssumption ==
  /\ MasterCap \in Nat
  /\ NullResults \in BOOLEAN
  /\ Cancellable \subseteq Trackings

VARIABLES
  mode,          \* the behaviour of each worker, or "down"
  currentJob,    \* currentJobId: of a job or of a file job
  executing,     \* what the executor of each worker is running
  killed,        \* simulations it killed, with the loop still to answer
  misled,        \* workers that took such an answer for a current one
  unacked,       \* the result a waiting worker repeats
  toMaster       \* messages in flight from each worker

abortion == <<killed, misled>>
workerVars == <<mode, currentJob, executing, abortion, unacked, toMaster>>

Send(w, m) == toMaster' = [toMaster EXCEPT ![w] = Append(@, m)]

Become(w, behaviour) == mode' = [mode EXCEPT ![w] = behaviour]

(***************************************************************************)
(* Messages of the master.                                                 *)
(***************************************************************************)
Receives(w, types) ==
  /\ Taken(w)
  /\ Head(toWorker[w]).type \in types

OnWorkIsReady(w) ==
  /\ Receives(w, {"WorkIsReady"})
  /\ IF mode[w] = "idle" THEN Send(w, WorkerRequestsWork) ELSE UNCHANGED toMaster
  /\ UNCHANGED <<mode, currentJob, executing, abortion, unacked>>

\* Variant: a busy worker takes another task.
TakesAnyTask(w) ==
  /\ Receives(w, {"Job", "FileJob"})
  /\ mode[w] # "down" /\ Become(w, "working")
  /\ currentJob' = [currentJob EXCEPT ![w] = Head(toWorker[w]).body]
  /\ executing' = [executing EXCEPT ![w] = @ \cup {Head(toWorker[w]).body}]
  /\ UNCHANGED <<abortion, unacked, toMaster>>

\* A job or a file job; "Yikes" when the worker is not idle.  A task that is
\* issued again is not taken before the executor has answered for it.
OnTask(w) ==
  /\ Receives(w, {"Job", "FileJob"})
  /\ LET task == Head(toWorker[w]).body IN
       IF mode[w] = "idle"
       THEN /\ task \notin executing[w]
            /\ Become(w, "working")
            /\ currentJob' = [currentJob EXCEPT ![w] = task]
            /\ executing' = [executing EXCEPT ![w] = @ \cup {task}]
       ELSE UNCHANGED <<mode, currentJob, executing>>
  /\ UNCHANGED <<abortion, unacked, toMaster>>

\* Variant: an Ack of any job will do.
TakesAnyAck(w) ==
  /\ Receives(w, {"Ack"})
  /\ mode[w] = "waiting"
  /\ Send(w, WorkerRequestsWork)
  /\ Become(w, "idle")
  /\ unacked' = [unacked EXCEPT ![w] = NoJob]
  /\ UNCHANGED <<currentJob, executing, abortion>>

OnAck(w) ==
  /\ Receives(w, {"Ack"})
  /\ IF mode[w] = "waiting" /\ Head(toWorker[w]).body = currentJob[w]
     THEN /\ Send(w, WorkerRequestsWork)
          /\ Become(w, "idle")
          /\ unacked' = [unacked EXCEPT ![w] = NoJob]
     ELSE UNCHANGED <<mode, unacked, toMaster>>
  /\ UNCHANGED <<currentJob, executing, abortion>>

(***************************************************************************)
(* Answers of the executor, handled by a worker that is working.           *)
(***************************************************************************)
Ends(w, task) ==
  /\ task \in executing[w]
  /\ executing' = [executing EXCEPT ![w] = @ \ {task}]
  /\ UNCHANGED abortion

JobSucceeds(w, j) ==
  /\ Ends(w, j)
  /\ IF mode[w] = "working"
     THEN /\ Send(w, WorkIsDone(currentJob[w], j))
          /\ Become(w, "waiting")
          /\ unacked' = [unacked EXCEPT ![w] = j]
     ELSE UNCHANGED <<mode, unacked, toMaster>>
  /\ UNCHANGED <<currentJob, toWorker>>

\* Variant: the result is that of whichever job was run last.
ResultsOfAny(j) == Jobs

\* What an executor may fail a job with: its result, or none at all.
Results(j) == IF NullResults THEN {j, NoJob} ELSE {j}

\* Failures are reported once, and not acknowledged.
OnWorkFailed(w, r) ==
  /\ IF mode[w] = "working"
     THEN Send(w, WorkFailed(currentJob[w], r)) /\ Become(w, "idle")
     ELSE UNCHANGED <<mode, toMaster>>
  /\ UNCHANGED <<currentJob, unacked>>

JobFails(w, j, r) == Ends(w, j) /\ OnWorkFailed(w, r) /\ UNCHANGED toWorker

\* Variants: a stored file waits for an Ack; it is not reported.
FileAwaitsAck(w, f) ==
  /\ Ends(w, f)
  /\ Send(w, FileUploadComplete(f)) /\ Become(w, "waiting")
  /\ unacked' = [unacked EXCEPT ![w] = f]
  /\ UNCHANGED <<currentJob, toWorker>>

FileUnreported(w, f) ==
  /\ Ends(w, f)
  /\ Become(w, "idle")
  /\ UNCHANGED <<currentJob, unacked, toMaster, toWorker>>

FileStored(w, f) ==
  /\ Ends(w, f)
  /\ IF mode[w] = "working"
     THEN Send(w, FileUploadComplete(f)) /\ Become(w, "idle")
     ELSE UNCHANGED <<mode, toMaster>>
  /\ UNCHANGED <<currentJob, unacked, toWorker>>

\* onFileJob throws; the supervision strategy runs in whatever mode.
FileFails(w, f) ==
  /\ Ends(w, f)
  /\ Send(w, WorkFailed(currentJob[w], NoJob))
  /\ Become(w, "idle")
  /\ UNCHANGED <<currentJob, unacked, toWorker>>

\* The process of a simulation of a cancelled submission is killed; its own
\* answer follows (JobFails), and that of the loop, or none.
Killed(w, j) ==
  /\ mode[w] # "down"
  /\ j \in executing[w] /\ TrackingOf[j] \in Cancellable
  /\ killed' = [killed EXCEPT ![w] = @ \cup {j}]
  /\ UNCHANGED <<mode, currentJob, executing, misled, unacked, toMaster, toWorker>>

LoopEnds(w, j) ==
  /\ mode[w] # "down"
  /\ j \in killed[w]
  /\ killed' = [killed EXCEPT ![w] = @ \ {j}]

\* What the loop told arrives at the worker, whatever it works on by now.
LateAnswer(w, j) ==
  /\ LoopEnds(w, j)
  /\ OnWorkFailed(w, j)
  /\ misled' = IF mode[w] = "working" THEN misled \cup {w} ELSE misled
  /\ UNCHANGED <<executing, toWorker>>

\* It was told to nobody.
Untold(w, j) ==
  /\ LoopEnds(w, j)
  /\ UNCHANGED <<mode, currentJob, executing, misled, unacked, toMaster, toWorker>>

ExecutorAnswers(w) ==
  \/ \E j \in Jobs : JobSucceeds(w, j)
  \/ \E j \in Jobs : \E r \in Results(j) : JobFails(w, j, r)
  \/ \E j \in Jobs : LateAnswer(w, j)
  \/ \E f \in Files : FileStored(w, f) \/ FileFails(w, f)

(***************************************************************************)
(* Timers: registration every 10 s, keep-alive every 30 s, and the receive *)
(* timeout of 5 s while waiting for an Ack.                                *)
(***************************************************************************)
RegisterTick(w) ==
  /\ mode[w] # "down"
  /\ Send(w, RegisterWorker)
  /\ UNCHANGED <<mode, currentJob, executing, abortion, unacked, toWorker>>

KeepAliveTick(w) ==
  /\ \/ mode[w] = "idle" /\ Send(w, WorkerRequestsFile)
     \/ mode[w] = "working" /\ Send(w, WorkInProgress(currentJob[w]))
  /\ UNCHANGED <<mode, currentJob, executing, abortion, unacked, toWorker>>

AckTimeout(w) ==
  /\ mode[w] = "waiting"
  /\ Send(w, WorkIsDone(currentJob[w], unacked[w]))
  /\ UNCHANGED <<mode, currentJob, executing, abortion, unacked, toWorker>>

\* The agent process ends, and with it the executor and its loops.
Dies(w) ==
  /\ mode[w] # "down"
  /\ Become(w, "down")
  /\ executing' = [executing EXCEPT ![w] = {}]
  /\ killed' = [killed EXCEPT ![w] = {}]
  /\ UNCHANGED <<currentJob, misled, unacked, toMaster, toWorker>>

(***************************************************************************)
(* The specification: workers in front of an arbitrary master.             *)
(***************************************************************************)
InitWorkers ==
  /\ mode = [w \in Workers |-> "idle"]
  /\ currentJob = [w \in Workers |-> NoJob]
  /\ executing = [w \in Workers |-> {}]
  /\ killed = [w \in Workers |-> {}]
  /\ misled = {}
  /\ unacked = [w \in Workers |-> NoJob]
  /\ toMaster = [w \in Workers |-> <<>>]

WorkerReceives(w) == OnWorkIsReady(w) \/ OnTask(w) \/ OnAck(w)

MasterSends(w) ==
  /\ \/ Tell(w, WorkIsReady)
     \/ \E j \in Jobs : Tell(w, Job(j)) \/ Tell(w, Ack(j))
     \/ \E f \in Files : Tell(w, FileJob(f))
  /\ UNCHANGED workerVars

MasterTakes(w) ==
  /\ toMaster[w] # <<>>
  /\ toMaster' = [toMaster EXCEPT ![w] = Tail(@)]
  /\ UNCHANGED <<mode, currentJob, executing, abortion, unacked, toWorker>>

WorkersInit == InitWorkers /\ toWorker = [w \in Workers |-> <<>>]

WorkersNext ==
  \E w \in Workers :
    \/ /\ Len(toMaster[w]) < MasterCap
       /\ \/ WorkerReceives(w) \/ ExecutorAnswers(w)
          \/ RegisterTick(w) \/ KeepAliveTick(w) \/ AckTimeout(w)
    \/ \E j \in Jobs : Killed(w, j) \/ Untold(w, j)
    \/ Dies(w)
    \/ MasterSends(w)
    \/ MasterTakes(w)

WorkersSpec == WorkersInit /\ [][WorkersNext]_<<workerVars, toWorker>>

(***************************************************************************)
(* Properties.                                                             *)
(***************************************************************************)
WorkersTypeOK ==
  /\ mode \in [Workers -> {"idle", "working", "waiting", "down"}]
  /\ currentJob \in [Workers -> Jobs \cup Files \cup {NoJob}]
  /\ executing \in [Workers -> SUBSET (Jobs \cup Files)]
  /\ killed \in [Workers -> SUBSET {j \in Jobs : TrackingOf[j] \in Cancellable}]
  /\ misled \subseteq Workers
  /\ unacked \in [Workers -> Jobs \cup {NoJob}]
  /\ toMaster \in [Workers -> Seq(MasterMessages)]

(***************************************************************************)
(* The executor runs one task at a time, the current one, exactly while    *)
(* the worker is in the working behaviour - whatever jobs, file jobs and   *)
(* acks arrive in whatever order (README: "If a worker is busy it will not *)
(* be issued a new task"; the worker drops those it is issued) - as long   *)
(* as no late answer of an abort loop has been taken for the current one.  *)
(***************************************************************************)
OneTaskAtATime ==
  \A w \in Workers \ misled :
    executing[w] = IF mode[w] = "working" THEN {currentJob[w]} ELSE {}

(***************************************************************************)
(* The same of the reports: the result a report carries is of the job it   *)
(* names, unless the worker has been misled.                               *)
(***************************************************************************)
ReportsAreOwn ==
  \A w \in Workers \ misled : \A m \in Range(toMaster[w]) :
    /\ m.type = "WorkIsDone" => m.body = m.result /\ m.body \in Jobs
    /\ m.type = "WorkFailed" /\ m.result # NoJob => m.body = m.result

(***************************************************************************)
(* A finished job is never dropped unacknowledged: a worker that waits     *)
(* repeats the result of the same job until it has taken the Ack of that   *)
(* job, or dies - again unless it has been misled.                         *)
(***************************************************************************)
ResultsHeld ==
  [][\A w \in Workers \ misled :
       mode[w] = "waiting" =>
         \/ mode'[w] = "waiting" /\ unacked'[w] = unacked[w] /\ unacked[w] = currentJob'[w]
         \/ mode'[w] = "down"
         \/ /\ mode'[w] = "idle"
            /\ toWorker[w] # <<>> /\ Head(toWorker[w]) = Ack(unacked[w])
    ]_<<workerVars, toWorker>>
=============================================================================
