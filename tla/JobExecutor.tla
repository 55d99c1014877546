---------------------------- MODULE JobExecutor ----------------------------
(***************************************************************************)
(* The executor of each worker (JarExecutor.java), of which Worker has     *)
(* only what the worker can see: an actor that handles one message after   *)
(* another, a thread per simulation, and per simulation a loop on a        *)
(* scheduler thread that asks every 60 s whether its submission was        *)
(* cancelled, and kills it.                                                *)
(*                                                                         *)
(* An actor that stores a file is busy with it, while a simulation only    *)
(* keeps its own thread busy.  The abort loop answers the sender of        *)
(* whatever message the actor is handling at that moment, which is the     *)
(* worker, or nobody when it handles none.                                 *)
(***************************************************************************)
EXTENDS Worker

VARIABLES
  inbox,         \* mailbox of each executor
  handling,      \* the message it is handling
  run,           \* the simulation of each job
  loops,         \* jobs with an abort loop that is scheduled
  poll,          \* what each abort loop is doing
  failedLoops,   \* jobs whose loop belongs to an actor instance that failed
  cancelled      \* what the master answers the abort loops

actorVars == <<inbox, handling, failedLoops>>
abortVars == <<loops, poll>>
executorVars == <<actorVars, run, abortVars, cancelled>>
allVars == <<workerVars, toWorker, executorVars>>

Set(f, w, j, value) == [f EXCEPT ![w][j] = value]

(***************************************************************************)
(* A task the idle worker takes is told to the executor.  A job that is    *)
(* issued again is not taken before the executor is done with it.          *)
(***************************************************************************)
Over(w, task) ==
  /\ task \notin Range(inbox[w]) /\ task # handling[w]
  /\ task \in Jobs => run[w][task] = "none" /\ poll[w][task] = "none" /\ task \notin killed[w]

TakesTask(w) ==
  /\ OnTask(w)
  /\ LET task == Head(toWorker[w]).body IN
       IF mode[w] = "idle"
       THEN Over(w, task) /\ inbox' = [inbox EXCEPT ![w] = Append(@, task)]
       ELSE UNCHANGED inbox
  /\ UNCHANGED <<handling, failedLoops, run, abortVars, cancelled>>

\* The actor takes its next message; for a job it schedules the abort loop,
\* and has the simulation prepared (its files downloaded) on a new thread.
Handles(w) ==
  /\ handling[w] = NoJob /\ inbox[w] # <<>> /\ mode[w] # "down"
  /\ LET task == Head(inbox[w]) IN
       /\ handling' = [handling EXCEPT ![w] = task]
       /\ IF task \in Jobs
          THEN /\ run' = Set(run, w, task, "preparing")
               /\ loops' = [loops EXCEPT ![w] = @ \cup {task}]
               /\ failedLoops' = [failedLoops EXCEPT ![w] = @ \ {task}]
          ELSE UNCHANGED <<run, loops, failedLoops>>
  /\ inbox' = [inbox EXCEPT ![w] = Tail(@)]
  /\ UNCHANGED <<workerVars, toWorker, poll, cancelled>>

\* onJob returns.
JobHandled(w) ==
  /\ handling[w] \in Jobs
  /\ handling' = [handling EXCEPT ![w] = NoJob]
  /\ UNCHANGED <<workerVars, toWorker, inbox, failedLoops, run, abortVars, cancelled>>

(***************************************************************************)
(* runJob, and the callbacks of its future, which answer the worker that   *)
(* sent the job and stop the loop.  A poll under way goes on.              *)
(***************************************************************************)
Process(w, j, from, to) ==
  /\ run[w][j] = from
  /\ run' = Set(run, w, j, to)
  /\ UNCHANGED <<workerVars, toWorker, actorVars, abortVars, cancelled>>

\* onJob has returned by the time the files are there.
StartsProcess(w, j) == handling[w] # j /\ Process(w, j, "preparing", "running")
ProcessEnds(w, j)   == Process(w, j, "running", "ended")

StopsLoop(w, j) == loops' = [loops EXCEPT ![w] = @ \ {j}]

Answers(w, j) ==
  /\ \/ run[w][j] = "ended" /\ (JobSucceeds(w, j) \/ JobFails(w, j, j))
     \/ run[w][j] = "killed" /\ JobFails(w, j, j)
     \/ run[w][j] = "preparing" /\ NullResults /\ JobFails(w, j, NoJob)
  /\ run' = Set(run, w, j, "none")
  /\ StopsLoop(w, j)
  /\ UNCHANGED <<actorVars, poll, cancelled>>

(***************************************************************************)
(* onFileJob.  If it throws the actor is restarted: it keeps its mailbox,  *)
(* but the loops of the failed instance have lost their context.           *)
(***************************************************************************)
AnswersFile(w) ==
  /\ handling[w] \in Files
  /\ \/ FileStored(w, handling[w]) /\ UNCHANGED failedLoops
     \/ FileFails(w, handling[w]) /\ failedLoops' = [failedLoops EXCEPT ![w] = Jobs]
  /\ handling' = [handling EXCEPT ![w] = NoJob]
  /\ UNCHANGED <<inbox, run, abortVars, cancelled>>

(***************************************************************************)
(* The abort loop: runCancelJob on a scheduler thread.                     *)
(***************************************************************************)
Polls(w, j, from, to) ==
  /\ mode[w] # "down"
  /\ poll[w][j] = from
  /\ poll' = Set(poll, w, j, to)
  /\ UNCHANGED <<inbox, handling, cancelled>>

PollFindsCancelled(w, j) ==
  /\ j \in loops[w] /\ j \notin killed[w]
  /\ TrackingOf[j] \in cancelled
  /\ Polls(w, j, "none", "killing")
  /\ UNCHANGED <<workerVars, toWorker, failedLoops, run, loops>>

\* Variant: it passes for a kill that there is no such process.
KillsInVain(w, j) ==
  /\ run' = IF run[w][j] = "running" THEN Set(run, w, j, "killed") ELSE run
  /\ Polls(w, j, "killing", "none")
  /\ killed' = [killed EXCEPT ![w] = @ \cup {j}]
  /\ UNCHANGED <<mode, currentJob, executing, misled, unacked, toMaster, toWorker>>
  /\ UNCHANGED <<failedLoops, loops>>

Kills(w, j) ==
  /\ run[w][j] = "running"
  /\ run' = Set(run, w, j, "killed")
  /\ Polls(w, j, "killing", "none")
  /\ Killed(w, j)
  /\ UNCHANGED <<failedLoops, loops>>

\* Variant: the failure ends the loop.
FailureStopsLoop(w, j) ==
  /\ Polls(w, j, "killing", "none")
  /\ StopsLoop(w, j)
  /\ UNCHANGED <<workerVars, toWorker, failedLoops, run>>

\* cancel.sh fails, for one because there is no such process.
KillFails(w, j) ==
  /\ Polls(w, j, "killing", "none")
  /\ UNCHANGED <<workerVars, toWorker, failedLoops, run, loops>>

\* getSender() of the actor: its worker, dead letters, or an exception that
\* ends the loop.
Tells(w, j) ==
  /\ j \in killed[w]
  /\ \/ /\ j \notin failedLoops[w] /\ handling[w] # NoJob
        /\ Polls(w, j, "none", "late")
        /\ UNCHANGED <<workerVars, toWorker, loops>>
     \/ /\ j \notin failedLoops[w] /\ handling[w] = NoJob
        /\ Polls(w, j, "none", "none")
        /\ Untold(w, j)
        /\ UNCHANGED loops
     \/ /\ j \in failedLoops[w]
        /\ Polls(w, j, "none", "none")
        /\ Untold(w, j)
        /\ StopsLoop(w, j)
  /\ UNCHANGED <<failedLoops, run>>

\* What the loop told arrives at the worker.
AnswersLate(w, j) ==
  /\ Polls(w, j, "late", "none")
  /\ LateAnswer(w, j)
  /\ UNCHANGED <<failedLoops, run, loops>>

(***************************************************************************)
(* Users and the master: cancel requests are kept until it restarts.       *)
(***************************************************************************)
Cancels(t) ==
  /\ t \notin cancelled
  /\ cancelled' = cancelled \cup {t}
  /\ UNCHANGED <<workerVars, toWorker, actorVars, run, abortVars>>

MasterForgets ==
  /\ cancelled # {}
  /\ cancelled' = {}
  /\ UNCHANGED <<workerVars, toWorker, actorVars, run, abortVars>>

\* The agent dies; the processes it started live on.
AgentDies(w) ==
  /\ Dies(w)
  /\ inbox' = [inbox EXCEPT ![w] = <<>>]
  /\ handling' = [handling EXCEPT ![w] = NoJob]
  /\ run' = [run EXCEPT ![w] =
               [j \in Jobs |-> IF @[j] = "running" THEN "running" ELSE "none"]]
  /\ loops' = [loops EXCEPT ![w] = {}]
  /\ poll' = [poll EXCEPT ![w] = [j \in Jobs |-> "none"]]
  /\ UNCHANGED <<failedLoops, cancelled>>

(***************************************************************************)
(* The specification.                                                      *)
(***************************************************************************)
ExecutorInit ==
  /\ WorkersInit
  /\ inbox = [w \in Workers |-> <<>>]
  /\ handling = [w \in Workers |-> NoJob]
  /\ run = [w \in Workers |-> [j \in Jobs |-> "none"]]
  /\ loops = [w \in Workers |-> {}]
  /\ poll = [w \in Workers |-> [j \in Jobs |-> "none"]]
  /\ failedLoops = [w \in Workers |-> {}]
  /\ cancelled = {}

\* What a worker says on its timers without a result changes nothing here.
WorkerActs(w) ==
  /\ Len(toMaster[w]) < MasterCap
  /\ \/ TakesTask(w)
     \/ (OnAck(w) \/ AckTimeout(w)) /\ UNCHANGED executorVars
     \/ AnswersFile(w)
     \/ \E j \in Jobs : Answers(w, j) \/ AnswersLate(w, j)

MasterIssues(w) ==
  /\ \/ \E j \in Jobs : Tell(w, Job(j)) \/ Tell(w, Ack(j))
     \/ \E f \in Files : Tell(w, FileJob(f))
  /\ UNCHANGED <<workerVars, executorVars>>

ExecutorActs(w) ==
  \/ Handles(w) \/ JobHandled(w)
  \/ \E j \in Jobs :
       \/ StartsProcess(w, j) \/ ProcessEnds(w, j)
       \/ PollFindsCancelled(w, j) \/ Kills(w, j) \/ KillFails(w, j) \/ Tells(w, j)

ExecutorNext ==
  \/ \E w \in Workers :
       \/ WorkerActs(w)
       \/ ExecutorActs(w)
       \/ AgentDies(w)
       \/ MasterIssues(w)
       \/ MasterTakes(w) /\ UNCHANGED executorVars
  \/ \E t \in Cancellable : Cancels(t)
  \/ MasterForgets

ExecutorSafety == ExecutorInit /\ [][ExecutorNext]_allVars

(***************************************************************************)
(* Fairness: the actor handles its mail, prepared simulations start, the   *)
(* scheduler runs the loops, and cancel.sh does not fail every time while  *)
(* there is a process to kill.  A simulation may run forever.              *)
(***************************************************************************)
ExecutorFairness ==
  \A w \in Workers :
    /\ WF_allVars(Handles(w))
    /\ WF_allVars(JobHandled(w))
    /\ \A j \in Jobs :
         /\ WF_allVars(StartsProcess(w, j))
         /\ WF_allVars(PollFindsCancelled(w, j))
         /\ WF_allVars(Kills(w, j) \/ KillFails(w, j))
         /\ SF_allVars(Kills(w, j))

ExecutorSpec == ExecutorSafety /\ ExecutorFairness

(***************************************************************************)
(* Properties.                                                             *)
(***************************************************************************)
ExecutorTypeOK ==
  /\ WorkersTypeOK
  /\ inbox \in [Workers -> Seq(Jobs \cup Files)]
  /\ handling \in [Workers -> Jobs \cup Files \cup {NoJob}]
  /\ run \in [Workers -> [Jobs -> {"none", "preparing", "running", "ended", "killed"}]]
  /\ loops \in [Workers -> SUBSET Jobs]
  /\ poll \in [Workers -> [Jobs -> {"none", "killing", "late"}]]
  /\ failedLoops \in [Workers -> SUBSET Jobs]
  /\ cancelled \subseteq Cancellable

\* What the executor of w has not answered yet.
Active(w) == {j \in Jobs : run[w][j] # "none"}

(***************************************************************************)
(* An agent runs one simulation at a time, the one its worker works on,    *)
(* and none behind the back of an idle worker (README.md:114: "If a worker *)
(* is busy it will not be issued a new task") - kills included, as long as *)
(* no late answer of an abort loop has been taken for the current one.     *)
(***************************************************************************)
OneSimulationAtATime ==
  \A w \in Workers \ misled :
    /\ executing[w] = IF mode[w] = "working" THEN {currentJob[w]} ELSE {}
    /\ mode[w] # "down" => Active(w) \subseteq executing[w]

(***************************************************************************)
(* The executor is what Worker takes it for: every answer is one its       *)
(* worker can expect there - once per task, and once more, late, per kill. *)
(***************************************************************************)
ImplementsWorker == WorkersSpec

(***************************************************************************)
(* The guards Worker puts on its executor hide nothing of it: whatever it  *)
(* has begun, or has in its mailbox, is in `executing`, nothing else is,   *)
(* it only kills what was cancelled, and a loop that has told its worker   *)
(* something is one that killed - workers that were misled included.       *)
(***************************************************************************)
AnswersAreExpected ==
  \A w \in Workers :
    /\ mode[w] # "down" =>
         executing[w] = Active(w) \cup Range(inbox[w]) \cup (Files \cap {handling[w]})
    /\ \A j \in Jobs : /\ poll[w][j] = "killing" => TrackingOf[j] \in Cancellable
                       /\ poll[w][j] = "late" => j \in killed[w]

(***************************************************************************)
(* "If the user has cancelled the simulation job workers will terminate    *)
(* the running simulation" (RestController.java:353), however kills fail   *)
(* and whatever the executor does meanwhile - unless the agent dies or the *)
(* master restarts and forgets the request.                                *)
(***************************************************************************)
CancelledJobsStop ==
  \A w \in Workers, j \in Jobs :
    run[w][j] = "running" /\ TrackingOf[j] \in cancelled ~>
      run[w][j] # "running" \/ TrackingOf[j] \notin cancelled \/ mode[w] = "down"

(***************************************************************************)
(* Cancelling a submission does not fail a job of another one ("run side   *)
(* by side on the same cluster with complete isolation", README.md:47).    *)
(***************************************************************************)
CancelIsIsolated ==
  \A w \in Workers : \A m \in Range(toMaster[w]) :
    m.type = "WorkFailed" /\ m.body \in Jobs /\ m.result # NoJob =>
      TrackingOf[m.body] = TrackingOf[m.result]
=============================================================================
