------------------------------ MODULE Cluster ------------------------------
(***************************************************************************)
(* The master and its workers: Master's handlers fed by the messages of    *)
(* Worker's actors, which are fed by the master's.                         *)
(*                                                                         *)
(* Faults are explicit and bounded by MaxFaults: the master's process      *)
(* crashes, an agent dies, a message is lost, a simulation is killed       *)
(* because users cancelled its submission, or a live worker falls silent:  *)
(* every message that would renew its entry is lost or held up             *)
(* until the deadline (120 s) passes, four heartbeats in a row of a worker *)
(* at work.  Apart from that the deadline of an entry only passes when the *)
(* worker does nothing that would renew it: of the messages of one         *)
(* deadline, one arrives.                                                  *)
(*                                                                         *)
(* Timers (5 s to 30 s) of a worker fire when the mail from and to it has  *)
(* been taken, and the master acts when no channel of a live worker is     *)
(* full: nothing is lost but by a fault.                                   *)
(***************************************************************************)
EXTENDS Master, Worker

CONSTANTS
  MaxFaults,     \* bound on the faults of a run
  Faults         \* which faults may happen

ASSUME ClusterAssumption ==
  /\ MaxFaults \in Nat
  /\ Faults \subseteq {"crash", "death", "loss", "silence", "kill"}

VARIABLES
  faults,        \* faults so far
  uploaded       \* files the clients have sent to the master

environment == <<faults, uploaded>>
clusterVars == <<masterVars, workerVars, environment>>

Fault(kind) ==
  /\ kind \in Faults
  /\ faults < MaxFaults
  /\ faults' = faults + 1
  /\ UNCHANGED uploaded

\* The bound on messages in flight never costs one.
HasRoom == \A w \in Workers : mode[w] = "down" \/ Len(toWorker[w]) < ChannelCap

(***************************************************************************)
(* The master handles the first message of a worker.                       *)
(***************************************************************************)
Handles(w, m) ==
  \/ m.type = "RegisterWorker" /\ onRegisterWorker(w)
  \/ m.type = "WorkerRequestsWork" /\ onWorkerRequestsWork(w)
  \/ m.type = "WorkerRequestsFile" /\ onWorkerRequestsFile(w)
  \/ m.type = "WorkInProgress" /\ onWorkInProgress(w, m.body)
  \/ m.type = "WorkIsDone" /\ onWorkIsDone(w, m.body, m.result)
  \/ m.type = "WorkFailed" /\ onWorkFailed(w, m.body, m.result)
  \/ m.type = "FileUploadComplete" /\ onFileUploadComplete(m.body, HostOf[w])

MasterReceives(w) ==
  /\ Running
  /\ HasRoom
  /\ toMaster[w] # <<>>
  /\ Handles(w, Head(toMaster[w]))
  /\ toMaster' = [toMaster EXCEPT ![w] = Tail(@)]
  /\ UNCHANGED <<mode, currentJob, executing, abortion, unacked, environment>>

(***************************************************************************)
(* The steps of a worker.                                                  *)
(***************************************************************************)
masterKeeps == <<volatile, db, journal, status, clients, environment>>

WorkerHandles(w) == WorkerReceives(w) /\ UNCHANGED masterKeeps

ExecutorStep(w) == ExecutorAnswers(w) /\ UNCHANGED masterKeeps

\* An abort loop tells its answer to nobody.
LoopIsUnheard(w) == (\E j \in Jobs : Untold(w, j)) /\ UNCHANGED masterKeeps

StoresFile(w, f) == FileStored(w, f) /\ UNCHANGED masterKeeps

Quiet(w) == toMaster[w] = <<>> /\ toWorker[w] = <<>>

Registers(w)   == Quiet(w) /\ RegisterTick(w) /\ UNCHANGED masterKeeps
KeepsAlive(w)  == Quiet(w) /\ KeepAliveTick(w) /\ UNCHANGED masterKeeps
RepeatsDone(w) == Quiet(w) /\ AckTimeout(w) /\ UNCHANGED masterKeeps

(***************************************************************************)
(* Deadlines: an entry is renewed by the reports and requests for work in  *)
(* flight, by the messages that provoke them, by the heartbeats (every     *)
(* 30 s) of a worker on a job in progress, or by a report that is repeated *)
(* (every 5 s) until it is acknowledged.  One of them is enough; that none *)
(* arrives before the deadline is a fault of its own.  Registrations and   *)
(* file messages renew nothing.                                            *)
(***************************************************************************)
InFlight(channel, types) == \E m \in Range(channel) : m.type \in types

Renews(w) ==
  \/ InFlight(toMaster[w], {"WorkerRequestsWork", "WorkInProgress", "WorkIsDone", "WorkFailed"})
  \/ mode[w] # "down" /\ InFlight(toWorker[w], {"WorkIsReady", "Job", "Ack"})
  \/ /\ mode[w] = "working"
     /\ IsBusy(w) /\ currentJob[w] \in db.inProgress
  \/ /\ mode[w] = "waiting"
     /\ currentJob[w] \in db.inProgress \cup db.done

Expires(w) ==
  /\ ~Renews(w)
  /\ DeadlinePasses(w)
  /\ UNCHANGED <<workerVars, environment>>

(***************************************************************************)
(* Faults.                                                                 *)
(***************************************************************************)
MasterCrashes ==
  /\ Fault("crash")
  /\ Crash \/ \E s \in NewJobs : \E n \in 0..Len(s) : CrashesInBatch(s, n)
  /\ UNCHANGED workerVars

WorkerDies(w) ==
  /\ Fault("death")
  /\ Dies(w)
  /\ UNCHANGED <<volatile, db, journal, status, clients>>

LosesToMaster(w) ==
  /\ Fault("loss")
  /\ MasterTakes(w)
  /\ UNCHANGED <<volatile, db, journal, status, clients>>

LosesToWorker(w) ==
  /\ Fault("loss")
  /\ Receive(w)
  /\ UNCHANGED workerVars

\* Whatever would renew the entry comes late or never.
FallsSilent(w) ==
  /\ Fault("silence")
  /\ Renews(w)
  /\ DeadlinePasses(w)
  /\ UNCHANGED workerVars

\* Users may cancel the submissions of Cancellable.
SimulationKilled(w) ==
  /\ Fault("kill")
  /\ \E j \in Jobs : Killed(w, j)
  /\ UNCHANGED <<volatile, db, journal, status, clients>>

(***************************************************************************)
(* The specification.                                                      *)
(***************************************************************************)
ClusterInit == Init /\ InitWorkers /\ faults = 0 /\ uploaded = {}

\* Variant: a client sends its job again after it failed.
SendsJobsAgain ==
  /\ \/ \E j \in Jobs : onJob(j)
     \/ \E s \in NewJobs : processCmdLineJob(s)
  /\ UNCHANGED uploaded

\* Module Master also has the tracking requests, of which workers see what
\* Cancellable says, and files uploaded again.
SendsJobs ==
  /\ \/ \E j \in Jobs : ClientSendsJob(j)
     \/ \E s \in NewJobs : processCmdLineJob(s)
  /\ UNCHANGED uploaded

Uploads(f) ==
  /\ f \notin uploaded
  /\ onUploadFile(f)
  /\ uploaded' = uploaded \cup {f}

ClientActs ==
  /\ HasRoom
  /\ SendsJobs \/ \E f \in Files : Uploads(f)
  /\ UNCHANGED <<workerVars, faults>>

Ticks ==
  /\ HasRoom
  /\ onCleanupTick
  /\ UNCHANGED <<workerVars, environment>>

ClusterNext ==
  \/ ClientActs
  \/ Ticks
  \/ MasterCrashes
  \/ \E w \in Workers :
       \/ MasterReceives(w) \/ WorkerHandles(w) \/ ExecutorStep(w) \/ LoopIsUnheard(w)
       \/ Registers(w) \/ KeepsAlive(w) \/ RepeatsDone(w)
       \/ Expires(w)
       \/ WorkerDies(w) \/ LosesToMaster(w) \/ LosesToWorker(w) \/ FallsSilent(w) \/ SimulationKilled(w)

ClusterSafety == ClusterInit /\ [][ClusterNext]_clusterVars

(***************************************************************************)
(* Fairness: mail is handled, executors answer, deadlines pass, and the    *)
(* timers of master and workers keep firing (each at its own rate, hence   *)
(* strongly fair: their mail finds the channel empty again and again).     *)
(***************************************************************************)
Fairness ==
  /\ WF_clusterVars(Ticks)
  /\ \A w \in Workers :
       /\ WF_clusterVars(MasterReceives(w))
       /\ WF_clusterVars(WorkerHandles(w))
       /\ WF_clusterVars(ExecutorStep(w))
       /\ SF_clusterVars(Expires(w))
       /\ \A f \in Files : SF_clusterVars(StoresFile(w, f))
       /\ SF_clusterVars(Registers(w))
       /\ SF_clusterVars(KeepsAlive(w))
       /\ SF_clusterVars(RepeatsDone(w))

ClusterSpec == ClusterSafety /\ Fairness

(***************************************************************************)
(* Properties.                                                             *)
(***************************************************************************)
(***************************************************************************)
(* The master never fails to recover: no event in its journal throws when  *)
(* it is replayed, whichever crash, death or loss happens.  Breaks when a  *)
(* worker is silent beyond its deadline and answers then: the entry of the *)
(* worker the job was handed to next is never cleared, and times out a job *)
(* that is done (Master.java:167, JobState.java:171).  As the two next     *)
(* ones, said until a late answer of an abort loop has misled a worker.    *)
(***************************************************************************)
MasterSurvives == misled = {} => status = "running"

(***************************************************************************)
(* Two live workers never execute the same job at the same time, crashes   *)
(* and deaths included: a job is only handed out again when its worker     *)
(* has stopped executing it.  Answers that come after the deadline break   *)
(* this, too.                                                              *)
(***************************************************************************)
OneExecution ==
  misled = {} =>
    \A v, w \in Workers : v # w => executing[v] \cap executing[w] \cap Jobs = {}

(***************************************************************************)
(* What the workers do is on the master's books: a job that is executed is *)
(* in progress, and one whose result waits for its Ack is in progress or   *)
(* done - never queued, failed or forgotten, in which case the Ack would   *)
(* not come (Master.java:301).                                             *)
(***************************************************************************)
BooksMatchWork ==
  misled = {} =>
    \A w \in Workers :
      /\ executing[w] \cap Jobs \subseteq db.inProgress
      /\ mode[w] = "waiting" => unacked[w] \in db.inProgress \cup db.done

(***************************************************************************)
(* A verdict never carries the result of another job than the one it is    *)
(* recorded for, whatever is cancelled, lost, repeated or reassigned, as   *)
(* long as no worker has taken the late answer of an abort loop for that   *)
(* of its current task (JarExecutor.java:167 is the only way there).       *)
(***************************************************************************)
VerdictsAreOwn == misled = {} => mixed = {}

(***************************************************************************)
(* The workers and their channels are an environment of Master: the        *)
(* composition satisfies what is checked and proved of it, also when       *)
(* workers are misled, silent, or report the results of other jobs.        *)
(***************************************************************************)
MasterSpec == Spec

(***************************************************************************)
(* A file the master persisted is known to it, also after a crash          *)
(* (README.md:99: "Message that is delivered to Master is durable").       *)
(* Broken by one crash.                                                    *)
(***************************************************************************)
UploadsKept == uploaded \subseteq fileDatabase

(***************************************************************************)
(* Every acknowledged job gets a verdict: work of a dead worker is         *)
(* reassigned (README.md:97, 116), work of a live one is reported.         *)
(***************************************************************************)
Settled(j) == j \in db.done \/ db.failed[j] > 0

AckedJobsSettle == \A j \in Jobs : j \in acked ~> Settled(j)

(***************************************************************************)
(* No wake-up is lost for good: a queued job leaves the queue, as long as  *)
(* some worker lives - although WorkIsReady is sent once, may be lost, may *)
(* find its worker busy with a file, and idle entries are neither renewed  *)
(* by heartbeats nor notified again.                                       *)
(***************************************************************************)
QueuedJobsStart ==
  \A j \in Jobs : j \in Range(db.pending) ~> j \notin Range(db.pending)

(***************************************************************************)
(* A worker that reported a result does not wait forever for its Ack,      *)
(* although reports and Acks get lost, and the master forgets its worker   *)
(* and fails on the report of an unknown one.                              *)
(***************************************************************************)
WaitingEnds == \A w \in Workers : mode[w] = "waiting" ~> mode[w] # "waiting"

(***************************************************************************)
(* A file the master knows is reported stored by the host of every worker  *)
(* that lives, or the master restarts and forgets it - although file jobs  *)
(* and reports get lost, fail, or find their worker busy.                  *)
(***************************************************************************)
FilesArrive ==
  \A f \in Files, w \in Workers :
    f \in fileDatabase ~>
      <<f, HostOf[w]>> \in fileTracker \/ f \notin fileDatabase \/ mode[w] = "down"
=============================================================================
