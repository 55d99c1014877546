--------------------------- MODULE ClusterProofs ---------------------------
(***************************************************************************)
(* Proofs about the master and its workers together (module Cluster).      *)
(*                                                                         *)
(* First, every step of the cluster is a step of Master or leaves its      *)
(* variables alone, and the workers keep the invariant WorkerProofs has of *)
(* them in front of any master.  For that the messages in the channels     *)
(* have to be of the kinds the two modules let their environments send,    *)
(* which they are also when workers take the late answers of abort loops   *)
(* for those of their current tasks.                                       *)
(*                                                                         *)
(* Second, what only holds until a worker is misled in this way: verdicts  *)
(* carry the results of the jobs they are recorded for (VerdictsAreOwn),   *)
(* and the safety of the composition: OneExecution, BooksMatchWork and     *)
(* MasterSurvives.  The latter follow from ClaimInv, which says who may    *)
(* still act on a job: a worker claims a job from the moment the master    *)
(* puts it into its channel until the master takes the last report of it,  *)
(* and while it does the deadline of its entry does not pass, so nobody    *)
(* else is offered the job.  That takes workers whose messages are not all *)
(* lost or late for a whole deadline (Reliable).  The number of workers,   *)
(* jobs, faults and messages in flight is arbitrary.                       *)
(***************************************************************************)
EXTENDS Cluster, MasterProofs, WorkerProofs

-----------------------------------------------------------------------------
(***************************************************************************)
(* What the master's handlers put into the channels: messages that are no  *)
(* jobs, or one job.                                                       *)
(***************************************************************************)
Calls == {m \in Sent : m.type # "Job"}

\* p is q with calls behind it.
Grown(q, p) ==
  /\ p \in Seq(Sent)
  /\ Len(q) <= Len(p)
  /\ \A i \in 1..Len(p) : IF i <= Len(q) THEN p[i] = q[i] ELSE p[i] \in Calls

OnlyCalls ==
  /\ toWorker' \in [Workers -> Seq(Sent)]
  /\ \A w \in Workers : Grown(toWorker[w], toWorker'[w])

LEMMA CallTypes ==
  /\ WorkIsReady \in Calls
  /\ \A j \in Jobs : Ack(j) \in Calls /\ Job(j) \in Sent
  /\ \A f \in Files : FileJob(f) \in Calls
BY DEF Calls, Sent, TaskMessages, Messages, WorkIsReady, Ack, Job, FileJob

LEMMA GrownSame ==
  ASSUME NEW q \in Seq(Sent)
  PROVE  Grown(q, q)
BY DEF Grown

LEMMA GrownPut ==
  ASSUME NEW q \in Seq(Sent), NEW m \in Calls
  PROVE  Grown(q, Put(q, m))
<1>1. m \in Sent
  BY DEF Calls
<1>2. CASE Put(q, m) = q
  BY <1>2, GrownSame
<1>3. CASE Put(q, m) = Append(q, m)
  <2>1. /\ Append(q, m) \in Seq(Sent) /\ Len(Append(q, m)) = Len(q) + 1 /\ Len(q) \in Nat
        /\ \A i \in 1..Len(q) : Append(q, m)[i] = q[i]
        /\ Append(q, m)[Len(q) + 1] = m
    BY <1>1
  <2>2. QED BY <1>3, <2>1 DEF Grown
<1>4. QED BY <1>2, <1>3 DEF Put

LEMMA GrownReady ==
  ASSUME NEW q \in Seq(Sent), NEW n \in Nat
  PROVE  Grown(q, PutReady(q, n))
<1> DEFINE room == ChannelCap - Len(q)
           k == IF n <= room THEN n ELSE room
           more == [i \in 1..k |-> WorkIsReady]
<1>1. k \in Int /\ Len(q) \in Nat
  BY LenProperties, ProtocolAssumption
<1>2. WorkIsReady \in Calls /\ WorkIsReady \in Sent
  BY CallTypes DEF Calls
<1>3. PutReady(q, n) = q \o more
  BY DEF PutReady
<1> HIDE DEF k
<1>4. more \in Seq(Sent) /\ Len(more) \in Nat /\ \A i \in 1..Len(more) : more[i] = WorkIsReady
  <2>1. CASE k \in Nat
    BY <2>1, <1>2
  <2>2. CASE k \notin Nat
    <3>1. 1..k = {} /\ 1..0 = {}
      BY <1>1, <2>2
    <3>2. more \in [1..0 -> Sent] /\ 0 \in Nat
      BY <3>1
    <3> HIDE DEF more
    <3>3. more \in Seq(Sent) /\ Len(more) = 0
      BY <3>2, SeqDef, LenProperties
    <3>4. QED BY <3>3
  <2>3. QED BY <2>1, <2>2
<1> HIDE DEF more
<1>5. /\ q \o more \in Seq(Sent) /\ Len(q \o more) = Len(q) + Len(more)
      /\ \A i \in 1..Len(q) + Len(more) :
           (q \o more)[i] = IF i <= Len(q) THEN q[i] ELSE more[i - Len(q)]
  BY <1>4, ConcatProperties
<1>6. \A i \in 1..Len(q) + Len(more) : ~(i <= Len(q)) => i - Len(q) \in 1..Len(more)
  BY <1>1, <1>4
<1>7. QED BY <1>1, <1>2, <1>3, <1>4, <1>5, <1>6 DEF Grown

LEMMA TellCalls ==
  ASSUME Types, NEW w \in Workers, NEW m \in Calls, Tell(w, m)
  PROVE  OnlyCalls
<1>1. \A v \in Workers : toWorker[v] \in Seq(Sent)
  BY DEF Types
<1>2. /\ DOMAIN toWorker' = Workers /\ toWorker' = [v \in Workers |-> toWorker'[v]]
      /\ \A v \in Workers : toWorker'[v] = IF v = w THEN Put(toWorker[v], m) ELSE toWorker[v]
  BY DEF Types, Tell
<1>3. \A v \in Workers : Grown(toWorker[v], toWorker'[v])
  BY <1>1, <1>2, GrownPut, GrownSame
<1>4. QED BY <1>2, <1>3 DEF OnlyCalls, Grown

LEMMA NotifyCalls ==
  ASSUME Types, NEW ws, NEW d, NEW n \in Nat, notifyWorkers(ws, d, n)
  PROVE  OnlyCalls
<1>1. \A v \in Workers : toWorker[v] \in Seq(Sent)
  BY DEF Types
<1>2. /\ DOMAIN toWorker' = Workers /\ toWorker' = [v \in Workers |-> toWorker'[v]]
      /\ \A v \in Workers : \/ toWorker'[v] = PutReady(toWorker[v], n)
                            \/ toWorker'[v] = toWorker[v]
  BY DEF notifyWorkers
<1>3. \A v \in Workers : Grown(toWorker[v], toWorker'[v])
  BY <1>1, <1>2, GrownReady, GrownSame
<1>4. QED BY <1>2, <1>3 DEF OnlyCalls, Grown

LEMMA SameCalls ==
  ASSUME Types, UNCHANGED toWorker
  PROVE  OnlyCalls
BY GrownSame DEF OnlyCalls, Types

LEMMA RequestCalls ==
  ASSUME Types, TypeInv, NEW w \in Workers, onWorkerRequestsWork(w)
  PROVE  UNCHANGED toWorker \/ \E j \in Jobs : Tell(w, Job(j))
<1>1. hasJob(db) => nextJob(db) \in Jobs
  BY NextJobType DEF TypeInv
<1>2. toWorker' = toWorker \/ (hasJob(db) /\ Tell(w, Job(nextJob(db))))
  BY DEF onWorkerRequestsWork, masterVars, FailsOnUnknownWorker
<1>3. QED BY <1>1, <1>2

LEMMA DoneCalls ==
  ASSUME Types, NEW w \in Workers, NEW j \in Jobs, NEW r, onWorkIsDone(w, j, r)
  PROVE  OnlyCalls
<1>1. toWorker' = toWorker \/ Tell(w, Ack(j))
  BY DEF onWorkIsDone, masterVars, FailsOnUnknownWorker
<1>2. QED BY <1>1, CallTypes, TellCalls, SameCalls

LEMMA FailedCalls ==
  ASSUME Types, NEW w \in Workers, NEW j \in Jobs, NEW r, onWorkFailed(w, j, r)
  PROVE  OnlyCalls
<1>1. toWorker' = toWorker \/ notifyWorkers(workers', db', 1)
  BY DEF onWorkFailed, masterVars, FailsOnUnknownWorker
<1>2. QED BY <1>1, NotifyCalls, SameCalls

\* The messages that concern no job, or no verdict.
Chatter(w) ==
  \/ onRegisterWorker(w)
  \/ \E j \in Jobs : onWorkInProgress(w, j)
  \/ onWorkerRequestsFile(w)
  \/ \E f \in Files : onFileUploadComplete(f, HostOf[w])

LEMMA ChatterCalls ==
  ASSUME Types, TypeInv, NEW w \in Workers, Chatter(w)
  PROVE  OnlyCalls
<1>1. CASE onRegisterWorker(w)
  BY <1>1, CallTypes, TellCalls, SameCalls DEF onRegisterWorker
<1>2. ASSUME NEW j \in Jobs, onWorkInProgress(w, j)
      PROVE  OnlyCalls
  BY <1>2, SameCalls DEF onWorkInProgress
<1>3. CASE onWorkerRequestsFile(w)
  <2>1. toWorker' = toWorker \/ \E f \in UnsentTo(w) : Tell(w, FileJob(f))
    BY <1>3 DEF onWorkerRequestsFile
  <2>2. UnsentTo(w) \subseteq Files
    BY DEF UnsentTo, TypeInv, FilesInv
  <2>3. QED BY <2>1, <2>2, CallTypes, TellCalls, SameCalls
<1>4. ASSUME NEW f \in Files, onFileUploadComplete(f, HostOf[w])
      PROVE  OnlyCalls
  BY <1>4, SameCalls DEF onFileUploadComplete
<1>5. QED BY <1>1, <1>2, <1>3, <1>4 DEF Chatter

\* One job is put into the channel of one worker, or calls into any.
LEMMA WorkerStepCalls ==
  ASSUME Types, TypeInv, NEW w \in Workers, WorkerStep(w)
  PROVE  OnlyCalls \/ \E j \in Jobs : Tell(w, Job(j))
BY RequestCalls, DoneCalls, FailedCalls, ChatterCalls, SameCalls DEF WorkerStep, Chatter

LEMMA ClientStepCalls ==
  ASSUME Types, ClientStep
  PROVE  OnlyCalls
<1>1. ASSUME NEW j \in Jobs, ClientSendsJob(j)
      PROVE  OnlyCalls
  <2>1. toWorker' = toWorker \/ notifyWorkers(workers, db', 1)
    BY <1>1 DEF ClientSendsJob, onJob
  <2>2. QED BY <2>1, NotifyCalls, SameCalls
<1>2. ASSUME NEW s \in NewJobs, processCmdLineJob(s)
      PROVE  OnlyCalls
  <2>1. PICK n \in 1..MaxParallelism : s \in [1..n -> Jobs \ submitted]
    BY DEF NewJobs, Injection
  <2>2. n \in Nat
    BY <2>1, MasterAssumption
  <2>3. Len(s) \in Nat
    BY <2>1, <2>2
  <2>4. QED BY <1>2, <2>3, NotifyCalls DEF processCmdLineJob
<1>3. ASSUME NEW t \in Trackings, NEW cancel \in BOOLEAN, onTrackingInfo(t, cancel)
      PROVE  OnlyCalls
  BY <1>3, SameCalls DEF onTrackingInfo
<1>4. ASSUME NEW f \in Files, onUploadFile(f)
      PROVE  OnlyCalls
  BY <1>4, SameCalls DEF onUploadFile
<1>5. ASSUME NEW s \in NewJobs, NEW n \in 0..Len(s), CrashesInBatch(s, n)
      PROVE  OnlyCalls
  BY <1>5, SameCalls DEF CrashesInBatch
<1>6. QED BY <1>1, <1>2, <1>3, <1>4, <1>5 DEF ClientStep

LEMMA CleanupCalls ==
  ASSUME Types, TypeInv, onCleanupTick
  PROVE  OnlyCalls
<1>1. PICK order \in Orders({w \in Overdue : IsBusy(w)}) : TakeBack(order)
  BY DEF onCleanupTick
<1> DEFINE late == [i \in DOMAIN order |-> workers[order[i]].job]
           left == [w \in Workers |-> IF w \in Overdue THEN Absent ELSE workers[w]]
<1>2. late \in Seq(Jobs)
  BY LateJobs DEF TypeInv
<1>3. \/ notifyWorkers(left, db', Len(late))
      \/ \E n \in 0..Len(late) - 1 : notifyWorkers(left, JobTimedOut(db, SubSeq(late, 1, n)), n)
  BY <1>1 DEF TakeBack
<1> HIDE DEF late, left
<1>4. Len(late) \in Nat
  BY <1>2
<1>5. QED BY <1>3, <1>4, NotifyCalls

-----------------------------------------------------------------------------
(***************************************************************************)
(* Every step of the cluster is a step of Master or none.                  *)
(***************************************************************************)
\* Reports of files find no job of that id and change nothing.
LEMMA FilesUnknown ==
  ASSUME DbInv, NEW f \in Files
  PROVE  ~isInProgress(db, f) /\ ~isDone(db, f)
<1>1. Clear \in SUBSET Jobs /\ Sound(db, Clear)
  BY DEF Clear, DbInv
<1>2. db.inProgress \subseteq Jobs /\ db.done \subseteq Jobs
  BY <1>1, SoundJobs
<1>3. QED BY <1>2, ProtocolAssumption DEF isInProgress, isDone

LEMMA FileReports ==
  ASSUME DbInv, Running, NEW w \in Workers, NEW f \in Files, NEW r,
         onWorkInProgress(w, f) \/ onWorkIsDone(w, f, r) \/ onWorkFailed(w, f, r)
  PROVE  UNCHANGED masterVars
BY FilesUnknown DEF onWorkInProgress, onWorkIsDone, onWorkFailed, masterVars, volatile

LEMMA HandlesStep ==
  ASSUME TypeInv, Running, NEW w \in Workers, NEW m \in MasterMessages, Names(m),
         Handles(w, m)
  PROVE  WorkerStep(w) \/ UNCHANGED masterVars
<1>1. DbInv /\ m.result \in Jobs \cup {NoJob}
  BY DEF TypeInv, MasterMessages
<1>2. CASE m.type = "WorkInProgress" /\ onWorkInProgress(w, m.body)
  BY <1>1, <1>2, FileReports DEF WorkerStep, Names, Tasks
<1>3. CASE m.type = "WorkIsDone" /\ onWorkIsDone(w, m.body, m.result)
  BY <1>1, <1>3, FileReports DEF WorkerStep, Names, Tasks
<1>4. CASE m.type = "WorkFailed" /\ onWorkFailed(w, m.body, m.result)
  BY <1>1, <1>4, FileReports DEF WorkerStep, Names, Tasks
<1>5. QED BY <1>2, <1>3, <1>4 DEF Handles, Names, WorkerStep

Arrives(w) == toMaster[w] # <<>> => Head(toMaster[w]) \in MasterMessages
                                    /\ Names(Head(toMaster[w]))

LEMMA MailArrives ==
  ASSUME LocalInv, NEW w \in Workers
  PROVE  Arrives(w)
<1>1. toMaster[w] \in Seq(MasterMessages) /\ \A m \in Range(toMaster[w]) : Names(m)
  BY DEF LocalInv, Types, WorkersTypeOK, WorkerInv
<1>2. ASSUME toMaster[w] # <<>>
      PROVE  Head(toMaster[w]) \in MasterMessages /\ Head(toMaster[w]) \in Range(toMaster[w])
  BY <1>1, <1>2 DEF Range
<1>3. QED BY <1>1, <1>2 DEF Arrives

LEMMA ReceivesStep ==
  ASSUME TypeInv, LocalInv, NEW w \in Workers, MasterReceives(w)
  PROVE  WorkerStep(w) \/ UNCHANGED masterVars
BY MailArrives, HandlesStep DEF MasterReceives, Arrives

\* The steps of a worker's actors and of its executor.
WorkerActs(w) ==
  \/ WorkerHandles(w) \/ ExecutorStep(w) \/ LoopIsUnheard(w)
  \/ Registers(w) \/ KeepsAlive(w) \/ RepeatsDone(w)
  \/ WorkerDies(w) \/ LosesToMaster(w) \/ SimulationKilled(w)

LEMMA WorkerActsStep ==
  ASSUME NEW w \in Workers, WorkerActs(w)
  PROVE  Receive(w) \/ UNCHANGED masterVars
<1>1. CASE WorkerHandles(w)
  BY <1>1 DEF WorkerHandles, WorkerReceives, OnWorkIsReady, OnTask, OnAck, Receives, Receive,
          masterKeeps
<1>2. CASE ExecutorStep(w)
  BY <1>2 DEF ExecutorStep, ExecutorAnswers, JobSucceeds, JobFails, LateAnswer, FileStored,
          FileFails, masterKeeps, masterVars
<1>3. CASE Registers(w) \/ KeepsAlive(w) \/ RepeatsDone(w)
  BY <1>3 DEF Registers, KeepsAlive, RepeatsDone, RegisterTick, KeepAliveTick, AckTimeout,
          masterKeeps, masterVars
<1>4. CASE WorkerDies(w) \/ LosesToMaster(w)
  BY <1>4 DEF WorkerDies, LosesToMaster, Dies, MasterTakes, masterVars
<1>5. CASE LoopIsUnheard(w) \/ SimulationKilled(w)
  BY <1>5 DEF LoopIsUnheard, SimulationKilled, Killed, Untold, masterKeeps, masterVars
<1>6. QED BY <1>1, <1>2, <1>3, <1>4, <1>5 DEF WorkerActs

\* The steps of the master that answer no message.
MasterActs ==
  \/ ClientActs \/ Ticks \/ MasterCrashes
  \/ \E w \in Workers : Expires(w) \/ LosesToWorker(w) \/ FallsSilent(w)

LEMMA MasterActsStep ==
  ASSUME MasterActs
  PROVE  /\ \/ ClientStep \/ onCleanupTick \/ Crash
            \/ \E w \in Workers : DeadlinePasses(w) \/ Receive(w)
         /\ UNCHANGED workerVars
BY DEF MasterActs, ClientActs, SendsJobs, Uploads, ClientStep, Ticks, MasterCrashes, Expires,
       LosesToWorker, FallsSilent

LEMMA ClusterCases ==
  ASSUME ClusterNext
  PROVE  MasterActs \/ \E w \in Workers : MasterReceives(w) \/ WorkerActs(w)
BY DEF ClusterNext, MasterActs, WorkerActs

LEMMA ClusterStepsMaster ==
  ASSUME TypeInv, LocalInv, [ClusterNext]_clusterVars
  PROVE  [Next]_masterVars
<1>1. CASE UNCHANGED clusterVars
  BY <1>1 DEF clusterVars
<1>2. CASE MasterActs
  BY <1>2, MasterActsStep DEF Next
<1>3. ASSUME NEW w \in Workers, MasterReceives(w) \/ WorkerActs(w)
      PROVE  [Next]_masterVars
  BY <1>3, ReceivesStep, WorkerActsStep DEF Next
<1>4. QED BY <1>1, <1>2, <1>3, ClusterCases

-----------------------------------------------------------------------------
(***************************************************************************)
(* The workers keep what WorkerProofs says of them, in front of this       *)
(* master as in front of any.                                              *)
(***************************************************************************)
LEMMA WorkerActsPreserved ==
  ASSUME LocalInv, NEW w \in Workers, WorkerActs(w)
  PROVE  Preserved(w)
<1>1. Types /\ Sane(w)
  BY DEF LocalInv, Sane
<1>2. \/ WorkerReceives(w) \/ ExecutorAnswers(w)
      \/ RegisterTick(w) \/ KeepAliveTick(w) \/ AckTimeout(w)
      \/ \E j \in Jobs : Killed(w, j) \/ Untold(w, j)
      \/ Dies(w) \/ MasterTakes(w)
  BY DEF WorkerActs, WorkerHandles, ExecutorStep, LoopIsUnheard, Registers, KeepsAlive,
         RepeatsDone, WorkerDies, LosesToMaster, SimulationKilled
<1>3. QED BY <1>1, <1>2, ReceivesKept, AnswersKept, TimersKept, KillsKept, OthersKept

\* A step that only puts messages into channels, or takes some out.
LEMMA ChannelsLocal ==
  ASSUME LocalInv, UNCHANGED <<mode, currentJob, executing, abortion, unacked>>,
         toWorker' \in [Workers -> Seq(Sent)],
         toMaster' \in [Workers -> Seq(MasterMessages)],
         \A w \in Workers : Range(toMaster'[w]) \subseteq Range(toMaster[w])
  PROVE  LocalInv'
BY DEF LocalInv, Types, WorkersTypeOK, WorkerInv, OwnInv, abortion

LEMMA OfferTypes ==
  ASSUME Types, NEW w \in Workers, OnlyCalls \/ \E j \in Jobs : Tell(w, Job(j))
  PROVE  toWorker' \in [Workers -> Seq(Sent)]
BY TellTypes, CallTypes DEF OnlyCalls

\* What the master does when no message arrives.
LEMMA MasterActsLocal ==
  ASSUME TypeInv, LocalInv, MasterActs
  PROVE  LocalInv'
<1>1. Types /\ UNCHANGED workerVars
  BY MasterActsStep DEF LocalInv
<1>2. toWorker' \in [Workers -> Seq(Sent)]
  <2>1. CASE ClientStep
    BY <1>1, <2>1, ClientStepCalls DEF OnlyCalls
  <2>2. CASE onCleanupTick
    BY <1>1, <2>2, CleanupCalls DEF OnlyCalls
  <2>3. CASE Crash
    BY <1>1, <2>3 DEF Crash, Types
  <2>4. ASSUME NEW w \in Workers, DeadlinePasses(w) \/ Receive(w)
        PROVE  toWorker' \in [Workers -> Seq(Sent)]
    BY <1>1, <2>4, TakenTypes DEF DeadlinePasses, Receive, Types
  <2>5. QED BY <2>1, <2>2, <2>3, <2>4, MasterActsStep
<1>3. QED BY <1>1, <1>2, ChannelsLocal DEF workerVars, Types, WorkersTypeOK

\* The message leaves the channel of its worker.
LEMMA ReceivedMail ==
  ASSUME Types, NEW w \in Workers, MasterReceives(w)
  PROVE  /\ toMaster' \in [Workers -> Seq(MasterMessages)]
         /\ toMaster[w] # <<>> /\ toMaster'[w] = Tail(toMaster[w])
         /\ \A v \in Workers \ {w} : toMaster'[v] = toMaster[v]
         /\ \A v \in Workers : Range(toMaster'[v]) \subseteq Range(toMaster[v])
<1>1. /\ toMaster \in [Workers -> Seq(MasterMessages)]
      /\ toMaster[w] # <<>> /\ toMaster' = [toMaster EXCEPT ![w] = Tail(@)]
  BY DEF Types, WorkersTypeOK, MasterReceives
<1>2. \A x \in Range(Tail(toMaster[w])) : x \in Range(toMaster[w])
  BY <1>1, TailRange
<1>3. QED BY <1>1, <1>2

LEMMA MasterReceivesLocal ==
  ASSUME TypeInv, LocalInv, NEW w \in Workers, MasterReceives(w)
  PROVE  LocalInv'
<1>1. Types
  BY DEF LocalInv
<1>2. toWorker' \in [Workers -> Seq(Sent)]
  BY <1>1, ReceivesStep, WorkerStepCalls, OfferTypes DEF masterVars, Types
<1>3. UNCHANGED <<mode, currentJob, executing, abortion, unacked>>
  BY DEF MasterReceives
<1>4. QED BY <1>1, <1>2, <1>3, ReceivedMail, ChannelsLocal

LEMMA ClusterNextLocal ==
  ASSUME TypeInv, LocalInv, [ClusterNext]_clusterVars
  PROVE  LocalInv'
<1>1. CASE UNCHANGED clusterVars
  BY <1>1, LocalStutter DEF clusterVars, masterVars, workersVars
<1>2. QED
  BY <1>1, ClusterCases, MasterActsLocal, MasterReceivesLocal, WorkerActsPreserved,
     PreservedLocal

LEMMA ClusterTypes == ClusterSafety => [](TypeInv /\ LocalInv)
<1>1. ASSUME ClusterInit
      PROVE  TypeInv /\ LocalInv
  <2>1. Init /\ WorkersInit
    BY <1>1 DEF ClusterInit, Init, WorkersInit
  <2>2. QED BY <2>1, TypeInvInit, LocalInit
<1>2. ASSUME TypeInv, LocalInv, [ClusterNext]_clusterVars
      PROVE  TypeInv' /\ LocalInv'
  BY <1>2, ClusterStepsMaster, ClusterNextLocal, NextTypes, StutterTypes
<1>3. QED BY <1>1, <1>2, PTL DEF ClusterSafety

-----------------------------------------------------------------------------
(***************************************************************************)
(* The composition is a master in one of its environments.                 *)
(***************************************************************************)
(***************************************************************************)
(* Whatever the workers and their channels do is what module Master lets   *)
(* its environment do, so every theorem about Master holds in the cluster. *)
(***************************************************************************)
THEOREM ClusterImplementsMaster == ClusterSafety => MasterSpec
<1>1. ClusterInit => Init
  BY DEF ClusterInit
<1>2. TypeInv /\ LocalInv /\ [ClusterNext]_clusterVars => [Next]_masterVars
  BY ClusterStepsMaster
<1>3. QED BY <1>1, <1>2, ClusterTypes, PTL DEF ClusterSafety, MasterSpec, Spec

-----------------------------------------------------------------------------
(***************************************************************************)
(* Until a worker is misled, its reports carry the results of the jobs     *)
(* they name, and so do the verdicts the master records of them.           *)
(***************************************************************************)
LEMMA MisledStay ==
  ASSUME LocalInv, [ClusterNext]_clusterVars
  PROVE  misled \subseteq misled'
<1>1. CASE UNCHANGED clusterVars
  BY <1>1 DEF clusterVars, workerVars, abortion
<1>2. CASE MasterActs
  BY <1>2, MasterActsStep DEF workerVars, abortion
<1>3. ASSUME NEW w \in Workers, MasterReceives(w) \/ WorkerActs(w)
      PROVE  misled \subseteq misled'
  BY <1>3, WorkerActsPreserved DEF Preserved, MasterReceives, abortion
<1>4. QED BY <1>1, <1>2, <1>3, ClusterCases

LEMMA NoneMisled ==
  ASSUME LocalInv, misled = {}, NEW w \in Workers
  PROVE  Types /\ WorkerInv(w) /\ OwnInv(w)
BY DEF LocalInv

\* What arrives from such a worker.
LEMMA OwnMail ==
  ASSUME LocalInv, misled = {}, NEW w \in Workers, MasterReceives(w)
  PROVE  /\ Head(toMaster[w]) \in MasterMessages
         /\ Head(toMaster[w]) \in Range(toMaster[w])
         /\ Names(Head(toMaster[w])) /\ Own(Head(toMaster[w]))
         /\ Handles(w, Head(toMaster[w])) /\ Running
<1>1. OwnInv(w) /\ toMaster[w] \in Seq(MasterMessages) /\ toMaster[w] # <<>>
  BY NoneMisled DEF MasterReceives, Types, WorkersTypeOK
<1>2. Head(toMaster[w]) \in Range(toMaster[w])
  BY <1>1 DEF Range
<1>3. QED BY <1>1, <1>2, MailArrives DEF MasterReceives, Arrives, OwnInv

LEMMA VerdictOwn ==
  ASSUME NEW w, NEW j, NEW r, r = j \/ r = NoJob, onWorkIsDone(w, j, r) \/ onWorkFailed(w, j, r)
  PROVE  mixed' = mixed
<1>1. ASSUME CanRecord(db, r), NEW after, PersistVerdict(j, r, after)
      PROVE  mixed' = mixed
  BY <1>1 DEF CanRecord, PersistVerdict, MixesUp
<1>2. CASE onWorkIsDone(w, j, r)
  BY <1>1, <1>2 DEF onWorkIsDone, Persist, FailsOnUnknownWorker, masterVars, journal
<1>3. CASE onWorkFailed(w, j, r)
  BY <1>1, <1>3 DEF onWorkFailed, Persist, FailsOnUnknownWorker, masterVars, journal
<1>4. QED BY <1>2, <1>3

LEMMA MasterReceivesOwn ==
  ASSUME LocalInv, misled = {}, TypeInv, NEW w \in Workers, MasterReceives(w)
  PROVE  mixed' = mixed
<1> DEFINE m == Head(toMaster[w])
<1>1. Names(m) /\ Own(m) /\ Handles(w, m) /\ Running /\ DbInv
  BY OwnMail DEF TypeInv
<1> HIDE DEF m
<1>2. CASE m.type = "WorkIsDone" /\ onWorkIsDone(w, m.body, m.result)
  BY <1>1, <1>2, VerdictOwn DEF Own
<1>3. CASE m.type = "WorkFailed" /\ onWorkFailed(w, m.body, m.result)
  BY <1>1, <1>3, VerdictOwn DEF Own, Results
<1>4. CASE onWorkerRequestsWork(w)
  BY <1>4 DEF onWorkerRequestsWork, Persist, FailsOnUnknownWorker, masterVars, journal
<1>5. CASE \/ onRegisterWorker(w) \/ onWorkInProgress(w, m.body)
           \/ onFileUploadComplete(m.body, HostOf[w]) \/ onWorkerRequestsFile(w)
  BY <1>5 DEF onRegisterWorker, onWorkInProgress, onFileUploadComplete, onWorkerRequestsFile,
              journal
<1>6. QED BY <1>1, <1>2, <1>3, <1>4, <1>5 DEF Handles

LEMMA MasterActsOwn ==
  ASSUME MasterActs
  PROVE  mixed' = mixed
<1>1. CASE ClientStep
  BY <1>1 DEF ClientStep, ClientSendsJob, onJob, processCmdLineJob, CrashesInBatch,
              onTrackingInfo, onUploadFile, Persist, journal
<1>2. CASE onCleanupTick
  BY <1>2 DEF onCleanupTick, TakeBack, Persist
<1>3. QED
  BY <1>1, <1>2, MasterActsStep DEF Crash, DeadlinePasses, Receive, journal

LEMMA VerdictsInvariance == ClusterSafety => [](TypeInv /\ LocalInv /\ VerdictsAreOwn)
<1>1. ASSUME ClusterInit
      PROVE  VerdictsAreOwn
  BY <1>1 DEF ClusterInit, Init, VerdictsAreOwn
<1>2. ASSUME TypeInv, LocalInv, VerdictsAreOwn, [ClusterNext]_clusterVars
      PROVE  VerdictsAreOwn'
  <2>1. SUFFICES ASSUME misled' = {}
                 PROVE  mixed' = {}
    BY DEF VerdictsAreOwn
  <2>2. misled = {} /\ mixed = {}
    BY <1>2, <2>1, MisledStay DEF VerdictsAreOwn
  <2>3. CASE UNCHANGED clusterVars
    BY <2>2, <2>3 DEF clusterVars, masterVars, journal
  <2>4. ASSUME NEW w \in Workers, WorkerActs(w)
        PROVE  mixed' = mixed
    BY <2>4, WorkerActsStep DEF Receive, masterVars, journal
  <2>5. QED
    BY <1>2, <2>2, <2>3, <2>4, ClusterCases, MasterActsOwn, MasterReceivesOwn
<1>3. QED BY <1>1, <1>2, ClusterTypes, PTL DEF ClusterSafety

(***************************************************************************)
(* No verdict carries the result of another job (JobState.java:145, 161    *)
(* write the summary of whichever job the result names), as long as no     *)
(* worker has taken the late answer of an abort loop for that of its       *)
(* current task.                                                           *)
(***************************************************************************)
THEOREM VerdictsCarryTheirResults == ClusterSafety => []VerdictsAreOwn
BY VerdictsInvariance, PTL

-----------------------------------------------------------------------------
(***************************************************************************)
(* Claims.  A worker claims a job it is offered, executes, has finished or *)
(* has failed, until its last report of it is handled.                     *)
(*                                                                         *)
(* The parts of ClaimInv need each other.  Exclusive is OneExecution for   *)
(* all four stages and the entries of the master: two offers become two    *)
(* executions in two steps.  A new offer keeps it because a queued job is  *)
(* claimed by nobody, which is OnTheBooks (a claimed job is in progress or *)
(* has its verdict, so it is not queued) and FailedForGood (nor accepted   *)
(* again after a failure).  OnTheBooks survives a verdict because only the *)
(* claiming worker sends one (Exclusive) and its claim is in its last      *)
(* stage by then (OneStage, OfferedOnce), and survives a timeout because   *)
(* the worker of an entry past its deadline claims nothing (Watches),      *)
(* which in turn holds since claims renew deadlines (ClaimsRenew).         *)
(***************************************************************************)
Reports(w, type, j) ==
  \E m \in Range(toMaster[w]) : m.type = type /\ m.body = j

Offered(w, j)  == mode[w] # "down" /\ Job(j) \in Range(toWorker[w])
Executes(w, j) == j \in executing[w]
Finished(w, j) == (mode[w] = "waiting" /\ unacked[w] = j) \/ Reports(w, "WorkIsDone", j)
Failing(w, j)  == Reports(w, "WorkFailed", j)

Claims(w, j) == Offered(w, j) \/ Executes(w, j) \/ Finished(w, j) \/ Failing(w, j)

Books(w, j) == IsBusy(w) /\ workers[w].job = j

\* A claim is in one stage, ...
OneStage(w, j) ==
  /\ Offered(w, j) => ~Executes(w, j) /\ ~Finished(w, j) /\ ~Failing(w, j)
  /\ Executes(w, j) => ~Finished(w, j) /\ ~Failing(w, j)
  /\ Finished(w, j) => ~Failing(w, j)

\* ... and rests on one message while it is offered.
OfferedOnce(w) ==
  mode[w] # "down" =>
    \A a, b \in DOMAIN toWorker[w] :
      toWorker[w][a].type = "Job" /\ toWorker[w][a] = toWorker[w][b] => a = b

\* The master's database knows of it.
OnTheBooks(w, j) ==
  /\ Offered(w, j) \/ Executes(w, j) => j \in db.inProgress
  /\ Finished(w, j) => j \in db.inProgress \cup db.done
  /\ Failing(w, j) => j \in db.inProgress \/ db.failed[j] > 0

\* Nobody else claims the job, or is booked with it.
Exclusive(w, j) ==
  Claims(w, j) => \A v \in Workers \ {w} : ~Claims(v, j) /\ ~Books(v, j)

\* The master watches over jobs in progress, and gives up unclaimed ones.
Watches(w) ==
  IsBusy(w) =>
    /\ workers[w].job \in db.inProgress
    /\ workers[w].overdue => ~Claims(w, workers[w].job)

\* A job that failed is not accepted again.
FailedForGood == \A j \in db.accepted : db.failed[j] = 0

ClaimInv ==
  /\ \A w \in Workers : OfferedOnce(w) /\ Watches(w)
  /\ \A w \in Workers, j \in Jobs : OneStage(w, j) /\ OnTheBooks(w, j) /\ Exclusive(w, j)
  /\ FailedForGood

\* What a step makes of the claims of w: none is new, stages follow in order.
Advances(w, j) ==
  /\ Offered(w, j)' => Offered(w, j)
  /\ Executes(w, j)' => Executes(w, j) \/ Offered(w, j)
  /\ Finished(w, j)' => Finished(w, j) \/ Executes(w, j)
  /\ Failing(w, j)' => Failing(w, j) \/ Executes(w, j)

Recedes(w, j) ==
  /\ Offered(w, j)' => Offered(w, j)
  /\ Executes(w, j)' => Executes(w, j)
  /\ Finished(w, j)' => Finished(w, j)
  /\ Failing(w, j)' => Failing(w, j)

\* No entry of the workers map is new or comes closer to its end.
FewerBooks ==
  \A w \in Workers :
    IsBusy(w)' => /\ IsBusy(w)
                  /\ workers'[w].job = workers[w].job
                  /\ workers'[w].overdue => workers[w].overdue

\* The jobs of S leave the jobs in progress, and nobody minds.
Withdraws(S) ==
  /\ db'.inProgress = db.inProgress \ S
  /\ db.done \subseteq db'.done
  /\ \A j \in Jobs : db.failed[j] > 0 => db'.failed[j] > 0
  /\ \A w \in Workers, j \in S \cap Jobs :
       /\ ~Books(w, j)' /\ ~Offered(w, j)' /\ ~Executes(w, j)'
       /\ Finished(w, j)' => j \in db'.done
       /\ Failing(w, j)' => db'.failed[j] > 0

LEMMA KeepsClaims ==
  ASSUME ClaimInv, WorkersInv,
         \A w \in Workers, j \in Jobs : Advances(w, j) /\ OneStage(w, j)',
         \A w \in Workers : OfferedOnce(w)',
         FewerBooks, FailedForGood', NEW S, Withdraws(S)
  PROVE  ClaimInv'
<1>1. ASSUME NEW w \in Workers, NEW j \in Jobs
      PROVE  OnTheBooks(w, j)'
  <2>1. Advances(w, j) /\ OnTheBooks(w, j)
    BY DEF ClaimInv
  <2>2. CASE j \in S
    BY <2>2 DEF Withdraws, OnTheBooks
  <2>3. CASE j \notin S
    BY <2>1, <2>3 DEF Withdraws, OnTheBooks, Advances
  <2>4. QED BY <2>2, <2>3
<1>2. \A w \in Workers, j \in Jobs : /\ Claims(w, j)' => Claims(w, j)
                                     /\ Books(w, j)' => Books(w, j)
  BY DEF Advances, Claims, FewerBooks, Books
<1>3. ASSUME NEW w \in Workers, NEW j \in Jobs
      PROVE  Exclusive(w, j)'
  BY <1>2 DEF ClaimInv, Exclusive
<1>4. ASSUME NEW w \in Workers, IsBusy(w)'
      PROVE  /\ workers'[w].job \in db'.inProgress
             /\ workers'[w].overdue => ~Claims(w, workers[w].job)'
  <2>1. /\ IsBusy(w) /\ workers'[w].job = workers[w].job /\ workers[w].job \in Jobs
        /\ workers'[w].overdue => workers[w].overdue
    BY <1>4 DEF FewerBooks, WorkersInv
  <2>2. Books(w, workers[w].job)'
    BY <1>4, <2>1 DEF Books
  <2>3. QED BY <1>2, <2>1, <2>2 DEF Withdraws, ClaimInv, Watches
<1>5. \A w \in Workers : Watches(w)'
  <2>1. ASSUME NEW w \in Workers, IsBusy(w)', workers'[w].overdue, Claims(w, workers[w].job)'
        PROVE  FALSE
    BY <1>4, <2>1
  <2>2. ASSUME NEW w \in Workers, IsBusy(w)'
        PROVE  workers'[w].job = workers[w].job
    BY <2>2 DEF FewerBooks
  <2>3. QED BY <1>4, <2>1, <2>2 DEF Watches
<1>6. QED BY <1>1, <1>3, <1>5 DEF ClaimInv

-----------------------------------------------------------------------------
(***************************************************************************)
(* Steps of the master: what the channels and the workers have to do with  *)
(* a claim stays, but for the report that is handled.                      *)
(***************************************************************************)
FewerReports ==
  /\ UNCHANGED <<mode, executing, unacked>>
  /\ \A w \in Workers : Range(toMaster'[w]) \subseteq Range(toMaster[w])

LEMMA CallsOfferNothing ==
  ASSUME Types, OnlyCalls, UNCHANGED mode, NEW w \in Workers
  PROVE  /\ \A j \in Jobs : Offered(w, j)' => Offered(w, j)
         /\ OfferedOnce(w) => OfferedOnce(w)'
<1> DEFINE q == toWorker[w]
           p == toWorker'[w]
<1>1. /\ q \in Seq(Sent) /\ p \in Seq(Sent) /\ Len(q) <= Len(p)
      /\ Len(q) \in Nat /\ Len(p) \in Nat /\ DOMAIN p = 1..Len(p) /\ DOMAIN q = 1..Len(q)
      /\ \A i \in 1..Len(p) : IF i <= Len(q) THEN p[i] = q[i] ELSE p[i] \in Calls
  BY DEF Types, OnlyCalls, Grown
<1>2. \A i \in DOMAIN p : p[i].type = "Job" => i \in DOMAIN q /\ p[i] = q[i]
  BY <1>1 DEF Calls
<1> HIDE DEF p, q
<1>3. \A j \in Jobs : Job(j) \in Range(p) => Job(j) \in Range(q)
  BY <1>2 DEF Range, Job
<1>4. (\A a, b \in DOMAIN q : q[a].type = "Job" /\ q[a] = q[b] => a = b)
        => \A a, b \in DOMAIN p : p[a].type = "Job" /\ p[a] = p[b] => a = b
  BY <1>2
<1>5. QED BY <1>3, <1>4 DEF Offered, OfferedOnce, p, q

LEMMA ReportsRecede ==
  ASSUME FewerReports, NEW w \in Workers, NEW j \in Jobs
  PROVE  /\ Executes(w, j)' => Executes(w, j)
         /\ Finished(w, j)' => Finished(w, j)
         /\ Failing(w, j)' => Failing(w, j)
BY DEF FewerReports, Executes, Finished, Failing, Reports

LEMMA ClaimsRecede ==
  ASSUME ClaimInv, Types, OnlyCalls, FewerReports
  PROVE  /\ \A w \in Workers, j \in Jobs : /\ Recedes(w, j)
                                           /\ Advances(w, j)
                                           /\ OneStage(w, j)'
         /\ \A w \in Workers : OfferedOnce(w)'
<1>1. ASSUME NEW w \in Workers, NEW j \in Jobs
      PROVE  Recedes(w, j)
  BY CallsOfferNothing, ReportsRecede DEF Recedes, FewerReports
<1>2. ASSUME NEW w \in Workers, NEW j \in Jobs
      PROVE  Advances(w, j) /\ OneStage(w, j)'
  BY <1>1 DEF Recedes, Advances, OneStage, ClaimInv
<1>3. \A w \in Workers : OfferedOnce(w)'
  BY CallsOfferNothing DEF FewerReports, ClaimInv
<1>4. QED BY <1>1, <1>2, <1>3

\* Steps that neither start, settle nor take back a job.
SameProgress ==
  /\ FewerBooks
  /\ db'.inProgress = db.inProgress /\ db'.done = db.done /\ db'.failed = db.failed
  /\ FailedForGood'

LEMMA SameProgressClaims ==
  ASSUME ClaimInv, WorkersInv, Types, OnlyCalls, FewerReports, SameProgress
  PROVE  ClaimInv'
<1>1. Withdraws({})
  BY DEF Withdraws, SameProgress
<1>2. QED BY <1>1, ClaimsRecede, KeepsClaims DEF SameProgress

\* A queued job is offered: nobody claims it, and nobody is booked with it.
LEMMA QueuedUnclaimed ==
  ASSUME ClaimInv, DbInv, NEW j \in Range(db.pending), NEW w \in Workers
  PROVE  j \in Jobs /\ ~Claims(w, j) /\ ~Books(w, j)
<1>1. j \in Jobs /\ j \in db.accepted /\ j \notin db.inProgress /\ j \notin db.done
  BY DEF DbInv, Sound, Partition, Open, JobStates, Range
<1>2. db.failed[j] = 0
  BY <1>1 DEF ClaimInv, FailedForGood
<1>3. OnTheBooks(w, j) /\ Watches(w)
  BY <1>1 DEF ClaimInv
<1>4. QED BY <1>1, <1>2, <1>3 DEF OnTheBooks, Claims, Watches, Books

LEMMA StartedClaims ==
  ASSUME ClaimInv, DbInv, WorkersInv, Types, FewerReports,
         NEW w \in Workers, NEW j \in Range(db.pending),
         Tell(w, Job(j)), workers' = [workers EXCEPT ![w] = Busy(j)],
         db'.inProgress = db.inProgress \cup {j}, db'.done = db.done,
         db'.failed = db.failed, db'.accepted = db.accepted
  PROVE  ClaimInv'
<1>1. j \in Jobs /\ \A v \in Workers : ~Claims(v, j) /\ ~Books(v, j)
  BY QueuedUnclaimed
<1>2. /\ \A v \in Workers \ {w} : toWorker'[v] = toWorker[v] /\ workers'[v] = workers[v]
      /\ toWorker'[w] = Put(toWorker[w], Job(j)) /\ workers'[w] = Busy(j)
      /\ toWorker[w] \in Seq(Sent) /\ Job(j) \in Sent
  BY <1>1, CallTypes DEF Types, Tell, WorkersInv
<1>3. /\ \A k \in Jobs \ {j} : Offered(w, k)' => Offered(w, k)
      /\ Job(j) \notin Range(toWorker[w]) \/ mode[w] = "down"
  <2>1. \A x \in Range(toWorker'[w]) : x = Job(j) \/ x \in Range(toWorker[w])
    BY <1>2, AppendRange DEF Put
  <2>2. \A k \in Jobs \ {j} : Job(k) # Job(j)
    BY DEF Job
  <2>3. QED BY <1>1, <2>1, <2>2 DEF Offered, Claims, FewerReports
<1>4. ASSUME NEW v \in Workers, NEW k \in Jobs, k # j \/ v # w
      PROVE  Recedes(v, k)
  <2>1. Offered(v, k)' => Offered(v, k)
    <3>1. CASE v = w
      BY <1>3, <1>4, <3>1
    <3>2. CASE v # w
      BY <1>2, <3>2 DEF Offered, FewerReports
    <3>3. QED BY <3>1, <3>2
  <2>2. QED BY <2>1, ReportsRecede DEF Recedes
<1>5. ~Executes(w, j)' /\ ~Finished(w, j)' /\ ~Failing(w, j)'
  BY <1>1, ReportsRecede DEF Claims
<1>6. ASSUME NEW v \in Workers, NEW k \in Jobs
      PROVE  OneStage(v, k)' /\ OnTheBooks(v, k)'
  <2>1. CASE k = j /\ v = w
    BY <1>5, <2>1 DEF OneStage, OnTheBooks
  <2>2. CASE k # j \/ v # w
    BY <1>4, <2>2 DEF Recedes, OneStage, OnTheBooks, ClaimInv
  <2>3. QED BY <2>1, <2>2
<1>7. ASSUME NEW v \in Workers, NEW k \in Jobs
      PROVE  Exclusive(v, k)'
  <2>1. CASE k # j
    <3>1. \A u \in Workers : Claims(u, k)' => Claims(u, k)
      BY <1>4, <2>1 DEF Recedes, Claims
    <3>2. \A u \in Workers : Books(u, k)' => Books(u, k)
      BY <1>2, <2>1 DEF Books, IsBusy, Busy
    <3>3. QED BY <3>1, <3>2 DEF Exclusive, ClaimInv
  <2>2. CASE k = j
    <3>1. \A u \in Workers \ {w} : ~Claims(u, j)' /\ ~Books(u, j)'
      <4>1. ASSUME NEW u \in Workers \ {w}
            PROVE  ~Claims(u, j)'
        BY <1>1, <1>4 DEF Recedes, Claims
      <4>2. ASSUME NEW u \in Workers \ {w}
            PROVE  ~Books(u, j)'
        BY <1>1, <1>2 DEF Books, IsBusy
      <4>3. QED BY <4>1, <4>2
    <3>2. QED BY <2>2, <3>1 DEF Exclusive
  <2>3. QED BY <2>1, <2>2
<1>8. ASSUME NEW v \in Workers
      PROVE  Watches(v)'
  <2>1. CASE v = w
    BY <1>2, <2>1 DEF Watches, Busy
  <2>2. CASE v # w
    <3>1. ASSUME IsBusy(v)'
          PROVE  /\ IsBusy(v) /\ workers'[v] = workers[v]
                 /\ workers[v].job \in Jobs /\ workers[v].job \in db.inProgress
                 /\ workers[v].overdue => ~Claims(v, workers[v].job)
      BY <1>2, <2>2, <3>1 DEF IsBusy, WorkersInv, ClaimInv, Watches
    <3>2. \A k \in Jobs : Claims(v, k)' => Claims(v, k)
      BY <1>4, <2>2 DEF Recedes, Claims
    <3>3. QED BY <3>1, <3>2 DEF Watches
  <2>3. QED BY <2>1, <2>2
<1>9. ASSUME NEW v \in Workers
      PROVE  OfferedOnce(v)'
  <2>1. CASE v # w
    BY <1>2, <2>1 DEF OfferedOnce, FewerReports, ClaimInv
  <2>2. CASE v = w /\ mode[w] # "down"
    <3> DEFINE q == toWorker[w]
               p == toWorker'[w]
    <3>1. /\ \A a, b \in DOMAIN q : q[a].type = "Job" /\ q[a] = q[b] => a = b
          /\ \A a \in DOMAIN q : q[a] # Job(j)
      BY <1>3, <2>2 DEF ClaimInv, OfferedOnce, Range
    <3>2. \/ p = q
          \/ /\ DOMAIN p = 1..Len(q) + 1 /\ DOMAIN q = 1..Len(q) /\ Len(q) \in Nat
             /\ p[Len(q) + 1] = Job(j)
             /\ \A a \in DOMAIN q : p[a] = q[a]
      BY <1>2 DEF Put
    <3> HIDE DEF p, q
    <3>3. \A a, b \in DOMAIN p : p[a].type = "Job" /\ p[a] = p[b] => a = b
      <4>1. CASE p = q
        BY <3>1, <4>1
      <4>2. CASE p # q
        <5>1. \A a \in DOMAIN p : a \in DOMAIN q \/ a = Len(q) + 1
          BY <3>2, <4>2
        <5>2. QED BY <3>1, <3>2, <4>2, <5>1
      <4>3. QED BY <4>1, <4>2
    <3>4. QED BY <2>2, <3>3 DEF OfferedOnce, p
  <2>3. CASE v = w /\ mode[w] = "down"
    BY <2>3 DEF OfferedOnce, FewerReports
  <2>4. QED BY <2>1, <2>2, <2>3
<1>10. FailedForGood'
  BY DEF FailedForGood, ClaimInv
<1>11. QED BY <1>6, <1>7, <1>8, <1>9, <1>10 DEF ClaimInv

\* The report of a claim settles it.
LEMMA SettledClaims ==
  ASSUME ClaimInv, WorkersInv, Types, OnlyCalls, FewerReports, FewerBooks,
         NEW w \in Workers, NEW j \in Jobs, ~IsBusy(w)',
         \/ Finished(w, j) /\ j \in db'.done
         \/ Failing(w, j) /\ db'.failed[j] > 0,
         db'.inProgress = db.inProgress \ {j}, db.done \subseteq db'.done,
         \A k \in Jobs : db.failed[k] > 0 => db'.failed[k] > 0,
         FailedForGood'
  PROVE  ClaimInv'
<1>1. OneStage(w, j) /\ Exclusive(w, j) /\ Claims(w, j)
  BY DEF ClaimInv, Claims
<1>2. \A v \in Workers \ {w} : ~Claims(v, j) /\ ~Books(v, j)
  BY <1>1 DEF Exclusive
<1>3. /\ \A v \in Workers, k \in Jobs : /\ Recedes(v, k)
                                        /\ Advances(v, k)
                                        /\ OneStage(v, k)'
      /\ \A v \in Workers : OfferedOnce(v)'
  BY ClaimsRecede
<1>4. ASSUME NEW v \in Workers
      PROVE  /\ ~Books(v, j)' /\ ~Offered(v, j)' /\ ~Executes(v, j)'
             /\ Finished(v, j)' => j \in db'.done
             /\ Failing(v, j)' => db'.failed[j] > 0
  <2>1. Recedes(v, j) /\ (Books(v, j)' => Books(v, j))
    BY <1>3 DEF FewerBooks, Books
  <2>2. CASE v = w
    BY <1>1, <2>1, <2>2 DEF Recedes, OneStage, Books
  <2>3. CASE v # w
    BY <1>2, <2>1, <2>3 DEF Recedes, Claims
  <2>4. QED BY <2>2, <2>3
<1>5. Withdraws({j})
  BY <1>4 DEF Withdraws
<1>6. QED BY <1>3, <1>5, KeepsClaims

\* Jobs that nobody claims any more go back into the queue.
LEMMA TakenBackClaims ==
  ASSUME ClaimInv, WorkersInv, Types, OnlyCalls, FewerReports, FewerBooks, NEW S,
         \A w \in Workers, j \in S \cap Jobs : ~Claims(w, j) /\ ~Books(w, j)',
         db'.inProgress = db.inProgress \ S, db'.done = db.done, db'.failed = db.failed,
         FailedForGood'
  PROVE  ClaimInv'
<1>1. /\ \A v \in Workers, k \in Jobs : /\ Recedes(v, k)
                                        /\ Advances(v, k)
                                        /\ OneStage(v, k)'
      /\ \A v \in Workers : OfferedOnce(v)'
  BY ClaimsRecede
<1>2. Withdraws(S)
  BY <1>1 DEF Withdraws, Recedes, Claims
<1>3. QED BY <1>1, <1>2, KeepsClaims

-----------------------------------------------------------------------------
(***************************************************************************)
(* Steps of a worker move its claims on.                                   *)
(***************************************************************************)
\* Everything the claims of w are made of.
Untouched(w) ==
  UNCHANGED <<mode[w], executing[w], unacked[w], toMaster[w], toWorker[w]>>

LEMMA UntouchedAdvances ==
  ASSUME ClaimInv, NEW w \in Workers, Untouched(w)
  PROVE  /\ \A j \in Jobs : Advances(w, j) /\ OneStage(w, j)'
         /\ OfferedOnce(w)'
<1>1. \A j \in Jobs : Recedes(w, j)
  BY DEF Untouched, Recedes, Offered, Executes, Finished, Failing, Reports
<1>2. \A j \in Jobs : Advances(w, j) /\ OneStage(w, j)'
  BY <1>1 DEF Recedes, Advances, OneStage, ClaimInv
<1>3. OfferedOnce(w)'
  BY DEF Untouched, OfferedOnce, ClaimInv
<1>4. QED BY <1>2, <1>3

\* The first message is taken; what is behind it was offered before.
LEMMA TakenOffers ==
  ASSUME Types, ClaimInv, NEW w \in Workers, Taken(w), mode[w] # "down"
  PROVE  /\ \A j \in Jobs : Job(j) \in Range(toWorker'[w]) => Offered(w, j)
         /\ Head(toWorker[w]) \in Range(toWorker[w])
         /\ Head(toWorker[w]).type = "Job" => Head(toWorker[w]) \notin Range(toWorker'[w])
         /\ OfferedOnce(w)'
<1> DEFINE q == toWorker[w]
           p == toWorker'[w]
<1>1. q \in Seq(Sent) /\ q # <<>> /\ p = Tail(q)
  BY DEF Types, Taken
<1>2. /\ Head(q) = q[1] /\ 1 \in DOMAIN q
      /\ \A i \in DOMAIN p : i + 1 \in DOMAIN q /\ p[i] = q[i + 1] /\ i \in Nat /\ i + 1 # 1
  BY <1>1
<1>3. \A a, b \in DOMAIN q : q[a].type = "Job" /\ q[a] = q[b] => a = b
  BY DEF ClaimInv, OfferedOnce
<1> HIDE DEF p, q
<1>4. \A x \in Range(p) : x \in Range(q)
  BY <1>2 DEF Range
<1>5. Head(q) \in Range(q)
  BY <1>2 DEF Range
<1>6. Head(q).type = "Job" => Head(q) \notin Range(p)
  BY <1>2, <1>3 DEF Range
<1>7. \A a, b \in DOMAIN p : p[a].type = "Job" /\ p[a] = p[b] => a = b
  BY <1>2, <1>3
<1>8. QED BY <1>4, <1>5, <1>6, <1>7 DEF Offered, OfferedOnce, p, q

\* A down worker's channel offers nothing.
LEMMA DownOffersNothing ==
  ASSUME NEW w \in Workers, mode'[w] = "down"
  PROVE  OfferedOnce(w)' /\ \A j \in Jobs : ~Offered(w, j)'
BY DEF OfferedOnce, Offered

\* One more report is on its way.
LEMMA SentReports ==
  ASSUME Types, NEW w \in Workers, NEW m \in MasterMessages, Send(w, m)
  PROVE  \A type, j : Reports(w, type, j)' => Reports(w, type, j) \/ (m.type = type /\ m.body = j)
<1>1. \A x \in Range(toMaster'[w]) : x = m \/ x \in Range(toMaster[w])
  BY SendTypes, AppendRange DEF Types, WorkersTypeOK
<1>2. QED BY <1>1 DEF Reports

ClaimsMove(w) ==
  /\ \A j \in Jobs : Advances(w, j) /\ OneStage(w, j)'
  /\ OfferedOnce(w)'

\* The stage of every claim recedes.
LEMMA RecedesMoves ==
  ASSUME ClaimInv, NEW w \in Workers, \A j \in Jobs : Recedes(w, j), OfferedOnce(w)'
  PROVE  ClaimsMove(w)
BY DEF Recedes, Advances, OneStage, ClaimInv, ClaimsMove

LEMMA WorkerReceivesClaims ==
  ASSUME LocalInv, misled = {}, ClaimInv, NEW w \in Workers, WorkerReceives(w)
  PROVE  ClaimsMove(w)
<1>1. Types /\ OwnInv(w) /\ Taken(w)
  BY NoneMisled DEF WorkerReceives, OnWorkIsReady, OnTask, OnAck, Receives
<1>2. CASE mode'[w] = "down"
  <2>1. UNCHANGED <<mode, executing, unacked, toMaster>>
    BY <1>1, <1>2 DEF WorkerReceives, OnWorkIsReady, OnTask, OnAck, Become, Types, WorkersTypeOK
  <2>2. \A j \in Jobs : Recedes(w, j)
    BY <1>2, <2>1, DownOffersNothing DEF Recedes, Executes, Finished, Failing, Reports
  <2>3. QED BY <1>2, <2>2, DownOffersNothing, RecedesMoves
<1>3. CASE mode'[w] # "down"
  <2>1. mode[w] # "down"
    BY <1>1, <1>3 DEF WorkerReceives, OnWorkIsReady, OnTask, OnAck, Become, Types, WorkersTypeOK
  <2>2. /\ \A j \in Jobs : Job(j) \in Range(toWorker'[w]) => Offered(w, j)
        /\ Head(toWorker[w]) \in Range(toWorker[w])
        /\ Head(toWorker[w]).type = "Job" => Head(toWorker[w]) \notin Range(toWorker'[w])
        /\ OfferedOnce(w)'
    BY <1>1, <2>1, TakenOffers
  <2>3. \A j \in Jobs : Offered(w, j)' => Offered(w, j)
    BY <2>2 DEF Offered
  <2>4. CASE OnTask(w) /\ mode[w] = "idle"
    <3> DEFINE task == Head(toWorker[w]).body
    <3>1. /\ mode'[w] = "working" /\ executing'[w] = {task} /\ executing[w] = {}
          /\ UNCHANGED <<unacked, toMaster>>
      BY <1>1, <2>4 DEF OnTask, Become, Types, WorkersTypeOK, OwnInv
    <3>2. Head(toWorker[w]) \in Sent /\ Head(toWorker[w]).type \in {"Job", "FileJob"}
      BY <1>1, <2>4, TakenTypes DEF OnTask, Receives
    <3>3. task \in Jobs => Head(toWorker[w]) = Job(task)
      BY <3>2, ProtocolAssumption DEF Sent, TaskMessages, Messages, Job
    <3>4. ASSUME NEW j \in Jobs, Executes(w, j)'
          PROVE  Offered(w, j) /\ ~Offered(w, j)'
      <4>1. j = task
        BY <3>1, <3>4 DEF Executes
      <4>2. Job(j) = Head(toWorker[w]) /\ Head(toWorker[w]).type = "Job"
        BY <3>3, <4>1 DEF Job
      <4>3. QED BY <2>1, <2>2, <4>2 DEF Offered
    <3>5. \A j \in Jobs : /\ Finished(w, j)' => Finished(w, j)
                          /\ Failing(w, j)' => Failing(w, j)
      BY <3>1 DEF Finished, Failing, Reports
    <3>6. ASSUME NEW j \in Jobs
          PROVE  Advances(w, j) /\ OneStage(w, j)'
      BY <2>3, <3>4, <3>5 DEF Advances, OneStage, ClaimInv
    <3>7. QED BY <2>2, <3>6 DEF ClaimsMove
  <2>5. CASE UNCHANGED <<mode, executing, unacked, toMaster>>
    <3>1. \A j \in Jobs : Recedes(w, j)
      BY <2>3, <2>5 DEF Recedes, Executes, Finished, Failing, Reports
    <3>2. QED BY <2>2, <3>1, RecedesMoves
  <2>6. CASE Send(w, WorkerRequestsWork) /\ UNCHANGED executing
               /\ (mode'[w] = "waiting" => mode[w] = "waiting" /\ UNCHANGED unacked)
    <3>1. WorkerRequestsWork \in MasterMessages
      BY DEF WorkerRequestsWork, Request, MasterMessages
    <3>2. \A type \in {"WorkIsDone", "WorkFailed"}, j \in Jobs : Reports(w, type, j)' => Reports(w, type, j)
      BY <1>1, <2>6, <3>1, SentReports DEF WorkerRequestsWork, Request
    <3>3. \A j \in Jobs : Recedes(w, j)
      BY <2>3, <2>6, <3>2 DEF Recedes, Executes, Finished, Failing
    <3>4. QED BY <2>2, <3>3, RecedesMoves
  <2>7. QED
    BY <2>4, <2>5, <2>6, <1>1 DEF WorkerReceives, OnWorkIsReady, OnTask, OnAck, Become, Types, WorkersTypeOK
<1>4. QED BY <1>2, <1>3

\* The channel to w and what is offered there stay.
LEMMA SameOffers ==
  ASSUME ClaimInv, NEW w \in Workers, UNCHANGED toWorker,
         mode[w] = "down" => mode'[w] = "down"
  PROVE  OfferedOnce(w)' /\ \A j \in Jobs : Offered(w, j)' => Offered(w, j)
BY DEF OfferedOnce, Offered, ClaimInv

LEMMA AnswersClaims ==
  ASSUME LocalInv, misled = {}, misled' = {}, ClaimInv, NEW w \in Workers, ExecutorAnswers(w)
  PROVE  ClaimsMove(w)
<1>1. Types /\ OwnInv(w)
  BY NoneMisled
<1>2. ASSUME NEW task \in Jobs \cup Files, Ends(w, task)
      PROVE  /\ mode[w] = "working" /\ task = currentJob[w]
             /\ executing[w] = {task} /\ executing'[w] = {}
  BY <1>1, <1>2 DEF Ends, Types, WorkersTypeOK, OwnInv
<1>3. UNCHANGED toWorker
  BY DEF ExecutorAnswers, JobSucceeds, JobFails, LateAnswer, FileStored, FileFails
<1>4. ASSUME NEW task \in Jobs \cup Files, Ends(w, task),
             NEW m \in MasterMessages, Send(w, m), m.body = task,
             mode'[w] \in {"idle", "waiting"},
             mode'[w] = "waiting" => unacked'[w] = task,
             task \in Jobs /\ mode'[w] = "waiting" => m.type = "WorkIsDone"
      PROVE  ClaimsMove(w)
  <2>1. /\ mode[w] = "working" /\ executing[w] = {task} /\ executing'[w] = {}
    BY <1>2, <1>4
  <2>2. /\ OfferedOnce(w)'
        /\ \A j \in Jobs : Offered(w, j)' => Offered(w, j)
    BY <1>3, <2>1, SameOffers
  <2>3. \A type, j : Reports(w, type, j)' => Reports(w, type, j) \/ (m.type = type /\ task = j)
    BY <1>1, <1>4, SentReports
  <2>4. ASSUME NEW j \in Jobs, j # task
        PROVE  Recedes(w, j)
    BY <1>4, <2>1, <2>2, <2>3, <2>4 DEF Recedes, Executes, Finished, Failing
  <2>5. ASSUME NEW j \in Jobs, j # task
        PROVE  Advances(w, j) /\ OneStage(w, j)'
    BY <2>4, <2>5 DEF Recedes, Advances, OneStage, ClaimInv
  <2>6. ASSUME task \in Jobs
        PROVE  Advances(w, task) /\ OneStage(w, task)'
    <3>1. Executes(w, task) /\ ~Executes(w, task)' /\ OneStage(w, task)
      BY <2>1, <2>6 DEF Executes, ClaimInv
    <3>2. ~Offered(w, task)' /\ ~Finished(w, task) /\ ~Failing(w, task)
      BY <2>2, <2>6, <3>1 DEF OneStage
    <3>3. ~Reports(w, "WorkIsDone", task) /\ ~Reports(w, "WorkFailed", task)
      BY <3>2 DEF Finished, Failing
    <3>4. ~(Finished(w, task)' /\ Failing(w, task)')
      BY <1>4, <2>3, <2>6, <3>3 DEF Finished, Failing
    <3>5. QED BY <3>1, <3>2, <3>4 DEF Advances, OneStage
  <2>7. QED BY <2>2, <2>5, <2>6 DEF ClaimsMove
<1>5. ASSUME NEW j \in Jobs, JobSucceeds(w, j)
      PROVE  ClaimsMove(w)
  <2>1. Ends(w, j) /\ mode[w] = "working" /\ currentJob[w] = j
    BY <1>2, <1>5 DEF JobSucceeds
  <2> DEFINE m == WorkIsDone(j, j)
  <2>2. m \in MasterMessages /\ m.body = j /\ m.type = "WorkIsDone"
    BY DEF WorkIsDone, MasterMessages
  <2>3. Send(w, m) /\ mode'[w] = "waiting" /\ unacked'[w] = j
    BY <1>1, <1>5, <2>1 DEF JobSucceeds, Become, Types, WorkersTypeOK
  <2> HIDE DEF m
  <2>4. QED BY <1>4, <2>1, <2>2, <2>3
<1>6. ASSUME NEW j \in Jobs, NEW r \in Results(j), JobFails(w, j, r)
      PROVE  ClaimsMove(w)
  <2>1. Ends(w, j) /\ mode[w] = "working" /\ currentJob[w] = j
    BY <1>2, <1>6 DEF JobFails
  <2> DEFINE m == WorkFailed(j, r)
  <2>2. m \in MasterMessages /\ m.body = j /\ m.type = "WorkFailed"
    BY DEF WorkFailed, MasterMessages, Results
  <2>3. Send(w, m) /\ mode'[w] = "idle"
    BY <1>1, <1>6, <2>1 DEF JobFails, OnWorkFailed, Become, Types, WorkersTypeOK
  <2> HIDE DEF m
  <2>4. QED BY <1>4, <2>1, <2>2, <2>3
<1>7. ASSUME NEW f \in Files, FileStored(w, f)
      PROVE  ClaimsMove(w)
  <2>1. Ends(w, f) /\ mode[w] = "working"
    BY <1>2, <1>7 DEF FileStored
  <2> DEFINE m == FileUploadComplete(f)
  <2>2. m \in MasterMessages /\ m.body = f /\ f \notin Jobs
    BY ProtocolAssumption DEF FileUploadComplete, MasterMessages
  <2>3. Send(w, m) /\ mode'[w] = "idle"
    BY <1>1, <1>7, <2>1 DEF FileStored, Become, Types, WorkersTypeOK
  <2> HIDE DEF m
  <2>4. QED BY <1>4, <2>1, <2>2, <2>3
<1>8. ASSUME NEW f \in Files, FileFails(w, f)
      PROVE  ClaimsMove(w)
  <2>1. Ends(w, f) /\ mode[w] = "working" /\ currentJob[w] = f
    BY <1>2, <1>8 DEF FileFails
  <2> DEFINE m == WorkFailed(f, NoJob)
  <2>2. m \in MasterMessages /\ m.body = f /\ f \notin Jobs
    BY ProtocolAssumption DEF WorkFailed, MasterMessages
  <2>3. Send(w, m) /\ mode'[w] = "idle"
    BY <1>1, <1>8, <2>1 DEF FileFails, Become, Types, WorkersTypeOK
  <2> HIDE DEF m
  <2>4. QED BY <1>4, <2>1, <2>2, <2>3
<1>9. ASSUME NEW j \in Jobs, LateAnswer(w, j)
      PROVE  ClaimsMove(w)
  <2>1. mode[w] # "working"
    BY <1>9 DEF LateAnswer
  <2>2. Untouched(w)
    BY <1>3, <1>9, <2>1 DEF LateAnswer, OnWorkFailed, Untouched
  <2>3. QED BY <2>2, UntouchedAdvances DEF ClaimsMove
<1>10. QED BY <1>5, <1>6, <1>7, <1>8, <1>9 DEF ExecutorAnswers

\* A timer repeats what is claimed already, or says nothing of a claim.
LEMMA TimersClaims ==
  ASSUME LocalInv, misled = {}, ClaimInv, NEW w \in Workers,
         RegisterTick(w) \/ KeepAliveTick(w) \/ AckTimeout(w)
  PROVE  ClaimsMove(w)
<1>1. Types /\ WorkerInv(w) /\ OwnInv(w) /\ UNCHANGED <<mode, executing, unacked, toWorker>>
  BY NoneMisled DEF RegisterTick, KeepAliveTick, AckTimeout
<1>2. OfferedOnce(w)' /\ \A j \in Jobs : Offered(w, j)' => Offered(w, j)
  BY <1>1, SameOffers
<1>3. ASSUME NEW m \in MasterMessages, Send(w, m), m.type # "WorkFailed",
             m.type = "WorkIsDone" => mode[w] = "waiting" /\ m.body = unacked[w]
      PROVE  ClaimsMove(w)
  <2>1. \A type, j : Reports(w, type, j)' => Reports(w, type, j) \/ (m.type = type /\ m.body = j)
    BY <1>1, <1>3, SentReports
  <2>2. \A j \in Jobs : Recedes(w, j)
    BY <1>1, <1>2, <1>3, <2>1 DEF Recedes, Executes, Finished, Failing
  <2>3. QED BY <1>2, <2>2, RecedesMoves
<1>4. CASE RegisterTick(w)
  <2>1. RegisterWorker \in MasterMessages /\ RegisterWorker.type = "RegisterWorker"
    BY DEF RegisterWorker, Request, MasterMessages
  <2>2. QED BY <1>3, <1>4, <2>1 DEF RegisterTick
<1>5. CASE KeepAliveTick(w)
  <2>1. /\ WorkerRequestsFile \in MasterMessages /\ WorkerRequestsFile.type = "WorkerRequestsFile"
        /\ WorkInProgress(currentJob[w]).type = "WorkInProgress"
    BY DEF WorkerRequestsFile, WorkInProgress, Request, MasterMessages
  <2>2. WorkInProgress(currentJob[w]) \in MasterMessages
    BY <1>1 DEF WorkInProgress, MasterMessages, Types, WorkersTypeOK
  <2>3. QED BY <1>3, <1>5, <2>1, <2>2 DEF KeepAliveTick
<1>6. CASE AckTimeout(w)
  <2>1. mode[w] = "waiting" /\ unacked[w] = currentJob[w] /\ currentJob[w] \in Jobs
    BY <1>1, <1>6 DEF AckTimeout, WorkerInv, OwnInv
  <2>2. /\ WorkIsDone(currentJob[w], unacked[w]) \in MasterMessages
        /\ WorkIsDone(currentJob[w], unacked[w]).type = "WorkIsDone"
        /\ WorkIsDone(currentJob[w], unacked[w]).body = unacked[w]
    BY <2>1 DEF WorkIsDone, MasterMessages
  <2>3. QED BY <1>3, <1>6, <2>1, <2>2 DEF AckTimeout
<1>7. QED BY <1>4, <1>5, <1>6

LEMMA OtherWorkerClaims ==
  ASSUME LocalInv, ClaimInv, NEW w \in Workers, Dies(w) \/ MasterTakes(w)
  PROVE  ClaimsMove(w)
<1>1. CASE Dies(w)
  <2>1. /\ mode'[w] = "down" /\ executing'[w] = {} /\ UNCHANGED <<unacked, toMaster>>
    BY <1>1 DEF Dies, Become, LocalInv, Types, WorkersTypeOK
  <2>2. \A j \in Jobs : Recedes(w, j)
    BY <2>1, DownOffersNothing DEF Recedes, Executes, Finished, Failing, Reports
  <2>3. QED BY <2>1, <2>2, DownOffersNothing, RecedesMoves
<1>2. CASE MasterTakes(w)
  <2>1. /\ toMaster[w] \in Seq(MasterMessages) /\ toMaster[w] # <<>>
        /\ toMaster'[w] = Tail(toMaster[w])
        /\ UNCHANGED <<mode, executing, unacked, toWorker>>
    BY <1>2 DEF MasterTakes, LocalInv, Types, WorkersTypeOK
  <2>2. \A x \in Range(toMaster'[w]) : x \in Range(toMaster[w])
    BY <2>1, TailRange
  <2>3. OfferedOnce(w)' /\ \A j \in Jobs : Offered(w, j)' => Offered(w, j)
    BY <2>1, SameOffers
  <2>4. \A j \in Jobs : Recedes(w, j)
    BY <2>1, <2>2, <2>3 DEF Recedes, Executes, Finished, Failing, Reports
  <2>5. QED BY <2>3, <2>4, RecedesMoves
<1>3. QED BY <1>1, <1>2

\* Kills and answers that nobody hears touch no claim.
LEMMA LoopClaims ==
  ASSUME ClaimInv, NEW w \in Workers, LoopIsUnheard(w) \/ SimulationKilled(w)
  PROVE  ClaimsMove(w)
<1>1. Untouched(w)
  BY DEF LoopIsUnheard, SimulationKilled, Killed, Untold, Untouched
<1>2. QED BY <1>1, UntouchedAdvances DEF ClaimsMove

LEMMA WorkerActsClaims ==
  ASSUME LocalInv, misled = {}, misled' = {}, WorkersInv, ClaimInv,
         NEW w \in Workers, WorkerActs(w)
  PROVE  ClaimInv'
<1>1. ClaimsMove(w)
  BY WorkerReceivesClaims, AnswersClaims, TimersClaims, OtherWorkerClaims, LoopClaims
     DEF WorkerActs, WorkerHandles, ExecutorStep, Registers, KeepsAlive, RepeatsDone,
         WorkerDies, LosesToMaster
<1>2. ASSUME NEW v \in Workers \ {w}
      PROVE  ClaimsMove(v)
  <2>1. Untouched(v)
    BY WorkerActsPreserved DEF Preserved, View, Untouched
  <2>2. QED BY <2>1, UntouchedAdvances DEF ClaimsMove
<1>3. UNCHANGED <<workers, db>>
  BY DEF WorkerActs, WorkerHandles, ExecutorStep, LoopIsUnheard, Registers, KeepsAlive,
         RepeatsDone, WorkerDies, LosesToMaster, SimulationKilled, masterKeeps, volatile
<1>4. FewerBooks /\ Withdraws({}) /\ FailedForGood'
  BY <1>3 DEF FewerBooks, IsBusy, Withdraws, FailedForGood, ClaimInv
<1>5. \A v \in Workers : ClaimsMove(v)
  BY <1>1, <1>2
<1>6. QED BY <1>4, <1>5, KeepsClaims DEF ClaimsMove

-----------------------------------------------------------------------------
(***************************************************************************)
(* Deadlines.  That of a worker which claims the job of its entry does not *)
(* pass: the claim is a message in flight, a task the worker sends         *)
(* heartbeats for, or a report it repeats.                                 *)
(***************************************************************************)
LEMMA ClaimsRenew ==
  ASSUME LocalInv, misled = {}, ClaimInv, NEW w \in Workers, NEW j \in Jobs, Claims(w, j), Books(w, j)
  PROVE  Renews(w)
<1>1. OnTheBooks(w, j) /\ OwnInv(w)
  BY NoneMisled DEF ClaimInv
<1>2. CASE Offered(w, j)
  BY <1>2 DEF Offered, Renews, InFlight, Job
<1>3. CASE Executes(w, j)
  <2>1. mode[w] = "working" /\ currentJob[w] = j
    BY <1>1, <1>3 DEF Executes, OwnInv
  <2>2. QED BY <1>1, <1>3, <2>1 DEF OnTheBooks, Renews, Books
<1>4. CASE Finished(w, j)
  <2>1. CASE mode[w] = "waiting" /\ unacked[w] = j
    <3>1. currentJob[w] = j
      BY <1>1, <2>1 DEF OwnInv
    <3>2. QED BY <1>1, <1>4, <2>1, <3>1 DEF OnTheBooks, Renews
  <2>2. CASE Reports(w, "WorkIsDone", j)
    BY <2>2 DEF Reports, Renews, InFlight
  <2>3. QED BY <1>4, <2>1, <2>2 DEF Finished
<1>5. CASE Failing(w, j)
  BY <1>5 DEF Failing, Reports, Renews, InFlight
<1>6. QED BY <1>2, <1>3, <1>4, <1>5 DEF Claims

LEMMA ExpiresClaims ==
  ASSUME LocalInv, misled = {}, WorkersInv, ClaimInv, NEW w \in Workers, Expires(w)
  PROVE  ClaimInv'
<1>1. /\ UNCHANGED <<mode, executing, unacked, toMaster, toWorker, db>>
      /\ workers' = [workers EXCEPT ![w].overdue = TRUE]
      /\ ~Renews(w)
  BY DEF Expires, DeadlinePasses, workerVars
<1>2. \A v \in Workers : /\ workers'[v].kind = workers[v].kind
                         /\ workers'[v].job = workers[v].job
                         /\ v # w => workers'[v].overdue = workers[v].overdue
  BY <1>1 DEF WorkersInv, WorkerStates
<1>3. \A v \in Workers : /\ OfferedOnce(v)' <=> OfferedOnce(v)
                         /\ IsBusy(v)' <=> IsBusy(v)
  BY <1>1, <1>2 DEF OfferedOnce, IsBusy
<1>4. \A v \in Workers, j \in Jobs :
        /\ Offered(v, j)' <=> Offered(v, j)
        /\ Executes(v, j)' <=> Executes(v, j)
        /\ Finished(v, j)' <=> Finished(v, j)
        /\ Failing(v, j)' <=> Failing(v, j)
        /\ Books(v, j)' <=> Books(v, j)
  BY <1>1, <1>2, <1>3 DEF Offered, Executes, Finished, Failing, Reports, Books
<1>5. \A v \in Workers, j \in Jobs : OneStage(v, j)' /\ OnTheBooks(v, j)'
  BY <1>1, <1>4 DEF ClaimInv, OneStage, OnTheBooks
<1>6. \A v \in Workers, j \in Jobs : Claims(v, j)' <=> Claims(v, j)
  BY <1>4 DEF Claims
<1>7. \A v \in Workers, j \in Jobs : Exclusive(v, j)'
  BY <1>4, <1>6 DEF ClaimInv, Exclusive
<1>8. ASSUME NEW v \in Workers
      PROVE  Watches(v)'
  <2>1. ASSUME IsBusy(v)'
        PROVE  /\ IsBusy(v) /\ workers[v].job \in Jobs /\ Books(v, workers[v].job)
               /\ workers[v].job \in db.inProgress
               /\ v # w => (workers[v].overdue => ~Claims(v, workers[v].job))
    BY <1>3, <2>1 DEF WorkersInv, ClaimInv, Watches, Books
  <2>2. ASSUME IsBusy(v)', workers'[v].overdue
        PROVE  ~Claims(v, workers[v].job)
    BY <1>1, <1>2, <2>1, <2>2, ClaimsRenew
  <2>3. QED BY <1>1, <1>2, <1>6, <2>1, <2>2 DEF Watches
<1>9. QED BY <1>1, <1>3, <1>5, <1>7, <1>8 DEF ClaimInv, FailedForGood

-----------------------------------------------------------------------------
(***************************************************************************)
(* The handlers of the master.                                             *)
(***************************************************************************)
\* What the events do to the jobs in progress and the verdicts.
LEMMA EventParts ==
  ASSUME NEW d \in JobStates
  PROVE  /\ \A s : /\ JobAccepted(d, s).inProgress = d.inProgress
                   /\ JobAccepted(d, s).done = d.done
                   /\ JobAccepted(d, s).failed = d.failed
                   /\ JobAccepted(d, s).accepted = d.accepted \cup Range(s)
         /\ \A j : /\ JobStarted(d, j).inProgress = d.inProgress \cup {j}
                   /\ JobStarted(d, j).done = d.done
                   /\ JobStarted(d, j).failed = d.failed
                   /\ JobStarted(d, j).accepted = d.accepted
         /\ \A j : /\ JobPostponed(d, j).inProgress = d.inProgress
                   /\ JobPostponed(d, j).done = d.done
                   /\ JobPostponed(d, j).failed = d.failed
                   /\ JobPostponed(d, j).accepted = d.accepted
         /\ \A j : /\ JobCompleted(d, j, j).inProgress = d.inProgress \ {j}
                   /\ JobCompleted(d, j, j).done = d.done \cup {j}
                   /\ JobCompleted(d, j, j).failed = d.failed
                   /\ JobCompleted(d, j, j).accepted = d.accepted
         /\ \A j : /\ JobFailed(d, j, j).inProgress = d.inProgress \ {j}
                   /\ JobFailed(d, j, j).done = d.done
                   /\ JobFailed(d, j, j).failed = OneMore(d.failed, j)
                   /\ JobFailed(d, j, j).accepted = d.accepted \ {j}
         /\ \A s : /\ JobTimedOut(d, s).inProgress = d.inProgress \ Range(s)
                   /\ JobTimedOut(d, s).done = d.done
                   /\ JobTimedOut(d, s).failed = d.failed
                   /\ JobTimedOut(d, s).accepted = d.accepted
BY DEF JobStates, JobAccepted, JobStarted, JobPostponed, JobCompleted, JobFailed, JobTimedOut

\* While recovery replays the whole journal, a restart finds the database.
LEMMA WholeJournal ==
  ASSUME DbInv, MaxEvents <= ReplayTo
  PROVE  durable = db
BY MasterAssumption DEF DbInv

LEMMA RestartProgress ==
  ASSUME DbInv, ClaimInv, MaxEvents <= ReplayTo, Restart, durable' = durable
  PROVE  SameProgress
<1>1. db' = db
  BY WholeJournal DEF Restart
<1>2. FewerBooks
  BY DEF Restart, FewerBooks, IsBusy, Absent
<1>3. QED BY <1>1, <1>2 DEF SameProgress, FailedForGood, ClaimInv

LEMMA SameDbProgress ==
  ASSUME ClaimInv, UNCHANGED db, FewerBooks
  PROVE  SameProgress
BY DEF SameProgress, FailedForGood, ClaimInv

LEMMA SameWorkersFewerBooks ==
  ASSUME UNCHANGED workers
  PROVE  FewerBooks
BY DEF FewerBooks, IsBusy

LEMMA ChatterProgress ==
  ASSUME TypeInv, ClaimInv, MaxEvents <= ReplayTo, NEW w \in Workers, Chatter(w)
  PROVE  SameProgress
<1>1. CASE onRegisterWorker(w)
  <2>1. UNCHANGED db /\ (UNCHANGED workers \/ workers' = [workers EXCEPT ![w] = Idle])
    BY <1>1 DEF onRegisterWorker
  <2>2. FewerBooks
    BY <2>1 DEF FewerBooks, IsBusy, Idle, TypeInv, WorkersInv
  <2>3. QED BY <2>1, <2>2, SameDbProgress
<1>2. ASSUME NEW j \in Jobs, onWorkInProgress(w, j)
      PROVE  SameProgress
  <2>1. UNCHANGED db /\ (UNCHANGED workers \/ workers' = [workers EXCEPT ![w].overdue = FALSE])
    BY <1>2 DEF onWorkInProgress
  <2>2. FewerBooks
    BY <2>1 DEF FewerBooks, IsBusy, TypeInv, WorkersInv, WorkerStates
  <2>3. QED BY <2>1, <2>2, SameDbProgress
<1>3. CASE onWorkerRequestsFile(w)
  <2>1. CASE Restart
    BY <1>3, <2>1, RestartProgress DEF onWorkerRequestsFile, TypeInv, journal
  <2>2. CASE ~Restart
    BY <1>3, <2>2, SameDbProgress, SameWorkersFewerBooks DEF onWorkerRequestsFile, volatile
  <2>3. QED BY <2>1, <2>2
<1>4. ASSUME NEW f \in Files, onFileUploadComplete(f, HostOf[w])
      PROVE  SameProgress
  BY <1>4, SameDbProgress, SameWorkersFewerBooks DEF onFileUploadComplete
<1>5. QED BY <1>1, <1>2, <1>3, <1>4 DEF Chatter

LEMMA FailsProgress ==
  ASSUME TypeInv, ClaimInv, MaxEvents <= ReplayTo, NEW w \in Workers, FailsOnUnknownWorker(w)
  PROVE  SameProgress
BY RestartProgress DEF FailsOnUnknownWorker, TypeInv, journal

LEMMA IdleFewerBooks ==
  ASSUME WorkersInv, NEW w \in Workers
  PROVE  /\ ExtendIdleExpiryTime(w) => FewerBooks
         /\ workers' = ChangedToIdle(w) => FewerBooks /\ ~IsBusy(w)'
<1>1. ASSUME workers' = workers \/ workers' = [workers EXCEPT ![w] = Idle]
      PROVE  FewerBooks
  BY <1>1 DEF FewerBooks, IsBusy, Idle, WorkersInv
<1>2. workers' = ChangedToIdle(w) => ~IsBusy(w)'
  BY DEF ChangedToIdle, IsBusy, Idle, WorkersInv
<1>3. QED BY <1>1, <1>2 DEF ExtendIdleExpiryTime, ChangedToIdle

LEMMA RequestClaims ==
  ASSUME TypeInv, Types, ClaimInv, MaxEvents <= ReplayTo, FewerReports,
         NEW w \in Workers, onWorkerRequestsWork(w)
  PROVE  ClaimInv'
<1> DEFINE j == nextJob(db)
<1>1. DbInv /\ WorkersInv /\ db \in JobStates
  BY DEF TypeInv, DbInv, Sound
<1>2. ASSUME hasJob(db), db' = JobStarted(db, j), workers' = [workers EXCEPT ![w] = Busy(j)],
             Tell(w, Job(j))
      PROVE  ClaimInv'
  <2>1. j \in Range(db.pending)
    BY <1>1, <1>2, ElemsHeadTail DEF hasJob, nextJob, JobStates
  <2>2. /\ db'.inProgress = db.inProgress \cup {j} /\ db'.done = db.done
        /\ db'.failed = db.failed /\ db'.accepted = db.accepted
    BY <1>1, <1>2, EventParts
  <2> HIDE DEF j
  <2>3. QED BY <1>1, <1>2, <2>1, <2>2, StartedClaims
<1>3. ASSUME SameProgress, UNCHANGED toWorker
      PROVE  ClaimInv'
  BY <1>1, <1>3, SameCalls, SameProgressClaims
<1>4. ASSUME db' = JobPostponed(db, j), ExtendIdleExpiryTime(w)
      PROVE  SameProgress
  <2>1. /\ db'.inProgress = db.inProgress /\ db'.done = db.done
        /\ db'.failed = db.failed /\ db'.accepted = db.accepted
    BY <1>1, <1>4, EventParts
  <2>2. QED BY <1>1, <1>4, <2>1, IdleFewerBooks DEF SameProgress, FailedForGood, ClaimInv
<1>5. ASSUME ExtendIdleExpiryTime(w), UNCHANGED db
      PROVE  SameProgress
  BY <1>1, <1>5, IdleFewerBooks, SameDbProgress
<1>6. CASE UNCHANGED masterVars
  BY <1>3, <1>6, SameWorkersFewerBooks, SameDbProgress DEF masterVars, volatile
<1>7. CASE FailsOnUnknownWorker(w)
  BY <1>3, <1>7, FailsProgress DEF FailsOnUnknownWorker
<1>8. QED BY <1>2, <1>3, <1>4, <1>5, <1>6, <1>7 DEF onWorkerRequestsWork

LEMMA DoneClaims ==
  ASSUME TypeInv, Types, ClaimInv, MaxEvents <= ReplayTo, FewerReports,
         NEW w \in Workers, NEW j \in Jobs, Finished(w, j), onWorkIsDone(w, j, j)
  PROVE  ClaimInv'
<1>1. DbInv /\ WorkersInv /\ db \in JobStates /\ OnlyCalls
  BY DoneCalls DEF TypeInv, DbInv, Sound
<1>2. ASSUME db' = JobCompleted(db, j, j), workers' = ChangedToIdle(w)
      PROVE  ClaimInv'
  <2>1. /\ db'.inProgress = db.inProgress \ {j} /\ db'.done = db.done \cup {j}
        /\ db'.failed = db.failed /\ db'.accepted = db.accepted
    BY <1>1, <1>2, EventParts
  <2>2. FewerBooks /\ ~IsBusy(w)'
    BY <1>1, <1>2, IdleFewerBooks
  <2>3. FailedForGood'
    BY <2>1 DEF FailedForGood, ClaimInv
  <2>4. QED BY <1>1, <2>1, <2>2, <2>3, SettledClaims
<1>3. ASSUME SameProgress
      PROVE  ClaimInv'
  BY <1>1, <1>3, SameProgressClaims
<1>4. CASE UNCHANGED <<workers, db>>
  BY <1>3, <1>4, SameWorkersFewerBooks, SameDbProgress
<1>5. CASE FailsOnUnknownWorker(w)
  BY <1>3, <1>5, FailsProgress
<1>6. ASSUME Persist(1, CanRecord(durable, j), durable), Restart
      PROVE  SameProgress
  BY <1>1, <1>6, RestartProgress DEF Persist, Journals
<1>7. QED BY <1>2, <1>3, <1>4, <1>5, <1>6 DEF onWorkIsDone, masterVars, volatile

LEMMA FailedClaims ==
  ASSUME TypeInv, Types, ClaimInv, MaxEvents <= ReplayTo, FewerReports,
         NEW w \in Workers, NEW j \in Jobs, NEW r \in Results(j),
         Failing(w, j), onWorkFailed(w, j, r)
  PROVE  ClaimInv'
<1>1. DbInv /\ WorkersInv /\ db \in JobStates /\ OnlyCalls
  BY FailedCalls DEF TypeInv, DbInv, Sound
<1>2. ASSUME CanRecord(db, r), db' = JobFailed(db, j, r), workers' = ChangedToIdle(w)
      PROVE  ClaimInv'
  <2>1. r = j /\ db.failed \in [Jobs -> Nat]
    BY <1>1, <1>2 DEF CanRecord, Results, JobStates
  <2>2. /\ db'.inProgress = db.inProgress \ {j} /\ db'.done = db.done
        /\ db'.failed = OneMore(db.failed, j) /\ db'.accepted = db.accepted \ {j}
    BY <1>1, <1>2, <2>1, EventParts
  <2>3. \A k \in Jobs : db'.failed[k] = IF k = j THEN db.failed[k] + 1 ELSE db.failed[k]
    BY <2>1, <2>2, OneMoreCounts
  <2>4. db'.failed[j] > 0 /\ \A k \in Jobs : db.failed[k] > 0 => db'.failed[k] > 0
    BY <2>1, <2>3
  <2>5. FewerBooks /\ ~IsBusy(w)'
    BY <1>1, <1>2, IdleFewerBooks
  <2>6. FailedForGood'
    BY <1>1, <2>2, <2>3 DEF FailedForGood, ClaimInv, JobStates
  <2>7. QED BY <1>1, <2>2, <2>4, <2>5, <2>6, SettledClaims
<1>3. ASSUME SameProgress
      PROVE  ClaimInv'
  BY <1>1, <1>3, SameProgressClaims
<1>4. CASE UNCHANGED <<workers, db>>
  BY <1>3, <1>4, SameWorkersFewerBooks, SameDbProgress
<1>5. CASE FailsOnUnknownWorker(w)
  BY <1>3, <1>5, FailsProgress
<1>6. ASSUME Persist(1, CanRecord(durable, r), durable), Restart
      PROVE  SameProgress
  BY <1>1, <1>6, RestartProgress DEF Persist, Journals
<1>7. QED BY <1>2, <1>3, <1>4, <1>5, <1>6 DEF onWorkFailed, masterVars, volatile

\* A report of a job that is handled was a claim of its worker.
LEMMA MasterReceivesClaims ==
  ASSUME TypeInv, LocalInv, misled = {}, ClaimInv, MaxEvents <= ReplayTo,
         NEW w \in Workers, MasterReceives(w)
  PROVE  ClaimInv'
<1> DEFINE m == Head(toMaster[w])
<1>1. Types /\ WorkersInv /\ FewerReports
  BY ReceivedMail DEF TypeInv, LocalInv, FewerReports, MasterReceives
<1>2. Names(m) /\ Own(m) /\ Handles(w, m) /\ Running /\ m \in Range(toMaster[w]) /\ DbInv
  BY OwnMail DEF TypeInv
<1> HIDE DEF m
<1>3. CASE UNCHANGED masterVars
  BY <1>1, <1>3, SameCalls, SameWorkersFewerBooks, SameDbProgress, SameProgressClaims
     DEF masterVars, volatile
<1>4. CASE onWorkerRequestsWork(w)
  BY <1>1, <1>4, RequestClaims
<1>5. CASE m.type = "WorkIsDone" /\ onWorkIsDone(w, m.body, m.result)
  <2>1. m.body \in Jobs /\ m.result = m.body /\ Finished(w, m.body)
    BY <1>2, <1>5 DEF Names, Own, Finished, Reports
  <2>2. QED BY <1>1, <1>5, <2>1, DoneClaims
<1>6. CASE m.type = "WorkFailed" /\ onWorkFailed(w, m.body, m.result)
  <2>1. CASE m.body \in Jobs /\ m.result \in Results(m.body)
    <3>1. Failing(w, m.body)
      BY <1>2, <1>6 DEF Failing, Reports
    <3>2. QED BY <1>1, <1>6, <2>1, <3>1, FailedClaims
  <2>2. CASE m.body \in Files
    BY <1>2, <1>3, <1>6, <2>2, FileReports
  <2>3. QED BY <1>2, <1>6, <2>1, <2>2 DEF Own
<1>7. CASE Chatter(w)
  BY <1>1, <1>7, ChatterCalls, ChatterProgress, SameProgressClaims
<1>8. CASE m.type = "WorkInProgress" /\ onWorkInProgress(w, m.body)
  <2>1. CASE m.body \in Jobs
    BY <1>7, <1>8, <2>1 DEF Chatter
  <2>2. CASE m.body \in Files
    BY <1>2, <1>3, <1>8, <2>2, FileReports
  <2>3. QED BY <1>2, <1>8, <2>1, <2>2 DEF Names, Tasks
<1>9. QED BY <1>2, <1>4, <1>5, <1>6, <1>7, <1>8 DEF Handles, Names, Chatter

-----------------------------------------------------------------------------
(***************************************************************************)
(* Clients, the cleanup tick and crashes.                                  *)
(***************************************************************************)
\* A job nobody submitted has not failed.
LEMMA UnknownNeverFailed ==
  ASSUME NEW d, NEW C \in SUBSET Jobs, Sound(d, C), NEW j \in C, j \notin Known(d)
  PROVE  d.failed[j] = 0
<1> DEFINE n == IF j \in Open(d) THEN 1 ELSE 0
<1>1. /\ Len(d.tasks[j]) = d.completed[j] + d.failed[j] + n
      /\ d.completed[j] \in Nat /\ d.failed[j] \in Nat
      /\ d.tasks[j] = <<>>
  BY DEF Sound, Accounted, JobStates, Known
<1>2. Len(<<>>) = 0 /\ n \in Nat
  OBVIOUS
<1> HIDE DEF n
<1>3. 0 = d.completed[j] + d.failed[j] + n
  BY <1>1, <1>2
<1>4. QED BY <1>1, <1>2, <1>3

LEMMA AcceptsProgress ==
  ASSUME ClaimInv, DbInv, FewerBooks, NEW s, db' = JobAccepted(db, s),
         \A j \in Range(s) : db.failed[j] = 0
  PROVE  SameProgress
<1>1. /\ db'.inProgress = db.inProgress /\ db'.done = db.done
      /\ db'.failed = db.failed /\ db'.accepted = db.accepted \cup Range(s)
  BY EventParts DEF DbInv, Sound
<1>2. FailedForGood'
  BY <1>1 DEF FailedForGood, ClaimInv
<1>3. QED BY <1>1, <1>2 DEF SameProgress

\* The first jobs of a batch are accepted, or all of them.
LEMMA BatchProgress ==
  ASSUME ClaimInv, DbInv, mixed = {}, FewerBooks, NEW s \in NewJobs, NEW part,
         Range(part) \subseteq Range(s), db' = JobAccepted(db, part)
  PROVE  SameProgress
<1>1. Range(part) \subseteq Jobs \ submitted
  BY NewJobsFacts
<1>2. Clear = Jobs /\ Sound(db, Clear) /\ Known(db) \subseteq submitted
  BY DEF Clear, DbInv
<1>3. ASSUME NEW j \in Range(part)
      PROVE  db.failed[j] = 0
  BY <1>1, <1>2, UnknownNeverFailed
<1>4. QED BY <1>3, AcceptsProgress

LEMMA ClientProgress ==
  ASSUME TypeInv, mixed = {}, ClaimInv, ~Resends, MaxEvents <= ReplayTo, ClientStep
  PROVE  SameProgress
<1>1. DbInv /\ durable = db
  BY WholeJournal DEF TypeInv
<1>2. ASSUME NEW j \in Jobs, ClientSendsJob(j)
      PROVE  SameProgress
  <2>1. FewerBooks
    BY <1>2, SameWorkersFewerBooks DEF ClientSendsJob, onJob, volatile
  <2>2. CASE UNCHANGED db
    BY <2>1, <2>2, SameDbProgress
  <2>3. CASE db' = JobAccepted(db, <<j>>) /\ ~isAccepted(db, j)
    <3>1. j \notin Known(db)
      BY <1>2, <2>3, NewJob DEF ClientSendsJob, isAccepted
    <3>2. Clear = Jobs /\ Sound(db, Clear)
      BY <1>1 DEF Clear, DbInv
    <3>3. Range(<<j>>) = {j} /\ db.failed[j] = 0
      BY <3>1, <3>2, ElemsSingle, UnknownNeverFailed
    <3>4. QED BY <1>1, <2>1, <2>3, <3>3, AcceptsProgress
  <2>4. QED BY <1>2, <2>2, <2>3 DEF ClientSendsJob, onJob
<1>3. ASSUME NEW s \in NewJobs, processCmdLineJob(s)
      PROVE  SameProgress
  <2>1. FewerBooks /\ db' = JobAccepted(db, s)
    BY <1>3, SameWorkersFewerBooks DEF processCmdLineJob, volatile
  <2>2. QED BY <1>1, <2>1, BatchProgress
<1>4. ASSUME NEW s \in NewJobs, NEW n \in 0..Len(s), CrashesInBatch(s, n)
      PROVE  SameProgress
  <2> DEFINE part == Kept(SubSeq(s, 1, n))
  <2>1. FewerBooks
    BY <1>4 DEF CrashesInBatch, Restart, FewerBooks, IsBusy, Absent
  <2>2. Range(part) \subseteq Range(s)
    <3>1. s \in Seq(Jobs)
      BY <1>1, NewJobsFacts
    <3>2. SubSeq(s, 1, n) \in Seq(Jobs) /\ Range(SubSeq(s, 1, n)) \subseteq Range(s)
      BY <3>1, ElemsPrefix
    <3>3. QED BY <1>1, <3>2, KeptPrefix
  <2>3. Journals(n, TRUE, JobAccepted(durable, part)) /\ db' = durable'
    BY <1>4 DEF CrashesInBatch, Persist, Restart
  <2> HIDE DEF part
  <2>4. db' = db \/ db' = JobAccepted(db, part)
    BY <1>1, <2>3 DEF Journals
  <2>5. QED BY <1>1, <2>1, <2>2, <2>4, BatchProgress, SameDbProgress
<1>5. ASSUME NEW t \in Trackings, NEW cancel \in BOOLEAN, onTrackingInfo(t, cancel)
      PROVE  SameProgress
  BY <1>5, SameWorkersFewerBooks, SameDbProgress DEF onTrackingInfo
<1>6. ASSUME NEW f \in Files, onUploadFile(f)
      PROVE  SameProgress
  BY <1>6, SameWorkersFewerBooks, SameDbProgress DEF onUploadFile
<1>7. QED BY <1>2, <1>3, <1>4, <1>5, <1>6 DEF ClientStep

\* The late jobs are in progress, each on the books of one worker, ...
LEMMA LateInProgress ==
  ASSUME WorkersInv, BookInv, ~Resends, ClaimInv,
         NEW order \in Orders({w \in Overdue : IsBusy(w)}),
         NEW late, late = [i \in DOMAIN order |-> workers[order[i]].job]
  PROVE  /\ CanTimeOut(db, late) /\ late \in Seq(Jobs)
         /\ \A j \in Range(late) : \E w \in Workers :
              w \in Overdue /\ IsBusy(w) /\ workers[w].overdue /\ workers[w].job = j
<1>1. /\ late \in Seq(Jobs)
      /\ \A i \in DOMAIN order : order[i] \in Workers /\ order[i] \in Overdue /\ IsBusy(order[i])
      /\ IsInjective(order)
  BY LateJobs
<1>2. DOMAIN late = DOMAIN order /\ \A i \in DOMAIN order : late[i] = workers[order[i]].job
  OBVIOUS
<1>3. ASSUME NEW j \in Range(late)
      PROVE  \E w \in Workers : w \in Overdue /\ IsBusy(w) /\ workers[w].overdue
                                /\ workers[w].job = j
  <2>1. PICK i \in DOMAIN order : j = late[i]
    BY <1>2, <1>3 DEF Range
  <2>2. QED BY <1>1, <1>2, <2>1 DEF Overdue
<1>4. Range(late) \subseteq db.inProgress
  BY <1>3 DEF ClaimInv, Watches
<1>5. ASSUME NEW a \in DOMAIN order, NEW b \in DOMAIN order, late[a] = late[b]
      PROVE  a = b
  <2>1. order[a] = order[b]
    BY <1>1, <1>2, <1>5 DEF BookInv, BookedOnce
  <2>2. QED BY <1>1, <2>1 DEF IsInjective
<1>6. IsInjective(late)
  BY <1>2, <1>5 DEF IsInjective
<1>7. QED BY <1>1, <1>3, <1>4, <1>6 DEF CanTimeOut

\* ... and nobody claims them.
LEMMA CleanupClaims ==
  ASSUME TypeInv, Types, BookInv, ClaimInv, ~Resends, FewerReports, onCleanupTick
  PROVE  ClaimInv'
<1>1. PICK order \in Orders({w \in Overdue : IsBusy(w)}) : TakeBack(order)
  BY DEF onCleanupTick
<1> DEFINE late == [i \in DOMAIN order |-> workers[order[i]].job]
           left == [w \in Workers |-> IF w \in Overdue THEN Absent ELSE workers[w]]
<1>2. WorkersInv /\ DbInv /\ db \in JobStates /\ OnlyCalls
  BY CleanupCalls DEF TypeInv, DbInv, Sound
<1>3. /\ CanTimeOut(db, late) /\ late \in Seq(Jobs)
      /\ \A j \in Range(late) : \E w \in Workers :
           w \in Overdue /\ IsBusy(w) /\ workers[w].overdue /\ workers[w].job = j
  BY <1>2, LateInProgress
<1>4. db' = JobTimedOut(db, late) /\ workers' = left
  BY <1>1, <1>3 DEF TakeBack
<1> HIDE DEF late
<1>5. /\ db'.inProgress = db.inProgress \ Range(late) /\ db'.done = db.done
      /\ db'.failed = db.failed /\ db'.accepted = db.accepted
  BY <1>2, <1>4, EventParts
<1>6. FewerBooks /\ \A w \in Workers : IsBusy(w)' => w \notin Overdue
  BY <1>4 DEF FewerBooks, IsBusy, Absent
<1>7. ASSUME NEW j \in Range(late) \cap Jobs, NEW w \in Workers
      PROVE  ~Claims(w, j) /\ ~Books(w, j)'
  <2>1. PICK v \in Workers : v \in Overdue /\ Books(v, j) /\ workers[v].overdue
    BY <1>3 DEF Books
  <2>2. ~Claims(v, j)
    BY <2>1 DEF Books, ClaimInv, Watches
  <2>3. v # w => ~Claims(w, j)
    BY <2>1 DEF ClaimInv, Exclusive
  <2>4. ~Books(w, j)'
    <3>1. CASE v = w
      BY <1>6, <2>1, <3>1 DEF Books
    <3>2. CASE v # w
      BY <1>6, <2>1, <3>2 DEF Books, FewerBooks, BookInv, BookedOnce
    <3>3. QED BY <3>1, <3>2
  <2>5. QED BY <2>2, <2>3, <2>4
<1>8. FailedForGood'
  BY <1>5 DEF FailedForGood, ClaimInv
<1>9. QED BY <1>2, <1>5, <1>6, <1>7, <1>8, TakenBackClaims

\* A live worker is heard before its deadline passes: of the messages of one
\* deadline that would renew its entry, not all are lost or late.  Clients do
\* not send failed jobs again, and recovery replays the whole journal.  Apart
\* from that crashes, deaths, losses and kills are not limited.
Reliable == "silence" \notin Faults /\ ~Resends /\ MaxEvents <= ReplayTo

\* What holds whatever happens to the workers.
ClusterInv == TypeInv /\ LocalInv /\ BookInv /\ VerdictsAreOwn

LEMMA MasterActsClaims ==
  ASSUME Reliable, ClusterInv, misled = {}, ClaimInv, MasterActs
  PROVE  ClaimInv'
<1>1. /\ Types /\ TypeInv /\ LocalInv /\ BookInv /\ WorkersInv /\ DbInv /\ mixed = {}
      /\ UNCHANGED workerVars
  BY MasterActsStep DEF ClusterInv, LocalInv, TypeInv, VerdictsAreOwn
<1>2. FewerReports
  BY <1>1 DEF workerVars, FewerReports
<1>3. CASE ClientStep
  BY <1>1, <1>2, <1>3, ClientStepCalls, ClientProgress, SameProgressClaims DEF Reliable
<1>4. CASE onCleanupTick
  BY <1>1, <1>2, <1>4, CleanupClaims DEF Reliable
<1>5. CASE Crash
  BY <1>1, <1>2, <1>5, SameCalls, RestartProgress, SameProgressClaims
     DEF Reliable, Crash, journal
<1>6. ASSUME NEW w \in Workers, Expires(w)
      PROVE  ClaimInv'
  BY <1>1, <1>6, ExpiresClaims
<1>7. ASSUME NEW w \in Workers, LosesToWorker(w)
      PROVE  ClaimInv'
  <2>1. Taken(w) /\ UNCHANGED <<workers, db>>
    BY <1>7 DEF LosesToWorker, Receive, volatile
  <2>2. ASSUME NEW v \in Workers
        PROVE  ClaimsMove(v)
    <3>1. CASE v # w
      <4>1. Untouched(v)
        BY <1>1, <2>1, <3>1 DEF Untouched, Taken, workerVars, Types
      <4>2. QED BY <4>1, UntouchedAdvances DEF ClaimsMove
    <3>2. CASE v = w
      <4>1. OfferedOnce(w)' /\ \A j \in Jobs : Offered(w, j)' => Offered(w, j)
        <5>1. CASE mode[w] = "down"
          BY <1>1, <5>1, DownOffersNothing DEF workerVars
        <5>2. CASE mode[w] # "down"
          BY <1>1, <2>1, <5>2, TakenOffers DEF Offered
        <5>3. QED BY <5>1, <5>2
      <4>2. \A j \in Jobs : Recedes(w, j)
        BY <1>2, <4>1, ReportsRecede DEF Recedes
      <4>3. QED BY <3>2, <4>1, <4>2, RecedesMoves
    <3>3. QED BY <3>1, <3>2
  <2>3. FewerBooks /\ Withdraws({}) /\ FailedForGood'
    BY <2>1, SameWorkersFewerBooks DEF Withdraws, FailedForGood, ClaimInv
  <2>4. QED BY <1>1, <2>2, <2>3, KeepsClaims DEF ClaimsMove
<1>8. ASSUME NEW w \in Workers, FallsSilent(w)
      PROVE  FALSE
  BY <1>8 DEF FallsSilent, Fault, Reliable
<1>9. QED
  BY <1>3, <1>4, <1>5, <1>6, <1>7, <1>8
     DEF MasterActs, ClientActs, SendsJobs, Uploads, ClientStep, Ticks, MasterCrashes

LEMMA ClusterBooks == ClusterSafety => []ClusterInv
<1>1. Spec => []BookInv
  BY BooksInvariance, PTL
<1>2. TypeInv /\ LocalInv /\ VerdictsAreOwn /\ BookInv => ClusterInv
  BY DEF ClusterInv
<1>3. QED BY <1>1, <1>2, VerdictsInvariance, ClusterImplementsMaster, PTL DEF MasterSpec

Claimed == misled = {} => ClaimInv

LEMMA ClaimsInvariance == Reliable => (ClusterSafety => [](ClusterInv /\ Claimed))
<1> SUFFICES ASSUME Reliable
             PROVE  ClusterSafety => [](ClusterInv /\ Claimed)
  OBVIOUS
<1>1. ASSUME ClusterInit
      PROVE  ClaimInv
  <2>1. /\ \A w \in Workers : /\ workers[w] = Absent /\ toWorker[w] = <<>>
                              /\ toMaster[w] = <<>> /\ executing[w] = {} /\ mode[w] = "idle"
        /\ db.accepted = {}
    BY <1>1 DEF ClusterInit, Init, InitWorkers, EmptyJobState
  <2>2. \A w \in Workers : ~IsBusy(w) /\ OfferedOnce(w)
    BY <2>1 DEF IsBusy, Absent, OfferedOnce
  <2>3. \A w \in Workers, j \in Jobs :
          ~Offered(w, j) /\ ~Executes(w, j) /\ ~Finished(w, j) /\ ~Failing(w, j)
    BY <2>1 DEF Offered, Executes, Finished, Failing, Reports, Range
  <2>4. QED
    BY <2>1, <2>2, <2>3 DEF ClaimInv, Watches, OneStage, OnTheBooks, Exclusive, Claims,
       FailedForGood
<1>2. ASSUME ClusterInv, Claimed, [ClusterNext]_clusterVars
      PROVE  Claimed'
  <2>1. SUFFICES ASSUME misled' = {}
                 PROVE  ClaimInv'
    BY DEF Claimed
  <2>2. misled = {} /\ ClaimInv /\ TypeInv /\ LocalInv
    BY <1>2, <2>1, MisledStay DEF Claimed, ClusterInv
  <2>3. CASE UNCHANGED clusterVars
    <3>1. UNCHANGED <<mode, executing, unacked, toMaster, toWorker, workers, db>>
      BY <2>3 DEF clusterVars, masterVars, workerVars, volatile
    <3>2. FewerReports /\ Types /\ WorkersInv
      BY <2>2, <3>1 DEF FewerReports, LocalInv, TypeInv
    <3>3. QED
      BY <2>2, <3>1, <3>2, SameCalls, SameWorkersFewerBooks, SameDbProgress,
         SameProgressClaims
  <2>4. QED
    BY <1>2, <2>1, <2>2, <2>3, ClusterCases, MasterActsClaims, MasterReceivesClaims,
       WorkerActsClaims DEF Reliable, TypeInv
<1>3. ClaimInv => Claimed
  BY DEF Claimed
<1>4. QED BY <1>1, <1>2, <1>3, ClusterBooks, PTL DEF ClusterSafety

(***************************************************************************)
(* Two live workers never execute the same job at the same time, whatever  *)
(* number of master crashes, agent deaths, kills and lost messages there   *)
(* is: the master only hands a job out again (onCleanupTick) when its      *)
(* worker has stopped executing it.  This rests on workers that are heard  *)
(* before their deadlines (Master.java:313-319) and on none that took the  *)
(* late answer of an abort loop.                                           *)
(***************************************************************************)
THEOREM JobsExecuteOnce == Reliable => (ClusterSafety => []OneExecution)
<1> SUFFICES ASSUME Reliable
             PROVE  ClusterSafety => []OneExecution
  OBVIOUS
<1>1. ASSUME Claimed PROVE OneExecution
  BY <1>1 DEF Claimed, ClaimInv, Exclusive, Claims, Executes, OneExecution
<1>2. QED BY <1>1, ClaimsInvariance, PTL

(***************************************************************************)
(* What a worker executes is in progress in the master's database, and a   *)
(* worker that waits for an Ack waits for one the master will send         *)
(* (onWorkIsDone ignores reports of jobs that are neither in progress nor  *)
(* done) - under the same conditions.                                      *)
(***************************************************************************)
THEOREM BooksAreRight == Reliable => (ClusterSafety => []BooksMatchWork)
<1> SUFFICES ASSUME Reliable
             PROVE  ClusterSafety => []BooksMatchWork
  OBVIOUS
<1>1. ASSUME ClusterInv, Claimed PROVE BooksMatchWork
  <2>1. SUFFICES ASSUME misled = {}
                 PROVE  \A w \in Workers :
                          /\ executing[w] \cap Jobs \subseteq db.inProgress
                          /\ mode[w] = "waiting" => unacked[w] \in db.inProgress \cup db.done
    BY DEF BooksMatchWork
  <2>2. ASSUME NEW w \in Workers, mode[w] = "waiting"
        PROVE  unacked[w] \in Jobs /\ Finished(w, unacked[w])
    BY <1>1, <2>2 DEF ClusterInv, LocalInv, WorkerInv, Finished
  <2>3. \A w \in Workers, j \in Jobs : OnTheBooks(w, j)
    BY <1>1, <2>1 DEF Claimed, ClaimInv
  <2>4. QED BY <2>2, <2>3 DEF OnTheBooks, Executes
<1>2. QED BY <1>1, ClaimsInvariance, PTL
-----------------------------------------------------------------------------
(***************************************************************************)
(* Recovery: every event that is persisted can be replayed.                *)
(***************************************************************************)
SurvivesInv == poisoned = FALSE /\ status = "running"

LEMMA PersistSurvives ==
  ASSUME SurvivesInv, NEW n, NEW ok, NEW after, Journals(n, ok, after) \/ Persist(n, ok, after), ok
  PROVE  poisoned' = FALSE
BY DEF SurvivesInv, Persist, Journals

LEMMA RestartSurvives ==
  ASSUME Restart, poisoned' = FALSE
  PROVE  SurvivesInv'
BY DEF Restart, SurvivesInv

\* A result of a job that is in progress finds the summary of its tracking id.
LEMMA OpenJobRecords ==
  ASSUME DbInv, NEW j \in db.inProgress
  PROVE  j \in Jobs /\ CanRecord(db, j)
<1>1. Clear \in SUBSET Jobs /\ Sound(db, Clear)
  BY DEF Clear, DbInv
<1>2. j \in Jobs /\ j \in Known(db)
  BY <1>1, SoundJobs
<1>3. QED BY <1>2, JobsAssumption DEF Known, CanRecord, HasSummary

LEMMA RequestSurvives ==
  ASSUME SurvivesInv, durable = db, NEW w \in Workers, onWorkerRequestsWork(w)
  PROVE  SurvivesInv'
<1>1. CASE UNCHANGED <<journal, status>>
  BY <1>1 DEF SurvivesInv, journal
<1>2. CASE FailsOnUnknownWorker(w)
  BY <1>2, RestartSurvives DEF FailsOnUnknownWorker, SurvivesInv, journal
<1>3. ASSUME hasJob(db), Persist(1, CanStart(durable, nextJob(db)), JobStarted(durable, nextJob(db)))
      PROVE  poisoned' = FALSE
  BY <1>3, PersistSurvives DEF CanStart
<1>4. ASSUME hasJob(db), Persist(1, CanPostpone(durable), JobPostponed(durable, nextJob(db)))
      PROVE  poisoned' = FALSE
  BY <1>4, PersistSurvives DEF CanPostpone
<1>5. QED BY <1>1, <1>2, <1>3, <1>4 DEF onWorkerRequestsWork, masterVars, SurvivesInv

\* A verdict on a job in progress that carries its own result, as reports do
\* unless an executor answers without one.
LEMMA VerdictSurvives ==
  ASSUME SurvivesInv, DbInv, durable = db, NEW w \in Workers, NEW j,
         onWorkIsDone(w, j, j) \/ onWorkFailed(w, j, j)
  PROVE  SurvivesInv'
<1>1. CASE UNCHANGED <<journal, status>>
  BY <1>1 DEF SurvivesInv, journal
<1>2. CASE FailsOnUnknownWorker(w)
  BY <1>2, RestartSurvives DEF FailsOnUnknownWorker, SurvivesInv, journal
<1>3. isInProgress(db, j) => CanRecord(db, j)
  BY OpenJobRecords DEF isInProgress
<1>4. ASSUME CanRecord(db, j), NEW after, PersistVerdict(j, j, after)
      PROVE  poisoned' = FALSE
  BY <1>4, PersistSurvives DEF PersistVerdict
<1>5. CASE onWorkIsDone(w, j, j)
  BY <1>1, <1>2, <1>3, <1>4, <1>5 DEF onWorkIsDone, masterVars, SurvivesInv
<1>6. CASE onWorkFailed(w, j, j)
  BY <1>1, <1>2, <1>3, <1>4, <1>6 DEF onWorkFailed, masterVars, SurvivesInv
<1>7. QED BY <1>5, <1>6

LEMMA MasterReceivesSurvives ==
  ASSUME Reliable, ~NullResults, SurvivesInv, TypeInv, LocalInv, misled = {},
         NEW w \in Workers, MasterReceives(w)
  PROVE  SurvivesInv'
<1> DEFINE m == Head(toMaster[w])
<1>1. Own(m) /\ Handles(w, m) /\ Running /\ DbInv /\ durable = db
  BY OwnMail, WholeJournal DEF TypeInv, Reliable
<1> HIDE DEF m
<1>2. CASE UNCHANGED <<journal, status>>
  BY <1>2 DEF SurvivesInv, journal
<1>3. CASE m.type = "WorkIsDone" /\ onWorkIsDone(w, m.body, m.result)
  BY <1>1, <1>3, VerdictSurvives DEF Own
<1>4. CASE m.type = "WorkFailed" /\ onWorkFailed(w, m.body, m.result)
  <2>1. CASE m.body \in Jobs /\ m.result \in Results(m.body)
    BY <1>1, <1>4, <2>1, VerdictSurvives DEF Results
  <2>2. CASE m.body \in Files
    BY <1>1, <1>2, <1>4, <2>2, FileReports DEF masterVars
  <2>3. QED BY <1>1, <1>4, <2>1, <2>2 DEF Own
<1>5. CASE onWorkerRequestsWork(w)
  BY <1>1, <1>5, RequestSurvives
<1>6. CASE onWorkerRequestsFile(w)
  BY <1>2, <1>6, RestartSurvives DEF onWorkerRequestsFile, journal, SurvivesInv
<1>7. CASE \/ onRegisterWorker(w) \/ onWorkInProgress(w, m.body)
           \/ onFileUploadComplete(m.body, HostOf[w])
  BY <1>2, <1>7 DEF onRegisterWorker, onWorkInProgress, onFileUploadComplete
<1>8. QED BY <1>1, <1>3, <1>4, <1>5, <1>6, <1>7 DEF Handles

LEMMA ClientSurvives ==
  ASSUME SurvivesInv, ClientStep
  PROVE  SurvivesInv'
<1>1. ASSUME NEW n, NEW after, Persist(n, TRUE, after)
      PROVE  poisoned' = FALSE
  BY <1>1, PersistSurvives
<1>2. ASSUME NEW j \in Jobs, ClientSendsJob(j)
      PROVE  SurvivesInv'
  BY <1>1, <1>2 DEF ClientSendsJob, onJob, journal, SurvivesInv
<1>3. ASSUME NEW s, processCmdLineJob(s)
      PROVE  SurvivesInv'
  BY <1>1, <1>3 DEF processCmdLineJob, SurvivesInv
<1>4. ASSUME NEW t, NEW cancel, onTrackingInfo(t, cancel)
      PROVE  SurvivesInv'
  BY <1>4 DEF onTrackingInfo, journal, SurvivesInv
<1>5. ASSUME NEW f, onUploadFile(f)
      PROVE  SurvivesInv'
  BY <1>1, <1>5 DEF onUploadFile, SurvivesInv
<1>6. ASSUME NEW s, NEW n, CrashesInBatch(s, n)
      PROVE  SurvivesInv'
  BY <1>1, <1>6, RestartSurvives DEF CrashesInBatch
<1>7. QED BY <1>2, <1>3, <1>4, <1>5, <1>6 DEF ClientStep

\* Entries past their deadline name different jobs that are in progress.
LEMMA CleanupSurvives ==
  ASSUME Reliable, SurvivesInv, TypeInv, BookInv, ClaimInv, onCleanupTick
  PROVE  SurvivesInv'
<1>1. PICK order \in Orders({w \in Overdue : IsBusy(w)}) : TakeBack(order)
  BY DEF onCleanupTick
<1> DEFINE late == [i \in DOMAIN order |-> workers[order[i]].job]
<1>2. WorkersInv /\ DbInv /\ durable = db
  BY WholeJournal DEF TypeInv, Reliable
<1>3. CanTimeOut(db, late) /\ late \in Seq(Jobs)
  BY <1>2, LateInProgress DEF Reliable
<1>4. /\ Persist(Len(late), CanTimeOut(durable, Kept(late)), JobTimedOut(durable, Kept(late)))
      /\ status' = status
  BY <1>1, <1>3 DEF TakeBack
<1> HIDE DEF late
<1>5. CanTimeOut(durable, Kept(late))
  BY <1>2, <1>3, KeptPrefix DEF CanTimeOut
<1>6. QED BY <1>4, <1>5, PersistSurvives DEF SurvivesInv

LEMMA MasterActsSurvives ==
  ASSUME Reliable, SurvivesInv, TypeInv, BookInv, ClaimInv, MasterActs
  PROVE  SurvivesInv'
<1>1. CASE Crash
  BY <1>1, RestartSurvives DEF Crash, journal, SurvivesInv
<1>2. ASSUME NEW w \in Workers, DeadlinePasses(w) \/ Receive(w)
      PROVE  SurvivesInv'
  BY <1>2 DEF DeadlinePasses, Receive, journal, SurvivesInv
<1>3. QED BY <1>1, <1>2, MasterActsStep, ClientSurvives, CleanupSurvives

LEMMA WorkerActsSurvives ==
  ASSUME SurvivesInv, NEW w \in Workers, WorkerActs(w)
  PROVE  SurvivesInv'
<1>1. UNCHANGED <<journal, status>>
  BY DEF WorkerActs, WorkerHandles, ExecutorStep, LoopIsUnheard, Registers, KeepsAlive,
         RepeatsDone, WorkerDies, LosesToMaster, SimulationKilled, masterKeeps
<1>2. QED BY <1>1 DEF SurvivesInv, journal

(***************************************************************************)
(* No event of the journal throws when it is replayed, so a restarted      *)
(* master always recovers (recovery of Master.java, the exceptions thrown  *)
(* by the constructors of JobState.java) - whatever number of crashes,     *)
(* deaths, kills and losses there is, as long as live workers are heard    *)
(* before their deadlines, none took the late answer of an abort loop, and *)
(* every failure carries a result.                                         *)
(***************************************************************************)
THEOREM MasterRecovers ==
  Reliable /\ ~NullResults => (ClusterSafety => []MasterSurvives)
<1> SUFFICES ASSUME Reliable, ~NullResults
             PROVE  ClusterSafety => []MasterSurvives
  OBVIOUS
<1> DEFINE Survives == misled = {} => SurvivesInv
<1>1. ASSUME ClusterInit
      PROVE  Survives
  BY <1>1 DEF ClusterInit, Init, SurvivesInv
<1>2. ASSUME ClusterInv, Claimed, Survives, [ClusterNext]_clusterVars
      PROVE  Survives'
  <2>1. SUFFICES ASSUME misled' = {}
                 PROVE  SurvivesInv'
    OBVIOUS
  <2>2. misled = {} /\ ClaimInv /\ SurvivesInv /\ TypeInv /\ LocalInv /\ BookInv
    BY <1>2, <2>1, MisledStay DEF Claimed, ClusterInv
  <2>3. CASE UNCHANGED clusterVars
    BY <2>2, <2>3 DEF clusterVars, masterVars, journal, SurvivesInv
  <2>4. QED
    BY <1>2, <2>2, <2>3, ClusterCases, MasterActsSurvives, MasterReceivesSurvives,
       WorkerActsSurvives
<1>3. Survives => MasterSurvives
  BY DEF SurvivesInv, MasterSurvives
<1> HIDE DEF Survives
<1>4. QED BY <1>1, <1>2, <1>3, ClaimsInvariance, PTL DEF ClusterSafety
=============================================================================
