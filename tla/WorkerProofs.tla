---------------------------- MODULE WorkerProofs ----------------------------
(***************************************************************************)
(* What a worker promises whatever master is in front of it, and whatever  *)
(* kills its executor's abort loops, for every number of workers, jobs and *)
(* files and every bound on the channels.                                  *)
(*                                                                         *)
(* A report names currentJob, its result the task that ended.  Both are    *)
(* the same while the executor runs the current task and nothing else      *)
(* (OwnInv): a task starts only in the idle behaviour, where then nothing  *)
(* runs.  The late answer of an abort loop ends that; what is left is that *)
(* a report names some task and carries some result (WorkerInv), which is  *)
(* what module Master lets workers say.                                    *)
(***************************************************************************)
EXTENDS Worker, TLAPS

workersVars == <<workerVars, toWorker>>

\* What a master sends: a task has a job or a file.
TaskMessages == [type : {"Job"}, body : Jobs] \cup [type : {"FileJob"}, body : Files]
Sent == Messages({"WorkIsReady", "Ack"}) \cup TaskMessages

Tasks == Jobs \cup Files

\* A report names a task, and a success has a result.
Names(m) ==
  /\ m.type \in {"WorkIsDone", "WorkFailed", "WorkInProgress"} => m.body \in Tasks
  /\ m.type = "WorkIsDone" => m.result \in Jobs
  /\ m.type = "FileUploadComplete" => m.body \in Files

\* The result is of the job it names.
Own(m) ==
  /\ m.type = "WorkIsDone" => m.body = m.result
  /\ m.type = "WorkFailed" => \/ m.body \in Jobs /\ m.result \in Results(m.body)
                              \/ m.body \in Files /\ m.result = NoJob

Types == WorkersTypeOK /\ toWorker \in [Workers -> Seq(Sent)]

WorkerInv(w) ==
  /\ mode[w] \in {"working", "waiting"} \/ executing[w] # {} => currentJob[w] \in Tasks
  /\ mode[w] = "waiting" => unacked[w] \in Jobs
  /\ \A m \in Range(toMaster[w]) : Names(m)

OwnInv(w) ==
  /\ executing[w] = IF mode[w] = "working" THEN {currentJob[w]} ELSE {}
  /\ mode[w] = "waiting" => unacked[w] = currentJob[w]
  /\ \A m \in Range(toMaster[w]) : Own(m)

LocalInv ==
  /\ Types
  /\ \A w \in Workers : WorkerInv(w) /\ (w \notin misled => OwnInv(w))

\* The steps of a worker, its executor, its timers, its master and its channels.
StepOf(w) ==
  \/ WorkerReceives(w) \/ ExecutorAnswers(w)
  \/ RegisterTick(w) \/ KeepAliveTick(w) \/ AckTimeout(w)
  \/ \E j \in Jobs : Killed(w, j) \/ Untold(w, j)
  \/ Dies(w) \/ MasterSends(w) \/ MasterTakes(w)

-----------------------------------------------------------------------------
(***************************************************************************)
(* Channels.                                                               *)
(***************************************************************************)
LEMMA AppendRange ==
  ASSUME NEW S, NEW s \in Seq(S), NEW m
  PROVE  \A x \in Range(Append(s, m)) : x = m \/ x \in Range(s)
BY DEF Range

LEMMA TailRange ==
  ASSUME NEW S, NEW s \in Seq(S), s # <<>>
  PROVE  \A x \in Range(Tail(s)) : x \in Range(s)
<1>1. /\ Tail(s) \in Seq(S) /\ Len(Tail(s)) = Len(s) - 1
      /\ \A i \in 1..Len(Tail(s)) : Tail(s)[i] = s[i + 1] /\ i + 1 \in 1..Len(s)
  OBVIOUS
<1>2. SUFFICES ASSUME NEW i \in DOMAIN Tail(s)
               PROVE  Tail(s)[i] \in Range(s)
  BY DEF Range
<1>3. i \in 1..Len(Tail(s)) /\ DOMAIN s = 1..Len(s)
  BY <1>1
<1>4. QED BY <1>1, <1>3 DEF Range

LEMMA TakenTypes ==
  ASSUME NEW w \in Workers, Types, Taken(w)
  PROVE  /\ toWorker' \in [Workers -> Seq(Sent)]
         /\ Head(toWorker[w]) \in Sent
         /\ \A v \in Workers \ {w} : toWorker'[v] = toWorker[v]
BY DEF Types, Taken

LEMMA TellTypes ==
  ASSUME NEW w \in Workers, Types, NEW m \in Sent, Tell(w, m)
  PROVE  /\ toWorker' \in [Workers -> Seq(Sent)]
         /\ \A v \in Workers \ {w} : toWorker'[v] = toWorker[v]
BY DEF Types, Tell, Put

LEMMA SendTypes ==
  ASSUME NEW w \in Workers, Types, NEW m \in MasterMessages, Send(w, m)
  PROVE  /\ toMaster' \in [Workers -> Seq(MasterMessages)]
         /\ toMaster'[w] = Append(toMaster[w], m)
         /\ \A v \in Workers \ {w} : toMaster'[v] = toMaster[v]
BY DEF Types, WorkersTypeOK, Send

LEMMA SendNames ==
  ASSUME NEW w \in Workers, Types, WorkerInv(w),
         NEW m \in MasterMessages, Names(m), Send(w, m)
  PROVE  \A x \in Range(toMaster'[w]) : Names(x)
BY SendTypes, AppendRange DEF WorkerInv, Types, WorkersTypeOK

LEMMA SendOwn ==
  ASSUME NEW w \in Workers, Types, OwnInv(w),
         NEW m \in MasterMessages, Own(m), Send(w, m)
  PROVE  \A x \in Range(toMaster'[w]) : Own(x)
BY SendTypes, AppendRange DEF OwnInv, Types, WorkersTypeOK

\* A request, of work, of files or to be registered.
LEMMA RequestNames ==
  /\ WorkerRequestsWork \in MasterMessages /\ Names(WorkerRequestsWork) /\ Own(WorkerRequestsWork)
  /\ WorkerRequestsFile \in MasterMessages /\ Names(WorkerRequestsFile) /\ Own(WorkerRequestsFile)
  /\ RegisterWorker \in MasterMessages /\ Names(RegisterWorker) /\ Own(RegisterWorker)
BY DEF Names, Own, WorkerRequestsWork, WorkerRequestsFile, RegisterWorker, Request, MasterMessages

\* Reports of task k.
LEMMA DoneNames ==
  ASSUME NEW k \in Tasks, NEW j \in Jobs
  PROVE  /\ WorkIsDone(k, j) \in MasterMessages /\ Names(WorkIsDone(k, j))
         /\ k = j => Own(WorkIsDone(k, j))
BY DEF Tasks, Names, Own, WorkIsDone, MasterMessages

LEMMA FailedNames ==
  ASSUME NEW k \in Tasks, NEW r \in Jobs \cup {NoJob}
  PROVE  /\ WorkFailed(k, r) \in MasterMessages /\ Names(WorkFailed(k, r))
         /\ k \in Jobs /\ r \in Results(k) => Own(WorkFailed(k, r))
         /\ k \in Files /\ r = NoJob => Own(WorkFailed(k, r))
BY DEF Tasks, Names, Own, WorkFailed, MasterMessages

LEMMA TaskNames ==
  ASSUME NEW k \in Tasks
  PROVE  /\ WorkInProgress(k) \in MasterMessages /\ Names(WorkInProgress(k))
         /\ Own(WorkInProgress(k))
         /\ k \in Files => /\ FileUploadComplete(k) \in MasterMessages
                           /\ Names(FileUploadComplete(k)) /\ Own(FileUploadComplete(k))
BY DEF Tasks, Names, Own, WorkInProgress, FileUploadComplete, MasterMessages

-----------------------------------------------------------------------------
(***************************************************************************)
(* The steps.  Each keeps the types, what WorkerInv says of its worker,    *)
(* and everything of the others.                                           *)
(***************************************************************************)
View(w) == <<mode[w], currentJob[w], executing[w], killed[w], unacked[w], toMaster[w],
             toWorker[w]>>

Sane(w) == WorkerInv(w) /\ (w \notin misled => OwnInv(w))

Preserved(w) ==
  /\ Types'
  /\ Sane(w)'
  /\ \A v \in Workers \ {w} : View(v)' = View(v)
  /\ misled \subseteq misled' /\ misled' \subseteq misled \cup {w}

LEMMA ReceivesKept ==
  ASSUME NEW w \in Workers, Types, Sane(w), WorkerReceives(w)
  PROVE  Preserved(w)
<1>1. CASE OnWorkIsReady(w)
  BY <1>1, RequestNames, TakenTypes, SendTypes, SendNames, SendOwn
     DEF OnWorkIsReady, Receives, abortion, Preserved, Sane, Types, WorkersTypeOK, WorkerInv,
         OwnInv, View
<1>2. CASE OnTask(w)
  <2> DEFINE task == Head(toWorker[w]).body
  <2>1. task \in Tasks
    BY <1>2, TakenTypes DEF OnTask, Receives, Sent, TaskMessages, Messages, Tasks
  <2>2. /\ UNCHANGED <<unacked, toMaster, killed, misled>> /\ toWorker' \in [Workers -> Seq(Sent)]
        /\ \A v \in Workers \ {w} : toWorker'[v] = toWorker[v]
    BY <1>2, TakenTypes DEF OnTask, Receives, abortion
  <2>3. CASE mode[w] = "idle"
    <3>1. /\ mode' = [mode EXCEPT ![w] = "working"]
          /\ currentJob' = [currentJob EXCEPT ![w] = task]
          /\ executing' = [executing EXCEPT ![w] = executing[w] \cup {task}]
      BY <1>2, <2>3 DEF OnTask, Become
    <3> HIDE DEF task
    <3>2. Types' /\ \A v \in Workers \ {w} : View(v)' = View(v)
      BY <2>1, <2>2, <3>1 DEF Types, WorkersTypeOK, View, Tasks
    <3>3. mode'[w] = "working" /\ currentJob'[w] = task /\ executing'[w] = executing[w] \cup {task}
      BY <3>1 DEF Types, WorkersTypeOK
    <3>4. Sane(w)'
      BY <2>1, <2>2, <2>3, <3>3 DEF Sane, WorkerInv, OwnInv
    <3>5. QED BY <2>2, <3>2, <3>4 DEF Preserved
  <2>4. CASE mode[w] # "idle"
    <3>1. UNCHANGED <<mode, currentJob, executing>>
      BY <1>2, <2>4 DEF OnTask
    <3>2. QED
      BY <2>2, <3>1 DEF Preserved, Types, WorkersTypeOK, Sane, WorkerInv, OwnInv, View
  <2>5. QED BY <2>3, <2>4
<1>3. CASE OnAck(w)
  BY <1>3, RequestNames, TakenTypes, SendTypes, SendNames, SendOwn
     DEF OnAck, Become, Receives, abortion, Preserved, Sane, Types, WorkersTypeOK, WorkerInv,
         OwnInv, View
<1>4. QED BY <1>1, <1>2, <1>3 DEF WorkerReceives

\* The end of a task: of the current one, unless the worker was misled.
LEMMA EndsCurrent ==
  ASSUME NEW w \in Workers, Types, Sane(w), NEW k \in Tasks, Ends(w, k)
  PROVE  /\ currentJob[w] \in Tasks
         /\ executing' \in [Workers -> SUBSET Tasks] /\ UNCHANGED <<killed, misled>>
         /\ \A v \in Workers \ {w} : executing'[v] = executing[v]
         /\ w \notin misled => mode[w] = "working" /\ k = currentJob[w] /\ executing'[w] = {}
BY DEF Ends, abortion, Types, WorkersTypeOK, Sane, WorkerInv, OwnInv, Tasks

\* The end of a task that is reported, or of which nobody wants to know.
LEMMA EndPreserves ==
  ASSUME NEW w \in Workers, Types, Sane(w), NEW k \in Tasks, Ends(w, k),
         UNCHANGED <<currentJob, toWorker>>,
         \/ mode[w] # "working" /\ UNCHANGED <<mode, unacked, toMaster>>
         \/ \E m \in MasterMessages :
              /\ Send(w, m) /\ Names(m) /\ (w \notin misled => Own(m))
              /\ \/ Become(w, "idle") /\ UNCHANGED unacked
                 \/ /\ Become(w, "waiting") /\ k \in Jobs
                    /\ unacked' = [unacked EXCEPT ![w] = k]
  PROVE  Preserved(w)
<1>1. /\ currentJob[w] \in Tasks
      /\ executing' \in [Workers -> SUBSET Tasks] /\ UNCHANGED <<killed, misled>>
      /\ \A v \in Workers \ {w} : executing'[v] = executing[v]
      /\ w \notin misled => mode[w] = "working" /\ k = currentJob[w] /\ executing'[w] = {}
  BY EndsCurrent
<1>2. CASE mode[w] # "working" /\ UNCHANGED <<mode, unacked, toMaster>>
  BY <1>1, <1>2 DEF Preserved, Types, WorkersTypeOK, Sane, WorkerInv, OwnInv, View, Tasks
<1>3. ASSUME NEW m \in MasterMessages, Send(w, m), Names(m), w \notin misled => Own(m),
             \/ Become(w, "idle") /\ UNCHANGED unacked
             \/ /\ Become(w, "waiting") /\ k \in Jobs
                /\ unacked' = [unacked EXCEPT ![w] = k]
      PROVE  Preserved(w)
  <2>1. /\ toMaster' \in [Workers -> Seq(MasterMessages)]
        /\ \A v \in Workers \ {w} : toMaster'[v] = toMaster[v]
        /\ \A x \in Range(toMaster'[w]) : Names(x)
        /\ w \notin misled => \A x \in Range(toMaster'[w]) : Own(x)
    BY <1>3, SendTypes, SendNames, SendOwn DEF Sane
  <2>2. /\ mode' \in [Workers -> {"idle", "working", "waiting", "down"}]
        /\ unacked' \in [Workers -> Jobs \cup {NoJob}]
        /\ \A v \in Workers \ {w} : mode'[v] = mode[v] /\ unacked'[v] = unacked[v]
        /\ \/ mode'[w] = "idle"
           \/ mode'[w] = "waiting" /\ unacked'[w] = k /\ k \in Jobs
    BY <1>3 DEF Become, Types, WorkersTypeOK
  <2>3. Types' /\ \A v \in Workers \ {w} : View(v)' = View(v)
    BY <1>1, <2>1, <2>2 DEF Types, WorkersTypeOK, View, Tasks
  <2>4. WorkerInv(w)'
    BY <1>1, <2>1, <2>2 DEF WorkerInv
  <2>5. w \notin misled => OwnInv(w)'
    BY <1>1, <2>1, <2>2 DEF OwnInv
  <2>6. QED BY <1>1, <2>3, <2>4, <2>5 DEF Preserved, Sane
<1>4. QED BY <1>2, <1>3

LEMMA AnswersKept ==
  ASSUME NEW w \in Workers, Types, Sane(w), ExecutorAnswers(w)
  PROVE  Preserved(w)
<1>1. ASSUME NEW j \in Jobs, JobSucceeds(w, j)
      PROVE  Preserved(w)
  <2>1. Ends(w, j) /\ j \in Tasks
    BY <1>1 DEF JobSucceeds, Tasks
  <2> DEFINE m == WorkIsDone(currentJob[w], j)
  <2>2. m \in MasterMessages /\ Names(m) /\ (w \notin misled => Own(m))
    BY <2>1, EndsCurrent, DoneNames
  <2>3. \/ mode[w] # "working" /\ UNCHANGED <<mode, unacked, toMaster>>
        \/ Send(w, m) /\ Become(w, "waiting") /\ unacked' = [unacked EXCEPT ![w] = j]
    BY <1>1 DEF JobSucceeds
  <2>4. UNCHANGED <<currentJob, toWorker>>
    BY <1>1 DEF JobSucceeds
  <2> HIDE DEF m
  <2>5. QED BY <2>1, <2>2, <2>3, <2>4, EndPreserves
<1>2. ASSUME NEW j \in Jobs, NEW r \in Results(j), JobFails(w, j, r)
      PROVE  Preserved(w)
  <2>1. Ends(w, j) /\ j \in Tasks /\ r \in Jobs \cup {NoJob}
    BY <1>2 DEF JobFails, Tasks, Results
  <2> DEFINE m == WorkFailed(currentJob[w], r)
  <2>2. m \in MasterMessages /\ Names(m) /\ (w \notin misled => Own(m))
    BY <1>2, <2>1, EndsCurrent, FailedNames
  <2>3. \/ mode[w] # "working" /\ UNCHANGED <<mode, unacked, toMaster>>
        \/ Send(w, m) /\ Become(w, "idle") /\ UNCHANGED unacked
    BY <1>2 DEF JobFails, OnWorkFailed
  <2>4. UNCHANGED <<currentJob, toWorker>>
    BY <1>2 DEF JobFails, OnWorkFailed
  <2> HIDE DEF m
  <2>5. QED BY <2>1, <2>2, <2>3, <2>4, EndPreserves
<1>3. ASSUME NEW f \in Files, FileStored(w, f)
      PROVE  Preserved(w)
  <2>1. Ends(w, f) /\ f \in Tasks
    BY <1>3 DEF FileStored, Tasks
  <2> DEFINE m == FileUploadComplete(f)
  <2>2. m \in MasterMessages /\ Names(m) /\ Own(m)
    BY <2>1, TaskNames
  <2>3. \/ mode[w] # "working" /\ UNCHANGED <<mode, unacked, toMaster>>
        \/ Send(w, m) /\ Become(w, "idle") /\ UNCHANGED unacked
    BY <1>3 DEF FileStored
  <2>4. UNCHANGED <<currentJob, toWorker>>
    BY <1>3 DEF FileStored
  <2> HIDE DEF m
  <2>5. QED BY <2>1, <2>2, <2>3, <2>4, EndPreserves
<1>4. ASSUME NEW f \in Files, FileFails(w, f)
      PROVE  Preserved(w)
  <2>1. Ends(w, f) /\ f \in Tasks
    BY <1>4 DEF FileFails, Tasks
  <2> DEFINE m == WorkFailed(currentJob[w], NoJob)
  <2>2. m \in MasterMessages /\ Names(m) /\ (w \notin misled => Own(m))
    BY <2>1, EndsCurrent, FailedNames
  <2>3. Send(w, m) /\ Become(w, "idle") /\ UNCHANGED unacked
    BY <1>4 DEF FileFails
  <2>4. UNCHANGED <<currentJob, toWorker>>
    BY <1>4 DEF FileFails
  <2> HIDE DEF m
  <2>5. QED BY <2>1, <2>2, <2>3, <2>4, EndPreserves
<1>5. ASSUME NEW j \in Jobs, LateAnswer(w, j)
      PROVE  Preserved(w)
  <2>1. /\ killed' = [killed EXCEPT ![w] = @ \ {j}]
        /\ UNCHANGED <<executing, toWorker, currentJob, unacked>>
    BY <1>5 DEF LateAnswer, LoopEnds, OnWorkFailed
  <2>2. CASE mode[w] = "working"
    <3>1. misled' = misled \cup {w}
      BY <1>5, <2>2 DEF LateAnswer
    <3>2. currentJob[w] \in Tasks
      BY <2>2 DEF Sane, WorkerInv
    <3>3. Send(w, WorkFailed(currentJob[w], j)) /\ mode' = [mode EXCEPT ![w] = "idle"]
      BY <1>5, <2>2 DEF LateAnswer, OnWorkFailed, Become
    <3>4. /\ toMaster' \in [Workers -> Seq(MasterMessages)]
          /\ \A v \in Workers \ {w} : toMaster'[v] = toMaster[v]
          /\ \A x \in Range(toMaster'[w]) : Names(x)
      BY <3>2, <3>3, FailedNames, SendTypes, SendNames DEF Sane
    <3>5. Types' /\ \A v \in Workers \ {w} : View(v)' = View(v)
      BY <2>1, <3>1, <3>3, <3>4 DEF Types, WorkersTypeOK, View
    <3>6. WorkerInv(w)'
      BY <2>1, <3>2, <3>3, <3>4 DEF WorkerInv, Types, WorkersTypeOK
    <3>7. QED BY <3>1, <3>5, <3>6 DEF Preserved, Sane
  <2>3. CASE mode[w] # "working"
    <3>1. UNCHANGED <<misled, mode, toMaster>>
      BY <1>5, <2>3 DEF LateAnswer, OnWorkFailed
    <3>2. QED
      BY <2>1, <3>1 DEF Preserved, Types, WorkersTypeOK, Sane, WorkerInv, OwnInv, View
  <2>4. QED BY <2>2, <2>3
<1>6. QED BY <1>1, <1>2, <1>3, <1>4, <1>5 DEF ExecutorAnswers

LEMMA TimersKept ==
  ASSUME NEW w \in Workers, Types, Sane(w),
         RegisterTick(w) \/ KeepAliveTick(w) \/ AckTimeout(w)
  PROVE  Preserved(w)
<1>1. PICK m \in MasterMessages : Names(m) /\ (w \notin misled => Own(m)) /\ Send(w, m)
  <2>1. CASE RegisterTick(w)
    BY <2>1, RequestNames DEF RegisterTick
  <2>2. CASE KeepAliveTick(w)
    <3>1. mode[w] = "working" => currentJob[w] \in Tasks
      BY DEF Sane, WorkerInv
    <3>2. QED BY <2>2, <3>1, RequestNames, TaskNames DEF KeepAliveTick
  <2>3. CASE AckTimeout(w)
    <3>1. /\ currentJob[w] \in Tasks /\ unacked[w] \in Jobs
          /\ w \notin misled => unacked[w] = currentJob[w]
      BY <2>3 DEF AckTimeout, Sane, WorkerInv, OwnInv
    <3>2. QED BY <2>3, <3>1, DoneNames DEF AckTimeout
  <2>4. QED BY <2>1, <2>2, <2>3
<1>2. UNCHANGED <<mode, currentJob, executing, killed, misled, unacked, toWorker>>
  BY DEF RegisterTick, KeepAliveTick, AckTimeout, abortion
<1>3. QED
  BY <1>1, <1>2, SendTypes, SendNames, SendOwn
     DEF Preserved, Types, WorkersTypeOK, Sane, WorkerInv, OwnInv, View

LEMMA KillsKept ==
  ASSUME NEW w \in Workers, Types, Sane(w), NEW j \in Jobs, Killed(w, j) \/ Untold(w, j)
  PROVE  Preserved(w)
<1> DEFINE C == {i \in Jobs : TrackingOf[i] \in Cancellable}
<1>1. /\ UNCHANGED <<mode, currentJob, executing, misled, unacked, toMaster, toWorker>>
      /\ \/ killed' = [killed EXCEPT ![w] = killed[w] \cup {j}] /\ j \in C
         \/ killed' = [killed EXCEPT ![w] = killed[w] \ {j}]
  BY DEF Killed, Untold, LoopEnds
<1>2. /\ killed' \in [Workers -> SUBSET C]
      /\ \A v \in Workers \ {w} : killed'[v] = killed[v]
  <2>1. killed \in [Workers -> SUBSET C]
    BY DEF Types, WorkersTypeOK
  <2> HIDE DEF C
  <2>2. QED BY <1>1, <2>1
<1>3. Types' /\ \A v \in Workers \ {w} : View(v)' = View(v)
  BY <1>1, <1>2 DEF Types, WorkersTypeOK, View
<1>4. Sane(w)'
  BY <1>1 DEF Sane, WorkerInv, OwnInv
<1>5. QED BY <1>1, <1>3, <1>4 DEF Preserved

LEMMA OthersKept ==
  ASSUME NEW w \in Workers, Types, Sane(w),
         Dies(w) \/ MasterSends(w) \/ MasterTakes(w)
  PROVE  Preserved(w)
<1>1. CASE Dies(w)
  BY <1>1 DEF Dies, Become, Preserved, Types, WorkersTypeOK, Sane, WorkerInv, OwnInv, View
<1>2. CASE MasterSends(w)
  <2>1. PICK m \in Sent : Tell(w, m)
    BY <1>2 DEF MasterSends, WorkIsReady, Job, Ack, FileJob, Sent, TaskMessages, Messages
  <2>2. QED
    BY <1>2, <2>1, TellTypes
       DEF MasterSends, workerVars, abortion, Preserved, Types, WorkersTypeOK, Sane, WorkerInv,
           OwnInv, View
<1>3. CASE MasterTakes(w)
  <2>1. /\ toMaster' \in [Workers -> Seq(MasterMessages)]
        /\ toMaster'[w] = Tail(toMaster[w])
        /\ \A v \in Workers \ {w} : toMaster'[v] = toMaster[v]
    BY <1>3 DEF MasterTakes, Types, WorkersTypeOK
  <2>2. \A x \in Range(toMaster'[w]) : x \in Range(toMaster[w])
    BY <1>3, <2>1, TailRange DEF MasterTakes, Types, WorkersTypeOK
  <2>3. QED
    BY <1>3, <2>1, <2>2
       DEF MasterTakes, abortion, Preserved, Types, WorkersTypeOK, Sane, WorkerInv, OwnInv, View
<1>4. QED BY <1>1, <1>2, <1>3

LEMMA StepKept ==
  ASSUME NEW w \in Workers, Types, Sane(w), StepOf(w)
  PROVE  Preserved(w)
BY ReceivesKept, AnswersKept, TimersKept, KillsKept, OthersKept DEF StepOf

LEMMA LocalInit == ASSUME WorkersInit PROVE LocalInv
BY DEF WorkersInit, InitWorkers, LocalInv, Types, WorkersTypeOK, WorkerInv, OwnInv, Range

\* A step of one worker keeps the invariant of all.
LEMMA PreservedLocal ==
  ASSUME LocalInv, NEW w \in Workers, Preserved(w)
  PROVE  LocalInv'
<1>1. ASSUME NEW v \in Workers \ {w}
      PROVE  WorkerInv(v)' /\ (v \notin misled' => OwnInv(v)')
  BY <1>1 DEF LocalInv, WorkerInv, OwnInv, Preserved, View
<1>2. QED BY <1>1 DEF Preserved, Sane, LocalInv

LEMMA LocalStutter ==
  ASSUME LocalInv, UNCHANGED workersVars
  PROVE  LocalInv'
BY DEF workersVars, workerVars, abortion, LocalInv, Types, WorkersTypeOK, WorkerInv, OwnInv

LEMMA WorkersInvariance == WorkersSpec => []LocalInv
<1>1. ASSUME WorkersInit PROVE LocalInv
  BY <1>1, LocalInit
<1>2. ASSUME LocalInv, [WorkersNext]_workersVars
      PROVE  LocalInv'
  <2>1. CASE UNCHANGED workersVars
    BY <1>2, <2>1, LocalStutter
  <2>2. ASSUME NEW w \in Workers, StepOf(w)
        PROVE  LocalInv'
    BY <1>2, <2>2, StepKept, PreservedLocal DEF LocalInv, Sane
  <2>3. QED BY <1>2, <2>1, <2>2 DEF WorkersNext, StepOf
<1>3. QED BY <1>1, <1>2, PTL DEF WorkersSpec, workersVars

\* What ResultsHeld says of one worker.
Held(w) ==
  mode[w] = "waiting" =>
    \/ mode'[w] = "waiting" /\ unacked'[w] = unacked[w] /\ unacked[w] = currentJob'[w]
    \/ mode'[w] = "down"
    \/ /\ mode'[w] = "idle"
       /\ toWorker[w] # <<>> /\ Head(toWorker[w]) = Ack(unacked[w])

LEMMA StepHolds ==
  ASSUME NEW w \in Workers, Types, OwnInv(w), StepOf(w), mode[w] = "waiting"
  PROVE  Held(w)
<1> USE DEF Types, WorkersTypeOK, OwnInv
<1>1. executing[w] = {} /\ unacked[w] = currentJob[w] /\ w \in DOMAIN mode
  OBVIOUS
<1>2. CASE OnAck(w)
  <2>1. Head(toWorker[w]).body = currentJob[w] \/ UNCHANGED <<mode, unacked, currentJob>>
    BY <1>2 DEF OnAck
  <2>2. Head(toWorker[w]) \in Messages({"Ack"})
    BY <1>1, <1>2, TakenTypes DEF OnAck, Receives, Sent, TaskMessages, Messages
  <2>3. Head(toWorker[w]).body = currentJob[w] => Head(toWorker[w]) = Ack(unacked[w])
    BY <1>1, <2>2 DEF Messages, Ack
  <2>4. QED
    BY <1>1, <1>2, <2>1, <2>3 DEF OnAck, Receives, Taken, Become, Held
<1>3. CASE Dies(w)
  BY <1>1, <1>3 DEF Dies, Become, Held
<1>4. CASE ExecutorAnswers(w)
  BY <1>1, <1>4 DEF ExecutorAnswers, JobSucceeds, JobFails, LateAnswer, OnWorkFailed, FileStored,
                    FileFails, Ends, Held
<1>5. ASSUME ~OnAck(w), ~Dies(w), ~ExecutorAnswers(w)
      PROVE  UNCHANGED <<mode, unacked, currentJob>>
  BY <1>1, <1>5
     DEF StepOf, WorkerReceives, OnWorkIsReady, OnTask, RegisterTick, KeepAliveTick,
         AckTimeout, Killed, Untold, MasterSends, MasterTakes, workerVars
<1>6. QED BY <1>1, <1>2, <1>3, <1>4, <1>5 DEF Held

-----------------------------------------------------------------------------
(***************************************************************************)
(* The theorems.                                                           *)
(***************************************************************************)
(***************************************************************************)
(* Types, and what the worker's executor runs: the current task, and only  *)
(* while the worker is working - whatever it is sent (the behaviours of    *)
(* Worker.java), until it takes the late answer of an abort loop.          *)
(***************************************************************************)
THEOREM WorkersRunOneTask == WorkersSpec => [](WorkersTypeOK /\ OneTaskAtATime)
<1>1. ASSUME LocalInv PROVE WorkersTypeOK /\ OneTaskAtATime
  BY <1>1 DEF LocalInv, Types, OwnInv, OneTaskAtATime
<1>2. QED BY <1>1, WorkersInvariance, PTL

(***************************************************************************)
(* No report carries the result of another job than the one it names       *)
(* (Worker.java:62, 79), until its worker takes a late answer.             *)
(***************************************************************************)
THEOREM WorkersReportTheirJob == WorkersSpec => []ReportsAreOwn
<1>1. ASSUME LocalInv PROVE ReportsAreOwn
  <2>1. ASSUME NEW w \in Workers \ misled, NEW m \in Range(toMaster[w])
        PROVE  /\ m.type = "WorkIsDone" => m.body = m.result /\ m.body \in Jobs
               /\ m.type = "WorkFailed" /\ m.result # NoJob => m.body = m.result
    BY <1>1 DEF LocalInv, WorkerInv, OwnInv, Names, Own, Results
  <2>2. QED BY <2>1 DEF ReportsAreOwn
<1>2. QED BY <1>1, WorkersInvariance, PTL

(***************************************************************************)
(* A worker holds a result until it has the Ack of its job, or dies        *)
(* (waitForWorkIsDoneAck of Worker.java) - unless it has been misled.      *)
(***************************************************************************)
THEOREM WorkersHoldResults == WorkersSpec => ResultsHeld
<1>1. ASSUME LocalInv, [WorkersNext]_workersVars, NEW w \in Workers \ misled,
             mode[w] = "waiting"
      PROVE  Held(w)
  <2>1. unacked[w] = currentJob[w] /\ OwnInv(w) /\ Sane(w)
    BY <1>1 DEF LocalInv, OwnInv, Sane
  <2>2. CASE UNCHANGED workersVars
    BY <1>1, <2>1, <2>2 DEF workersVars, workerVars, Held
  <2>3. ASSUME NEW v \in Workers, StepOf(v)
        PROVE  Held(w)
    <3>1. CASE v = w
      BY <1>1, <2>1, <2>3, <3>1, StepHolds DEF LocalInv
    <3>2. CASE v # w
      <4>1. View(w)' = View(w)
        BY <1>1, <2>3, <3>2, StepKept DEF Preserved, LocalInv, Sane
      <4>2. QED BY <1>1, <2>1, <4>1 DEF View, Held
    <3>3. QED BY <3>1, <3>2
  <2>4. QED BY <1>1, <2>2, <2>3 DEF WorkersNext, StepOf
<1>2. ASSUME LocalInv, [WorkersNext]_workersVars
      PROVE  \A w \in Workers \ misled : Held(w)
  BY <1>1, <1>2 DEF Held
<1>3. (\A w \in Workers \ misled : Held(w)) =>
        \A w \in Workers \ misled :
          mode[w] = "waiting" =>
            \/ mode'[w] = "waiting" /\ unacked'[w] = unacked[w] /\ unacked[w] = currentJob'[w]
            \/ mode'[w] = "down"
            \/ /\ mode'[w] = "idle"
               /\ toWorker[w] # <<>> /\ Head(toWorker[w]) = Ack(unacked[w])
  BY DEF Held
<1>4. QED
  BY <1>2, <1>3, WorkersInvariance, PTL DEF WorkersSpec, ResultsHeld, workersVars
=============================================================================
