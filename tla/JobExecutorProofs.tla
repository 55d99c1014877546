------------------------- MODULE JobExecutorProofs -------------------------
(***************************************************************************)
(* Proofs about the workers with their real executors (module JobExecutor) *)
(* in front of any master, for every number of jobs, files and workers.    *)
(*                                                                         *)
(* Each step is one of Worker, or changes nothing Worker knows; so what    *)
(* WorkerProofs shows of the workers holds with these executors.  What is  *)
(* left is what Worker cannot see: that the tasks in the mailbox of the    *)
(* actor, in its hands and on its threads are together what its worker     *)
(* takes for executing.  For that to be inductive, a task that waits must  *)
(* wait once and not have begun (QueueInv): it begins when nobody looks.   *)
(***************************************************************************)
EXTENDS JobExecutor, WorkerProofs

Runs == {"none", "preparing", "running", "ended", "killed"}
PollStages == {"none", "killing", "late"}

ActorTypes ==
  /\ inbox \in [Workers -> Seq(Jobs \cup Files)]
  /\ handling \in [Workers -> Jobs \cup Files \cup {NoJob}]
  /\ run \in [Workers -> [Jobs -> Runs]]
  /\ loops \in [Workers -> SUBSET Jobs]
  /\ poll \in [Workers -> [Jobs -> PollStages]]
  /\ failedLoops \in [Workers -> SUBSET Jobs]
  /\ cancelled \subseteq Cancellable

\* What waits is executing, waits once, and has not begun.
Waits(w) ==
  /\ \A i \in 1..Len(inbox[w]) : /\ inbox[w][i] \in executing[w] \ Active(w)
                                 /\ inbox[w][i] # handling[w]
  /\ \A i, k \in 1..Len(inbox[w]) : i # k => inbox[w][i] # inbox[w][k]

\* What has begun is executing, and what is executing waits or has begun.
Begun(w) ==
  /\ Active(w) \subseteq executing[w]
  /\ handling[w] \in Files => handling[w] \in executing[w]
  /\ \A task \in executing[w] :
       \/ \E i \in 1..Len(inbox[w]) : task = inbox[w][i]
       \/ task \in Active(w) \/ (task \in Files /\ task = handling[w])

QueueInv(w) ==
  IF mode[w] = "down"
  THEN inbox[w] = <<>> /\ handling[w] = NoJob
  ELSE Waits(w) /\ Begun(w)

PollInv(w) ==
  \A j \in Jobs : /\ poll[w][j] = "killing" => TrackingOf[j] \in Cancellable
                  /\ poll[w][j] = "late" => j \in killed[w]

ExecutorInv ==
  /\ LocalInv
  /\ ActorTypes
  /\ \A w \in Workers : QueueInv(w) /\ PollInv(w)

AgentView(w) == <<inbox[w], handling[w], run[w], poll[w]>>

-----------------------------------------------------------------------------
(***************************************************************************)
(* Types.                                                                  *)
(***************************************************************************)
LEMMA NestedTypes ==
  ASSUME NEW S, NEW f, f \in [Workers -> [Jobs -> S]],
         NEW w \in Workers, NEW j \in Jobs, NEW value \in S, NEW g, g = Set(f, w, j, value)
  PROVE  /\ g \in [Workers -> [Jobs -> S]]
         /\ g[w][j] = value
         /\ \A k \in Jobs \ {j} : g[w][k] = f[w][k]
         /\ \A v \in Workers \ {w} : g[v] = f[v]
BY DEF Set

\* What an agent may do to run and poll.
LEMMA RunTypes ==
  ASSUME ActorTypes, NEW w \in Workers, NEW j \in Jobs,
         NEW value \in Runs,
         run' = Set(run, w, j, value)
  PROVE  /\ run' \in [Workers -> [Jobs -> Runs]]
         /\ run'[w][j] = value
         /\ \A k \in Jobs \ {j} : run'[w][k] = run[w][k]
         /\ \A v \in Workers \ {w} : run'[v] = run[v]
<1>1. run \in [Workers -> [Jobs -> Runs]]
  BY DEF ActorTypes
<1>2. QED BY <1>1 DEF Set

LEMMA PollTypes ==
  ASSUME ActorTypes, NEW w \in Workers, NEW j \in Jobs,
         NEW value \in PollStages, poll' = Set(poll, w, j, value)
  PROVE  /\ poll' \in [Workers -> [Jobs -> PollStages]]
         /\ poll'[w][j] = value
         /\ \A k \in Jobs \ {j} : poll'[w][k] = poll[w][k]
         /\ \A v \in Workers \ {w} : poll'[v] = poll[v]
<1>1. poll \in [Workers -> [Jobs -> PollStages]]
  BY DEF ActorTypes
<1>2. QED BY <1>1 DEF Set

AgentAlone(w) == ActorTypes' /\ \A v \in Workers \ {w} : AgentView(v)' = AgentView(v)

LEMMA TakesTaskTypes ==
  ASSUME Types, ActorTypes, NEW w \in Workers, TakesTask(w)
  PROVE  AgentAlone(w)
<1> DEFINE task == Head(toWorker[w]).body
<1>1. task \in Jobs \cup Files
  BY TakenTypes DEF TakesTask, OnTask, Receives, Sent, TaskMessages, Messages
<1>2. inbox' = inbox \/ inbox' = [inbox EXCEPT ![w] = Append(@, task)]
  BY DEF TakesTask
<1> HIDE DEF task
<1>3. /\ inbox' \in [Workers -> Seq(Jobs \cup Files)]
      /\ \A v \in Workers \ {w} : inbox'[v] = inbox[v]
  <2>1. inbox \in [Workers -> Seq(Jobs \cup Files)] /\ Append(inbox[w], task) \in Seq(Jobs \cup Files)
    BY <1>1 DEF ActorTypes
  <2>2. QED BY <1>2, <2>1
<1>4. QED BY <1>3 DEF TakesTask, ActorTypes, AgentAlone, AgentView, abortVars

LEMMA HandlesTypes ==
  ASSUME ActorTypes, NEW w \in Workers, Handles(w)
  PROVE  AgentAlone(w)
<1> DEFINE task == Head(inbox[w])
<1>1. /\ inbox[w] \in Seq(Jobs \cup Files) /\ inbox[w] # <<>>
      /\ inbox' = [inbox EXCEPT ![w] = Tail(@)]
      /\ handling' = [handling EXCEPT ![w] = task]
      /\ UNCHANGED <<poll, cancelled>>
  BY DEF Handles, ActorTypes
<1>2. task \in Jobs \cup Files /\ Tail(inbox[w]) \in Seq(Jobs \cup Files)
  BY <1>1
<1>3. /\ task \in Jobs => /\ run' = Set(run, w, task, "preparing")
                          /\ loops' = [loops EXCEPT ![w] = @ \cup {task}]
                          /\ failedLoops' = [failedLoops EXCEPT ![w] = @ \ {task}]
      /\ task \notin Jobs => UNCHANGED <<run, loops, failedLoops>>
  BY DEF Handles
<1> HIDE DEF task
<1>4. /\ run' \in [Workers -> [Jobs -> Runs]]
      /\ \A v \in Workers \ {w} : run'[v] = run[v]
  <2>1. "preparing" \in Runs
    BY DEF Runs
  <2>2. QED BY <1>3, <2>1, RunTypes DEF ActorTypes
<1>5. loops' \in [Workers -> SUBSET Jobs] /\ failedLoops' \in [Workers -> SUBSET Jobs]
  <2>1. loops \in [Workers -> SUBSET Jobs] /\ failedLoops \in [Workers -> SUBSET Jobs]
    BY DEF ActorTypes
  <2>2. CASE task \in Jobs
    <3>1. loops' \in [Workers -> SUBSET Jobs]
      BY <1>3, <2>1, <2>2
    <3>2. failedLoops' \in [Workers -> SUBSET Jobs]
      BY <1>3, <2>1, <2>2
    <3>3. QED BY <3>1, <3>2
  <2>3. QED BY <1>3, <2>1, <2>2
<1>6. QED BY <1>1, <1>2, <1>4, <1>5 DEF ActorTypes, AgentAlone, AgentView

\* The simulation, the abort loop and its answers leave the mailbox alone.
LEMMA ThreadTypes ==
  ASSUME ActorTypes, NEW w \in Workers, NEW j \in Jobs,
         UNCHANGED <<inbox, handling, failedLoops, cancelled>>,
         run' = run \/ \E value \in Runs : run' = Set(run, w, j, value),
         poll' = poll \/ \E value \in PollStages : poll' = Set(poll, w, j, value),
         loops' = loops \/ StopsLoop(w, j)
  PROVE  AgentAlone(w)
<1>1. /\ run' \in [Workers -> [Jobs -> Runs]]
      /\ \A v \in Workers \ {w} : run'[v] = run[v]
  BY RunTypes DEF ActorTypes
<1>2. /\ poll' \in [Workers -> [Jobs -> PollStages]]
      /\ \A v \in Workers \ {w} : poll'[v] = poll[v]
  BY PollTypes DEF ActorTypes
<1>3. loops' \in [Workers -> SUBSET Jobs]
  <2>1. loops \in [Workers -> SUBSET Jobs]
    BY DEF ActorTypes
  <2>2. QED BY <2>1 DEF StopsLoop
<1>4. QED BY <1>1, <1>2, <1>3 DEF ActorTypes, AgentAlone, AgentView

\* The steps of the threads around the actor.
Threads(w, j) ==
  \/ Answers(w, j) \/ AnswersLate(w, j)
  \/ StartsProcess(w, j) \/ ProcessEnds(w, j)
  \/ PollFindsCancelled(w, j) \/ Kills(w, j) \/ KillFails(w, j) \/ Tells(w, j)

LEMMA ThreadsTypes ==
  ASSUME ActorTypes, NEW w \in Workers, NEW j \in Jobs, Threads(w, j)
  PROVE  AgentAlone(w)
<1> USE DEF Runs, PollStages
<1>1. CASE Answers(w, j)
  BY <1>1, ThreadTypes DEF Answers, actorVars
<1>2. CASE AnswersLate(w, j)
  BY <1>2, ThreadTypes DEF AnswersLate, Polls
<1>3. CASE StartsProcess(w, j) \/ ProcessEnds(w, j)
  BY <1>3, ThreadTypes DEF StartsProcess, ProcessEnds, Process, actorVars, abortVars
<1>4. CASE PollFindsCancelled(w, j) \/ Kills(w, j) \/ KillFails(w, j) \/ Tells(w, j)
  BY <1>4, ThreadTypes DEF PollFindsCancelled, Kills, KillFails, Tells, Polls
<1>5. QED BY <1>1, <1>2, <1>3, <1>4 DEF Threads

\* Everything an agent, its master and its channels do.
AgentStep(w) ==
  \/ WorkerActs(w) \/ ExecutorActs(w) \/ AgentDies(w) \/ MasterIssues(w)
  \/ MasterTakes(w) /\ UNCHANGED executorVars

\* Nothing happens in the executor.
Outside(w) ==
  /\ OnAck(w) \/ AckTimeout(w) \/ MasterSends(w) \/ MasterTakes(w)
  /\ UNCHANGED executorVars

LEMMA AgentCases ==
  ASSUME NEW w \in Workers, AgentStep(w)
  PROVE  \/ TakesTask(w) \/ AnswersFile(w) \/ Handles(w) \/ JobHandled(w) \/ AgentDies(w)
         \/ \E j \in Jobs : Threads(w, j)
         \/ Outside(w)
BY DEF AgentStep, WorkerActs, ExecutorActs, Threads, MasterIssues, MasterSends, Outside

LEMMA AgentTypes ==
  ASSUME Types, ActorTypes, NEW w \in Workers, AgentStep(w)
  PROVE  AgentAlone(w)
<1>1. CASE AnswersFile(w)
  <2>1. failedLoops' = failedLoops \/ failedLoops' = [failedLoops EXCEPT ![w] = Jobs]
    BY <1>1 DEF AnswersFile
  <2>2. failedLoops' \in [Workers -> SUBSET Jobs]
    BY <2>1 DEF ActorTypes
  <2>3. QED BY <1>1, <2>2 DEF AnswersFile, ActorTypes, AgentAlone, AgentView, abortVars
<1>2. CASE JobHandled(w)
  BY <1>2 DEF JobHandled, ActorTypes, AgentAlone, AgentView, abortVars
<1>3. CASE AgentDies(w)
  <2>1. /\ inbox' \in [Workers -> Seq(Jobs \cup Files)]
        /\ handling' \in [Workers -> Jobs \cup Files \cup {NoJob}]
        /\ loops' \in [Workers -> SUBSET Jobs]
        /\ UNCHANGED <<failedLoops, cancelled>>
    BY <1>3 DEF AgentDies, ActorTypes
  <2>2. "none" \in Runs /\ "running" \in Runs /\ "none" \in PollStages
    BY DEF Runs, PollStages
  <2>3. run' \in [Workers -> [Jobs -> Runs]] /\ poll' \in [Workers -> [Jobs -> PollStages]]
    BY <1>3, <2>2 DEF AgentDies, ActorTypes
  <2>4. QED BY <1>3, <2>1, <2>3 DEF AgentDies, ActorTypes, AgentAlone, AgentView
<1>4. CASE Outside(w)
  BY <1>4 DEF Outside, executorVars, actorVars, abortVars, ActorTypes, AgentAlone, AgentView
<1>5. QED
  BY <1>1, <1>2, <1>3, <1>4, AgentCases, TakesTaskTypes, HandlesTypes, ThreadsTypes

-----------------------------------------------------------------------------
(***************************************************************************)
(* Every step is one of Worker, or changes nothing Worker knows.           *)
(***************************************************************************)
\* The answers and the timers of Worker come when the channel has room.
Moves(w) ==
  \/ Len(toMaster[w]) < MasterCap /\ (OnTask(w) \/ OnAck(w) \/ AckTimeout(w) \/ ExecutorAnswers(w))
  \/ \E j \in Jobs : Killed(w, j) \/ Untold(w, j)
  \/ Dies(w) \/ MasterSends(w) \/ MasterTakes(w)

LEMMA AgentMoves ==
  ASSUME NEW w \in Workers, AgentStep(w)
  PROVE  Moves(w) \/ UNCHANGED workersVars
<1> USE DEF workersVars
<1>1. CASE WorkerActs(w)
  <2>1. ASSUME NEW j \in Jobs, Answers(w, j)
        PROVE  ExecutorAnswers(w)
    BY <2>1 DEF Answers, ExecutorAnswers, Results
  <2>2. ASSUME NEW j \in Jobs, AnswersLate(w, j)
        PROVE  ExecutorAnswers(w)
    BY <2>2 DEF AnswersLate, ExecutorAnswers
  <2>3. ASSUME AnswersFile(w)
        PROVE  ExecutorAnswers(w)
    BY <2>3 DEF AnswersFile, ExecutorAnswers
  <2>4. QED BY <1>1, <2>1, <2>2, <2>3 DEF WorkerActs, TakesTask, Moves, ExecutorAnswers
<1>2. CASE ExecutorActs(w)
  BY <1>2 DEF ExecutorActs, Moves, Handles, JobHandled, StartsProcess, ProcessEnds, Process,
              PollFindsCancelled, Kills, KillFails, Tells
<1>3. CASE AgentDies(w) \/ MasterIssues(w) \/ MasterTakes(w)
  BY <1>3 DEF AgentDies, MasterIssues, MasterSends, Moves
<1>4. QED BY <1>1, <1>2, <1>3 DEF AgentStep

LEMMA MovesAreSteps ==
  ASSUME NEW w \in Workers, Moves(w)
  PROVE  StepOf(w) /\ WorkersNext
BY DEF Moves, StepOf, WorkersNext, WorkerReceives

\* Users, the master that forgets their requests, and stuttering.
LEMMA ExecutorNextCases ==
  ASSUME [ExecutorNext]_allVars
  PROVE  \/ \E w \in Workers : AgentStep(w)
         \/ /\ UNCHANGED <<workersVars, actorVars, run, abortVars>>
            /\ cancelled \subseteq Cancellable => cancelled' \subseteq Cancellable
<1> USE DEF workersVars
<1>1. CASE UNCHANGED allVars
  BY <1>1 DEF allVars, executorVars
<1>2. CASE MasterForgets \/ \E t \in Cancellable : Cancels(t)
  BY <1>2 DEF MasterForgets, Cancels
<1>3. QED BY <1>1, <1>2 DEF ExecutorNext, AgentStep

(***************************************************************************)
(* The executors of JarExecutor.java are those the workers of Worker are   *)
(* shown correct with: every answer, late ones included, is one that       *)
(* module lets an executor give at that moment.                            *)
(***************************************************************************)
THEOREM ExecutorImplementsWorker == ExecutorSafety => ImplementsWorker
<1>1. ExecutorInit => WorkersInit
  BY DEF ExecutorInit
<1>2. [ExecutorNext]_allVars => [WorkersNext]_workersVars
  BY ExecutorNextCases, AgentMoves, MovesAreSteps
<1>3. QED BY <1>1, <1>2, PTL DEF ExecutorSafety, ImplementsWorker, WorkersSpec, workersVars

-----------------------------------------------------------------------------
(***************************************************************************)
(* What the executor has of its worker's tasks.                            *)
(***************************************************************************)
\* Neither the mailbox nor what has begun nor what is executing changes.
LEMMA SameQueue ==
  ASSUME NEW w \in Workers, QueueInv(w),
         UNCHANGED <<inbox[w], handling[w], executing[w], Active(w)>>,
         mode'[w] = "down" <=> mode[w] = "down"
  PROVE  QueueInv(w)'
BY DEF QueueInv, Waits, Begun

\* A task that has begun is answered.
LEMMA AnsweredQueue ==
  ASSUME Types, NEW w \in Workers, QueueInv(w), mode[w] # "down", mode'[w] # "down", NEW task,
         \/ task \in Active(w) /\ UNCHANGED handling[w]
         \/ task \in Files /\ task = handling[w] /\ handling'[w] = NoJob,
         executing'[w] = executing[w] \ {task}, Active(w)' = Active(w) \ {task},
         UNCHANGED inbox[w]
  PROVE  QueueInv(w)'
<1>1. Waits(w) /\ Begun(w)
  BY DEF QueueInv
<1>2. \A i \in 1..Len(inbox[w]) : inbox[w][i] # task
  BY <1>1 DEF Waits
<1>3. Active(w) \subseteq Jobs /\ Files \cap Jobs = {} /\ NoJob \notin Jobs \cup Files
  BY ProtocolAssumption, JobsAssumption DEF Active
<1>4. Begun(w)'
  BY <1>1, <1>2, <1>3 DEF Begun
<1>5. Waits(w)'
  <2>1. NoJob \notin executing[w]
    BY <1>3 DEF Types, WorkersTypeOK
  <2>2. QED BY <1>1, <1>2, <2>1 DEF Waits
<1>6. QED BY <1>4, <1>5 DEF QueueInv

\* The idle worker tells its executor a task that is over there.
LEMMA TakesTaskQueue ==
  ASSUME Types, ActorTypes, NEW w \in Workers, QueueInv(w), TakesTask(w)
  PROVE  QueueInv(w)'
<1> DEFINE task == Head(toWorker[w]).body
<1>1. UNCHANGED <<handling, run>>
  BY DEF TakesTask
<1>2. CASE mode[w] = "idle"
  <2>1. /\ mode'[w] # "down" /\ executing'[w] = executing[w] \cup {task}
        /\ task \notin executing[w]
        /\ inbox' = [inbox EXCEPT ![w] = Append(@, task)] /\ Over(w, task)
    BY <1>2 DEF TakesTask, OnTask, Become, Types, WorkersTypeOK
  <2>2. Waits(w) /\ Begun(w)
    BY <1>2 DEF QueueInv
  <2> DEFINE n == Len(inbox[w])
  <2>3. inbox[w] \in Seq(Jobs \cup Files) /\ n \in Nat
    BY DEF ActorTypes
  <2>4. inbox'[w] = Append(inbox[w], task)
    BY <2>1 DEF ActorTypes
  <2>5. /\ task \notin Range(inbox[w]) /\ task # handling[w] /\ task \notin Active(w)
    BY <2>1 DEF Over, Active
  <2> HIDE DEF task
  <2>6. /\ Len(inbox'[w]) = n + 1 /\ inbox'[w][n + 1] = task
        /\ \A i \in 1..n : inbox'[w][i] = inbox[w][i] /\ inbox[w][i] # task
    BY <2>3, <2>4, <2>5 DEF Range
  <2>7. Active(w)' = Active(w)
    BY <1>1 DEF Active
  <2>8. \A i \in 1..Len(inbox'[w]) : i \in 1..n \/ i = n + 1
    BY <2>3, <2>6
  <2>9. Waits(w)'
    <3>1. \A i \in 1..Len(inbox'[w]) : /\ inbox'[w][i] \in executing'[w] \ Active(w)'
                                       /\ inbox'[w][i] # handling'[w]
      BY <1>1, <2>1, <2>2, <2>5, <2>6, <2>7, <2>8 DEF Waits
    <3>2. \A i, k \in 1..Len(inbox'[w]) : i # k => inbox'[w][i] # inbox'[w][k]
      BY <2>2, <2>6, <2>8 DEF Waits
    <3>3. QED BY <3>1, <3>2 DEF Waits
  <2>10. Begun(w)'
    <3>1. \A t \in executing'[w] :
            \/ \E i \in 1..Len(inbox'[w]) : t = inbox'[w][i]
            \/ t \in Active(w)' \/ (t \in Files /\ t = handling'[w])
      <4>1. 1..n \subseteq 1..(n + 1) /\ n + 1 \in 1..(n + 1)
        BY <2>3
      <4>2. QED BY <1>1, <2>1, <2>2, <2>6, <2>7, <4>1 DEF Begun
    <3>2. QED BY <1>1, <2>1, <2>2, <2>7, <3>1 DEF Begun
  <2>11. QED BY <2>1, <2>9, <2>10 DEF QueueInv
<1>3. CASE mode[w] # "idle"
  <2>1. UNCHANGED <<inbox, executing, mode>>
    BY <1>3 DEF TakesTask, OnTask
  <2>2. Active(w)' = Active(w)
    BY <1>1 DEF Active
  <2>3. QED BY <1>1, <2>1, <2>2, SameQueue
<1>4. QED BY <1>2, <1>3

\* What waited longest has begun.
LEMMA HandlesQueue ==
  ASSUME Types, ActorTypes, NEW w \in Workers, QueueInv(w), Handles(w)
  PROVE  QueueInv(w)'
<1> DEFINE task == Head(inbox[w])
           n == Len(inbox[w])
<1>1. /\ inbox[w] # <<>> /\ mode[w] # "down" /\ handling[w] = NoJob
      /\ UNCHANGED <<mode, executing>>
      /\ inbox' = [inbox EXCEPT ![w] = Tail(@)] /\ handling' = [handling EXCEPT ![w] = task]
      /\ task \in Jobs => run' = Set(run, w, task, "preparing")
      /\ task \notin Jobs => run' = run
  BY DEF Handles, workerVars
<1>2. Waits(w) /\ Begun(w)
  BY <1>1 DEF QueueInv
<1>3. inbox[w] \in Seq(Jobs \cup Files) /\ n \in Nat \ {0} /\ task = inbox[w][1]
  BY <1>1 DEF ActorTypes
<1>4. /\ inbox'[w] = Tail(inbox[w]) /\ handling'[w] = task /\ task \in Jobs \cup Files
  BY <1>1, <1>3 DEF ActorTypes
<1>5. /\ Len(inbox'[w]) = n - 1
      /\ \A i \in 1..(n - 1) : inbox'[w][i] = inbox[w][i + 1]
  BY <1>3, <1>4
<1>6. Active(w)' = Active(w) \cup (Jobs \cap {task})
  <2>1. CASE task \in Jobs
    <3> HIDE DEF task
    <3>1. run'[w][task] = "preparing" /\ \A k \in Jobs \ {task} : run'[w][k] = run[w][k]
      BY <1>1, <2>1, RunTypes DEF Runs
    <3>2. QED BY <2>1, <3>1 DEF Active
  <2>2. CASE task \notin Jobs
    BY <1>1, <2>2 DEF Active
  <2>3. QED BY <2>1, <2>2
<1> HIDE DEF task, n
<1>7. \A i \in 1..(n - 1) : i + 1 \in 1..n /\ i + 1 # 1 /\ 1 \in 1..n
  BY <1>3
<1>8. \A i \in 1..n : i = 1 \/ \E k \in 1..(n - 1) : i = k + 1
  <2>1. \A i \in 1..n : i = 1 \/ (i - 1 \in 1..(n - 1) /\ i = (i - 1) + 1)
    BY <1>3
  <2>2. QED BY <2>1
<1>9. NoJob \notin Files
  BY ProtocolAssumption
<1>10. Waits(w)'
  <2>1. \A i \in 1..(n - 1) : inbox'[w][i] \in executing'[w] \ Active(w)' /\ inbox'[w][i] # task
    BY <1>1, <1>2, <1>3, <1>5, <1>6, <1>7 DEF Waits, n
  <2>2. \A i, k \in 1..(n - 1) : i # k => inbox'[w][i] # inbox'[w][k]
    <3>1. \A i, k \in 1..(n - 1) : i # k => i + 1 # k + 1
      BY <1>3
    <3>2. QED BY <1>2, <1>5, <1>7, <3>1 DEF Waits, n
  <2>3. QED BY <1>4, <1>5, <2>1, <2>2 DEF Waits
<1>11. Begun(w)'
  <2>1. task \in executing[w]
    BY <1>2, <1>3, <1>7 DEF Waits, n
  <2>2. ASSUME NEW t \in executing[w]
        PROVE  \/ \E i \in 1..Len(inbox'[w]) : t = inbox'[w][i]
               \/ t \in Active(w)' \/ (t \in Files /\ t = handling'[w])
    <3>1. CASE \E i \in 1..n : t = inbox[w][i]
      BY <1>3, <1>4, <1>5, <1>6, <1>8, <3>1
    <3>2. CASE t \in Active(w) \/ (t \in Files /\ t = handling[w])
      BY <1>1, <1>6, <1>9, <3>2
    <3>3. QED BY <1>2, <2>2, <3>1, <3>2 DEF Begun, n
  <2>3. QED BY <1>1, <1>2, <1>4, <1>6, <2>1, <2>2 DEF Begun
<1>12. QED BY <1>1, <1>10, <1>11 DEF QueueInv

\* The actor is done with its message, its thread with a simulation.
LEMMA AnswersQueue ==
  ASSUME Types, ActorTypes, NEW w \in Workers, QueueInv(w),
         AnswersFile(w) \/ \E j \in Jobs : Answers(w, j)
  PROVE  QueueInv(w)'
<1>1. Files \cap Jobs = {} /\ NoJob \notin Jobs \cup Files
  BY ProtocolAssumption, JobsAssumption
<1>2. CASE AnswersFile(w)
  <2>1. /\ handling[w] \in Files /\ Ends(w, handling[w]) /\ handling'[w] = NoJob
        /\ UNCHANGED <<inbox, run>>
        /\ mode' = mode \/ Become(w, "idle")
    BY <1>2 DEF AnswersFile, FileStored, FileFails, ActorTypes
  <2>2. mode[w] # "down" /\ mode'[w] # "down"
    BY <1>1, <2>1 DEF QueueInv, Become, Types, WorkersTypeOK
  <2>3. executing'[w] = executing[w] \ {handling[w]}
    BY <2>1 DEF Ends, Types, WorkersTypeOK
  <2>4. Active(w)' = Active(w) /\ handling[w] \notin Active(w)
    BY <1>1, <2>1 DEF Active
  <2>5. QED BY <1>1, <2>1, <2>2, <2>3, <2>4, AnsweredQueue
<1>3. ASSUME NEW j \in Jobs, Answers(w, j)
      PROVE  QueueInv(w)'
  <2>1. /\ run[w][j] # "none" /\ Ends(w, j) /\ run' = Set(run, w, j, "none")
        /\ UNCHANGED <<inbox, handling>>
        /\ mode' = mode \/ (mode[w] = "working" /\ (Become(w, "idle") \/ Become(w, "waiting")))
    BY <1>3 DEF Answers, JobSucceeds, JobFails, OnWorkFailed, actorVars
  <2>2. j \in executing[w] /\ executing'[w] = executing[w] \ {j}
    BY <2>1 DEF Ends, Types, WorkersTypeOK
  <2>3. run'[w][j] = "none" /\ \A k \in Jobs \ {j} : run'[w][k] = run[w][k]
    BY <2>1, RunTypes DEF Runs
  <2>4. j \in Active(w) /\ Active(w)' = Active(w) \ {j}
    BY <2>1, <2>3 DEF Active
  <2>5. CASE mode[w] = "down"
    BY <2>1, <2>5 DEF QueueInv
  <2>6. CASE mode[w] # "down"
    <3>1. mode'[w] # "down"
      BY <2>1, <2>6 DEF Become, Types, WorkersTypeOK
    <3>2. QED BY <2>1, <2>2, <2>4, <2>6, <3>1, AnsweredQueue
  <2>7. QED BY <2>5, <2>6
<1>4. QED BY <1>2, <1>3

\* A simulation that has begun goes on, or is killed; loops poll.
LEMMA ThreadsQueue ==
  ASSUME Types, ActorTypes, NEW w \in Workers, QueueInv(w), NEW j \in Jobs, Threads(w, j)
  PROVE  QueueInv(w)'
<1>1. CASE Answers(w, j)
  BY <1>1, AnswersQueue
<1>2. CASE AnswersLate(w, j)
  <2>1. UNCHANGED <<inbox, handling, executing, run>>
    BY <1>2 DEF AnswersLate, Polls, LateAnswer
  <2>2. mode'[w] = "down" <=> mode[w] = "down"
    BY <1>2 DEF AnswersLate, LateAnswer, OnWorkFailed, Become, Types, WorkersTypeOK
  <2>3. Active(w)' = Active(w)
    BY <2>1 DEF Active
  <2>4. QED BY <2>1, <2>2, <2>3, SameQueue
<1>3. CASE ~Answers(w, j) /\ ~AnswersLate(w, j)
  <2>1. /\ UNCHANGED <<inbox, handling, executing, mode>>
        /\ run' = run \/ \E to \in Runs \ {"none"} : /\ run[w][j] # "none"
                                                    /\ run' = Set(run, w, j, to)
    BY <1>3 DEF Threads, StartsProcess, ProcessEnds, Process, PollFindsCancelled, Kills,
                KillFails, Tells, Polls, Killed, Untold, workerVars, actorVars, Runs
  <2>2. Active(w)' = Active(w)
    <3>1. CASE run' = run
      BY <3>1 DEF Active
    <3>2. ASSUME NEW to \in Runs \ {"none"}, run[w][j] # "none", run' = Set(run, w, j, to)
          PROVE  Active(w)' = Active(w)
      <4>1. run'[w][j] = to /\ \A k \in Jobs \ {j} : run'[w][k] = run[w][k]
        BY <3>2, RunTypes
      <4>2. QED BY <3>2, <4>1 DEF Active
    <3>3. QED BY <2>1, <3>1, <3>2
  <2>3. QED BY <2>1, <2>2, SameQueue
<1>4. QED BY <1>1, <1>2, <1>3

LEMMA QueueKept ==
  ASSUME Types, ActorTypes, NEW w \in Workers, QueueInv(w), AgentStep(w)
  PROVE  QueueInv(w)'
<1>1. CASE JobHandled(w)
  <2>1. /\ UNCHANGED <<mode, executing, inbox, run>> /\ handling'[w] = NoJob
        /\ handling[w] \notin Files
    BY <1>1, ProtocolAssumption DEF JobHandled, workerVars, ActorTypes
  <2>2. NoJob \notin executing[w]
    BY ProtocolAssumption, JobsAssumption DEF Types, WorkersTypeOK
  <2>3. Active(w)' = Active(w) /\ NoJob \notin Files
    BY <2>1, ProtocolAssumption DEF Active
  <2>4. QED BY <2>1, <2>2, <2>3 DEF QueueInv, Waits, Begun
<1>2. CASE AgentDies(w)
  BY <1>2 DEF AgentDies, Dies, Become, Types, WorkersTypeOK, ActorTypes, QueueInv
<1>3. CASE Outside(w)
  <2>1. UNCHANGED <<executing, inbox, handling, run>>
    BY <1>3 DEF Outside, OnAck, AckTimeout, MasterSends, MasterTakes, executorVars, actorVars,
                workerVars
  <2>2. mode'[w] = "down" <=> mode[w] = "down"
    BY <1>3 DEF Outside, OnAck, AckTimeout, MasterSends, MasterTakes, workerVars, Become, Types,
                WorkersTypeOK
  <2>3. Active(w)' = Active(w)
    BY <2>1 DEF Active
  <2>4. QED BY <2>1, <2>2, <2>3, SameQueue
<1>4. QED
  BY <1>1, <1>2, <1>3, AgentCases, TakesTaskQueue, HandlesQueue, AnswersQueue, ThreadsQueue

\* The abort loops.
LEMMA PollKept ==
  ASSUME Types, ActorTypes, NEW w \in Workers, PollInv(w), AgentStep(w)
  PROVE  PollInv(w)'
<1> USE DEF PollStages
<1>1. ASSUME NEW j \in Jobs, Threads(w, j)
      PROVE  PollInv(w)'
  <2>1. killed \in [Workers -> SUBSET Jobs]
    BY DEF Types, WorkersTypeOK
  <2>2. CASE PollFindsCancelled(w, j)
    <3>1. poll'[w][j] = "killing" /\ \A k \in Jobs \ {j} : poll'[w][k] = poll[w][k]
      BY <2>2, PollTypes DEF PollFindsCancelled, Polls
    <3>2. TrackingOf[j] \in Cancellable /\ UNCHANGED killed
      BY <2>2 DEF PollFindsCancelled, workerVars, abortion, ActorTypes
    <3>3. QED BY <3>1, <3>2 DEF PollInv
  <2>3. CASE Tells(w, j)
    <3>1. /\ j \in killed[w]
          /\ \/ poll' = Set(poll, w, j, "late") /\ UNCHANGED killed
             \/ poll' = Set(poll, w, j, "none") /\ killed' = [killed EXCEPT ![w] = @ \ {j}]
      BY <2>3 DEF Tells, Polls, Untold, LoopEnds, workerVars, abortion
    <3>2. /\ poll'[w][j] \in {"late", "none"}
          /\ \A k \in Jobs \ {j} : poll'[w][k] = poll[w][k]
      BY <3>1, PollTypes
    <3>3. poll'[w][j] = "late" => j \in killed'[w]
      BY <3>1, PollTypes
    <3>4. \A k \in Jobs \ {j} : k \in killed[w] => k \in killed'[w]
      BY <2>1, <3>1
    <3>5. QED BY <3>2, <3>3, <3>4 DEF PollInv
  <2>4. CASE AnswersLate(w, j)
    <3>1. poll' = Set(poll, w, j, "none") /\ killed' = [killed EXCEPT ![w] = @ \ {j}]
      BY <2>4 DEF AnswersLate, Polls, LateAnswer, LoopEnds
    <3>2. poll'[w][j] = "none" /\ \A k \in Jobs \ {j} : poll'[w][k] = poll[w][k]
      BY <3>1, PollTypes
    <3>3. \A k \in Jobs \ {j} : k \in killed[w] => k \in killed'[w]
      BY <2>1, <3>1
    <3>4. QED BY <3>2, <3>3 DEF PollInv
  <2>5. CASE Kills(w, j) \/ KillFails(w, j)
    <3>1. /\ poll' = Set(poll, w, j, "none")
          /\ killed' = killed \/ killed' = [killed EXCEPT ![w] = @ \cup {j}]
      BY <2>5 DEF Kills, KillFails, Polls, Killed, workerVars, abortion
    <3>2. poll'[w][j] = "none" /\ \A k \in Jobs \ {j} : poll'[w][k] = poll[w][k]
      BY <3>1, PollTypes
    <3>3. \A k \in Jobs : k \in killed[w] => k \in killed'[w]
      BY <2>1, <3>1
    <3>4. QED BY <3>2, <3>3 DEF PollInv
  <2>6. CASE Answers(w, j) \/ StartsProcess(w, j) \/ ProcessEnds(w, j)
    <3>1. UNCHANGED <<poll, killed>>
      BY <2>6 DEF Answers, JobSucceeds, JobFails, Ends, StartsProcess, ProcessEnds, Process,
                  workerVars, abortion, abortVars
    <3>2. QED BY <3>1 DEF PollInv
  <2>7. QED BY <1>1, <2>2, <2>3, <2>4, <2>5, <2>6 DEF Threads
<1>2. CASE AgentDies(w)
  BY <1>2 DEF AgentDies, ActorTypes, PollInv
<1>3. CASE TakesTask(w) \/ AnswersFile(w) \/ Handles(w) \/ JobHandled(w) \/ Outside(w)
  <2>1. UNCHANGED <<poll, killed>>
    BY <1>3 DEF TakesTask, OnTask, AnswersFile, FileStored, FileFails, Ends, Handles, JobHandled,
                Outside, OnAck, AckTimeout, MasterSends, MasterTakes, executorVars, workerVars,
                abortion, abortVars
  <2>2. QED BY <2>1 DEF PollInv
<1>4. QED BY <1>1, <1>2, <1>3, AgentCases

-----------------------------------------------------------------------------
(***************************************************************************)
(* The invariant.                                                          *)
(***************************************************************************)
\* Nothing changes for another agent.
LEMMA SameAgent ==
  ASSUME NEW w \in Workers, QueueInv(w) /\ PollInv(w),
         View(w)' = View(w), AgentView(w)' = AgentView(w)
  PROVE  QueueInv(w)' /\ PollInv(w)'
BY DEF QueueInv, Waits, Begun, PollInv, View, AgentView, Active

LEMMA AgentStepInv ==
  ASSUME ExecutorInv, NEW w \in Workers, AgentStep(w)
  PROVE  ExecutorInv'
<1>1. Types /\ ActorTypes /\ LocalInv /\ Sane(w)
  BY DEF ExecutorInv, LocalInv, Sane
<1>2. LocalInv' /\ \A v \in Workers \ {w} : View(v)' = View(v)
  <2>1. CASE Moves(w)
    BY <1>1, <2>1, MovesAreSteps, StepKept, PreservedLocal DEF Preserved
  <2>2. CASE UNCHANGED workersVars
    BY <1>1, <2>2, LocalStutter DEF workersVars, workerVars, abortion, View
  <2>3. QED BY <2>1, <2>2, AgentMoves
<1>3. AgentAlone(w)
  BY <1>1, AgentTypes
<1>4. ASSUME NEW v \in Workers
      PROVE  QueueInv(v)' /\ PollInv(v)'
  <2>1. QueueInv(v) /\ PollInv(v)
    BY DEF ExecutorInv
  <2>2. CASE v = w
    BY <1>1, <2>1, <2>2, QueueKept, PollKept
  <2>3. CASE v # w
    BY <1>2, <1>3, <2>1, <2>3, SameAgent DEF AgentAlone
  <2>4. QED BY <2>2, <2>3
<1>5. QED BY <1>2, <1>3, <1>4 DEF AgentAlone, ExecutorInv

LEMMA OutsideInv ==
  ASSUME ExecutorInv, UNCHANGED <<workersVars, actorVars, run, abortVars>>,
         cancelled' \subseteq Cancellable
  PROVE  ExecutorInv'
<1>1. \A w \in Workers : View(w)' = View(w) /\ AgentView(w)' = AgentView(w)
  BY DEF workersVars, workerVars, abortion, actorVars, abortVars, View, AgentView
<1>2. LocalInv' /\ ActorTypes'
  BY LocalStutter DEF ExecutorInv, ActorTypes, actorVars, abortVars
<1>3. QED BY <1>1, <1>2, SameAgent DEF ExecutorInv

LEMMA ExecutorNextInv ==
  ASSUME ExecutorInv, [ExecutorNext]_allVars
  PROVE  ExecutorInv'
BY ExecutorNextCases, AgentStepInv, OutsideInv DEF ExecutorInv, ActorTypes

LEMMA ExecutorInitInv ==
  ASSUME ExecutorInit
  PROVE  ExecutorInv
<1>1. LocalInv
  BY LocalInit DEF ExecutorInit
<1>2. ActorTypes
  BY DEF ExecutorInit, ActorTypes, Runs, PollStages
<1>3. \A w \in Workers : QueueInv(w)
  BY ProtocolAssumption, JobsAssumption
     DEF ExecutorInit, WorkersInit, InitWorkers, QueueInv, Waits, Begun, Active
<1>4. \A w \in Workers : PollInv(w)
  BY DEF ExecutorInit, PollInv
<1>5. QED BY <1>1, <1>2, <1>3, <1>4 DEF ExecutorInv

LEMMA ExecutorInvariance == ExecutorSafety => []ExecutorInv
BY ExecutorInitInv, ExecutorNextInv, PTL DEF ExecutorSafety

-----------------------------------------------------------------------------
(***************************************************************************)
(* The theorems.                                                           *)
(***************************************************************************)
(***************************************************************************)
(* The state of the agents, mailboxes, simulation threads and abort loops  *)
(* included, stays within its types (JarExecutor.java).                    *)
(***************************************************************************)
THEOREM ExecutorTypes == ExecutorSafety => []ExecutorTypeOK
<1>1. ASSUME ExecutorInv PROVE ExecutorTypeOK
  BY <1>1 DEF ExecutorInv, LocalInv, Types, ActorTypes, Runs, PollStages, ExecutorTypeOK
<1>2. QED BY <1>1, ExecutorInvariance, PTL

(***************************************************************************)
(* No step of the executor is cut off by a guard of Worker: what waits in  *)
(* its mailbox, is stored or simulated is what its worker takes for        *)
(* executing, and only loops that killed answer late (JarExecutor.java).   *)
(***************************************************************************)
THEOREM AnswersAreAwaited == ExecutorSafety => []AnswersAreExpected
<1>1. ASSUME ExecutorInv, NEW w \in Workers, mode[w] # "down"
      PROVE  executing[w] = Active(w) \cup Range(inbox[w]) \cup (Files \cap {handling[w]})
  <2>1. Waits(w) /\ Begun(w)
    BY <1>1 DEF ExecutorInv, QueueInv
  <2>2. Range(inbox[w]) = {inbox[w][i] : i \in 1..Len(inbox[w])}
    BY <1>1 DEF ExecutorInv, ActorTypes, Range
  <2>3. QED BY <2>1, <2>2 DEF Waits, Begun
<1>2. ASSUME ExecutorInv PROVE AnswersAreExpected
  BY <1>1, <1>2 DEF ExecutorInv, PollInv, AnswersAreExpected
<1>3. QED BY <1>2, ExecutorInvariance, PTL

(***************************************************************************)
(* An agent runs one simulation at a time, the one its worker works on,    *)
(* and none behind the back of an idle worker, although jobs wait in the   *)
(* mailbox of the actor, run on threads of their own and are killed by     *)
(* another one (JarExecutor.java) - until a late answer of an abort loop   *)
(* has been taken for the current one.                                     *)
(***************************************************************************)
THEOREM AgentsRunOneSimulation == ExecutorSafety => []OneSimulationAtATime
<1>1. ASSUME ExecutorInv PROVE OneSimulationAtATime
  BY <1>1 DEF ExecutorInv, LocalInv, OwnInv, QueueInv, Begun, OneSimulationAtATime
<1>2. QED BY <1>1, ExecutorInvariance, PTL

(***************************************************************************)
(* No report of an agent carries the result of another job than the one it *)
(* names (sendResult of Worker.java, the answers of JarExecutor.java),     *)
(* unless its worker has been misled.                                      *)
(***************************************************************************)
THEOREM AgentsReportTheirJob == ExecutorSafety => []ReportsAreOwn
BY ExecutorImplementsWorker, WorkersReportTheirJob DEF ImplementsWorker

(***************************************************************************)
(* A worker holds a result until it has the Ack of its job, or dies        *)
(* (waitForWorkIsDoneAck of Worker.java): late answers that find it        *)
(* waiting change nothing, and it has been misled by none before.          *)
(***************************************************************************)
THEOREM AgentsHoldResults == ExecutorSafety => ResultsHeld
BY ExecutorImplementsWorker, WorkersHoldResults DEF ImplementsWorker
=============================================================================
