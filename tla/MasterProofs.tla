---------------------------- MODULE MasterProofs ----------------------------
(***************************************************************************)
(* The master keeps its job database sound, for every number of workers,   *)
(* jobs and events, under crashes, timeouts and messages in any order.     *)
(*                                                                         *)
(* First the job database: each event that the master may apply keeps it   *)
(* sound, for every set of jobs.  Then the master.                         *)
(*                                                                         *)
(* The invariants of interest are not inductive by themselves: a restart   *)
(* replaces the database by what the journal yields, and a batch of        *)
(* timeouts is only harmless while no two workers are booked with one      *)
(* job.  DbInv therefore adds that the journal yields a sound database as  *)
(* well, the same one as long as recovery replays it all, and that only    *)
(* submitted jobs occur in either of them.                                 *)
(***************************************************************************)
EXTENDS Master, SequenceTheorems, FiniteSetTheorems, TLAPS

\* Sound, with every job of C accounted for.
Sound(d, C) ==
  /\ d \in JobStates
  /\ Partition(d)
  /\ d.accepted \subseteq Known(d)
  /\ Accounted(d, C)
  /\ ShowsStage(d, C)
  /\ LaterTasksWait(d)

-----------------------------------------------------------------------------
(***************************************************************************)
(* Queues.                                                                 *)
(***************************************************************************)
\* The elements of a queue with others put behind it.
LEMMA ElemsConcat ==
  ASSUME NEW s \in Seq(Jobs), NEW t \in Seq(Jobs)
  PROVE  /\ s \o t \in Seq(Jobs)
         /\ Range(s \o t) = Range(s) \cup Range(t)
         /\ IsInjective(s) /\ IsInjective(t) /\ Range(s) \cap Range(t) = {}
              => IsInjective(s \o t)
<1>1. /\ s \o t \in Seq(Jobs)
      /\ Len(s \o t) = Len(s) + Len(t)
      /\ \A i \in 1..Len(s) + Len(t) :
           (s \o t)[i] = IF i <= Len(s) THEN s[i] ELSE t[i - Len(s)]
  BY ConcatProperties
<1>2. Len(s) \in Nat /\ Len(t) \in Nat /\ DOMAIN s = 1..Len(s)
        /\ DOMAIN t = 1..Len(t) /\ DOMAIN (s \o t) = 1..Len(s) + Len(t)
  BY <1>1, LenProperties
<1>3. Range(s \o t) \subseteq Range(s) \cup Range(t)
  <2>1. SUFFICES ASSUME NEW i \in 1..Len(s) + Len(t)
                 PROVE  (s \o t)[i] \in Range(s) \cup Range(t)
    BY <1>2 DEF Range
  <2>2. CASE i <= Len(s)
    BY <1>1, <1>2, <2>2 DEF Range
  <2>3. CASE ~(i <= Len(s))
    <3>1. i - Len(s) \in 1..Len(t)
      BY <1>2, <2>3
    <3>2. QED BY <3>1, <1>1, <1>2, <2>3 DEF Range
  <2>4. QED BY <2>2, <2>3
<1>4. Range(s) \subseteq Range(s \o t)
  <2>1. \A i \in 1..Len(s) : i \in 1..Len(s) + Len(t) /\ (s \o t)[i] = s[i]
    BY <1>1, <1>2
  <2>2. QED BY <2>1, <1>2 DEF Range
<1>5. Range(t) \subseteq Range(s \o t)
  <2>1. SUFFICES ASSUME NEW i \in 1..Len(t)
                 PROVE  t[i] \in Range(s \o t)
    BY <1>2 DEF Range
  <2>2. /\ i + Len(s) \in 1..Len(s) + Len(t)
        /\ ~(i + Len(s) <= Len(s))
        /\ (i + Len(s)) - Len(s) = i
    BY <1>2
  <2>3. (s \o t)[i + Len(s)] = t[i]
    BY <1>1, <2>2
  <2>4. QED BY <2>2, <2>3, <1>2 DEF Range
<1>6. ASSUME IsInjective(s), IsInjective(t), Range(s) \cap Range(t) = {}
      PROVE  IsInjective(s \o t)
  <2>1. SUFFICES ASSUME NEW i \in 1..Len(s) + Len(t), NEW k \in 1..Len(s) + Len(t),
                        (s \o t)[i] = (s \o t)[k]
                 PROVE  i = k
    BY <1>2 DEF IsInjective
  <2>2. CASE i <= Len(s) /\ k <= Len(s)
    BY <1>1, <1>2, <1>6, <2>1, <2>2 DEF IsInjective
  <2>3. CASE ~(i <= Len(s)) /\ ~(k <= Len(s))
    <3>1. i - Len(s) \in 1..Len(t) /\ k - Len(s) \in 1..Len(t)
      BY <1>2, <2>3
    <3>2. t[i - Len(s)] = t[k - Len(s)]
      BY <1>1, <2>1, <2>3
    <3>3. i - Len(s) = k - Len(s)
      BY <3>1, <3>2, <1>2, <1>6 DEF IsInjective
    <3>4. QED BY <3>3, <1>2
  <2>4. CASE i <= Len(s) /\ ~(k <= Len(s))
    <3>1. i \in 1..Len(s) /\ k - Len(s) \in 1..Len(t)
      BY <1>2, <2>4
    <3>2. s[i] = t[k - Len(s)]
      BY <1>1, <2>1, <2>4
    <3>3. QED BY <3>1, <3>2, <1>2, <1>6 DEF Range
  <2>5. CASE ~(i <= Len(s)) /\ k <= Len(s)
    <3>1. k \in 1..Len(s) /\ i - Len(s) \in 1..Len(t)
      BY <1>2, <2>5
    <3>2. s[k] = t[i - Len(s)]
      BY <1>1, <2>1, <2>5
    <3>3. QED BY <3>1, <3>2, <1>2, <1>6 DEF Range
  <2>6. QED BY <2>2, <2>3, <2>4, <2>5
<1>7. QED BY <1>1, <1>3, <1>4, <1>5, <1>6

\* Taking the head off a queue.
LEMMA ElemsHeadTail ==
  ASSUME NEW s \in Seq(Jobs), s # <<>>
  PROVE  /\ Head(s) \in Jobs
         /\ Tail(s) \in Seq(Jobs)
         /\ Range(s) = {Head(s)} \cup Range(Tail(s))
         /\ IsInjective(s) => IsInjective(Tail(s)) /\ Head(s) \notin Range(Tail(s))
<1>1. /\ Len(s) \in Nat /\ Len(s) # 0 /\ DOMAIN s = 1..Len(s)
      /\ Head(s) = s[1] /\ Head(s) \in Jobs /\ Tail(s) \in Seq(Jobs)
      /\ Len(Tail(s)) = Len(s) - 1
      /\ \A i \in 1..Len(s) - 1 : Tail(s)[i] = s[i + 1]
  BY HeadTailProperties, LenProperties, EmptySeq
<1>2. DOMAIN Tail(s) = 1..Len(s) - 1
  BY <1>1, LenProperties
<1>3. Range(s) \subseteq {Head(s)} \cup Range(Tail(s))
  <2>1. SUFFICES ASSUME NEW i \in 1..Len(s), i # 1
                 PROVE  s[i] \in Range(Tail(s))
    BY <1>1 DEF Range
  <2>2. i - 1 \in 1..Len(s) - 1 /\ (i - 1) + 1 = i
    BY <1>1, <2>1
  <2>3. Tail(s)[i - 1] = s[i]
    BY <1>1, <2>2
  <2>4. QED BY <2>2, <2>3, <1>2 DEF Range
<1>4. {Head(s)} \cup Range(Tail(s)) \subseteq Range(s)
  <2>1. 1 \in 1..Len(s) /\ \A i \in 1..Len(s) - 1 : i + 1 \in 1..Len(s)
    BY <1>1
  <2>2. QED BY <2>1, <1>1, <1>2 DEF Range
<1>5. ASSUME IsInjective(s)
      PROVE  IsInjective(Tail(s)) /\ Head(s) \notin Range(Tail(s))
  <2>1. \A i, k \in 1..Len(s) : s[i] = s[k] => i = k
    BY <1>1, <1>5 DEF IsInjective
  <2>2. \A i \in 1..Len(s) - 1 : i + 1 \in 1..Len(s) /\ i + 1 # 1
    BY <1>1
  <2>3. 1 \in 1..Len(s)
    BY <1>1
  <2>4. Head(s) \notin Range(Tail(s))
    BY <1>1, <1>2, <2>1, <2>2, <2>3 DEF Range
  <2>5. IsInjective(Tail(s))
    <3>1. SUFFICES ASSUME NEW i \in 1..Len(s) - 1, NEW k \in 1..Len(s) - 1,
                          Tail(s)[i] = Tail(s)[k]
                   PROVE  i = k
      BY <1>2 DEF IsInjective
    <3>2. i + 1 = k + 1
      BY <1>1, <2>1, <2>2, <3>1
    <3>3. QED BY <3>2
  <2>6. QED BY <2>4, <2>5
<1>6. QED BY <1>1, <1>3, <1>4, <1>5

\* A prefix of a queue.
LEMMA ElemsPrefix ==
  ASSUME NEW s \in Seq(Jobs), NEW n \in 0..Len(s)
  PROVE  /\ SubSeq(s, 1, n) \in Seq(Jobs)
         /\ Range(SubSeq(s, 1, n)) \subseteq Range(s)
         /\ IsInjective(s) => IsInjective(SubSeq(s, 1, n))
<1>1. Len(s) \in Nat /\ DOMAIN s = 1..Len(s) /\ \A i \in 1..Len(s) : s[i] \in Jobs
  BY LenProperties, ElementOfSeq
<1>2. \A i \in 1..n : i \in 1..Len(s)
  BY <1>1
<1>3. /\ SubSeq(s, 1, n) \in Seq(Jobs)
      /\ Len(SubSeq(s, 1, n)) = n
      /\ \A i \in 1..n : SubSeq(s, 1, n)[i] = s[i]
  BY <1>1, <1>2
<1>4. DOMAIN SubSeq(s, 1, n) = 1..n
  BY <1>3, LenProperties
<1>5. QED BY <1>1, <1>2, <1>3, <1>4 DEF Range, IsInjective

\* The elements of the queue with one job in it.
LEMMA ElemsSingle ==
  ASSUME NEW x \in Jobs
  PROVE  <<x>> \in Seq(Jobs) /\ Range(<<x>>) = {x} /\ IsInjective(<<x>>)
<1>1. <<x>> \in Seq(Jobs) /\ DOMAIN <<x>> = 1..1 /\ <<x>>[1] = x
  OBVIOUS
<1>2. QED BY <1>1 DEF Range, IsInjective

-----------------------------------------------------------------------------
(***************************************************************************)
(* Tasks.                                                                  *)
(***************************************************************************)
\* new differs from tasks in the first status of the jobs of S only.
Retasked(tasks, new, S, st) ==
  /\ new \in [Jobs -> Seq(Status)]
  /\ \A k \in Jobs :
       /\ Len(new[k]) = Len(tasks[k])
       /\ k \notin S => new[k] = tasks[k]
       /\ k \in S /\ tasks[k] # <<>> => new[k][1] = st
       /\ new[k] = <<>> <=> tasks[k] = <<>>
       /\ \A i \in 2..Len(tasks[k]) : new[k][i] = tasks[k][i]

\* Setting a status changes the first task of the given jobs only.
LEMMA SetStatusTasks ==
  ASSUME NEW tasks \in [Jobs -> Seq(Status)], NEW S \in SUBSET Jobs, NEW st \in Status
  PROVE  Retasked(tasks, SetStatus(tasks, S, st), S, st)
<1>1. ASSUME NEW q \in Seq(Status), q # <<>>
      PROVE  /\ [q EXCEPT ![1] = st] \in Seq(Status)
             /\ Len([q EXCEPT ![1] = st]) = Len(q)
             /\ [q EXCEPT ![1] = st][1] = st
             /\ [q EXCEPT ![1] = st] # <<>>
             /\ \A i \in 2..Len(q) : [q EXCEPT ![1] = st][i] = q[i]
  <2>1. Len(q) \in Nat /\ Len(q) # 0 /\ DOMAIN q = 1..Len(q)
    BY <1>1, LenProperties, EmptySeq
  <2>2. 1 \in 1..Len(q)
    BY <2>1
  <2>3. [q EXCEPT ![1] = st] \in Seq(Status) /\ Len([q EXCEPT ![1] = st]) = Len(q)
    BY <2>2, ExceptSeq
  <2>4. \A i \in 2..Len(q) : i \in DOMAIN q /\ i # 1
    BY <2>1
  <2>5. QED BY <2>1, <2>2, <2>3, <2>4
<1>2. \A k \in Jobs : tasks[k] \in Seq(Status)
  OBVIOUS
<1>3. QED BY <1>1, <1>2 DEF SetStatus, Retasked

\* The tasks behind the first one keep their status.
LEMMA RetaskedLater ==
  ASSUME NEW d, NEW e, NEW S, NEW st,
         Retasked(d.tasks, e.tasks, S, st), LaterTasksWait(d)
  PROVE  LaterTasksWait(e)
BY DEF Retasked, LaterTasksWait

\* A new task is put behind the others.
LEMMA AppendTask ==
  ASSUME NEW q \in Seq(Status), NEW st \in Status
  PROVE  /\ Append(q, st) \in Seq(Status)
         /\ Len(Append(q, st)) = Len(q) + 1
         /\ Len(q) \in Nat
         /\ q = <<>> <=> Len(q) = 0
         /\ Append(q, st) # <<>>
         /\ Append(q, st)[1] = IF q = <<>> THEN st ELSE q[1]
         /\ \A i \in 2..Len(q) + 1 :
              Append(q, st)[i] = IF i = Len(q) + 1 THEN st ELSE q[i]
<1>1. /\ Append(q, st) \in Seq(Status) /\ Len(Append(q, st)) = Len(q) + 1
      /\ \A i \in 1..Len(q) : Append(q, st)[i] = q[i]
      /\ Append(q, st)[Len(q) + 1] = st
      /\ Append(q, st) # <<>>
  BY AppendProperties
<1>2. Len(q) \in Nat /\ (q = <<>> <=> Len(q) = 0)
  BY LenProperties, EmptySeq
<1>3. QED BY <1>1, <1>2

\* One more result for one job.
LEMMA OneMoreCounts ==
  ASSUME NEW count \in [Jobs -> Nat], NEW j \in Jobs
  PROVE  /\ OneMore(count, j) \in [Jobs -> Nat]
         /\ \A k \in Jobs : OneMore(count, j)[k] = IF k = j THEN count[k] + 1 ELSE count[k]
BY DEF OneMore

\* A job that is accounted for and has a task is accepted or failed.
LEMMA KnownFailed ==
  ASSUME NEW d, NEW C \in SUBSET Jobs, Sound(d, C), NEW j \in C, j \in Known(d)
  PROVE  j \in d.accepted \/ d.failed[j] > 0
<1>1. /\ d.completed[j] \in Nat /\ d.failed[j] \in Nat
      /\ d.tasks[j] \in Seq(Status) /\ d.tasks[j] # <<>>
  BY DEF Sound, JobStates, Known
<1>2. Len(d.tasks[j]) # 0 /\ Len(d.tasks[j]) \in Nat
  BY <1>1, EmptySeq, LenProperties
<1>3. /\ Len(d.tasks[j]) = d.completed[j] + d.failed[j] + (IF j \in Open(d) THEN 1 ELSE 0)
      /\ d.completed[j] = (IF j \in d.done THEN 1 ELSE 0)
  BY DEF Sound, Accounted
<1>4. d.accepted = Open(d) \cup d.done
  BY DEF Sound, Partition
<1>5. QED BY <1>1, <1>2, <1>3, <1>4

\* The jobs of a sound database, by where they are.
LEMMA SoundJobs ==
  ASSUME NEW d, NEW C \in SUBSET Jobs, Sound(d, C)
  PROVE  /\ d.accepted \subseteq Known(d)
         /\ d.inProgress \subseteq Known(d)
         /\ Range(d.pending) \subseteq Known(d)
         /\ d.done \subseteq Known(d)
         /\ d.pending \in Seq(Jobs)
         /\ d.inProgress \subseteq Jobs
         /\ Known(d) \subseteq Jobs
<1>1. d \in JobStates /\ d.accepted \subseteq Known(d) /\ Partition(d)
  BY DEF Sound
<1>3. d.accepted \subseteq Jobs /\ Open(d) \subseteq d.accepted /\ d.done \subseteq d.accepted
  BY <1>1 DEF JobStates, Partition
<1>4. Range(d.pending) \subseteq Open(d) /\ d.inProgress \subseteq Open(d)
  BY DEF Open
<1>5. d.pending \in Seq(Jobs)
  BY <1>1 DEF JobStates
<1>6. QED BY <1>1, <1>3, <1>4, <1>5 DEF Known

\* An event that moves no job in or out of the open ones, records no
\* verdict and adds no task leaves every job accounted for.
LEMMA SameAccounts ==
  ASSUME NEW d, NEW e, NEW C \in SUBSET Jobs, Accounted(d, C), Open(e) = Open(d),
         e.completed = d.completed, e.failed = d.failed, e.done = d.done,
         \A k \in Jobs : Len(e.tasks[k]) = Len(d.tasks[k])
  PROVE  Accounted(e, C)
<1>1. SUFFICES ASSUME NEW k \in C
               PROVE  /\ Len(e.tasks[k]) = e.completed[k] + e.failed[k]
                                             + (IF k \in Open(e) THEN 1 ELSE 0)
                      /\ e.completed[k] = (IF k \in e.done THEN 1 ELSE 0)
  BY DEF Accounted
<1>2. /\ Len(d.tasks[k]) = d.completed[k] + d.failed[k]
                             + (IF k \in Open(d) THEN 1 ELSE 0)
      /\ d.completed[k] = (IF k \in d.done THEN 1 ELSE 0)
  BY DEF Accounted
<1>3. QED BY <1>2

\* What holds of the jobs of a set holds of fewer jobs.
LEMMA SoundForFewer ==
  ASSUME NEW d, NEW C \in SUBSET Jobs, NEW D \in SUBSET C, Sound(d, C)
  PROVE  Sound(d, D)
BY DEF Sound, Accounted, ShowsStage

-----------------------------------------------------------------------------
(***************************************************************************)
(* Events.                                                                 *)
(***************************************************************************)
\* The database starts sound.
LEMMA EmptySound == Sound(EmptyJobState, Jobs)
<1>1. EmptyJobState \in JobStates
  BY EmptySeq DEF EmptyJobState, JobStates
<1>2. Range(<<>>) = {} /\ IsInjective(<<>>) /\ Len(<<>>) = 0
  BY DEF Range, IsInjective
<1>3. QED
  BY <1>1, <1>2 DEF Sound, EmptyJobState, Partition, Accounted, ShowsStage, LaterTasksWait, Open, Known

\* Accepting jobs that are not accepted yet keeps the database sound.
LEMMA AcceptedSound ==
  ASSUME NEW d, NEW C \in SUBSET Jobs, Sound(d, C), NEW s \in Seq(Jobs),
         IsInjective(s), Range(s) \cap d.accepted = {}
  PROVE  /\ Sound(JobAccepted(d, s), C)
         /\ Known(JobAccepted(d, s)) = Known(d) \cup Range(s)
         /\ Range(JobAccepted(d, s).pending) = Range(d.pending) \cup Range(s)
<1> DEFINE e == JobAccepted(d, s)
<1>1. /\ d \in JobStates /\ Partition(d) /\ d.accepted \subseteq Known(d)
      /\ Accounted(d, C) /\ ShowsStage(d, C) /\ LaterTasksWait(d)
  BY DEF Sound
<1>2. /\ e.pending = d.pending \o s
      /\ e.accepted = d.accepted \cup Range(s)
      /\ e.inProgress = d.inProgress /\ e.done = d.done
      /\ e.completed = d.completed /\ e.failed = d.failed
      /\ e.tasks = [j \in Jobs |-> IF j \in Range(s) THEN Append(d.tasks[j], "PENDING")
                                                      ELSE d.tasks[j]]
  BY <1>1 DEF JobAccepted, JobStates
<1> HIDE DEF e
<1>3. /\ d.pending \in Seq(Jobs)
      /\ Range(d.pending) \subseteq d.accepted
      /\ Range(d.pending) \cap Range(s) = {}
  BY <1>1 DEF JobStates, Partition, Open
<1>4. /\ e.pending \in Seq(Jobs)
      /\ Range(e.pending) = Range(d.pending) \cup Range(s)
      /\ IsInjective(e.pending)
  BY <1>1, <1>2, <1>3, ElemsConcat DEF Partition
<1>5. Range(s) \subseteq Jobs
  BY ElementOfSeq, LenProperties DEF Range
<1>6. \A j \in Jobs :
        /\ d.tasks[j] \in Seq(Status)
        /\ Append(d.tasks[j], "PENDING") \in Seq(Status)
        /\ Len(Append(d.tasks[j], "PENDING")) = Len(d.tasks[j]) + 1
        /\ Len(d.tasks[j]) \in Nat
        /\ d.tasks[j] = <<>> <=> Len(d.tasks[j]) = 0
        /\ Append(d.tasks[j], "PENDING") # <<>>
        /\ Append(d.tasks[j], "PENDING")[1]
              = IF d.tasks[j] = <<>> THEN "PENDING" ELSE d.tasks[j][1]
        /\ \A i \in 2..Len(d.tasks[j]) + 1 :
             Append(d.tasks[j], "PENDING")[i]
               = IF i = Len(d.tasks[j]) + 1 THEN "PENDING" ELSE d.tasks[j][i]
  <2>1. "PENDING" \in Status
    BY DEF Status
  <2>2. \A j \in Jobs : d.tasks[j] \in Seq(Status)
    BY <1>1 DEF JobStates
  <2>3. QED BY <2>1, <2>2, AppendTask
<1>7. e \in JobStates
  BY <1>1, <1>2, <1>4, <1>5, <1>6 DEF e, JobAccepted, JobStates
<1>8. Partition(e)
  BY <1>1, <1>2, <1>4 DEF Partition, Open
<1>9. Open(e) = Open(d) \cup Range(s) /\ Open(d) \cap Range(s) = {}
  BY <1>1, <1>2, <1>4 DEF Open, Partition
<1>10. Accounted(e, C)
  <2>1. SUFFICES ASSUME NEW j \in C
                 PROVE  /\ Len(e.tasks[j]) = e.completed[j] + e.failed[j]
                                               + (IF j \in Open(e) THEN 1 ELSE 0)
                        /\ e.completed[j] = (IF j \in e.done THEN 1 ELSE 0)
    BY DEF Accounted
  <2>2. /\ Len(d.tasks[j]) = d.completed[j] + d.failed[j] + (IF j \in Open(d) THEN 1 ELSE 0)
        /\ d.completed[j] = (IF j \in d.done THEN 1 ELSE 0)
        /\ d.completed[j] \in Nat /\ d.failed[j] \in Nat
    BY <1>1 DEF Accounted, JobStates
  <2>3. Len(e.tasks[j]) = Len(d.tasks[j]) + (IF j \in Range(s) THEN 1 ELSE 0)
    <3>1. CASE j \in Range(s)
      <4>1. e.tasks[j] = Append(d.tasks[j], "PENDING")
        BY <3>1, <1>2
      <4>2. QED BY <4>1, <3>1, <1>6
    <3>2. CASE j \notin Range(s)
      <4>1. e.tasks[j] = d.tasks[j]
        BY <3>2, <1>2
      <4>2. QED BY <4>1, <3>2, <1>6
    <3>3. QED BY <3>1, <3>2
  <2>4. QED BY <2>2, <2>3, <1>2, <1>9
<1>11. ShowsStage(e, C)
  <2>1. SUFFICES ASSUME NEW j \in C, e.tasks[j] # <<>>
                 PROVE  ShowsStageOf(e, j)
    BY DEF ShowsStage
  <2>2. CASE j \notin Range(s)
    BY <2>2, <2>1, <1>1, <1>2, <1>4 DEF ShowsStage, ShowsStageOf
  <2>3. CASE j \in Range(s)
    <3>1. j \notin d.accepted /\ j \notin e.inProgress /\ j \notin e.done /\ j \in e.accepted
      BY <2>3, <1>1, <1>2 DEF Partition, Open
    <3>2. j \notin Open(d) /\ j \notin d.done
      BY <3>1, <1>1 DEF Partition
    <3>3. d.tasks[j] # <<>> => d.failed[j] > 0 /\ d.tasks[j][1] = "FAILED"
      <4>1. Len(d.tasks[j]) = d.failed[j]
        BY <3>2, <1>1 DEF Accounted, JobStates
      <4>2. QED BY <4>1, <3>1, <1>1, <1>6 DEF ShowsStage, ShowsStageOf, JobStates
    <3>4. QED BY <2>3, <3>1, <3>3, <1>2, <1>6 DEF ShowsStageOf
  <2>4. QED BY <2>2, <2>3
<1>12. Known(e) = Known(d) \cup Range(s)
  <2>1. \A j \in Range(s) : j \in Jobs /\ e.tasks[j] # <<>>
    BY <1>2, <1>5, <1>6
  <2>2. \A j \in Jobs \ Range(s) : e.tasks[j] = d.tasks[j]
    BY <1>2
  <2>3. \A j \in Range(s) : j \in Known(e)
    BY <2>1 DEF Known
  <2>4. QED BY <2>2, <2>3, <1>5 DEF Known
<1>13. LaterTasksWait(e)
  <2>1. SUFFICES ASSUME NEW j \in Jobs, NEW i \in 2..Len(e.tasks[j])
                 PROVE  e.tasks[j][i] = "PENDING"
    BY DEF LaterTasksWait
  <2>2. CASE j \in Range(s)
    <3>1. e.tasks[j] = Append(d.tasks[j], "PENDING")
      BY <2>2, <1>2
    <3>2. i \in 2..Len(d.tasks[j]) + 1
      BY <2>1, <3>1, <1>6
    <3>3. i # Len(d.tasks[j]) + 1 => i \in 2..Len(d.tasks[j])
      BY <3>2, <1>6
    <3>4. QED BY <3>1, <3>2, <3>3, <1>1, <1>6 DEF LaterTasksWait
  <2>3. CASE j \notin Range(s)
    BY <2>1, <2>3, <1>1, <1>2 DEF LaterTasksWait
  <2>4. QED BY <2>2, <2>3
<1>14. QED BY <1>1, <1>2, <1>4, <1>7, <1>8, <1>10, <1>11, <1>12, <1>13 DEF e, Sound

\* Starting the job at the head of the queue keeps the database sound.
LEMMA StartedSound ==
  ASSUME NEW d, NEW C \in SUBSET Jobs, Sound(d, C), NEW j, CanStart(d, j)
  PROVE  /\ Sound(JobStarted(d, j), C)
         /\ Known(JobStarted(d, j)) = Known(d)
         /\ j \in Known(d)
         /\ Range(d.pending) = {j} \cup Range(JobStarted(d, j).pending)
         /\ j \notin Range(JobStarted(d, j).pending)
<1> DEFINE e == JobStarted(d, j)
<1>1. /\ d \in JobStates /\ Partition(d) /\ d.accepted \subseteq Known(d)
      /\ Accounted(d, C) /\ ShowsStage(d, C) /\ LaterTasksWait(d)
  BY DEF Sound
<1>2. /\ e.pending = Tail(d.pending)
      /\ e.inProgress = d.inProgress \cup {j}
      /\ e.accepted = d.accepted /\ e.done = d.done
      /\ e.completed = d.completed /\ e.failed = d.failed
      /\ e.tasks = SetStatus(d.tasks, {j}, "STARTED")
  BY <1>1 DEF JobStarted, JobStates
<1> HIDE DEF e
<1>3. /\ d.pending \in Seq(Jobs) /\ d.pending # <<>> /\ j = Head(d.pending)
      /\ d.tasks \in [Jobs -> Seq(Status)]
      /\ "STARTED" \in Status
  BY <1>1 DEF CanStart, hasJob, nextJob, JobStates, Status
<1>4. /\ j \in Jobs
      /\ e.pending \in Seq(Jobs)
      /\ Range(d.pending) = {j} \cup Range(e.pending)
      /\ IsInjective(e.pending) /\ j \notin Range(e.pending)
  BY <1>1, <1>2, <1>3, ElemsHeadTail DEF Partition
<1>5. /\ e.tasks \in [Jobs -> Seq(Status)]
      /\ \A k \in Jobs :
           /\ Len(e.tasks[k]) = Len(d.tasks[k])
           /\ k # j => e.tasks[k] = d.tasks[k]
           /\ k = j /\ d.tasks[k] # <<>> => e.tasks[k][1] = "STARTED"
           /\ e.tasks[k] = <<>> <=> d.tasks[k] = <<>>
      /\ Retasked(d.tasks, e.tasks, {j}, "STARTED")
  <2>1. {j} \in SUBSET Jobs
    BY <1>4
  <2>2. Retasked(d.tasks, e.tasks, {j}, "STARTED")
    BY <2>1, <1>2, <1>3, SetStatusTasks
  <2>3. QED BY <2>2 DEF Retasked
<1>6. e \in JobStates
  BY <1>1, <1>2, <1>4, <1>5 DEF e, JobStarted, JobStates
<1>7. Partition(e)
  BY <1>1, <1>2, <1>4 DEF Partition, Open
<1>8. Open(e) = Open(d)
  BY <1>2, <1>4 DEF Open
<1>9. Accounted(e, C)
  <2>1. \A k \in Jobs : Len(e.tasks[k]) = Len(d.tasks[k])
    BY <1>5
  <2>2. Accounted(d, C) /\ Open(e) = Open(d)
    BY <1>1, <1>8
  <2>3. QED BY <2>1, <2>2, <1>2, SameAccounts
<1>10. ShowsStage(e, C)
  <2>1. \A k \in Jobs : k # j => (k \in e.inProgress <=> k \in d.inProgress)
    BY <1>2
  <2>2. \A k \in Jobs : k # j => (k \in Range(e.pending) <=> k \in Range(d.pending))
    BY <1>4
  <2>3. j \notin e.done /\ j \in e.accepted
    BY <1>1, <1>2, <1>4 DEF Partition, Open
  <2>4. SUFFICES ASSUME NEW k \in C, e.tasks[k] # <<>>
                 PROVE  ShowsStageOf(e, k)
    BY DEF ShowsStage
  <2>5. CASE k = j
    BY <2>3, <2>4, <2>5, <1>2, <1>4, <1>5 DEF ShowsStageOf
  <2>6. CASE k # j
    <3>1. ShowsStageOf(d, k)
      BY <2>4, <2>6, <1>1, <1>5 DEF ShowsStage
    <3>2. QED BY <3>1, <2>1, <2>2, <2>6, <1>2, <1>5 DEF ShowsStageOf
  <2>7. QED BY <2>5, <2>6
<1>11. Known(e) = Known(d)
  BY <1>5 DEF Known
<1>12. j \in Known(d)
  BY <1>1, <1>4 DEF Open, Partition
<1>13. LaterTasksWait(e)
  BY <1>1, <1>5, RetaskedLater
<1>14. QED BY <1>1, <1>2, <1>4, <1>6, <1>7, <1>9, <1>10, <1>11, <1>12, <1>13 DEF e, Sound

\* Postponing the job at the head of the queue keeps the database sound.
LEMMA PostponedSound ==
  ASSUME NEW d, NEW C \in SUBSET Jobs, Sound(d, C), CanPostpone(d), NEW j, j = nextJob(d)
  PROVE  /\ Sound(JobPostponed(d, j), C)
         /\ Known(JobPostponed(d, j)) = Known(d)
         /\ Range(JobPostponed(d, j).pending) = Range(d.pending)
<1> DEFINE e == JobPostponed(d, j)
<1>1. /\ d \in JobStates /\ Partition(d) /\ d.accepted \subseteq Known(d)
      /\ Accounted(d, C) /\ ShowsStage(d, C) /\ LaterTasksWait(d)
  BY DEF Sound
<1>2. /\ e.pending = Append(Tail(d.pending), j)
      /\ e.inProgress = d.inProgress
      /\ e.accepted = d.accepted /\ e.done = d.done
      /\ e.completed = d.completed /\ e.failed = d.failed
      /\ e.tasks = SetStatus(d.tasks, {j}, "POSTPONED")
  BY <1>1 DEF JobPostponed, JobStates, nextJob
<1> HIDE DEF e
<1>3. /\ d.pending \in Seq(Jobs) /\ d.pending # <<>> /\ j = Head(d.pending)
      /\ d.tasks \in [Jobs -> Seq(Status)]
      /\ "POSTPONED" \in Status
  BY <1>1 DEF CanPostpone, hasJob, nextJob, JobStates, Status
<1>4. /\ j \in Jobs
      /\ Tail(d.pending) \in Seq(Jobs)
      /\ Range(d.pending) = {j} \cup Range(Tail(d.pending))
      /\ IsInjective(Tail(d.pending)) /\ j \notin Range(Tail(d.pending))
  BY <1>1, <1>3, ElemsHeadTail DEF Partition
<1>5. /\ e.pending \in Seq(Jobs)
      /\ Range(e.pending) = Range(d.pending)
      /\ IsInjective(e.pending)
  <2>1. <<j>> \in Seq(Jobs) /\ Range(<<j>>) = {j} /\ IsInjective(<<j>>)
    BY <1>4, ElemsSingle
  <2>2. e.pending = Tail(d.pending) \o <<j>>
    BY <1>2, <1>4, AppendIsConcat
  <2>3. Range(Tail(d.pending)) \cap Range(<<j>>) = {}
    BY <1>4, <2>1
  <2>4. /\ Tail(d.pending) \o <<j>> \in Seq(Jobs)
        /\ Range(Tail(d.pending) \o <<j>>) = Range(Tail(d.pending)) \cup Range(<<j>>)
        /\ IsInjective(Tail(d.pending) \o <<j>>)
    BY <1>4, <2>1, <2>3, ElemsConcat
  <2>5. QED BY <1>4, <2>1, <2>2, <2>4
<1>6. /\ e.tasks \in [Jobs -> Seq(Status)]
      /\ \A k \in Jobs :
           /\ Len(e.tasks[k]) = Len(d.tasks[k])
           /\ k # j => e.tasks[k] = d.tasks[k]
           /\ k = j /\ d.tasks[k] # <<>> => e.tasks[k][1] = "POSTPONED"
           /\ e.tasks[k] = <<>> <=> d.tasks[k] = <<>>
      /\ Retasked(d.tasks, e.tasks, {j}, "POSTPONED")
  <2>1. {j} \in SUBSET Jobs
    BY <1>4
  <2>2. Retasked(d.tasks, e.tasks, {j}, "POSTPONED")
    BY <2>1, <1>2, <1>3, SetStatusTasks
  <2>3. QED BY <2>2 DEF Retasked
<1>7. e \in JobStates
  BY <1>1, <1>2, <1>5, <1>6 DEF e, JobPostponed, JobStates
<1>8. Partition(e) /\ Open(e) = Open(d)
  BY <1>1, <1>2, <1>5 DEF Partition, Open
<1>9. Accounted(e, C)
  <2>1. \A k \in Jobs : Len(e.tasks[k]) = Len(d.tasks[k])
    BY <1>6
  <2>2. Accounted(d, C) /\ Open(e) = Open(d)
    BY <1>1, <1>8
  <2>3. QED BY <2>1, <2>2, <1>2, SameAccounts
<1>10. ShowsStage(e, C)
  <2>1. j \notin e.done /\ j \in e.accepted /\ j \notin e.inProgress
    BY <1>1, <1>2, <1>4 DEF Partition, Open
  <2>2. SUFFICES ASSUME NEW k \in C, e.tasks[k] # <<>>
                 PROVE  ShowsStageOf(e, k)
    BY DEF ShowsStage
  <2>3. CASE k = j
    BY <2>1, <2>2, <2>3, <1>2, <1>6 DEF ShowsStageOf
  <2>4. CASE k # j
    <3>1. ShowsStageOf(d, k)
      BY <2>2, <2>4, <1>1, <1>6 DEF ShowsStage
    <3>2. QED BY <3>1, <2>4, <1>2, <1>5, <1>6 DEF ShowsStageOf
  <2>5. QED BY <2>3, <2>4
<1>11. Known(e) = Known(d)
  BY <1>6 DEF Known
<1>12. LaterTasksWait(e)
  BY <1>1, <1>6, RetaskedLater
<1>13. QED BY <1>1, <1>2, <1>5, <1>7, <1>8, <1>9, <1>10, <1>11, <1>12 DEF e, Sound

\* Recording a verdict on a job in progress keeps the database sound; with
\* the result of another job, these two are no longer accounted for.
LEMMA CompletedSound ==
  ASSUME NEW d, NEW C \in SUBSET Jobs, Sound(d, C), NEW j \in d.inProgress, NEW r \in Jobs
  PROVE  /\ Sound(JobCompleted(d, j, r), C \ MixesUp(j, r))
         /\ Known(JobCompleted(d, j, r)) = Known(d)
         /\ Range(JobCompleted(d, j, r).pending) = Range(d.pending)
<1> DEFINE e == JobCompleted(d, j, r)
           D == C \ MixesUp(j, r)
<1>0. /\ D \subseteq C /\ D \subseteq Jobs
      /\ r # j => j \notin D /\ r \notin D
  BY DEF MixesUp
<1>1. /\ d \in JobStates /\ Partition(d) /\ d.accepted \subseteq Known(d)
      /\ Accounted(d, C) /\ ShowsStage(d, C) /\ LaterTasksWait(d)
  BY DEF Sound
<1>2. /\ e.pending = d.pending
      /\ e.inProgress = d.inProgress \ {j}
      /\ e.accepted = d.accepted /\ e.done = d.done \cup {j}
      /\ e.failed = d.failed
      /\ e.tasks = SetStatus(d.tasks, {r}, "COMPLETED")
  BY <1>1 DEF JobCompleted, JobStates
<1> HIDE DEF e, D
<1>3. /\ j \in Jobs /\ {r} \in SUBSET Jobs
      /\ d.tasks \in [Jobs -> Seq(Status)]
      /\ "COMPLETED" \in Status
      /\ j \notin Range(d.pending) /\ j \notin d.done /\ j \in d.accepted
  BY <1>1 DEF JobStates, Status, Partition, Open
<1>3a. /\ e.completed \in [Jobs -> Nat]
       /\ \A k \in Jobs : e.completed[k] = IF k = r THEN d.completed[k] + 1 ELSE d.completed[k]
  <2>1. e.completed = OneMore(d.completed, r)
    BY <1>1 DEF e, JobCompleted, JobStates
  <2>2. d.completed \in [Jobs -> Nat] /\ r \in Jobs
    BY <1>1 DEF JobStates
  <2>3. QED BY <2>1, <2>2, OneMoreCounts
<1>4. Retasked(d.tasks, e.tasks, {r}, "COMPLETED")
  BY <1>2, <1>3, SetStatusTasks
<1>5. e \in JobStates
  <2>1. e.completed \in [Jobs -> Nat] /\ e.tasks \in [Jobs -> Seq(Status)]
    BY <1>3a, <1>4 DEF Retasked
  <2>2. QED BY <2>1, <1>1, <1>2, <1>3 DEF e, JobCompleted, JobStates
<1>6. Partition(e)
  BY <1>1, <1>2, <1>3 DEF Partition, Open
<1>7. Accounted(e, D)
  <2>1. SUFFICES ASSUME NEW k \in D
                 PROVE  /\ Len(e.tasks[k]) = e.completed[k] + e.failed[k]
                                               + (IF k \in Open(e) THEN 1 ELSE 0)
                        /\ e.completed[k] = (IF k \in e.done THEN 1 ELSE 0)
    BY DEF Accounted
  <2>2. /\ Len(e.tasks[k]) = Len(d.tasks[k])
        /\ Len(d.tasks[k]) = d.completed[k] + d.failed[k]
                               + (IF k \in Open(d) THEN 1 ELSE 0)
        /\ d.completed[k] = (IF k \in d.done THEN 1 ELSE 0)
        /\ d.completed[k] \in Nat /\ d.failed[k] \in Nat
    BY <1>0, <1>1, <1>4 DEF Accounted, JobStates, Retasked
  <2>3. CASE k = j /\ r = j
    <3>1. k \in Open(d) /\ k \notin Open(e) /\ k \notin d.done /\ k \in e.done
      BY <2>3, <1>2, <1>3 DEF Open
    <3>2. e.completed[k] = d.completed[k] + 1 /\ e.failed[k] = d.failed[k]
      BY <2>3, <1>2, <1>3a
    <3>3. QED BY <3>1, <3>2, <2>2
  <2>4. CASE k # j /\ k # r
    <3>1. (k \in Open(d) <=> k \in Open(e)) /\ (k \in d.done <=> k \in e.done)
      BY <2>4, <1>2 DEF Open
    <3>2. e.completed[k] = d.completed[k] /\ e.failed[k] = d.failed[k]
      BY <2>4, <1>0, <1>2, <1>3a
    <3>3. QED BY <3>1, <3>2, <2>2
  <2>5. QED BY <2>1, <2>3, <2>4, <1>0
<1>8. ShowsStage(e, D)
  <2>1. SUFFICES ASSUME NEW k \in D, e.tasks[k] # <<>>
                 PROVE  ShowsStageOf(e, k)
    BY DEF ShowsStage
  <2>2. CASE k = j /\ r = j
    BY <2>1, <2>2, <1>0, <1>2, <1>3, <1>4 DEF ShowsStageOf, Retasked
  <2>3. CASE k # j /\ k # r
    <3>1. ShowsStageOf(d, k) /\ e.tasks[k] = d.tasks[k]
      BY <2>1, <2>3, <1>0, <1>1, <1>4 DEF ShowsStage, Retasked
    <3>2. QED BY <3>1, <2>3, <1>2 DEF ShowsStageOf
  <2>4. QED BY <2>1, <2>2, <2>3, <1>0
<1>9. Known(e) = Known(d)
  BY <1>4 DEF Known, Retasked
<1>10. LaterTasksWait(e)
  BY <1>1, <1>4, RetaskedLater
<1>11. QED BY <1>1, <1>2, <1>5, <1>6, <1>7, <1>8, <1>9, <1>10 DEF e, D, Sound

\* So does recording a failure, which also forgets that the job was accepted.
LEMMA FailedSound ==
  ASSUME NEW d, NEW C \in SUBSET Jobs, Sound(d, C), NEW j \in d.inProgress, NEW r \in Jobs
  PROVE  /\ Sound(JobFailed(d, j, r), C \ MixesUp(j, r))
         /\ Known(JobFailed(d, j, r)) = Known(d)
         /\ Range(JobFailed(d, j, r).pending) = Range(d.pending)
<1> DEFINE e == JobFailed(d, j, r)
           D == C \ MixesUp(j, r)
<1>0. /\ D \subseteq C /\ D \subseteq Jobs
      /\ r # j => j \notin D /\ r \notin D
  BY DEF MixesUp
<1>1. /\ d \in JobStates /\ Partition(d) /\ d.accepted \subseteq Known(d)
      /\ Accounted(d, C) /\ ShowsStage(d, C) /\ LaterTasksWait(d)
  BY DEF Sound
<1>2. /\ e.pending = d.pending
      /\ e.inProgress = d.inProgress \ {j}
      /\ e.accepted = d.accepted \ {j} /\ e.done = d.done
      /\ e.completed = d.completed
      /\ e.tasks = SetStatus(d.tasks, {r}, "FAILED")
  BY <1>1 DEF JobFailed, JobStates
<1> HIDE DEF e, D
<1>3. /\ j \in Jobs /\ {r} \in SUBSET Jobs
      /\ d.tasks \in [Jobs -> Seq(Status)]
      /\ "FAILED" \in Status
      /\ j \notin Range(d.pending) /\ j \notin d.done /\ j \in d.accepted
  BY <1>1 DEF JobStates, Status, Partition, Open
<1>3a. /\ e.failed \in [Jobs -> Nat]
       /\ \A k \in Jobs : e.failed[k] = IF k = r THEN d.failed[k] + 1 ELSE d.failed[k]
  <2>1. e.failed = OneMore(d.failed, r)
    BY <1>1 DEF e, JobFailed, JobStates
  <2>2. d.failed \in [Jobs -> Nat] /\ r \in Jobs
    BY <1>1 DEF JobStates
  <2>3. QED BY <2>1, <2>2, OneMoreCounts
<1>4. Retasked(d.tasks, e.tasks, {r}, "FAILED")
  BY <1>2, <1>3, SetStatusTasks
<1>5. e \in JobStates
  <2>1. e.failed \in [Jobs -> Nat] /\ e.tasks \in [Jobs -> Seq(Status)]
    BY <1>3a, <1>4 DEF Retasked
  <2>2. QED BY <2>1, <1>1, <1>2, <1>3 DEF e, JobFailed, JobStates
<1>6. Partition(e)
  BY <1>1, <1>2, <1>3 DEF Partition, Open
<1>7. Accounted(e, D)
  <2>1. SUFFICES ASSUME NEW k \in D
                 PROVE  /\ Len(e.tasks[k]) = e.completed[k] + e.failed[k]
                                               + (IF k \in Open(e) THEN 1 ELSE 0)
                        /\ e.completed[k] = (IF k \in e.done THEN 1 ELSE 0)
    BY DEF Accounted
  <2>2. /\ Len(e.tasks[k]) = Len(d.tasks[k])
        /\ Len(d.tasks[k]) = d.completed[k] + d.failed[k]
                               + (IF k \in Open(d) THEN 1 ELSE 0)
        /\ d.completed[k] = (IF k \in d.done THEN 1 ELSE 0)
        /\ d.completed[k] \in Nat /\ d.failed[k] \in Nat
    BY <1>0, <1>1, <1>4 DEF Accounted, JobStates, Retasked
  <2>3. CASE k = j /\ r = j
    <3>1. k \in Open(d) /\ k \notin Open(e) /\ k \notin d.done /\ k \notin e.done
      BY <2>3, <1>2, <1>3 DEF Open
    <3>2. e.completed[k] = d.completed[k] /\ e.failed[k] = d.failed[k] + 1
      BY <2>3, <1>2, <1>3a
    <3>3. QED BY <3>1, <3>2, <2>2
  <2>4. CASE k # j /\ k # r
    <3>1. (k \in Open(d) <=> k \in Open(e)) /\ (k \in d.done <=> k \in e.done)
      BY <2>4, <1>2 DEF Open
    <3>2. e.completed[k] = d.completed[k] /\ e.failed[k] = d.failed[k]
      BY <2>4, <1>0, <1>2, <1>3a
    <3>3. QED BY <3>1, <3>2, <2>2
  <2>5. QED BY <2>1, <2>3, <2>4, <1>0
<1>8. ShowsStage(e, D)
  <2>1. SUFFICES ASSUME NEW k \in D, e.tasks[k] # <<>>
                 PROVE  ShowsStageOf(e, k)
    BY DEF ShowsStage
  <2>2. CASE k = j /\ r = j
    BY <2>1, <2>2, <1>0, <1>2, <1>3, <1>4 DEF ShowsStageOf, Retasked
  <2>3. CASE k # j /\ k # r
    <3>1. ShowsStageOf(d, k) /\ e.tasks[k] = d.tasks[k]
      BY <2>1, <2>3, <1>0, <1>1, <1>4 DEF ShowsStage, Retasked
    <3>2. e.failed[k] = d.failed[k]
      BY <2>3, <1>0, <1>3a
    <3>3. QED BY <3>1, <3>2, <2>3, <1>2 DEF ShowsStageOf
  <2>4. QED BY <2>1, <2>2, <2>3, <1>0
<1>9. Known(e) = Known(d)
  BY <1>4 DEF Known, Retasked
<1>10. LaterTasksWait(e)
  BY <1>1, <1>4, RetaskedLater
<1>11. QED BY <1>1, <1>2, <1>5, <1>6, <1>7, <1>8, <1>9, <1>10 DEF e, D, Sound

\* Timing out jobs in progress keeps the database sound.
LEMMA TimedOutSound ==
  ASSUME NEW d, NEW C \in SUBSET Jobs, Sound(d, C), NEW s \in Seq(Jobs), CanTimeOut(d, s)
  PROVE  /\ Sound(JobTimedOut(d, s), C)
         /\ Known(JobTimedOut(d, s)) = Known(d)
         /\ Range(JobTimedOut(d, s).pending) = Range(d.pending) \cup Range(s)
<1> DEFINE e == JobTimedOut(d, s)
<1>1. /\ d \in JobStates /\ Partition(d) /\ d.accepted \subseteq Known(d)
      /\ Accounted(d, C) /\ ShowsStage(d, C) /\ LaterTasksWait(d)
  BY DEF Sound
<1>2. /\ e.pending = d.pending \o s
      /\ e.inProgress = d.inProgress \ Range(s)
      /\ e.accepted = d.accepted /\ e.done = d.done
      /\ e.completed = d.completed /\ e.failed = d.failed
      /\ e.tasks = SetStatus(d.tasks, Range(s), "TIMEDOUT")
  BY <1>1 DEF JobTimedOut, JobStates
<1> HIDE DEF e
<1>3. /\ d.pending \in Seq(Jobs)
      /\ IsInjective(s) /\ Range(s) \subseteq d.inProgress
      /\ Range(s) \in SUBSET Jobs
      /\ Range(d.pending) \cap Range(s) = {}
      /\ d.tasks \in [Jobs -> Seq(Status)] /\ "TIMEDOUT" \in Status
  BY <1>1 DEF CanTimeOut, JobStates, Partition, Status
<1>4. /\ e.pending \in Seq(Jobs)
      /\ Range(e.pending) = Range(d.pending) \cup Range(s)
      /\ IsInjective(e.pending)
  BY <1>1, <1>2, <1>3, ElemsConcat DEF Partition
<1>5. Retasked(d.tasks, e.tasks, Range(s), "TIMEDOUT")
  BY <1>2, <1>3, SetStatusTasks
<1>6. e \in JobStates
  BY <1>1, <1>2, <1>4, <1>5 DEF e, JobTimedOut, JobStates, Retasked
<1>7. Partition(e) /\ Open(e) = Open(d)
  BY <1>1, <1>2, <1>3, <1>4 DEF Partition, Open
<1>8. Accounted(e, C)
  BY <1>1, <1>2, <1>5, <1>7, SameAccounts DEF Retasked
<1>9. ShowsStage(e, C)
  <2>1. SUFFICES ASSUME NEW k \in C, e.tasks[k] # <<>>
                 PROVE  ShowsStageOf(e, k)
    BY DEF ShowsStage
  <2>2. CASE k \in Range(s)
    <3>1. k \notin e.inProgress /\ k \notin e.done /\ k \in e.accepted
      BY <2>2, <1>1, <1>2, <1>3 DEF Partition, Open
    <3>2. QED BY <3>1, <2>1, <2>2, <1>2, <1>5 DEF ShowsStageOf, Retasked
  <2>3. CASE k \notin Range(s)
    <3>1. ShowsStageOf(d, k) /\ e.tasks[k] = d.tasks[k]
      BY <2>1, <2>3, <1>1, <1>5 DEF ShowsStage, Retasked
    <3>2. QED BY <3>1, <2>3, <1>2, <1>4 DEF ShowsStageOf
  <2>4. QED BY <2>2, <2>3
<1>10. Known(e) = Known(d)
  BY <1>5 DEF Known, Retasked
<1>11. LaterTasksWait(e)
  BY <1>1, <1>5, RetaskedLater
<1>12. QED BY <1>1, <1>2, <1>4, <1>6, <1>7, <1>8, <1>9, <1>10, <1>11 DEF e, Sound

\* Nothing happens when no job is timed out.
LEMMA TimedOutNone ==
  ASSUME NEW d, NEW C \in SUBSET Jobs, Sound(d, C)
  PROVE  JobTimedOut(d, <<>>) = d
<1>1. d \in JobStates
  BY DEF Sound
<1>2. Range(<<>>) = {}
  BY DEF Range
<1>3. d.pending \o <<>> = d.pending
  BY <1>1, ConcatEmptySeq DEF JobStates
<1>4. SetStatus(d.tasks, {}, "TIMEDOUT") = d.tasks
  BY <1>1 DEF SetStatus, JobStates
<1>5. d.inProgress \ {} = d.inProgress
  BY <1>1 DEF JobStates
<1>6. QED BY <1>1, <1>2, <1>3, <1>4, <1>5 DEF JobTimedOut, JobStates

-----------------------------------------------------------------------------
(***************************************************************************)
(* The master.                                                             *)
(***************************************************************************)
DbInv ==
  /\ Sound(db, Clear)
  /\ Sound(durable, Clear)
  /\ events \in 0..MaxEvents
  /\ poisoned \in BOOLEAN
  /\ events <= ReplayTo => durable = db
  /\ Known(db) \subseteq submitted
  /\ Known(durable) \subseteq submitted
  /\ submitted \subseteq Jobs
  /\ mixed \subseteq Jobs

WorkersInv ==
  /\ workers \in [Workers -> WorkerStates]
  /\ \A w \in Workers : IsBusy(w) => workers[w].job \in Jobs

-----------------------------------------------------------------------------
(***************************************************************************)
(* The journal.                                                            *)
(***************************************************************************)
\* A step that writes n events which leave the durable database sound.
LEMMA PersistInv ==
  ASSUME DbInv, NEW n \in Nat, NEW ok, NEW after, Journals(n, ok, after),
         mixed \subseteq mixed',
         Room > 0 /\ ok => Sound(after, Clear') /\ Known(after) \subseteq submitted'
  PROVE  /\ events' \in 0..MaxEvents /\ events' = events + n
         /\ poisoned' \in BOOLEAN
         /\ Sound(durable', Clear')
         /\ submitted \subseteq submitted' => Known(durable') \subseteq submitted'
         /\ events' <= ReplayTo /\ ok /\ n > 0 => durable' = after
<1>1. /\ events \in Nat /\ MaxEvents \in Nat /\ ReplayTo \in Nat
      /\ events' = events + n /\ events + n <= MaxEvents
      /\ durable' = (IF Room > 0 /\ ok THEN after ELSE durable)
      /\ poisoned' = (poisoned \/ (Room > 0 /\ ~ok))
  BY MasterAssumption DEF DbInv, Journals
<1>2. events' \in 0..MaxEvents
  BY <1>1
<1>3. poisoned' \in BOOLEAN
  BY <1>1
<1>4. Sound(durable', Clear') /\ (submitted \subseteq submitted' => Known(durable') \subseteq submitted')
  <2>1. Clear' \subseteq Clear /\ Clear \subseteq Jobs
    BY DEF Clear
  <2>2. Sound(durable, Clear')
    BY <2>1, SoundForFewer DEF DbInv
  <2>3. QED BY <1>1, <2>2 DEF DbInv
<1>5. ASSUME events' <= ReplayTo, ok, n > 0
      PROVE  durable' = after
  <2>1. Room > 0
    BY <1>1, <1>5 DEF Room
  <2>2. QED BY <2>1, <1>1, <1>5
<1>6. QED BY <1>1, <1>2, <1>3, <1>4, <1>5

\* Events that are no verdict mix up no job.
LEMMA PersistClear ==
  ASSUME DbInv, NEW n, NEW ok, NEW after, Persist(n, ok, after)
  PROVE  /\ Journals(n, ok, after)
         /\ mixed' = mixed /\ mixed \subseteq mixed' /\ mixed' \subseteq Jobs
         /\ Clear' = Clear /\ Clear \in SUBSET Jobs
BY DEF Persist, Clear, DbInv

\* A verdict mixes up at most the two jobs it names and carries.
LEMMA VerdictClear ==
  ASSUME DbInv, NEW j \in Jobs, NEW r \in Jobs, NEW after, PersistVerdict(j, r, after)
  PROVE  /\ Journals(1, CanRecord(durable, r), after)
         /\ mixed \subseteq mixed' /\ mixed' \subseteq Jobs
         /\ Clear' = Clear \ MixesUp(j, r) /\ Clear \in SUBSET Jobs
BY DEF PersistVerdict, Clear, DbInv, MixesUp

\* The part of a batch that will be replayed is a prefix of it, and all of
\* it while recovery replays the whole journal.
LEMMA KeptPrefix ==
  ASSUME DbInv, NEW s \in Seq(Jobs)
  PROVE  /\ Kept(s) \in Seq(Jobs)
         /\ Range(Kept(s)) \subseteq Range(s)
         /\ IsInjective(s) => IsInjective(Kept(s))
         /\ events + Len(s) <= ReplayTo => Kept(s) = s
<1> DEFINE n == IF Len(s) <= Room THEN Len(s) ELSE Room
<1>1. events \in Nat /\ ReplayTo \in Nat /\ Len(s) \in Nat
  BY MasterAssumption, LenProperties DEF DbInv
<1>2. n \in 0..Len(s) /\ Room \in Nat
  BY <1>1 DEF Room
<1>3. Kept(s) = SubSeq(s, 1, n)
  BY DEF Kept
<1>4. ASSUME events + Len(s) <= ReplayTo
      PROVE  Kept(s) = s
  <2>1. n = Len(s)
    BY <1>1, <1>4 DEF Room
  <2>2. QED BY <2>1, <1>3, SubSeqFull
<1> HIDE DEF n
<1>5. QED BY <1>2, <1>3, <1>4, ElemsPrefix

-----------------------------------------------------------------------------
(***************************************************************************)
(* Each action keeps the database sound.                                   *)
(***************************************************************************)
\* A restart rebuilds the database from whatever sound journal the step left.
LEMMA RestartDb ==
  ASSUME Restart, Sound(durable', Clear'), Known(durable') \subseteq submitted',
         events' \in 0..MaxEvents, poisoned' \in BOOLEAN, submitted' \subseteq Jobs,
         mixed' \subseteq Jobs
  PROVE  DbInv'
<1>1. db' = durable'
  BY DEF Restart
<1>2. Sound(db', Clear') /\ Known(db') \subseteq submitted'
  BY <1>1
<1>3. QED BY <1>1, <1>2 DEF DbInv

\* A restart after a step that wrote nothing.
LEMMA PlainRestartDb ==
  ASSUME DbInv, Restart, UNCHANGED <<journal, clients>>
  PROVE  DbInv'
<1>1. /\ durable' = durable /\ events' = events /\ poisoned' = poisoned
      /\ mixed' = mixed /\ Clear' = Clear /\ submitted' = submitted
  BY DEF journal, clients, Clear
<1>2. Sound(durable', Clear') /\ Known(durable') \subseteq submitted'
  BY <1>1 DEF DbInv
<1>3. QED BY <1>1, <1>2, RestartDb DEF DbInv

\* A restart after a step that wrote n events.
LEMMA PersistRestartDb ==
  ASSUME DbInv, Restart, NEW n \in Nat, NEW ok, NEW after, Persist(n, ok, after),
         submitted \subseteq submitted', submitted' \subseteq Jobs,
         Room > 0 /\ ok => Sound(after, Clear) /\ Known(after) \subseteq submitted'
  PROVE  DbInv'
<1>1. /\ Journals(n, ok, after) /\ Clear' = Clear
      /\ mixed \subseteq mixed' /\ mixed' \subseteq Jobs
  BY PersistClear
<1>2. /\ events' \in 0..MaxEvents /\ poisoned' \in BOOLEAN
      /\ Sound(durable', Clear') /\ Known(durable') \subseteq submitted'
  BY <1>1, PersistInv
<1>3. QED BY <1>1, <1>2, RestartDb

\* Nothing the invariant speaks of changes.
LEMMA SameDb ==
  ASSUME DbInv, UNCHANGED <<db, journal, clients>>
  PROVE  DbInv'
BY DEF DbInv, journal, clients, Clear

\* While something is left to replay, the journal yields the database itself.
LEMMA RoomSame ==
  ASSUME DbInv, Room > 0
  PROVE  durable = db
BY MasterAssumption DEF DbInv, Room

\* Handlers that write n events, which turn db into after.
LEMMA AppendDb ==
  ASSUME DbInv, NEW n \in Nat, n > 0, NEW ok, NEW after, NEW afterDurable,
         Journals(n, ok, afterDurable), db' = after,
         mixed \subseteq mixed', mixed' \subseteq Jobs,
         Sound(after, Clear'), Known(after) \subseteq submitted',
         Room > 0 => ok /\ Sound(afterDurable, Clear') /\ Known(afterDurable) \subseteq submitted',
         events + n <= ReplayTo => afterDurable = after,
         submitted \subseteq submitted', submitted' \subseteq Jobs
  PROVE  DbInv'
<1>1. /\ events' \in 0..MaxEvents /\ events' = events + n
      /\ poisoned' \in BOOLEAN
      /\ Sound(durable', Clear')
      /\ Known(durable') \subseteq submitted'
      /\ events' <= ReplayTo /\ ok => durable' = afterDurable
  BY PersistInv
<1>2. Sound(db', Clear') /\ Known(db') \subseteq submitted'
  OBVIOUS
<1>3. ASSUME events' <= ReplayTo
      PROVE  durable' = db'
  <2>1. Room > 0
    BY <1>1, <1>3, MasterAssumption DEF DbInv, Room
  <2>2. QED BY <2>1, <1>1, <1>3
<1>4. QED BY <1>1, <1>2, <1>3 DEF DbInv

\* The same for one event that leaves the queue and the tasks of a job
\* the database already knows: clients see nothing of it.
LEMMA StepDb ==
  ASSUME DbInv, NEW ok, NEW after, NEW afterDurable,
         Journals(1, ok, afterDurable), db' = after, UNCHANGED clients,
         mixed \subseteq mixed', mixed' \subseteq Jobs,
         Sound(after, Clear'), Known(after) = Known(db),
         durable = db => ok /\ afterDurable = after
  PROVE  DbInv'
<1>1. submitted' = submitted /\ Known(after) \subseteq submitted
  BY DEF DbInv, clients
<1>2. Room > 0 => ok /\ afterDurable = after
  BY RoomSame
<1>3. events + 1 <= ReplayTo => Room > 0
  BY MasterAssumption DEF DbInv, Room
<1>4. QED BY <1>1, <1>2, <1>3, AppendDb DEF DbInv

LEMMA onJobDb ==
  ASSUME DbInv, NEW j \in Jobs, onJob(j)
  PROVE  DbInv'
<1>1. submitted' = submitted \cup {j} /\ submitted' \subseteq Jobs
  BY DEF onJob, DbInv
<1>2. CASE isAccepted(db, j)
  <2>1. /\ db' = db /\ durable' = durable /\ poisoned' = poisoned /\ events' = events
        /\ mixed' = mixed /\ Clear' = Clear
    BY <1>2 DEF onJob, journal, Clear
  <2>2. QED BY <1>1, <2>1 DEF DbInv
<1>3. CASE ~isAccepted(db, j)
  <2> DEFINE after == JobAccepted(db, <<j>>)
             afterDurable == JobAccepted(durable, <<j>>)
  <2>1. /\ Journals(1, TRUE, afterDurable) /\ db' = after
        /\ mixed \subseteq mixed' /\ mixed' \subseteq Jobs
        /\ Clear' = Clear /\ Clear \in SUBSET Jobs
    <3>1. Persist(1, TRUE, afterDurable) /\ db' = after
      BY <1>3 DEF onJob
    <3> HIDE DEF after, afterDurable
    <3>2. QED BY <3>1, PersistClear
  <2>2. <<j>> \in Seq(Jobs) /\ IsInjective(<<j>>) /\ Range(<<j>>) = {j}
    BY ElemsSingle
  <2>3. Sound(after, Clear') /\ Known(after) = Known(db) \cup {j}
    <3>1. Sound(db, Clear) /\ Range(<<j>>) \cap db.accepted = {}
      BY <1>3, <2>2 DEF DbInv, isAccepted
    <3>2. QED BY <2>1, <2>2, <3>1, AcceptedSound
  <2>4. Room > 0 => afterDurable = after
    BY RoomSame
  <2>5. events + 1 <= ReplayTo => Room > 0
    BY MasterAssumption DEF DbInv, Room
  <2> HIDE DEF after, afterDurable
  <2>6. Known(after) \subseteq submitted'
    BY <1>1, <2>3 DEF DbInv
  <2>7. /\ Room > 0 => Sound(afterDurable, Clear') /\ Known(afterDurable) \subseteq submitted'
        /\ events + 1 <= ReplayTo => afterDurable = after
    BY <2>3, <2>4, <2>5, <2>6
  <2>8. 1 \in Nat /\ 1 > 0 /\ submitted \subseteq submitted'
    BY <1>1
  <2>9. QED BY <1>1, <2>1, <2>3, <2>6, <2>7, <2>8, AppendDb
<1>4. QED BY <1>2, <1>3

LEMMA NewJobsFacts ==
  ASSUME DbInv, NEW s \in NewJobs
  PROVE  /\ s \in Seq(Jobs) /\ Len(s) \in Nat /\ Len(s) > 0
         /\ IsInjective(s) /\ Range(s) \subseteq Jobs \ submitted
         /\ db.accepted \subseteq submitted /\ durable.accepted \subseteq submitted
<1>1. PICK n \in 1..MaxParallelism : s \in [1..n -> Jobs \ submitted] /\ IsInjective(s)
  BY DEF NewJobs, Injection
<1>2. n \in Nat /\ n > 0
  BY <1>1, MasterAssumption
<1>3. s \in Seq(Jobs) /\ Len(s) = n /\ Range(s) \subseteq Jobs \ submitted
  BY <1>1, <1>2 DEF Range
<1>4. Clear \in SUBSET Jobs
  BY DEF Clear
<1>5. db.accepted \subseteq submitted /\ durable.accepted \subseteq submitted
  BY <1>4, SoundJobs DEF DbInv
<1>6. QED BY <1>1, <1>2, <1>3, <1>5

\* Jobs of a fresh batch may be replayed one by one, up to any of them.
LEMMA BatchSound ==
  ASSUME DbInv, NEW s \in Seq(Jobs), IsInjective(s), Range(s) \subseteq Jobs \ submitted,
         durable.accepted \subseteq submitted
  PROVE  /\ Sound(JobAccepted(durable, Kept(s)), Clear)
         /\ Known(JobAccepted(durable, Kept(s))) \subseteq submitted \cup Range(s)
         /\ Known(durable) \subseteq Known(JobAccepted(durable, Kept(s)))
         /\ events + Len(s) <= ReplayTo => Kept(s) = s
<1>1. /\ Kept(s) \in Seq(Jobs) /\ Range(Kept(s)) \subseteq Range(s)
      /\ IsInjective(Kept(s))
      /\ events + Len(s) <= ReplayTo => Kept(s) = s
  BY KeptPrefix
<1>2. Clear \in SUBSET Jobs /\ Sound(durable, Clear) /\ Known(durable) \subseteq submitted
  BY DEF Clear, DbInv
<1>3. Range(Kept(s)) \cap durable.accepted = {}
  BY <1>1
<1>4. QED BY <1>1, <1>2, <1>3, AcceptedSound

LEMMA processCmdLineJobDb ==
  ASSUME DbInv, NEW s \in NewJobs, processCmdLineJob(s)
  PROVE  DbInv'
<1>1. /\ s \in Seq(Jobs) /\ Len(s) \in Nat /\ Len(s) > 0
      /\ IsInjective(s) /\ Range(s) \subseteq Jobs \ submitted
      /\ db.accepted \subseteq submitted /\ durable.accepted \subseteq submitted
  BY NewJobsFacts
<1>2. submitted' = submitted \cup Range(s) /\ submitted' \subseteq Jobs
  BY <1>1 DEF processCmdLineJob, DbInv
<1> DEFINE after == JobAccepted(db, s)
           afterDurable == JobAccepted(durable, Kept(s))
<1>3. Persist(Len(s), TRUE, afterDurable) /\ db' = after
  BY DEF processCmdLineJob
<1>4. /\ Sound(afterDurable, Clear) /\ Known(afterDurable) \subseteq submitted'
      /\ events + Len(s) <= ReplayTo => Kept(s) = s
  BY <1>1, <1>2, BatchSound
<1>5. Sound(after, Clear) /\ Known(after) \subseteq submitted'
  <2>1. Clear \in SUBSET Jobs /\ Sound(db, Clear) /\ Known(db) \subseteq submitted
    BY DEF Clear, DbInv
  <2>2. Range(s) \cap db.accepted = {}
    BY <1>1
  <2>3. QED BY <1>1, <1>2, <2>1, <2>2, AcceptedSound
<1>6. ASSUME events + Len(s) <= ReplayTo
      PROVE  afterDurable = after
  <2>1. Room > 0
    BY <1>1, <1>6, MasterAssumption DEF DbInv, Room
  <2>2. QED BY <2>1, <1>4, <1>6, RoomSame
<1> HIDE DEF after, afterDurable
<1>7. /\ Journals(Len(s), TRUE, afterDurable) /\ Clear' = Clear
      /\ mixed \subseteq mixed' /\ mixed' \subseteq Jobs
  BY <1>3, PersistClear
<1>8. QED BY <1>1, <1>2, <1>3, <1>4, <1>5, <1>6, <1>7, AppendDb

\* Whatever part of the batch the crash leaves in the journal.
LEMMA CrashesInBatchDb ==
  ASSUME DbInv, NEW s \in NewJobs, NEW n \in 0..Len(s), CrashesInBatch(s, n)
  PROVE  DbInv'
<1>1. /\ s \in Seq(Jobs) /\ Len(s) \in Nat
      /\ IsInjective(s) /\ Range(s) \subseteq Jobs \ submitted
      /\ durable.accepted \subseteq submitted
  BY NewJobsFacts
<1>2. submitted' = submitted \cup Range(s) /\ submitted' \subseteq Jobs
  BY <1>1 DEF CrashesInBatch, DbInv
<1> DEFINE written == SubSeq(s, 1, n)
           after == JobAccepted(durable, Kept(written))
<1>3. /\ written \in Seq(Jobs) /\ IsInjective(written)
      /\ Range(written) \subseteq Range(s)
  BY <1>1, ElemsPrefix
<1>4. Persist(n, TRUE, after) /\ Restart
  BY DEF CrashesInBatch
<1> HIDE DEF written
<1>5. Sound(after, Clear) /\ Known(after) \subseteq submitted'
  BY <1>1, <1>2, <1>3, BatchSound
<1> HIDE DEF after
<1>6. n \in Nat
  BY <1>1
<1>7. QED BY <1>2, <1>4, <1>5, <1>6, PersistRestartDb

LEMMA onWorkerRequestsWorkDb ==
  ASSUME DbInv, NEW w \in Workers, onWorkerRequestsWork(w)
  PROVE  DbInv'
<1> DEFINE j == nextJob(db)
<1>0. Clear \in SUBSET Jobs /\ Sound(db, Clear)
  BY DEF Clear, DbInv
<1>1. ASSUME hasJob(db), Persist(1, CanStart(durable, j), JobStarted(durable, j)),
             db' = JobStarted(db, j), UNCHANGED clients
      PROVE  DbInv'
  <2>1. CanStart(db, j)
    BY <1>1 DEF CanStart
  <2>2. Sound(JobStarted(db, j), Clear) /\ Known(JobStarted(db, j)) = Known(db)
    BY <1>0, <2>1, StartedSound
  <2>3. durable = db => CanStart(durable, j) /\ JobStarted(durable, j) = JobStarted(db, j)
    BY <2>1
  <2> HIDE DEF j
  <2>4. /\ Journals(1, CanStart(durable, j), JobStarted(durable, j)) /\ Clear' = Clear
        /\ mixed \subseteq mixed' /\ mixed' \subseteq Jobs
    BY <1>1, PersistClear
  <2>5. QED BY <1>1, <2>2, <2>3, <2>4, StepDb
<1>2. ASSUME hasJob(db), Persist(1, CanPostpone(durable), JobPostponed(durable, j)),
             db' = JobPostponed(db, j), UNCHANGED clients
      PROVE  DbInv'
  <2>1. CanPostpone(db)
    BY <1>2 DEF CanPostpone
  <2>2. Sound(JobPostponed(db, j), Clear) /\ Known(JobPostponed(db, j)) = Known(db)
    BY <1>0, <2>1, PostponedSound
  <2>3. durable = db => CanPostpone(durable) /\ JobPostponed(durable, j) = JobPostponed(db, j)
    BY <2>1
  <2> HIDE DEF j
  <2>4. /\ Journals(1, CanPostpone(durable), JobPostponed(durable, j)) /\ Clear' = Clear
        /\ mixed \subseteq mixed' /\ mixed' \subseteq Jobs
    BY <1>2, PersistClear
  <2>5. QED BY <1>2, <2>2, <2>3, <2>4, StepDb
<1>3. CASE UNCHANGED <<db, journal, clients>>
  BY <1>3, SameDb
<1>4. CASE FailsOnUnknownWorker(w)
  BY <1>4, PlainRestartDb DEF FailsOnUnknownWorker
<1>5. QED BY <1>1, <1>2, <1>3, <1>4 DEF onWorkerRequestsWork, masterVars

LEMMA onWorkIsDoneDb ==
  ASSUME DbInv, NEW w \in Workers, NEW j \in Jobs, NEW r \in Jobs \cup {NoJob}, onWorkIsDone(w, j, r)
  PROVE  DbInv'
<1>1. ASSUME isInProgress(db, j), CanRecord(db, r),
             PersistVerdict(j, r, JobCompleted(durable, j, r)),
             db' = JobCompleted(db, j, r), UNCHANGED clients
      PROVE  DbInv'
  <2>1. Clear \in SUBSET Jobs /\ Sound(db, Clear) /\ j \in db.inProgress /\ r \in Jobs
    BY <1>1 DEF Clear, DbInv, isInProgress, CanRecord
  <2>2. /\ Sound(JobCompleted(db, j, r), Clear \ MixesUp(j, r))
        /\ Known(JobCompleted(db, j, r)) = Known(db)
    BY <2>1, CompletedSound
  <2>3. durable = db => /\ CanRecord(durable, r)
                        /\ JobCompleted(durable, j, r) = JobCompleted(db, j, r)
    BY <1>1
  <2>4. /\ Journals(1, CanRecord(durable, r), JobCompleted(durable, j, r))
        /\ Clear' = Clear \ MixesUp(j, r)
        /\ mixed \subseteq mixed' /\ mixed' \subseteq Jobs
    BY <1>1, <2>1, VerdictClear
  <2>5. QED BY <1>1, <2>2, <2>3, <2>4, StepDb
<1>2. ASSUME Persist(1, CanRecord(durable, r), durable), Restart, UNCHANGED clients
      PROVE  DbInv'
  <2>1. /\ Sound(durable, Clear) /\ Known(durable) \subseteq submitted
        /\ submitted' = submitted /\ submitted \subseteq Jobs
    BY <1>2 DEF DbInv, clients
  <2>2. QED BY <1>2, <2>1, PersistRestartDb
<1>3. CASE UNCHANGED <<db, journal, clients>>
  BY <1>3, SameDb
<1>4. CASE FailsOnUnknownWorker(w)
  BY <1>4, PlainRestartDb DEF FailsOnUnknownWorker
<1>5. QED BY <1>1, <1>2, <1>3, <1>4 DEF onWorkIsDone, masterVars

LEMMA onWorkFailedDb ==
  ASSUME DbInv, NEW w \in Workers, NEW j \in Jobs, NEW r \in Jobs \cup {NoJob}, onWorkFailed(w, j, r)
  PROVE  DbInv'
<1>1. ASSUME isInProgress(db, j), CanRecord(db, r),
             PersistVerdict(j, r, JobFailed(durable, j, r)),
             db' = JobFailed(db, j, r), UNCHANGED clients
      PROVE  DbInv'
  <2>1. Clear \in SUBSET Jobs /\ Sound(db, Clear) /\ j \in db.inProgress /\ r \in Jobs
    BY <1>1 DEF Clear, DbInv, isInProgress, CanRecord
  <2>2. /\ Sound(JobFailed(db, j, r), Clear \ MixesUp(j, r))
        /\ Known(JobFailed(db, j, r)) = Known(db)
    BY <2>1, FailedSound
  <2>3. durable = db => /\ CanRecord(durable, r)
                        /\ JobFailed(durable, j, r) = JobFailed(db, j, r)
    BY <1>1
  <2>4. /\ Journals(1, CanRecord(durable, r), JobFailed(durable, j, r))
        /\ Clear' = Clear \ MixesUp(j, r)
        /\ mixed \subseteq mixed' /\ mixed' \subseteq Jobs
    BY <1>1, <2>1, VerdictClear
  <2>5. QED BY <1>1, <2>2, <2>3, <2>4, StepDb
<1>2. ASSUME Persist(1, CanRecord(durable, r), durable), Restart, UNCHANGED clients
      PROVE  DbInv'
  <2>1. /\ Sound(durable, Clear) /\ Known(durable) \subseteq submitted
        /\ submitted' = submitted /\ submitted \subseteq Jobs
    BY <1>2 DEF DbInv, clients
  <2>2. QED BY <1>2, <2>1, PersistRestartDb
<1>3. CASE UNCHANGED <<db, journal, clients>>
  BY <1>3, SameDb
<1>4. CASE FailsOnUnknownWorker(w)
  BY <1>4, PlainRestartDb DEF FailsOnUnknownWorker
<1>5. QED BY <1>1, <1>2, <1>3, <1>4 DEF onWorkFailed, masterVars

\* The jobs a tick times out: those of the busy entries past their deadline.
LEMMA LateJobs ==
  ASSUME WorkersInv, NEW order \in Orders({w \in Overdue : IsBusy(w)})
  PROVE  /\ [i \in DOMAIN order |-> workers[order[i]].job] \in Seq(Jobs)
         /\ \A i \in DOMAIN order : order[i] \in Workers
                                   /\ order[i] \in Overdue /\ IsBusy(order[i])
         /\ IsInjective(order)
<1> DEFINE S == {w \in Overdue : IsBusy(w)}
<1>1. Cardinality(S) \in Nat
  <2>1. S \subseteq Workers
    BY DEF Overdue
  <2>2. QED BY <2>1, MasterAssumption, FS_Subset, FS_CardinalityType
<1> DEFINE c == Cardinality(S)
<1>2. order \in [1..c -> S] /\ IsInjective(order)
  BY DEF Orders, Bijection, Injection
<1>3. \A i \in 1..c : order[i] \in S
  BY <1>2
<1>4. \A w \in S : w \in Workers /\ w \in Overdue /\ IsBusy(w) /\ workers[w].job \in Jobs
  BY DEF Overdue, WorkersInv
<1>5. DOMAIN order = 1..c
  BY <1>2
<1> HIDE DEF c, S
<1>6. [i \in DOMAIN order |-> workers[order[i]].job] \in [1..c -> Jobs]
  BY <1>3, <1>4, <1>5
<1>7. c \in Nat
  BY <1>1 DEF c
<1>8. QED BY <1>2, <1>3, <1>4, <1>5, <1>6, <1>7

LEMMA onCleanupTickDb ==
  ASSUME DbInv, WorkersInv, onCleanupTick
  PROVE  DbInv'
<1>1. PICK order \in Orders({w \in Overdue : IsBusy(w)}) :
        LET late == [i \in DOMAIN order |-> workers[order[i]].job]
        IN  /\ Persist(Len(late), CanTimeOut(durable, Kept(late)), JobTimedOut(durable, Kept(late)))
            /\ \/ CanTimeOut(db, late) /\ db' = JobTimedOut(db, late)
               \/ Restart
            /\ UNCHANGED clients
  BY DEF onCleanupTick, TakeBack
<1> DEFINE late == [i \in DOMAIN order |-> workers[order[i]].job]
           ok == CanTimeOut(durable, Kept(late))
           afterDurable == JobTimedOut(durable, Kept(late))
<1>2. late \in Seq(Jobs)
  BY LateJobs
<1>3. /\ Persist(Len(late), ok, afterDurable)
      /\ (CanTimeOut(db, late) /\ db' = JobTimedOut(db, late)) \/ Restart
      /\ UNCHANGED clients
  BY <1>1
<1> HIDE DEF late
<1>4. Len(late) \in Nat
  BY <1>2, LenProperties
<1>5. /\ Kept(late) \in Seq(Jobs)
      /\ Range(Kept(late)) \subseteq Range(late)
      /\ IsInjective(late) => IsInjective(Kept(late))
      /\ events + Len(late) <= ReplayTo => Kept(late) = late
  BY <1>2, KeptPrefix
<1>6. /\ Sound(durable, Clear) /\ Sound(db, Clear) /\ Clear \in SUBSET Jobs
      /\ Known(db) \subseteq submitted /\ Known(durable) \subseteq submitted
      /\ submitted \subseteq Jobs /\ submitted' = submitted
  BY <1>3 DEF DbInv, Clear, clients
<1>6a. /\ Journals(Len(late), ok, afterDurable) /\ Clear' = Clear
       /\ mixed \subseteq mixed' /\ mixed' \subseteq Jobs
  <2> HIDE DEF ok, afterDurable
  <2>1. QED BY <1>3, PersistClear
<1>7. ok => Sound(afterDurable, Clear) /\ Known(afterDurable) \subseteq submitted
  <2>1. ASSUME ok
        PROVE  Sound(afterDurable, Clear) /\ Known(afterDurable) = Known(durable)
    BY <1>5, <1>6, <2>1, TimedOutSound
  <2>2. QED BY <2>1, <1>6
<1>8. CASE Restart
  <2> HIDE DEF ok, afterDurable
  <2>1. QED BY <1>3, <1>4, <1>6, <1>7, <1>8, PersistRestartDb
<1>9. CASE CanTimeOut(db, late) /\ db' = JobTimedOut(db, late)
  <2> DEFINE after == JobTimedOut(db, late)
  <2>1. Sound(after, Clear) /\ Known(after) = Known(db)
    BY <1>2, <1>6, <1>9, TimedOutSound
  <2>3. CASE Len(late) > 0
    <3>1. Room > 0 => ok
      <4>1. CanTimeOut(db, late) => CanTimeOut(db, Kept(late))
        BY <1>5 DEF CanTimeOut
      <4>2. QED BY <4>1, <1>9, RoomSame
    <3>2. events + Len(late) <= ReplayTo => Room > 0 /\ Kept(late) = late
      BY <1>4, <1>5, <2>3, MasterAssumption DEF DbInv, Room
    <3>3. events + Len(late) <= ReplayTo => afterDurable = after
      BY <3>2, RoomSame
    <3> HIDE DEF ok, after, afterDurable
    <3>4. db' = after /\ Known(after) \subseteq submitted'
      BY <1>6, <1>9, <2>1 DEF after
    <3>5. Room > 0 => ok /\ Sound(afterDurable, Clear) /\ Known(afterDurable) \subseteq submitted'
      BY <1>6, <1>7, <3>1
    <3>6. QED BY <1>4, <1>6, <1>6a, <2>1, <2>3, <3>3, <3>4, <3>5, AppendDb
  <2>4. CASE Len(late) = 0
    <3>1. late = <<>> /\ Kept(late) \in Seq(Jobs)
      BY <1>2, <1>5, <2>4, EmptySeq
    <3>2. db' = db
      BY <1>6, <1>9, <3>1, TimedOutNone
    <3>3. Kept(late) = <<>>
      BY <1>4, <2>4, <3>1, MasterAssumption DEF Kept, Room, DbInv
    <3>4. afterDurable = durable
      BY <1>6, <3>3, TimedOutNone
    <3>5. ok
      BY <3>3 DEF CanTimeOut, IsInjective, Range
    <3>6. UNCHANGED journal
      BY <1>3, <2>4, <3>4, <3>5 DEF Persist, Journals, journal, DbInv
    <3>7. QED BY <1>3, <3>2, <3>6, SameDb
  <2>5. QED BY <1>4, <2>3, <2>4
<1>10. QED BY <1>3, <1>8, <1>9

LEMMA NextDb ==
  ASSUME DbInv, WorkersInv, Next
  PROVE  DbInv'
<1>1. ASSUME NEW j \in Jobs, ClientSendsJob(j)
      PROVE  DbInv'
  BY <1>1, onJobDb DEF ClientSendsJob
<1>2. ASSUME NEW s \in NewJobs, processCmdLineJob(s)
      PROVE  DbInv'
  BY <1>2, processCmdLineJobDb
<1>2a. ASSUME NEW s \in NewJobs, NEW n \in 0..Len(s), CrashesInBatch(s, n)
       PROVE  DbInv'
  BY <1>2a, CrashesInBatchDb
<1>3. ASSUME NEW t \in Trackings, NEW cancel \in BOOLEAN, onTrackingInfo(t, cancel)
      PROVE  DbInv'
  BY <1>3, SameDb DEF onTrackingInfo
<1>4. ASSUME NEW f \in Files, onUploadFile(f)
      PROVE  DbInv'
  <2>1. Persist(1, TRUE, durable) /\ db' = db /\ submitted' = submitted
    BY <1>4 DEF onUploadFile, clients
  <2>2. durable' = durable /\ poisoned' = poisoned
          /\ events' = events + 1 /\ events + 1 <= MaxEvents
          /\ mixed' = mixed /\ Clear' = Clear
    BY <2>1 DEF Persist, Journals, DbInv, Clear
  <2>3. events' \in 0..MaxEvents /\ (events' <= ReplayTo => events <= ReplayTo)
    BY <2>2, MasterAssumption DEF DbInv
  <2>4. QED BY <2>1, <2>2, <2>3 DEF DbInv
<1>5. ASSUME NEW w \in Workers, WorkerStep(w)
      PROVE  DbInv'
  <2>1. CASE onRegisterWorker(w)
    BY <2>1, SameDb DEF onRegisterWorker
  <2>2. CASE onWorkerRequestsWork(w)
    BY <2>2, onWorkerRequestsWorkDb
  <2>3. ASSUME NEW j \in Jobs, onWorkInProgress(w, j)
        PROVE  DbInv'
    BY <2>3, SameDb DEF onWorkInProgress
  <2>4. ASSUME NEW j \in Jobs, NEW r \in Jobs, onWorkIsDone(w, j, r)
        PROVE  DbInv'
    BY <2>4, onWorkIsDoneDb
  <2>5. ASSUME NEW j \in Jobs, NEW r \in Jobs \cup {NoJob}, onWorkFailed(w, j, r)
        PROVE  DbInv'
    BY <2>5, onWorkFailedDb
  <2>6. CASE onWorkerRequestsFile(w)
    <3>1. UNCHANGED <<journal, clients>> /\ (db' = db \/ Restart)
      BY <2>6 DEF onWorkerRequestsFile
    <3>2. QED BY <3>1, SameDb, PlainRestartDb
  <2>7. ASSUME NEW f \in Files, onFileUploadComplete(f, HostOf[w])
        PROVE  DbInv'
    BY <2>7, SameDb DEF onFileUploadComplete
  <2>8. QED BY <1>5, <2>1, <2>2, <2>3, <2>4, <2>5, <2>6, <2>7 DEF WorkerStep
<1>6. ASSUME NEW w \in Workers, DeadlinePasses(w) \/ Receive(w)
      PROVE  DbInv'
  BY <1>6, SameDb DEF DeadlinePasses, Receive
<1>7. CASE onCleanupTick
  BY <1>7, onCleanupTickDb
<1>8. CASE Crash
  BY <1>8, PlainRestartDb DEF Crash
<1>9. QED BY <1>1, <1>2, <1>2a, <1>3, <1>4, <1>5, <1>6, <1>7, <1>8 DEF Next, ClientStep

-----------------------------------------------------------------------------
(***************************************************************************)
(* The channels and the workers map keep their types.                      *)
(***************************************************************************)
ChannelsInv == toWorker \in [Workers -> Seq(WorkerMessages)]

LEMMA PutReadyType ==
  ASSUME NEW q \in Seq(WorkerMessages), NEW n \in Nat
  PROVE  PutReady(q, n) \in Seq(WorkerMessages)
<1> DEFINE room == ChannelCap - Len(q)
           k == IF n <= room THEN n ELSE room
           more == [i \in 1..k |-> WorkIsReady]
<1>1. k \in Int
  BY LenProperties, MasterAssumption, ProtocolAssumption
<1>2. WorkIsReady \in WorkerMessages
  BY DEF WorkIsReady, WorkerMessages, Messages
<1> HIDE DEF k
<1>3. more \in Seq(WorkerMessages)
  <2>1. CASE k \in Nat
    BY <2>1, <1>2
  <2>2. CASE k \notin Nat
    <3>1. 1..k = {} /\ 1..0 = {}
      BY <1>1, <2>2
    <3>2. more \in [1..0 -> WorkerMessages]
      BY <3>1
    <3>3. 0 \in Nat
      OBVIOUS
    <3> HIDE DEF more
    <3>4. QED BY <3>2, <3>3, SeqDef
  <2>3. QED BY <2>1, <2>2
<1>4. PutReady(q, n) = q \o more
  BY DEF PutReady, k
<1> HIDE DEF more
<1>5. QED BY <1>3, <1>4, ConcatProperties

LEMMA TellType ==
  ASSUME ChannelsInv, NEW w \in Workers, NEW m \in WorkerMessages, Tell(w, m)
  PROVE  ChannelsInv'
<1>1. toWorker[w] \in Seq(WorkerMessages)
  BY DEF ChannelsInv
<1>2. Put(toWorker[w], m) \in Seq(WorkerMessages)
  BY <1>1, AppendProperties DEF Put
<1>3. QED BY <1>2 DEF ChannelsInv, Tell

LEMMA NotifyType ==
  ASSUME ChannelsInv, NEW ws, NEW d, NEW n \in Nat, notifyWorkers(ws, d, n)
  PROVE  ChannelsInv'
<1>1. \A w \in Workers : toWorker[w] \in Seq(WorkerMessages)
                         /\ PutReady(toWorker[w], n) \in Seq(WorkerMessages)
  BY PutReadyType DEF ChannelsInv
<1>2. QED BY <1>1 DEF ChannelsInv, notifyWorkers

LEMMA MessageTypes ==
  /\ WorkIsReady \in WorkerMessages
  /\ \A j \in Jobs : Ack(j) \in WorkerMessages /\ Job(j) \in WorkerMessages
  /\ \A f \in Files : FileJob(f) \in WorkerMessages
BY DEF WorkIsReady, Ack, Job, FileJob, WorkerMessages, Messages

\* The fields that only the file and cancel handlers write.
FilesInv ==
  /\ fileTracker \subseteq Files \X {HostOf[w] : w \in Workers}
  /\ fileDatabase \subseteq Files
  /\ cancelRequests \subseteq Trackings
  /\ status \in {"running", "stopped"}
  /\ acked \subseteq Jobs

LEMMA RestartTypes ==
  ASSUME Restart, acked' \subseteq Jobs
  PROVE  WorkersInv' /\ FilesInv'
<1>1. WorkersInv'
  BY DEF Restart, WorkersInv, WorkerStates, Absent, IsBusy
<1>2. FilesInv'
  BY DEF Restart, FilesInv
<1>3. QED BY <1>1, <1>2

\* What the handlers write into the workers map.
LEMMA EntryTypes ==
  ASSUME WorkersInv, NEW w \in Workers
  PROVE  /\ \A e \in {Absent, Idle} :
              workers' = [workers EXCEPT ![w] = e] => WorkersInv'
         /\ \A j \in Jobs : workers' = [workers EXCEPT ![w] = Busy(j)] => WorkersInv'
         /\ \A b \in BOOLEAN : workers' = [workers EXCEPT ![w].overdue = b] => WorkersInv'
         /\ UNCHANGED workers => WorkersInv'
<1>1. ASSUME NEW e \in {Absent, Idle}, workers' = [workers EXCEPT ![w] = e]
      PROVE  WorkersInv'
  <2>1. e \in WorkerStates /\ e.kind # "busy"
    <3>1. /\ Absent \in WorkerStates /\ Absent.kind # "busy"
          /\ Idle \in WorkerStates /\ Idle.kind # "busy"
      BY DEF WorkerStates, Absent, Idle
    <3>2. QED BY <3>1
  <2>2. QED BY <1>1, <2>1 DEF WorkersInv, IsBusy
<1>2. ASSUME NEW j \in Jobs, workers' = [workers EXCEPT ![w] = Busy(j)]
      PROVE  WorkersInv'
  BY <1>2 DEF WorkersInv, WorkerStates, Busy, IsBusy
<1>3. ASSUME NEW b \in BOOLEAN, workers' = [workers EXCEPT ![w].overdue = b]
      PROVE  WorkersInv'
  BY <1>3 DEF WorkersInv, WorkerStates, IsBusy
<1>4. ASSUME UNCHANGED workers
      PROVE  WorkersInv'
  BY <1>4 DEF WorkersInv, IsBusy
<1>5. QED BY <1>1, <1>2, <1>3, <1>4

\* The next job and the jobs of worker reports are jobs.
LEMMA NextJobType ==
  ASSUME DbInv, hasJob(db)
  PROVE  nextJob(db) \in Jobs
<1>1. db.pending \in Seq(Jobs)
  BY SoundJobs DEF DbInv, Clear
<1>2. QED BY <1>1, ElemsHeadTail DEF hasJob, nextJob

TypeInv == DbInv /\ WorkersInv /\ FilesInv /\ ChannelsInv

LEMMA TypeInvInit == ASSUME Init PROVE TypeInv
<1>1. DbInv
  <2>1. Sound(EmptyJobState, Jobs) /\ Known(EmptyJobState) = {}
    BY EmptySound DEF Known, EmptyJobState
  <2>1a. Init => Clear = Jobs
    BY DEF Init, Clear
  <2>2. 0 \in 0..MaxEvents
    BY MasterAssumption
  <2>3. QED BY <2>1, <2>1a, <2>2 DEF Init, DbInv
<1>2. WorkersInv
  BY DEF Init, WorkersInv, WorkerStates, Absent, IsBusy
<1>3. FilesInv
  BY DEF Init, FilesInv
<1>4. ChannelsInv
  BY EmptySeq DEF Init, ChannelsInv
<1>5. QED BY <1>1, <1>2, <1>3, <1>4 DEF TypeInv

LEMMA WorkerStepTypes ==
  ASSUME TypeInv, NEW w \in Workers, WorkerStep(w)
  PROVE  WorkersInv' /\ FilesInv' /\ ChannelsInv'
<1> USE DEF TypeInv
<1>1. CASE onRegisterWorker(w)
  <2>1. WorkersInv'
    BY <1>1, EntryTypes DEF onRegisterWorker
  <2>2. ChannelsInv'
    BY <1>1, TellType, MessageTypes DEF onRegisterWorker, ChannelsInv
  <2>3. FilesInv'
    BY <1>1 DEF onRegisterWorker, FilesInv, clients
  <2>4. QED BY <2>1, <2>2, <2>3
<1>2. CASE FailsOnUnknownWorker(w)
  <2>1. Restart /\ acked' = acked /\ toWorker' = toWorker
    BY <1>2 DEF FailsOnUnknownWorker, clients
  <2>2. acked' \subseteq Jobs /\ ChannelsInv'
    BY <2>1 DEF FilesInv, ChannelsInv
  <2>3. QED BY <2>1, <2>2, RestartTypes
<1>3. CASE UNCHANGED masterVars
  BY <1>3, EntryTypes DEF masterVars, volatile, clients, FilesInv, ChannelsInv
<1>4. CASE onWorkerRequestsWork(w)
  <2> DEFINE j == nextJob(db)
  <2>1. ASSUME hasJob(db), workers' = [workers EXCEPT ![w] = Busy(j)], Tell(w, Job(j)),
               UNCHANGED <<fileTracker, fileDatabase, cancelRequests, status, clients>>
        PROVE  WorkersInv' /\ FilesInv' /\ ChannelsInv'
    <3>1. j \in Jobs
      BY <2>1, NextJobType
    <3> HIDE DEF j
    <3>2. WorkersInv'
      BY <2>1, <3>1, EntryTypes
    <3>3. ChannelsInv'
      BY <2>1, <3>1, TellType, MessageTypes
    <3>4. FilesInv'
      BY <2>1 DEF FilesInv, clients
    <3>5. QED BY <3>2, <3>3, <3>4
  <2>2. ASSUME ExtendIdleExpiryTime(w), UNCHANGED toWorker,
               UNCHANGED <<fileTracker, fileDatabase, cancelRequests, status, clients>>
        PROVE  WorkersInv' /\ FilesInv' /\ ChannelsInv'
    <3>1. WorkersInv'
      BY <2>2, EntryTypes DEF ExtendIdleExpiryTime
    <3>2. QED BY <2>2, <3>1 DEF FilesInv, ChannelsInv, clients
  <2>3. QED BY <1>2, <1>3, <1>4, <2>1, <2>2 DEF onWorkerRequestsWork
<1>5. ASSUME NEW j \in Jobs, onWorkInProgress(w, j)
      PROVE  WorkersInv' /\ FilesInv' /\ ChannelsInv'
  <2>1. WorkersInv'
    BY <1>5, EntryTypes DEF onWorkInProgress
  <2>2. QED BY <1>5, <2>1 DEF onWorkInProgress, FilesInv, ChannelsInv, clients
<1>6. ASSUME NEW j \in Jobs, NEW r \in Jobs, onWorkIsDone(w, j, r)
      PROVE  WorkersInv' /\ FilesInv' /\ ChannelsInv'
  <2>1. CASE Restart /\ UNCHANGED <<toWorker, clients>>
    BY <2>1, RestartTypes DEF FilesInv, ChannelsInv, clients
  <2>2. CASE /\ workers' = ChangedToIdle(w) \/ UNCHANGED workers
             /\ Tell(w, Ack(j))
             /\ UNCHANGED <<fileTracker, fileDatabase, cancelRequests, status, clients>>
    <3>1. WorkersInv'
      BY <2>2, EntryTypes DEF ChangedToIdle
    <3>2. ChannelsInv'
      BY <2>2, TellType, MessageTypes
    <3>3. QED BY <2>2, <3>1, <3>2 DEF FilesInv, clients
  <2>3. QED BY <1>2, <1>3, <1>6, <2>1, <2>2 DEF onWorkIsDone, volatile
<1>7. ASSUME NEW j \in Jobs, NEW r \in Jobs \cup {NoJob}, onWorkFailed(w, j, r)
      PROVE  WorkersInv' /\ FilesInv' /\ ChannelsInv'
  <2>1. CASE Restart /\ UNCHANGED <<toWorker, clients>>
    BY <2>1, RestartTypes DEF FilesInv, ChannelsInv, clients
  <2>2. CASE /\ workers' = ChangedToIdle(w)
             /\ notifyWorkers(workers', db', 1)
             /\ UNCHANGED <<fileTracker, fileDatabase, cancelRequests, status, clients>>
    <3>1. WorkersInv'
      BY <2>2, EntryTypes DEF ChangedToIdle
    <3>2. 1 \in Nat
      OBVIOUS
    <3>3. ChannelsInv'
      BY <2>2, <3>2, NotifyType
    <3>4. QED BY <2>2, <3>1, <3>3 DEF FilesInv, clients
  <2>3. QED BY <1>2, <1>3, <1>7, <2>1, <2>2 DEF onWorkFailed
<1>8. CASE onWorkerRequestsFile(w)
  <2>1. acked' = acked /\ UnsentTo(w) \subseteq Files
    BY <1>8 DEF onWorkerRequestsFile, UnsentTo, FilesInv, clients
  <2>2. CASE UNCHANGED <<volatile, db, status, toWorker>>
    BY <2>1, <2>2, EntryTypes DEF volatile, FilesInv, ChannelsInv
  <2>3. ASSUME NEW f \in UnsentTo(w), Tell(w, FileJob(f)), UNCHANGED <<volatile, db, status>>
        PROVE  WorkersInv' /\ FilesInv' /\ ChannelsInv'
    <3>1. ChannelsInv'
      BY <2>1, <2>3, TellType, MessageTypes
    <3>2. QED BY <2>1, <2>3, <3>1, EntryTypes DEF volatile, FilesInv
  <2>4. CASE Restart /\ UNCHANGED toWorker
    BY <2>1, <2>4, RestartTypes DEF FilesInv, ChannelsInv
  <2>5. QED BY <1>8, <2>2, <2>3, <2>4 DEF onWorkerRequestsFile
<1>9. ASSUME NEW f \in Files, onFileUploadComplete(f, HostOf[w])
      PROVE  WorkersInv' /\ FilesInv' /\ ChannelsInv'
  <2>1. WorkersInv' /\ ChannelsInv'
    BY <1>9, EntryTypes DEF onFileUploadComplete, ChannelsInv
  <2>2. FilesInv'
    BY <1>9 DEF onFileUploadComplete, FilesInv, clients
  <2>3. QED BY <2>1, <2>2
<1>10. QED BY <1>1, <1>4, <1>5, <1>6, <1>7, <1>8, <1>9 DEF WorkerStep

LEMMA NextTypes ==
  ASSUME TypeInv, Next
  PROVE  TypeInv'
<1>1. DbInv'
  BY NextDb DEF TypeInv
<1>2. ASSUME NEW j \in Jobs, ClientSendsJob(j)
      PROVE  WorkersInv' /\ FilesInv' /\ ChannelsInv'
  <2>1. UNCHANGED <<volatile, status>> /\ acked' = acked \cup {j}
    BY <1>2 DEF ClientSendsJob, onJob
  <2>2. toWorker' = toWorker \/ notifyWorkers(workers, db', 1)
    BY <1>2 DEF ClientSendsJob, onJob
  <2>3. 1 \in Nat
    OBVIOUS
  <2>4. ChannelsInv'
    BY <2>2, <2>3, NotifyType DEF TypeInv, ChannelsInv
  <2>5. QED BY <2>1, <2>4 DEF TypeInv, WorkersInv, IsBusy, FilesInv, volatile
<1>3. ASSUME NEW s \in NewJobs, processCmdLineJob(s)
      PROVE  WorkersInv' /\ FilesInv' /\ ChannelsInv'
  <2>1. PICK n \in 1..MaxParallelism : s \in [1..n -> Jobs \ submitted]
    BY DEF NewJobs, Injection
  <2>2. n \in Nat
    BY <2>1, MasterAssumption
  <2>3. Len(s) \in Nat /\ Range(s) \subseteq Jobs
    BY <2>1, <2>2 DEF Range
  <2>4. /\ UNCHANGED <<volatile, status>> /\ acked' = acked
        /\ notifyWorkers(workers, db', Len(s))
    BY <1>3 DEF processCmdLineJob
  <2>5. ChannelsInv'
    BY <2>3, <2>4, NotifyType DEF TypeInv
  <2>6. QED BY <2>3, <2>4, <2>5 DEF TypeInv, WorkersInv, IsBusy, FilesInv, volatile
<1>3a. ASSUME NEW s \in NewJobs, NEW n \in 0..Len(s), CrashesInBatch(s, n)
       PROVE  WorkersInv' /\ FilesInv' /\ ChannelsInv'
  <2>1. Restart /\ acked' = acked /\ toWorker' = toWorker
    BY <1>3a DEF CrashesInBatch
  <2>2. acked' \subseteq Jobs /\ ChannelsInv'
    BY <2>1 DEF TypeInv, FilesInv, ChannelsInv
  <2>3. QED BY <2>1, <2>2, RestartTypes
<1>4. ASSUME NEW t \in Trackings, NEW cancel \in BOOLEAN, onTrackingInfo(t, cancel)
      PROVE  WorkersInv' /\ FilesInv' /\ ChannelsInv'
  BY <1>4 DEF TypeInv, onTrackingInfo, WorkersInv, IsBusy, FilesInv, ChannelsInv, clients
<1>5. ASSUME NEW f \in Files, onUploadFile(f)
      PROVE  WorkersInv' /\ FilesInv' /\ ChannelsInv'
  BY <1>5 DEF TypeInv, onUploadFile, WorkersInv, IsBusy, FilesInv, ChannelsInv, clients
<1>6. ASSUME NEW w \in Workers, DeadlinePasses(w)
      PROVE  WorkersInv' /\ FilesInv' /\ ChannelsInv'
  <2>1. WorkersInv'
    BY <1>6, EntryTypes DEF TypeInv, DeadlinePasses
  <2>2. QED BY <1>6, <2>1 DEF TypeInv, DeadlinePasses, FilesInv, ChannelsInv, clients
<1>7. ASSUME NEW w \in Workers, Receive(w)
      PROVE  WorkersInv' /\ FilesInv' /\ ChannelsInv'
  <2>1. toWorker[w] \in Seq(WorkerMessages) /\ toWorker[w] # <<>>
    BY <1>7 DEF TypeInv, ChannelsInv, Receive, Taken
  <2>2. Tail(toWorker[w]) \in Seq(WorkerMessages)
    BY <2>1, HeadTailProperties
  <2>3. ChannelsInv'
    BY <1>7, <2>2 DEF TypeInv, ChannelsInv, Receive, Taken
  <2>4. QED BY <1>7, <2>3 DEF TypeInv, Receive, WorkersInv, IsBusy, FilesInv, volatile, clients
<1>8. ASSUME onCleanupTick
      PROVE  WorkersInv' /\ FilesInv' /\ ChannelsInv'
  <2>1. PICK order \in Orders({w \in Overdue : IsBusy(w)}) :
          LET late == [i \in DOMAIN order |-> workers[order[i]].job]
              left == [w \in Workers |-> IF w \in Overdue THEN Absent ELSE workers[w]]
          IN  \/ /\ workers' = left
                 /\ notifyWorkers(left, db', Len(late))
                 /\ UNCHANGED <<fileTracker, fileDatabase, cancelRequests, status>>
              \/ /\ \E n \in 0..Len(late) - 1 :
                      notifyWorkers(left, JobTimedOut(db, SubSeq(late, 1, n)), n)
                 /\ Restart
    BY <1>8 DEF onCleanupTick, TakeBack
  <2> DEFINE late == [i \in DOMAIN order |-> workers[order[i]].job]
             left == [w \in Workers |-> IF w \in Overdue THEN Absent ELSE workers[w]]
  <2>2. late \in Seq(Jobs)
    BY LateJobs DEF TypeInv
  <2>3. acked' = acked
    BY <1>8 DEF onCleanupTick, TakeBack, clients
  <2>4. CASE /\ workers' = left
             /\ notifyWorkers(left, db', Len(late))
             /\ UNCHANGED <<fileTracker, fileDatabase, cancelRequests, status>>
    <3>1. WorkersInv'
      BY <2>4 DEF TypeInv, WorkersInv, WorkerStates, IsBusy, Absent
    <3> HIDE DEF late, left
    <3>2. Len(late) \in Nat
      BY <2>2, LenProperties
    <3>3. ChannelsInv'
      BY <2>4, <3>2, NotifyType DEF TypeInv
    <3>4. FilesInv'
      BY <2>3, <2>4 DEF TypeInv, FilesInv
    <3>5. QED BY <3>1, <3>3, <3>4
  <2>5. ASSUME NEW n \in 0..Len(late) - 1, Restart,
               notifyWorkers(left, JobTimedOut(db, SubSeq(late, 1, n)), n)
        PROVE  WorkersInv' /\ FilesInv' /\ ChannelsInv'
    <3> HIDE DEF late, left
    <3>1. n \in Nat
      BY <2>2, LenProperties
    <3>2. ChannelsInv'
      BY <2>5, <3>1, NotifyType DEF TypeInv
    <3>3. QED BY <2>3, <2>5, <3>2, RestartTypes DEF TypeInv, FilesInv
  <2>6. \/ /\ workers' = left
           /\ notifyWorkers(left, db', Len(late))
           /\ UNCHANGED <<fileTracker, fileDatabase, cancelRequests, status>>
        \/ /\ \E n \in 0..Len(late) - 1 :
                notifyWorkers(left, JobTimedOut(db, SubSeq(late, 1, n)), n)
           /\ Restart
    BY <2>1
  <2> HIDE DEF late, left
  <2>7. QED BY <2>4, <2>5, <2>6
<1>9. ASSUME Crash
      PROVE  WorkersInv' /\ FilesInv' /\ ChannelsInv'
  <2>1. Restart /\ acked' = acked /\ toWorker' = toWorker
    BY <1>9 DEF Crash, clients
  <2>2. WorkersInv' /\ FilesInv'
    BY <2>1, RestartTypes DEF TypeInv, FilesInv
  <2>3. ChannelsInv'
    BY <2>1 DEF TypeInv, ChannelsInv
  <2>4. QED BY <2>2, <2>3
<1>10. WorkersInv' /\ FilesInv' /\ ChannelsInv'
  <2>1. CASE ClientStep
    BY <2>1, <1>2, <1>3, <1>3a, <1>4, <1>5 DEF ClientStep
  <2>2. ASSUME NEW w \in Workers, WorkerStep(w)
        PROVE  WorkersInv' /\ FilesInv' /\ ChannelsInv'
    BY <2>2, WorkerStepTypes
  <2>3. QED BY <2>1, <2>2, <1>6, <1>7, <1>8, <1>9 DEF Next
<1>11. QED BY <1>1, <1>10 DEF TypeInv

LEMMA StutterTypes ==
  ASSUME TypeInv, UNCHANGED masterVars
  PROVE  TypeInv'
<1>1. UNCHANGED <<db, journal, clients>> /\ UNCHANGED volatile
        /\ UNCHANGED status /\ UNCHANGED toWorker
  BY DEF masterVars, volatile, journal, clients
<1>2. DbInv'
  BY <1>1, SameDb DEF TypeInv
<1>3. WorkersInv' /\ FilesInv' /\ ChannelsInv'
  BY <1>1 DEF TypeInv, volatile, clients, WorkersInv, IsBusy, FilesInv, ChannelsInv
<1>4. QED BY <1>2, <1>3 DEF TypeInv

LEMMA Invariance == Spec => []TypeInv
<1>1. TypeInv /\ UNCHANGED masterVars => TypeInv'
  BY StutterTypes
<1>2. QED BY <1>1, TypeInvInit, NextTypes, PTL DEF Spec

-----------------------------------------------------------------------------
(***************************************************************************)
(* The books and the acknowledgements.  A booked job has a task; while no  *)
(* failed job is sent again, a job with a task is never accepted, so no    *)
(* booked job enters the queue except by the tick that ends its booking.   *)
(***************************************************************************)
BookInv ==
  /\ \A w \in Workers : IsBusy(w) => workers[w].job \in Known(db)
  /\ ~Resends => BookedOnce

AckInv == MaxEvents <= ReplayTo => acked \subseteq Known(db)

\* A step that books nobody and queues no booked job.
LEMMA KeepsBooks ==
  ASSUME BookInv, Known(db) \subseteq Known(db'),
         \A w \in Workers : IsBusy(w)' => IsBusy(w) /\ workers'[w].job = workers[w].job,
         ~Resends => \A w \in Workers : IsBusy(w)' => workers[w].job \notin Range(db'.pending)
  PROVE  BookInv'
<1>1. \A w \in Workers : IsBusy(w)' => workers'[w].job \in Known(db')
  BY DEF BookInv
<1>2. ASSUME ~Resends
      PROVE  BookedOnce'
  BY <1>2 DEF BookInv, BookedOnce
<1>3. QED BY <1>1, <1>2 DEF BookInv

\* In particular one that queues nothing.
LEMMA KeepsQueue ==
  ASSUME BookInv, Known(db) \subseteq Known(db'),
         \A w \in Workers : IsBusy(w)' => IsBusy(w) /\ workers'[w].job = workers[w].job,
         Range(db'.pending) \subseteq Range(db.pending)
  PROVE  BookInv'
<1>1. ~Resends => \A w \in Workers : IsBusy(w)' => workers[w].job \notin Range(db'.pending)
  BY DEF BookInv, BookedOnce
<1>2. QED BY <1>1, KeepsBooks

\* A restart books nobody, and forgets no job of the journal.  While
\* recovery replays the whole journal, that is no job at all.
LEMMA RestartBooks ==
  ASSUME DbInv, AckInv, Restart, acked' = acked, Known(durable) \subseteq Known(durable')
  PROVE  BookInv' /\ AckInv'
<1>1. \A w \in Workers : ~IsBusy(w)'
  BY DEF Restart, IsBusy, Absent
<1>2. BookInv'
  BY <1>1 DEF BookInv, BookedOnce
<1>3. ASSUME MaxEvents <= ReplayTo
      PROVE  acked' \subseteq Known(db')
  <2>1. durable = db
    BY <1>3, MasterAssumption DEF DbInv
  <2>2. acked \subseteq Known(db) /\ db' = durable'
    BY <1>3 DEF AckInv, Restart
  <2>3. QED BY <2>1, <2>2
<1>4. QED BY <1>2, <1>3 DEF AckInv

LEMMA PlainRestartBooks ==
  ASSUME DbInv, AckInv, Restart, UNCHANGED <<journal, clients>>
  PROVE  BookInv' /\ AckInv'
<1>1. durable' = durable /\ acked' = acked
  BY DEF journal, clients
<1>2. QED BY <1>1, RestartBooks

LEMMA PersistRestartBooks ==
  ASSUME DbInv, AckInv, Restart, acked' = acked,
         NEW n, NEW ok, NEW after, Persist(n, ok, after),
         ok => Known(durable) \subseteq Known(after)
  PROVE  BookInv' /\ AckInv'
<1>1. durable' = durable \/ (ok /\ durable' = after)
  BY DEF Persist, Journals
<1>2. Known(durable) \subseteq Known(durable')
  BY <1>1
<1>3. QED BY <1>2, RestartBooks

\* A job that is not accepted and whose last acceptance has not failed is new.
LEMMA NewJob ==
  ASSUME NEW j \in Jobs, j \notin db.accepted, ~HasFailed(db, j)
  PROVE  j \notin Known(db)
BY DEF HasFailed, Known

LEMMA ClientSendsJobBooks ==
  ASSUME DbInv, BookInv, AckInv, NEW j \in Jobs, ClientSendsJob(j)
  PROVE  BookInv' /\ AckInv'
<1>1. /\ workers' = workers /\ acked' = acked \cup {j}
      /\ Resends \/ ~HasFailed(db, j)
      /\ \A w \in Workers : IsBusy(w)' => IsBusy(w) /\ workers'[w].job = workers[w].job
  BY DEF ClientSendsJob, onJob, volatile, IsBusy
<1>2. Sound(db, Clear) /\ Clear \in SUBSET Jobs
  BY DEF DbInv, Clear
<1>3. CASE isAccepted(db, j)
  <2>1. db' = db
    BY <1>3 DEF ClientSendsJob, onJob
  <2>2. j \in Known(db)
    BY <1>2, <1>3, SoundJobs DEF isAccepted
  <2>3. AckInv'
    BY <1>1, <2>1, <2>2 DEF AckInv
  <2>4. QED BY <1>1, <2>1, <2>3, KeepsQueue
<1>4. CASE ~isAccepted(db, j)
  <2> DEFINE e == JobAccepted(db, <<j>>)
  <2>1. db' = e
    BY <1>4 DEF ClientSendsJob, onJob
  <2>2. <<j>> \in Seq(Jobs) /\ IsInjective(<<j>>) /\ Range(<<j>>) = {j}
    BY ElemsSingle
  <2>3. Range(<<j>>) \cap db.accepted = {}
    BY <1>4, <2>2 DEF isAccepted
  <2>4. Known(e) = Known(db) \cup {j} /\ Range(e.pending) = Range(db.pending) \cup {j}
    BY <1>2, <2>2, <2>3, AcceptedSound
  <2> HIDE DEF e
  <2>5. AckInv'
    BY <1>1, <2>1, <2>4 DEF AckInv
  <2>6. ASSUME ~Resends, NEW w \in Workers, IsBusy(w)'
        PROVE  workers[w].job \notin Range(db'.pending)
    <3>1. j \notin Known(db)
      BY <1>1, <1>4, <2>6, NewJob DEF isAccepted
    <3>2. IsBusy(w) /\ workers[w].job \in Known(db) /\ workers[w].job \notin Range(db.pending)
      BY <1>1, <2>6 DEF BookInv, BookedOnce
    <3>3. QED BY <2>1, <2>4, <3>1, <3>2
  <2>7. Known(db) \subseteq Known(db')
    BY <2>1, <2>4
  <2>8. BookInv'
    BY <1>1, <2>6, <2>7, KeepsBooks
  <2>9. QED BY <2>5, <2>8
<1>5. QED BY <1>3, <1>4

LEMMA processCmdLineJobBooks ==
  ASSUME DbInv, BookInv, AckInv, NEW s \in NewJobs, processCmdLineJob(s)
  PROVE  BookInv' /\ AckInv'
<1> DEFINE e == JobAccepted(db, s)
<1>1. /\ workers' = workers /\ acked' = acked /\ db' = e
      /\ \A w \in Workers : IsBusy(w)' => IsBusy(w) /\ workers'[w].job = workers[w].job
  BY DEF processCmdLineJob, volatile, IsBusy
<1>2. /\ s \in Seq(Jobs) /\ IsInjective(s) /\ Range(s) \subseteq Jobs \ submitted
      /\ db.accepted \subseteq submitted
  BY NewJobsFacts
<1>3. Sound(db, Clear) /\ Clear \in SUBSET Jobs /\ Known(db) \subseteq submitted
  BY DEF DbInv, Clear
<1>4. Range(s) \cap db.accepted = {}
  BY <1>2
<1>5. Known(e) = Known(db) \cup Range(s) /\ Range(e.pending) = Range(db.pending) \cup Range(s)
  BY <1>2, <1>3, <1>4, AcceptedSound
<1> HIDE DEF e
<1>6. AckInv'
  BY <1>1, <1>5 DEF AckInv
<1>7. ASSUME ~Resends, NEW w \in Workers, IsBusy(w)'
      PROVE  workers[w].job \notin Range(db'.pending)
  <2>1. IsBusy(w) /\ workers[w].job \in Known(db) /\ workers[w].job \notin Range(db.pending)
    BY <1>1, <1>7 DEF BookInv, BookedOnce
  <2>2. QED BY <1>1, <1>2, <1>3, <1>5, <2>1
<1>8. Known(db) \subseteq Known(db')
  BY <1>1, <1>5
<1>9. BookInv'
  BY <1>1, <1>7, <1>8, KeepsBooks
<1>10. QED BY <1>6, <1>9

\* A crash in the middle of a batch ends every booking.
LEMMA CrashesInBatchBooks ==
  ASSUME DbInv, BookInv, AckInv, NEW s \in NewJobs, NEW n \in 0..Len(s), CrashesInBatch(s, n)
  PROVE  BookInv' /\ AckInv'
<1> DEFINE written == SubSeq(s, 1, n)
           after == JobAccepted(durable, Kept(written))
<1>1. /\ s \in Seq(Jobs) /\ Len(s) \in Nat
      /\ IsInjective(s) /\ Range(s) \subseteq Jobs \ submitted
      /\ durable.accepted \subseteq submitted
  BY NewJobsFacts
<1>2. /\ written \in Seq(Jobs) /\ IsInjective(written)
      /\ Range(written) \subseteq Range(s)
  BY <1>1, ElemsPrefix
<1>3. Persist(n, TRUE, after) /\ Restart /\ acked' = acked
  BY DEF CrashesInBatch
<1> HIDE DEF written
<1>4. Known(durable) \subseteq Known(after)
  BY <1>1, <1>2, BatchSound
<1> HIDE DEF after
<1>5. QED BY <1>3, <1>4, PersistRestartBooks

\* Steps that change neither the database nor a booking.
LEMMA OtherBooks ==
  ASSUME BookInv, AckInv, db' = db, acked' = acked,
         \A w \in Workers : IsBusy(w)' => IsBusy(w) /\ workers'[w].job = workers[w].job
  PROVE  BookInv' /\ AckInv'
<1>1. AckInv'
  BY DEF AckInv
<1>2. QED BY <1>1, KeepsQueue

LEMMA onWorkerRequestsWorkBooks ==
  ASSUME TypeInv, BookInv, AckInv, NEW w \in Workers, onWorkerRequestsWork(w)
  PROVE  BookInv' /\ AckInv'
<1> DEFINE j == nextJob(db)
<1>1. Sound(db, Clear) /\ Clear \in SUBSET Jobs /\ DbInv
  BY DEF TypeInv, DbInv, Clear
<1>2. ASSUME hasJob(db), db' = JobStarted(db, j), workers' = [workers EXCEPT ![w] = Busy(j)],
             UNCHANGED clients
      PROVE  BookInv' /\ AckInv'
  <2> DEFINE e == JobStarted(db, j)
  <2>1. CanStart(db, j)
    BY <1>2 DEF CanStart
  <2>2. /\ Known(e) = Known(db) /\ j \in Known(db)
        /\ Range(db.pending) = {j} \cup Range(e.pending)
        /\ j \notin Range(e.pending)
    BY <1>1, <2>1, StartedSound
  <2> HIDE DEF e, j
  <2>3. db' = e /\ acked' = acked
    BY <1>2 DEF e, clients
  <2>4. \A v \in Workers : /\ v = w => workers'[v].job = j
                           /\ v # w => workers'[v] = workers[v]
    BY <1>2 DEF TypeInv, WorkersInv, Busy
  <2>5. \A v \in Workers : IsBusy(v)' => workers'[v].job \in Known(db')
    BY <2>2, <2>3, <2>4 DEF BookInv, IsBusy
  <2>6. ASSUME ~Resends
        PROVE  BookedOnce'
    <3>1. \A v \in Workers \ {w} : IsBusy(v) => workers[v].job # j
      BY <2>2, <2>6 DEF BookInv, BookedOnce
    <3>2. ASSUME NEW v \in Workers, IsBusy(v)'
          PROVE  workers'[v].job \notin Range(db'.pending)
      <4>1. CASE v = w
        BY <2>2, <2>3, <2>4, <4>1
      <4>2. CASE v # w
        <5>1. IsBusy(v) /\ workers'[v].job = workers[v].job
          BY <2>4, <3>2, <4>2 DEF IsBusy
        <5>2. workers[v].job \notin Range(db.pending)
          BY <2>6, <5>1 DEF BookInv, BookedOnce
        <5>3. QED BY <2>2, <2>3, <5>1, <5>2
      <4>3. QED BY <4>1, <4>2
    <3>3. ASSUME NEW v \in Workers, NEW u \in Workers \ {v}, IsBusy(v)', IsBusy(u)'
          PROVE  workers'[u].job # workers'[v].job
      <4>1. CASE v = w
        BY <2>4, <3>1, <3>3, <4>1 DEF IsBusy
      <4>2. CASE u = w
        BY <2>4, <3>1, <3>3, <4>2 DEF IsBusy
      <4>3. CASE v # w /\ u # w
        BY <2>4, <2>6, <3>3, <4>3 DEF IsBusy, BookInv, BookedOnce
      <4>4. QED BY <4>1, <4>2, <4>3
    <3>4. QED BY <3>2, <3>3 DEF BookedOnce
  <2>7. AckInv'
    BY <2>2, <2>3 DEF AckInv
  <2>8. QED BY <2>5, <2>6, <2>7 DEF BookInv
<1>3. ASSUME hasJob(db), db' = JobPostponed(db, j), ExtendIdleExpiryTime(w), UNCHANGED clients
      PROVE  BookInv' /\ AckInv'
  <2>1. CanPostpone(db)
    BY <1>3 DEF CanPostpone
  <2>2. Known(db') = Known(db) /\ Range(db'.pending) = Range(db.pending)
    BY <1>1, <1>3, <2>1, PostponedSound
  <2>3. \A v \in Workers : IsBusy(v)' => IsBusy(v) /\ workers'[v].job = workers[v].job
    BY <1>3 DEF TypeInv, WorkersInv, ExtendIdleExpiryTime, IsBusy, Idle
  <2>4. AckInv'
    BY <1>3, <2>2 DEF AckInv, clients
  <2>5. QED BY <2>2, <2>3, <2>4, KeepsQueue
<1>4. CASE ExtendIdleExpiryTime(w) /\ db' = db /\ UNCHANGED clients
  <2>1. \A v \in Workers : IsBusy(v)' => IsBusy(v) /\ workers'[v].job = workers[v].job
    BY <1>4 DEF TypeInv, WorkersInv, ExtendIdleExpiryTime, IsBusy, Idle
  <2>2. QED BY <1>4, <2>1, OtherBooks DEF clients
<1>5. CASE UNCHANGED masterVars
  BY <1>5, OtherBooks DEF masterVars, volatile, clients, IsBusy
<1>6. CASE FailsOnUnknownWorker(w)
  BY <1>1, <1>6, PlainRestartBooks DEF FailsOnUnknownWorker
<1>7. QED BY <1>2, <1>3, <1>4, <1>5, <1>6 DEF onWorkerRequestsWork

\* Recording a verdict leaves the queue and the known jobs alone.
LEMMA VerdictBooks ==
  ASSUME TypeInv, BookInv, AckInv, NEW w \in Workers, UNCHANGED clients,
         workers' = ChangedToIdle(w),
         Known(db') = Known(db), Range(db'.pending) = Range(db.pending)
  PROVE  BookInv' /\ AckInv'
<1>1. \A v \in Workers : IsBusy(v)' => IsBusy(v) /\ workers'[v].job = workers[v].job
  BY DEF TypeInv, WorkersInv, ChangedToIdle, IsBusy, Idle
<1>2. AckInv'
  BY DEF AckInv, clients
<1>3. QED BY <1>1, <1>2, KeepsQueue

LEMMA onWorkIsDoneBooks ==
  ASSUME TypeInv, BookInv, AckInv, NEW w \in Workers, NEW j \in Jobs, NEW r \in Jobs,
         onWorkIsDone(w, j, r)
  PROVE  BookInv' /\ AckInv'
<1>1. Sound(db, Clear) /\ Clear \in SUBSET Jobs /\ DbInv
  BY DEF TypeInv, DbInv, Clear
<1>2. ASSUME isInProgress(db, j), db' = JobCompleted(db, j, r),
             workers' = ChangedToIdle(w), UNCHANGED clients
      PROVE  BookInv' /\ AckInv'
  <2>1. Known(db') = Known(db) /\ Range(db'.pending) = Range(db.pending)
    BY <1>1, <1>2, CompletedSound DEF isInProgress
  <2>2. QED BY <1>2, <2>1, VerdictBooks
<1>3. ASSUME Persist(1, CanRecord(durable, r), durable), Restart, UNCHANGED clients
      PROVE  BookInv' /\ AckInv'
  BY <1>1, <1>3, PersistRestartBooks DEF clients
<1>4. CASE UNCHANGED <<workers, db, clients>>
  BY <1>4, OtherBooks DEF clients, IsBusy
<1>5. CASE FailsOnUnknownWorker(w)
  BY <1>1, <1>5, PlainRestartBooks DEF FailsOnUnknownWorker
<1>6. QED BY <1>2, <1>3, <1>4, <1>5 DEF onWorkIsDone, masterVars, volatile, clients

LEMMA onWorkFailedBooks ==
  ASSUME TypeInv, BookInv, AckInv, NEW w \in Workers, NEW j \in Jobs, NEW r \in Jobs \cup {NoJob},
         onWorkFailed(w, j, r)
  PROVE  BookInv' /\ AckInv'
<1>1. Sound(db, Clear) /\ Clear \in SUBSET Jobs /\ DbInv
  BY DEF TypeInv, DbInv, Clear
<1>2. ASSUME isInProgress(db, j), CanRecord(db, r), db' = JobFailed(db, j, r),
             workers' = ChangedToIdle(w), UNCHANGED clients
      PROVE  BookInv' /\ AckInv'
  <2>1. r \in Jobs
    BY <1>2 DEF CanRecord
  <2>2. Known(db') = Known(db) /\ Range(db'.pending) = Range(db.pending)
    BY <1>1, <1>2, <2>1, FailedSound DEF isInProgress
  <2>3. QED BY <1>2, <2>2, VerdictBooks
<1>3. ASSUME Persist(1, CanRecord(durable, r), durable), Restart, UNCHANGED clients
      PROVE  BookInv' /\ AckInv'
  BY <1>1, <1>3, PersistRestartBooks DEF clients
<1>4. CASE UNCHANGED <<workers, db, clients>>
  BY <1>4, OtherBooks DEF clients, IsBusy
<1>5. CASE FailsOnUnknownWorker(w)
  BY <1>1, <1>5, PlainRestartBooks DEF FailsOnUnknownWorker
<1>6. QED BY <1>2, <1>3, <1>4, <1>5 DEF onWorkFailed, masterVars, volatile, clients

\* The tick ends the booking of every job it puts back into the queue.
LEMMA onCleanupTickBooks ==
  ASSUME TypeInv, BookInv, AckInv, onCleanupTick
  PROVE  BookInv' /\ AckInv'
<1> DEFINE left == [w \in Workers |-> IF w \in Overdue THEN Absent ELSE workers[w]]
<1>1. PICK order \in Orders({w \in Overdue : IsBusy(w)}) :
        LET late == [i \in DOMAIN order |-> workers[order[i]].job]
        IN  /\ Persist(Len(late), CanTimeOut(durable, Kept(late)), JobTimedOut(durable, Kept(late)))
            /\ \/ CanTimeOut(db, late) /\ db' = JobTimedOut(db, late) /\ workers' = left
               \/ Restart
            /\ UNCHANGED clients
  BY DEF onCleanupTick, TakeBack
<1> DEFINE late == [i \in DOMAIN order |-> workers[order[i]].job]
<1>2. /\ late \in Seq(Jobs)
      /\ \A i \in DOMAIN order : order[i] \in Workers
                                /\ order[i] \in Overdue /\ IsBusy(order[i])
  BY LateJobs DEF TypeInv
<1>3. \A i \in DOMAIN late : /\ i \in DOMAIN order /\ late[i] = workers[order[i]].job
                            /\ order[i] \in Workers
                            /\ order[i] \in Overdue /\ IsBusy(order[i])
  BY <1>2
<1>4. /\ Persist(Len(late), CanTimeOut(durable, Kept(late)), JobTimedOut(durable, Kept(late)))
      /\ \/ CanTimeOut(db, late) /\ db' = JobTimedOut(db, late) /\ workers' = left
         \/ Restart
      /\ UNCHANGED clients
  BY <1>1
<1> HIDE DEF late
<1>5. Sound(db, Clear) /\ Sound(durable, Clear) /\ Clear \in SUBSET Jobs /\ DbInv
  BY DEF TypeInv, DbInv, Clear
<1>6. CASE Restart
  <2>1. CanTimeOut(durable, Kept(late)) => Known(JobTimedOut(durable, Kept(late))) = Known(durable)
    BY <1>2, <1>5, KeptPrefix, TimedOutSound
  <2>2. QED BY <1>4, <1>5, <1>6, <2>1, PersistRestartBooks DEF clients
<1>7. CASE CanTimeOut(db, late) /\ db' = JobTimedOut(db, late) /\ workers' = left
  <2>1. Known(db') = Known(db) /\ Range(db'.pending) = Range(db.pending) \cup Range(late)
    BY <1>2, <1>5, <1>7, TimedOutSound
  <2>2. \A v \in Workers : IsBusy(v)' => /\ IsBusy(v) /\ v \notin Overdue
                                        /\ workers'[v].job = workers[v].job
    BY <1>7 DEF IsBusy, Absent
  <2>3. AckInv'
    BY <1>4, <2>1 DEF AckInv, clients
  <2>4. ASSUME ~Resends, NEW v \in Workers, IsBusy(v)'
        PROVE  workers[v].job \notin Range(db'.pending)
    <3>1. IsBusy(v) /\ v \notin Overdue
      BY <2>2, <2>4
    <3>2. workers[v].job \notin Range(db.pending)
      BY <2>4, <3>1 DEF BookInv, BookedOnce
    <3>3. ASSUME NEW i \in DOMAIN late
          PROVE  late[i] # workers[v].job
      BY <1>3, <2>4, <3>1 DEF BookInv, BookedOnce
    <3>4. QED BY <2>1, <3>2, <3>3 DEF Range
  <2>5. QED BY <2>1, <2>2, <2>3, <2>4, KeepsBooks
<1>8. QED BY <1>4, <1>6, <1>7

LEMMA NextBooks ==
  ASSUME TypeInv, BookInv, AckInv, Next
  PROVE  BookInv' /\ AckInv'
<1>1. DbInv
  BY DEF TypeInv
<1>2. CASE ClientStep
  <2>1. ASSUME UNCHANGED <<workers, db, clients>>
        PROVE  BookInv' /\ AckInv'
    BY <2>1, OtherBooks DEF clients, IsBusy
  <2>2. QED BY <1>1, <1>2, <2>1, ClientSendsJobBooks, processCmdLineJobBooks,
               CrashesInBatchBooks
            DEF ClientStep, onTrackingInfo, onUploadFile
<1>3. ASSUME NEW w \in Workers, WorkerStep(w)
      PROVE  BookInv' /\ AckInv'
  <2>1. ASSUME db' = db, UNCHANGED clients,
               \A v \in Workers : IsBusy(v)' => IsBusy(v) /\ workers'[v].job = workers[v].job
        PROVE  BookInv' /\ AckInv'
    BY <2>1, OtherBooks DEF clients
  <2>2. CASE onRegisterWorker(w)
    BY <2>1, <2>2 DEF onRegisterWorker, IsBusy, TypeInv, WorkersInv, Idle
  <2>3. ASSUME NEW j \in Jobs, onWorkInProgress(w, j)
        PROVE  BookInv' /\ AckInv'
    BY <2>1, <2>3 DEF onWorkInProgress, IsBusy, TypeInv, WorkersInv
  <2>4. CASE onWorkerRequestsFile(w)
    <3>1. CASE Restart
      BY <1>1, <2>4, <3>1, PlainRestartBooks DEF onWorkerRequestsFile
    <3>2. CASE UNCHANGED <<volatile, db>>
      BY <2>1, <2>4, <3>2 DEF onWorkerRequestsFile, volatile, IsBusy
    <3>3. QED BY <2>4, <3>1, <3>2 DEF onWorkerRequestsFile
  <2>5. ASSUME NEW f \in Files, onFileUploadComplete(f, HostOf[w])
        PROVE  BookInv' /\ AckInv'
    BY <2>1, <2>5 DEF onFileUploadComplete, IsBusy
  <2>6. QED BY <1>3, <2>2, <2>3, <2>4, <2>5, onWorkerRequestsWorkBooks,
               onWorkIsDoneBooks, onWorkFailedBooks DEF WorkerStep
<1>4. ASSUME NEW w \in Workers, DeadlinePasses(w) \/ Receive(w)
      PROVE  BookInv' /\ AckInv'
  <2>1. /\ db' = db /\ acked' = acked
        /\ \A v \in Workers : IsBusy(v)' => IsBusy(v) /\ workers'[v].job = workers[v].job
    BY <1>4 DEF DeadlinePasses, Receive, volatile, clients, IsBusy, TypeInv, WorkersInv, WorkerStates
  <2>2. QED BY <2>1, OtherBooks
<1>5. CASE onCleanupTick
  BY <1>5, onCleanupTickBooks
<1>6. CASE Crash
  BY <1>1, <1>6, PlainRestartBooks DEF Crash
<1>7. QED BY <1>2, <1>3, <1>4, <1>5, <1>6 DEF Next

LEMMA BooksInvariance == Spec => [](TypeInv /\ BookInv /\ AckInv)
<1>1. Init => BookInv /\ AckInv
  BY DEF Init, BookInv, AckInv, BookedOnce, IsBusy, Absent
<1>2. BookInv /\ AckInv /\ UNCHANGED masterVars => BookInv' /\ AckInv'
  <2>1. SUFFICES ASSUME BookInv, AckInv, UNCHANGED masterVars
                 PROVE  BookInv' /\ AckInv'
    OBVIOUS
  <2>2. UNCHANGED <<workers, db, clients>>
    BY <2>1 DEF masterVars, volatile, clients
  <2>3. QED BY <2>1, <2>2, OtherBooks DEF clients, IsBusy
<1>3. QED BY <1>1, <1>2, Invariance, NextBooks, PTL DEF Spec

-----------------------------------------------------------------------------
(***************************************************************************)
(* The theorems.                                                           *)
(***************************************************************************)
\* The variables keep their types, for every number of workers and jobs.
THEOREM TypeCorrect == Spec => []TypeOK
<1>1. TypeInv => TypeOK
  BY DEF TypeInv, TypeOK, DbInv, WorkersInv, FilesInv, ChannelsInv, Sound
<1>2. QED BY <1>1, Invariance, PTL

\* No accepted job is lost, queued twice, run while queued or requeued
\* once done, whatever workers, clients, clocks and crashes do.
THEOREM JobsAreConserved == Spec => []JobsConserved
<1>1. TypeInv => JobsConserved
  BY DEF TypeInv, DbInv, Sound, JobsConserved
<1>2. QED BY <1>1, Invariance, PTL

\* Every acceptance is open or has exactly one recorded verdict, whatever
\* results the reports carry, for all jobs no recorded verdict mixed up.
THEOREM VerdictsAreUnique == Spec => []OneVerdictPerAcceptance
<1>1. TypeInv => OneVerdictPerAcceptance
  BY DEF TypeInv, DbInv, Sound, OneVerdictPerAcceptance
<1>2. QED BY <1>1, Invariance, PTL

\* The job summary follows the jobs no recorded verdict mixed up.
THEOREM SummaryIsFaithful == Spec => []SummaryFollowsJobs
<1>1. TypeInv => SummaryFollowsJobs
  BY DEF TypeInv, DbInv, Sound, SummaryFollowsJobs
<1>2. QED BY <1>1, Invariance, PTL

\* No job is on the books of two workers, or booked while it is queued,
\* as long as clients do not send a failed job again.
THEOREM JobsAreBookedOnce == ~Resends => (Spec => []BookedOnce)
<1> SUFFICES ASSUME ~Resends
             PROVE  Spec => []BookedOnce
  OBVIOUS
<1>1. BookInv => BookedOnce
  BY DEF BookInv
<1>2. QED BY <1>1, BooksInvariance, PTL

\* While the journal is no longer than recovery replays, crashes and
\* restarts lose no acknowledged job.
THEOREM AckedJobsAreKept == MaxEvents <= ReplayTo => (Spec => []AckedJobsKept)
<1> SUFFICES ASSUME MaxEvents <= ReplayTo
             PROVE  Spec => []AckedJobsKept
  OBVIOUS
<1>1. TypeInv /\ AckInv => AckedJobsKept
  <2>1. SUFFICES ASSUME TypeInv, AckInv, NEW j \in acked
                 PROVE  /\ j \in Known(db)
                        /\ j \in db.accepted \/ db.failed[j] > 0 \/ j \in mixed
    BY DEF AckedJobsKept
  <2>2. j \in Known(db) /\ j \in Jobs
    BY <2>1 DEF AckInv, Known
  <2>3. Sound(db, Clear) /\ Clear \in SUBSET Jobs
    BY <2>1 DEF TypeInv, DbInv, Clear
  <2>4. CASE j \in Clear
    BY <2>2, <2>3, <2>4, KnownFailed
  <2>5. CASE j \notin Clear
    BY <2>2, <2>5 DEF Clear
  <2>6. QED BY <2>2, <2>4, <2>5
<1>2. QED BY <1>1, BooksInvariance, PTL
=============================================================================
