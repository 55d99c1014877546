---------------------------- MODULE MasterJournal ----------------------------
(***************************************************************************)
(* The journal of the master itself: `log` is the sequence of events the   *)
(* persistent actor has written.  Module Master keeps only what recovery   *)
(* makes of it (durable, poisoned, events); this module writes the log     *)
(* next to every command of Master, recovers from it one event at a time   *)
(* the way createReceiveRecover does, and checks that both agree - that    *)
(* batches of several events, the truncation by recovery() and the events  *)
(* whose replay throws are summarised as they should be.                   *)
(***************************************************************************)
EXTENDS Master

VARIABLE log     \* the journal

(***************************************************************************)
(* Events and their replay.                                                *)
(***************************************************************************)
Event(type, j, r) == [type |-> type, job |-> j, result |-> r]

Accepted(j)     == Event("JobAccepted", j, NoJob)
Started(j)      == Event("JobStarted", j, NoJob)
Completed(j, r) == Event("JobCompleted", j, r)
Failed(j, r)    == Event("JobFailed", j, r)
TimedOut(j)     == Event("JobTimedOut", j, NoJob)
Postponed(j)    == Event("JobPostponed", j, NoJob)
Uploaded        == Event("UploadFile", NoJob, NoJob)

\* The constructor the event is passed to returns.
Applies(d, e) ==
  CASE e.type = "JobStarted" -> CanStart(d, e.job)
    [] e.type \in {"JobCompleted", "JobFailed"} -> CanRecord(d, e.result)
    [] e.type = "JobTimedOut" -> isInProgress(d, e.job)
    [] e.type = "JobPostponed" -> CanPostpone(d)
    [] OTHER -> TRUE

updated(d, e) ==
  CASE e.type = "JobAccepted"  -> JobAccepted(d, <<e.job>>)
    [] e.type = "JobStarted"   -> JobStarted(d, e.job)
    [] e.type = "JobCompleted" -> JobCompleted(d, e.job, e.result)
    [] e.type = "JobFailed"    -> JobFailed(d, e.job, e.result)
    [] e.type = "JobTimedOut"  -> JobTimedOut(d, <<e.job>>)
    [] e.type = "JobPostponed" -> JobPostponed(d, e.job)
    [] e.type = "UploadFile"   -> d

Replayed(r, e) ==
  IF r.ok /\ Applies(r.db, e)
  THEN [db |-> updated(r.db, e), ok |-> TRUE]
  ELSE [db |-> r.db, ok |-> FALSE]

Fresh == [db |-> EmptyJobState, ok |-> TRUE]

\* What the first n events of s make of a fresh actor.
Replays(s) ==
  LET replay[n \in 0..Len(s)] ==
        IF n = 0 THEN Fresh ELSE Replayed(replay[n - 1], s[n])
  IN  replay

\* Variant: the last of them is not replayed.
RecoveredOneLess(s) == Replays(s)[IF Len(s) < ReplayTo THEN Len(s) ELSE ReplayTo - 1]

\* recovery() asks for the events up to sequence number ReplayTo.
Recovered(s) == Replays(s)[IF Len(s) <= ReplayTo THEN Len(s) ELSE ReplayTo]

(***************************************************************************)
(* Every command of Master, with what it writes.                           *)
(***************************************************************************)
Writes(s) == log' = log \o s

WritesIf(condition, e) == Writes(IF condition THEN <<e>> ELSE <<>>)

ClientWrites ==
  \/ \E j \in Jobs : ClientSendsJob(j) /\ WritesIf(~isAccepted(db, j), Accepted(j))
  \/ \E s \in NewJobs :
       LET accepts == [i \in DOMAIN s |-> Accepted(s[i])] IN
         \/ processCmdLineJob(s) /\ Writes(accepts)
         \/ \E n \in 0..Len(s) : CrashesInBatch(s, n) /\ Writes(SubSeq(accepts, 1, n))
  \/ \E t \in Trackings, cancel \in BOOLEAN :
       onTrackingInfo(t, cancel) /\ Writes(<<>>)
  \/ \E f \in Files : onUploadFile(f) /\ Writes(<<Uploaded>>)

RequestWrites(w) ==
  /\ onWorkerRequestsWork(w)
  /\ WritesIf(hasJob(db) /\ IsIdle(w),
              IF WorkerRole[w] = RoleOf[nextJob(db)]
              THEN Started(nextJob(db)) ELSE Postponed(nextJob(db)))

ReportWrites(w) ==
  \E j \in Jobs :
    \/ \E r \in Jobs :
         /\ onWorkIsDone(w, j, r)
         /\ WritesIf(isInProgress(db, j) /\ ~isDone(db, j) /\ IsKnown(w), Completed(j, r))
    \/ \E r \in Jobs \cup {NoJob} :
         /\ onWorkFailed(w, j, r)
         /\ WritesIf(isInProgress(db, j) /\ IsKnown(w), Failed(j, r))

TickWrites ==
  /\ Running
  /\ Overdue # {}
  /\ \E order \in Orders({w \in Overdue : IsBusy(w)}) :
       /\ TakeBack(order)
       /\ Writes([i \in DOMAIN order |-> TimedOut(workers[order[i]].job)])
  /\ UNCHANGED clients

\* Nobody reads the messages to the workers here.
SilentStep(w) ==
  \/ onRegisterWorker(w)
  \/ \E j \in Jobs : onWorkInProgress(w, j)
  \/ onWorkerRequestsFile(w)
  \/ \E f \in Files : onFileUploadComplete(f, HostOf[w])
  \/ DeadlinePasses(w)

JournalNext ==
  \/ ClientWrites
  \/ \E w \in Workers :
       RequestWrites(w) \/ ReportWrites(w) \/ (SilentStep(w) /\ Writes(<<>>))
  \/ TickWrites
  \/ Crash /\ Writes(<<>>)

JournalSpec == Init /\ log = <<>> /\ [][JournalNext]_<<masterVars, log>>

(***************************************************************************)
(* Properties.                                                             *)
(***************************************************************************)
(***************************************************************************)
(* What Master says recovery will make of the journal is what it makes of  *)
(* it, event by event: the database, and whether a replayed event throws   *)
(* (createReceiveRecover and recovery of Master.java).                     *)
(***************************************************************************)
JournalReplays ==
  /\ events = Len(log)
  /\ poisoned = ~Recovered(log).ok
  /\ ~poisoned => durable = Recovered(log).db

(***************************************************************************)
(* As long as the journal is no longer than what is replayed, a crash      *)
(* loses nothing of the database: the live one is the recovered one,       *)
(* whatever order its events were written in.                              *)
(***************************************************************************)
LiveIsRecovered ==
  Running /\ Len(log) <= ReplayTo => db = Recovered(log).db
=============================================================================
