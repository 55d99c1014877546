------------------------------ MODULE Protocol ------------------------------
(***************************************************************************)
(* The messages master and workers exchange (MasterWorkerProtocol.java,    *)
(* and the messages of Master.java and Worker.java) and the channels that  *)
(* carry them: akka delivers the messages of one sender to one receiver in *)
(* order and at most once.  A bounded channel stands for that: what finds  *)
(* it full is lost.                                                        *)
(*                                                                         *)
(* A file job has an id of its own; the file it carries stands for it.     *)
(***************************************************************************)
EXTENDS JobState

CONSTANTS
  Workers,       \* worker incarnations: a restarted agent is another one
  Files,         \* uploaded files, one per tracking id
  ChannelCap     \* bound on messages in flight to a worker; more are lost

ASSUME ProtocolAssumption ==
  /\ ChannelCap \in Nat
  /\ Files \cap (Jobs \cup {NoJob}) = {}

VARIABLE toWorker     \* messages in flight to each worker

Messages(types) == [type : types, body : Jobs \cup Files \cup {NoJob}]

\* Master to worker.
WorkerMessages == Messages({"WorkIsReady", "Ack", "Job", "FileJob"})

WorkIsReady == [type |-> "WorkIsReady", body |-> NoJob]
Ack(j)      == [type |-> "Ack", body |-> j]
Job(j)      == [type |-> "Job", body |-> j]
FileJob(f)  == [type |-> "FileJob", body |-> f]

Put(q, m) == IF Len(q) < ChannelCap THEN Append(q, m) ELSE q

Tell(w, m) == toWorker' = [toWorker EXCEPT ![w] = Put(@, m)]

\* The first message to a worker leaves the channel.
Taken(w) ==
  /\ toWorker[w] # <<>>
  /\ toWorker' = [toWorker EXCEPT ![w] = Tail(@)]

(***************************************************************************)
(* Worker to master.  A report names a job and carries a result, which is  *)
(* told apart by the job it is of; WorkFailed(null) has none.              *)
(***************************************************************************)
Request(type)     == [type |-> type, body |-> NoJob, result |-> NoJob]
RegisterWorker    == Request("RegisterWorker")
WorkerRequestsWork == Request("WorkerRequestsWork")
WorkerRequestsFile == Request("WorkerRequestsFile")
WorkInProgress(j) == [type |-> "WorkInProgress", body |-> j, result |-> NoJob]
WorkIsDone(j, r)  == [type |-> "WorkIsDone", body |-> j, result |-> r]
WorkFailed(j, r)  == [type |-> "WorkFailed", body |-> j, result |-> r]
FileUploadComplete(f) ==
  [type |-> "FileUploadComplete", body |-> f, result |-> NoJob]

MasterMessages ==
  [type : {"RegisterWorker", "WorkerRequestsWork", "WorkerRequestsFile",
           "WorkInProgress", "WorkIsDone", "WorkFailed", "FileUploadComplete"},
   body : Jobs \cup Files \cup {NoJob},
   result : Jobs \cup {NoJob}]
=============================================================================
