----------------------------- MODULE Submission -----------------------------
(***************************************************************************)
(* How a submission reaches the master: the upload end point of the server *)
(* (FileUploadController.java), the loop of ServerRepository.java that     *)
(* asks the master to accept one job after another, the client actor       *)
(* between them (MasterClientActor.java), and the command line client      *)
(* (CommandClientActor.java), which has the master make the jobs.          *)
(*                                                                         *)
(* Jobs of a submission are numbered.  A message may be lost, or wait in   *)
(* the singleton proxy longer than anybody waits for its answer.  The      *)
(* client actor gives up after 120 s, the loop after 6 s, so the NotOk of  *)
(* the actor always comes too late; only Ok matters here.                  *)
(***************************************************************************)
EXTENDS Naturals, FiniteSets

CONSTANTS
  Uploads,       \* submissions by an upload: the server draws an id for each
  Commands,      \* submissions of the command line client
  Count,         \* the parallelism each submission asks for
  Names,         \* class names of simulations
  NameOf         \* the one each upload is for

Requests == Uploads \cup Commands

ASSUME SubmissionAssumption ==
  /\ Uploads \cap Commands = {}
  /\ Count \in [Requests -> Nat]
  /\ NameOf \in [Uploads -> Names]

VARIABLES
  phase,         \* what the server does for each upload
  staged,        \* uploads whose bytes are in the staged file of each name
  asked,         \* jobs the loop has sent to the master
  acked,         \* jobs it has got an Ok for (the variable success)
  jobMail,       \* jobs on their way to the master
  ackMail,       \* their Acks on the way back
  accepted,      \* jobs the master has persisted
  answer,        \* what the user is told
  batch          \* jobs of a command the master has not persisted yet

serverVars == <<phase, staged, asked, acked, answer>>
mailVars == <<jobMail, ackMail, accepted>>
submissionVars == <<serverVars, mailVars, batch>>

Numbers(r) == 1..Count[r]

At(f, r, value) == [f EXCEPT ![r] = value]

SubmissionInit ==
  /\ phase = [r \in Requests |-> "unsent"]
  /\ staged = [n \in Names |-> {}]
  /\ asked = [r \in Requests |-> 0]
  /\ acked = [r \in Requests |-> 0]
  /\ jobMail = [r \in Requests |-> {}]
  /\ ackMail = [r \in Requests |-> {}]
  /\ accepted = [r \in Requests |-> {}]
  /\ answer = [r \in Requests |-> "none"]
  /\ batch = [r \in Requests |-> 0]

Step(r, from, to) == phase[r] = from /\ phase' = At(phase, r, to)

Answered(r, verdict) == answer' = At(answer, r, verdict)

(***************************************************************************)
(* uploadAndRunSimulation: the simulation is written to a path made of its *)
(* class name only.  Opening the file truncates it; others that write it   *)
(* at that moment go on.                                                   *)
(***************************************************************************)
Posts(r) ==
  /\ Step(r, "unsent", "sent")
  /\ UNCHANGED <<staged, asked, acked, answer, mailVars, batch>>

Writers(n) == {r \in Uploads : phase[r] = "staging" /\ NameOf[r] = n}

Stages(r) ==
  /\ Step(r, "sent", "staging")
  /\ staged' = At(staged, NameOf[r], Writers(NameOf[r]) \cup {r})
  /\ UNCHANGED <<asked, acked, answer, mailVars, batch>>

Staged(r) ==
  /\ Step(r, "staging", "asking")
  /\ UNCHANGED <<staged, asked, acked, answer, mailVars, batch>>

\* The file is empty, or something throws before the loop.
StagingFails(r) ==
  /\ Step(r, "sent", "done") \/ Step(r, "staging", "done")
  /\ Answered(r, "failure")
  /\ UNCHANGED <<staged, asked, acked, mailVars, batch>>

(***************************************************************************)
(* submitSimulationJob: the loop waits for the Ok of each job before it    *)
(* asks for the next; a timeout ends it, and the exception becomes a       *)
(* failure in the callers.                                                 *)
(***************************************************************************)
Waits(r) == phase[r] = "asking" /\ acked[r] < asked[r]

\* Variant: jobs are sent without waiting for the Ok of those before.
AsksAhead(r) ==
  /\ phase[r] = "asking" /\ asked[r] < Count[r]
  /\ asked' = At(asked, r, asked[r] + 1)
  /\ jobMail' = At(jobMail, r, jobMail[r] \cup {asked[r] + 1})
  /\ UNCHANGED <<phase, staged, acked, answer, ackMail, accepted, batch>>

Asks(r) ==
  /\ phase[r] = "asking" /\ ~Waits(r)
  /\ asked[r] < Count[r]
  /\ asked' = At(asked, r, asked[r] + 1)
  /\ jobMail' = At(jobMail, r, jobMail[r] \cup {asked[r] + 1})
  /\ UNCHANGED <<phase, staged, acked, answer, ackMail, accepted, batch>>

GetsOk(r) ==
  /\ Waits(r)
  /\ asked[r] \in ackMail[r]
  /\ acked' = At(acked, r, acked[r] + 1)
  /\ ackMail' = At(ackMail, r, ackMail[r] \ {asked[r]})
  /\ UNCHANGED <<phase, staged, asked, answer, jobMail, accepted, batch>>

\* Variant: a timeout counts as an Ok, and the loop goes on.
CountsTimeout(r) ==
  /\ Waits(r)
  /\ acked' = At(acked, r, acked[r] + 1)
  /\ UNCHANGED <<phase, staged, asked, answer, mailVars, batch>>

\* Variant: the loop waits as long as it takes.
NeverTimesOut(r) == FALSE /\ UNCHANGED submissionVars

TimesOut(r) ==
  /\ Waits(r)
  /\ Step(r, "asking", "done")
  /\ Answered(r, "failure")
  /\ UNCHANGED <<staged, asked, acked, mailVars, batch>>

Submitted(r) ==
  /\ acked[r] = Count[r]
  /\ Step(r, "asking", "done")
  /\ Answered(r, "success")
  /\ UNCHANGED <<staged, asked, acked, mailVars, batch>>

(***************************************************************************)
(* The master persists a job before it acknowledges it (onJob).          *)
(***************************************************************************)
MasterAccepts(r, i) ==
  /\ i \in jobMail[r]
  /\ jobMail' = At(jobMail, r, jobMail[r] \ {i})
  /\ accepted' = At(accepted, r, accepted[r] \cup {i})
  /\ ackMail' = At(ackMail, r, ackMail[r] \cup {i})
  /\ UNCHANGED <<serverVars, batch>>

MailIsLost(r, i) ==
  /\ i \in jobMail[r] \cup ackMail[r]
  /\ jobMail' = At(jobMail, r, jobMail[r] \ {i})
  /\ ackMail' = At(ackMail, r, ackMail[r] \ {i})
  /\ UNCHANGED <<serverVars, accepted, batch>>

(***************************************************************************)
(* The command line client sends its command once, and exits when it is    *)
(* told the tracking id, which the master sends before it has persisted    *)
(* the jobs it has made (processCmdLineJob).                               *)
(***************************************************************************)
SendsCommand(c) ==
  /\ Step(c, "unsent", "sent")
  /\ UNCHANGED <<staged, asked, acked, answer, mailVars, batch>>

TakesCommand(c) ==
  /\ Step(c, "sent", "done")
  /\ batch' = At(batch, c, Count[c])
  /\ Answered(c, "success")
  /\ UNCHANGED <<staged, asked, acked, mailVars>>

\* Variant: one job too many.
PersistsAnother(c) ==
  /\ phase[c] = "done"
  /\ batch' = At(batch, c, batch[c] - 1)
  /\ accepted' = At(accepted, c, accepted[c] \cup {Count[c] - batch[c] + 1})
  /\ UNCHANGED <<serverVars, jobMail, ackMail>>

PersistsNext(c) ==
  /\ batch[c] > 0
  /\ batch' = At(batch, c, batch[c] - 1)
  /\ accepted' = At(accepted, c, accepted[c] \cup {Count[c] - batch[c] + 1})
  /\ UNCHANGED <<serverVars, jobMail, ackMail>>

CommandIsLost(c) ==
  /\ Step(c, "sent", "lost")
  /\ UNCHANGED <<staged, asked, acked, answer, mailVars, batch>>

\* The master crashes before its journal has the rest of a batch.
BatchIsLost(c) ==
  /\ batch[c] > 0
  /\ batch' = At(batch, c, 0)
  /\ phase' = At(phase, c, "lost")
  /\ UNCHANGED <<staged, asked, acked, answer, mailVars>>

(***************************************************************************)
(* The specification.  Browsers and clients send whenever they like; what  *)
(* a browser does is in module RunPage.                                    *)
(***************************************************************************)
Serves(r) ==
  \/ Stages(r) \/ Staged(r) \/ StagingFails(r)
  \/ Asks(r) \/ GetsOk(r) \/ TimesOut(r) \/ Submitted(r)

Delivers(r) == \E i \in Numbers(r) : MasterAccepts(r, i) \/ MailIsLost(r, i)

CommandStep(c) ==
  \/ SendsCommand(c) \/ TakesCommand(c) \/ PersistsNext(c)
  \/ CommandIsLost(c) \/ BatchIsLost(c)

ServerNext ==
  \/ \E r \in Uploads : Serves(r) \/ Delivers(r)
  \/ \E c \in Commands : CommandStep(c)

SubmissionNext == ServerNext \/ \E r \in Uploads : Posts(r)

SubmissionSpec == SubmissionInit /\ [][SubmissionNext]_submissionVars

(***************************************************************************)
(* Properties.                                                             *)
(***************************************************************************)
SubmissionTypeOK ==
  /\ phase \in [Requests -> {"unsent", "sent", "staging", "asking", "done", "lost"}]
  /\ staged \in [Names -> SUBSET Uploads]
  /\ asked \in [Requests -> Nat] /\ acked \in [Requests -> Nat]
  /\ jobMail \in [Requests -> SUBSET Nat]
  /\ ackMail \in [Requests -> SUBSET Nat]
  /\ accepted \in [Requests -> SUBSET Nat]
  /\ answer \in [Requests -> {"none", "success", "failure"}]
  /\ batch \in [Requests -> Nat]

(***************************************************************************)
(* "if the job is properly submitted return the tracking identifier"       *)
(* (ServerRepository.java:117): a user who is told a tracking id has all   *)
(* the jobs, and only those, persisted by the master - whatever Acks and   *)
(* jobs were lost or late.                                                 *)
(***************************************************************************)
AnswerIsComplete ==
  \A r \in Uploads : answer[r] = "success" => accepted[r] = Numbers(r)

(***************************************************************************)
(* The server's count and the master's books never differ by more than the *)
(* job the loop is waiting for: what it counted is accepted, and what it   *)
(* did not ask for is not.                                                 *)
(***************************************************************************)
CountIsBacked ==
  \A r \in Uploads :
    /\ 1..acked[r] \subseteq accepted[r]
    /\ accepted[r] \subseteq 1..asked[r]
    /\ asked[r] \in {acked[r], acked[r] + 1}

(***************************************************************************)
(* An answer settles a submission: after a success nothing is added to it, *)
(* and after a failure at most the one job that was on its way.            *)
(***************************************************************************)
AnswerSettles ==
  [][\A r \in Uploads :
       /\ answer[r] = "success" => accepted'[r] = accepted[r]
       /\ answer[r] = "failure" => accepted'[r] \subseteq accepted[r] \cup {acked[r] + 1}
    ]_submissionVars

(***************************************************************************)
(* A command whose client was told its tracking id gets all of its jobs,   *)
(* unless the master crashes in the middle of them.                        *)
(***************************************************************************)
CommandIsComplete ==
  \A c \in Commands :
    phase[c] = "done" => accepted[c] = 1..(Count[c] - batch[c])

(***************************************************************************)
(* Jobs that wait for a worker find the simulation that was uploaded with  *)
(* them where the server staged it ("run side by side on the same cluster  *)
(* with complete isolation", README.md:47).                                *)
(* Broken: the path is made of the class name alone, and users share it.   *)
(***************************************************************************)
JobsFindTheirSimulation ==
  \A r \in Uploads : accepted[r] # {} => staged[NameOf[r]] = {r}
=============================================================================
