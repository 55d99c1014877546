-------------------------- MODULE SubmissionProofs --------------------------
(***************************************************************************)
(* What a user is told of a submission, for every number of submissions    *)
(* and of jobs each of them asks for, whatever is lost or late.            *)
(*                                                                         *)
(* The server's count is not inductive by itself: that it is backed by the *)
(* master rests on what is under way, and that an answer settles the       *)
(* submission on the loop having ended.  UploadInv says that the only job  *)
(* with anything under way is the one the loop has asked for last, and     *)
(* that it is under way in one direction.                                  *)
(*                                                                         *)
(* The submission page comes after it: that the next page is complete when *)
(* it is shown rests on the server (SubmissionInv), as an answer that says *)
(* success is complete, and final.  That a choice is sent once is counted  *)
(* visit by visit (VisitInv): a file that is chosen and not under way is a *)
(* choice not sent yet, and what is under way keeps the uploader busy.     *)
(***************************************************************************)
EXTENDS RunPage, FiniteSetTheorems, TLAPS

UploadInv(r) ==
  /\ acked[r] <= asked[r] /\ asked[r] <= acked[r] + 1 /\ asked[r] <= Count[r]
  /\ 1..acked[r] \subseteq accepted[r]
  /\ accepted[r] \subseteq 1..asked[r]
  /\ jobMail[r] \subseteq (acked[r] + 1)..asked[r]
  /\ jobMail[r] \cap accepted[r] = {}
  /\ ackMail[r] \subseteq (acked[r] + 1)..asked[r]
  /\ ackMail[r] \subseteq accepted[r]
  /\ answer[r] # "none" => phase[r] = "done"
  /\ answer[r] = "success" => acked[r] = Count[r]

CommandInv(c) ==
  /\ batch[c] <= Count[c]
  /\ batch[c] > 0 => phase[c] = "done"
  /\ phase[c] \in {"unsent", "sent"} => accepted[c] = {}
  /\ phase[c] = "done" => accepted[c] = 1..(Count[c] - batch[c])

SubmissionInv ==
  /\ SubmissionTypeOK
  /\ \A r \in Uploads : UploadInv(r)
  /\ \A c \in Commands : CommandInv(c)

UploadStep(r) == Posts(r) \/ Serves(r) \/ Delivers(r)

-----------------------------------------------------------------------------
(***************************************************************************)
(* Types.                                                                  *)
(***************************************************************************)
LEMMA UploadTypes ==
  ASSUME SubmissionTypeOK, NEW r \in Uploads, UploadStep(r)
  PROVE  SubmissionTypeOK'
<1> USE SubmissionAssumption DEF SubmissionTypeOK, Requests, At, Answered, Step
<1>1. CASE Posts(r)
  BY <1>1 DEF Posts, mailVars
<1>2. CASE Stages(r)
  BY <1>2 DEF Stages, mailVars, Writers
<1>3. CASE Staged(r)
  BY <1>3 DEF Staged, mailVars
<1>4. CASE StagingFails(r)
  BY <1>4 DEF StagingFails, mailVars
<1>5. CASE Asks(r)
  BY <1>5 DEF Asks
<1>6. CASE GetsOk(r)
  BY <1>6 DEF GetsOk
<1>7. CASE TimesOut(r)
  BY <1>7 DEF TimesOut, mailVars
<1>8. CASE Submitted(r)
  BY <1>8 DEF Submitted, mailVars
<1>9. CASE Delivers(r)
  <2>1. PICK i \in Numbers(r) : MasterAccepts(r, i) \/ MailIsLost(r, i)
    BY <1>9 DEF Delivers
  <2>2. i \in Nat
    BY <2>1 DEF Numbers
  <2>3. CASE MasterAccepts(r, i)
    BY <2>2, <2>3 DEF MasterAccepts, serverVars
  <2>4. CASE MailIsLost(r, i)
    BY <2>4 DEF MailIsLost, serverVars
  <2>5. QED BY <2>1, <2>3, <2>4
<1>10. QED
  BY <1>1, <1>2, <1>3, <1>4, <1>5, <1>6, <1>7, <1>8, <1>9 DEF UploadStep, Serves

LEMMA CommandTypes ==
  ASSUME SubmissionTypeOK, NEW c \in Commands, CommandInv(c), CommandStep(c)
  PROVE  SubmissionTypeOK'
<1> USE SubmissionAssumption DEF SubmissionTypeOK, Requests, At, Answered, Step
<1>1. CASE SendsCommand(c)
  BY <1>1 DEF SendsCommand, mailVars
<1>2. CASE TakesCommand(c)
  BY <1>2 DEF TakesCommand, mailVars
<1>3. CASE PersistsNext(c)
  <2>1. batch[c] - 1 \in Nat /\ Count[c] - batch[c] + 1 \in Nat
    BY <1>3 DEF PersistsNext, CommandInv
  <2>2. QED BY <1>3, <2>1 DEF PersistsNext, serverVars
<1>4. CASE CommandIsLost(c)
  BY <1>4 DEF CommandIsLost, mailVars
<1>5. CASE BatchIsLost(c)
  BY <1>5 DEF BatchIsLost, mailVars
<1>6. QED
  BY <1>1, <1>2, <1>3, <1>4, <1>5 DEF CommandStep

-----------------------------------------------------------------------------
(***************************************************************************)
(* A step of one submission keeps everything of the others.                *)
(***************************************************************************)
View(r) ==
  <<phase[r], asked[r], acked[r], jobMail[r], ackMail[r], accepted[r], answer[r], batch[r]>>

LEMMA OthersKept ==
  ASSUME SubmissionTypeOK, NEW q \in Requests, NEW r \in Requests, r # q,
         UploadStep(q) \/ CommandStep(q)
  PROVE  View(r)' = View(r)
BY DEF SubmissionTypeOK, View, UploadStep, CommandStep, Serves, Delivers, Posts, Stages,
       Staged, StagingFails, Asks, GetsOk, TimesOut, Submitted, MasterAccepts, MailIsLost,
       SendsCommand, TakesCommand, PersistsNext, CommandIsLost, BatchIsLost, At, Answered,
       Step, mailVars, serverVars

LEMMA ViewDecides ==
  ASSUME NEW r \in Requests, View(r)' = View(r)
  PROVE  /\ UploadInv(r) => UploadInv(r)'
         /\ CommandInv(r) => CommandInv(r)'
BY DEF View, UploadInv, CommandInv

-----------------------------------------------------------------------------
(***************************************************************************)
(* The steps of a submission.                                              *)
(***************************************************************************)
\* What a step of r sees and what it leaves, without the functions around.
LEMMA UploadKept ==
  ASSUME SubmissionTypeOK, NEW r \in Uploads, UploadInv(r), UploadStep(r)
  PROVE  UploadInv(r)'
<1>1. /\ r \in Requests /\ Count[r] \in Nat
      /\ asked[r] \in Nat /\ acked[r] \in Nat
      /\ jobMail[r] \subseteq Nat /\ ackMail[r] \subseteq Nat /\ accepted[r] \subseteq Nat
  BY SubmissionAssumption DEF SubmissionTypeOK, Requests
<1>2. CASE Posts(r) \/ Stages(r) \/ Staged(r) \/ StagingFails(r) \/ TimesOut(r)
  <2>1. /\ <<asked, acked, jobMail, ackMail, accepted>>' = <<asked, acked, jobMail, ackMail, accepted>>
        /\ answer[r] = "none"
        /\ answer'[r] # "none" => answer'[r] = "failure" /\ phase'[r] = "done"
    BY <1>1, <1>2 DEF Posts, Stages, Staged, StagingFails, TimesOut, mailVars, Answered, Step,
                      At, SubmissionTypeOK, UploadInv
  <2>2. QED BY <1>1, <2>1 DEF UploadInv
<1>3. CASE Asks(r)
  <2>1. phase[r] = "asking" /\ ~(acked[r] < asked[r]) /\ asked[r] < Count[r]
    BY <1>3 DEF Asks, Waits
  <2>2. /\ phase' = phase /\ acked' = acked /\ answer' = answer
        /\ ackMail' = ackMail /\ accepted' = accepted
    BY <1>3 DEF Asks
  <2>3. asked'[r] = asked[r] + 1 /\ jobMail'[r] = jobMail[r] \cup {asked[r] + 1}
    BY <1>1, <1>3 DEF Asks, At, SubmissionTypeOK
  <2>4. acked[r] = asked[r] /\ answer[r] = "none"
    BY <1>1, <2>1 DEF UploadInv
  <2>5. jobMail[r] = {} /\ ackMail[r] = {}
    BY <1>1, <2>4 DEF UploadInv
  <2>6. accepted[r] \subseteq 1..(acked[r] + 1) /\ acked[r] + 1 \notin accepted[r]
    BY <1>1, <2>4 DEF UploadInv
  <2>7. /\ jobMail'[r] = {acked[r] + 1} /\ asked'[r] = acked[r] + 1
        /\ acked[r] + 1 <= Count[r]
    BY <1>1, <2>1, <2>3, <2>4, <2>5
  <2>8. QED BY <1>1, <2>2, <2>4, <2>5, <2>6, <2>7 DEF UploadInv
<1>4. CASE GetsOk(r)
  <2>1. /\ acked[r] < asked[r] /\ asked[r] \in ackMail[r] /\ phase[r] = "asking"
        /\ acked'[r] = acked[r] + 1
        /\ ackMail'[r] = ackMail[r] \ {asked[r]}
        /\ phase' = phase /\ asked' = asked /\ answer' = answer
        /\ jobMail' = jobMail /\ accepted' = accepted
    BY <1>1, <1>4 DEF GetsOk, Waits, At, SubmissionTypeOK
  <2>2. asked[r] = acked[r] + 1
    BY <1>1, <2>1 DEF UploadInv
  <2>3. ackMail'[r] = {} /\ jobMail[r] = {}
    <3>1. asked[r] \in accepted[r]
      BY <2>1 DEF UploadInv
    <3>2. \A i \in jobMail[r] \cup ackMail[r] : i = asked[r]
      BY <1>1, <2>2 DEF UploadInv
    <3>3. QED BY <2>1, <3>1, <3>2 DEF UploadInv
  <2>4. 1..acked'[r] \subseteq accepted[r]
    <3>1. \A i \in 1..acked'[r] : i \in 1..acked[r] \/ i = asked[r]
      BY <1>1, <2>1, <2>2
    <3>2. QED BY <2>1, <3>1 DEF UploadInv
  <2>5. QED BY <1>1, <2>1, <2>2, <2>3, <2>4 DEF UploadInv
<1>5. CASE Submitted(r)
  <2>1. /\ acked[r] = Count[r] /\ phase'[r] = "done"
        /\ <<asked, acked, jobMail, ackMail, accepted>>' = <<asked, acked, jobMail, ackMail, accepted>>
    BY <1>1, <1>5 DEF Submitted, mailVars, Step, At, SubmissionTypeOK
  <2>2. QED BY <1>1, <2>1 DEF UploadInv
<1>6. CASE Delivers(r)
  <2>1. PICK i \in Numbers(r) : MasterAccepts(r, i) \/ MailIsLost(r, i)
    BY <1>6 DEF Delivers
  <2>2. CASE MasterAccepts(r, i)
    <3>1. /\ i \in jobMail[r]
          /\ jobMail'[r] = jobMail[r] \ {i}
          /\ accepted'[r] = accepted[r] \cup {i}
          /\ ackMail'[r] = ackMail[r] \cup {i}
          /\ <<phase, asked, acked, answer>>' = <<phase, asked, acked, answer>>
      BY <1>1, <2>2 DEF MasterAccepts, serverVars, At, SubmissionTypeOK
    <3>2. i \in (acked[r] + 1)..asked[r] /\ i \in 1..asked[r]
      BY <1>1, <3>1 DEF UploadInv
    <3>3. QED BY <1>1, <3>1, <3>2 DEF UploadInv
  <2>3. CASE MailIsLost(r, i)
    <3>1. /\ jobMail'[r] = jobMail[r] \ {i}
          /\ ackMail'[r] = ackMail[r] \ {i}
          /\ <<phase, asked, acked, answer, accepted>>' = <<phase, asked, acked, answer, accepted>>
      BY <1>1, <2>3 DEF MailIsLost, serverVars, At, SubmissionTypeOK
    <3>2. QED BY <1>1, <3>1 DEF UploadInv
  <2>4. QED BY <2>1, <2>2, <2>3
<1>7. QED
  BY <1>2, <1>3, <1>4, <1>5, <1>6 DEF UploadStep, Serves

LEMMA CommandKept ==
  ASSUME SubmissionTypeOK, NEW c \in Commands, CommandInv(c), CommandStep(c)
  PROVE  CommandInv(c)'
<1> USE SubmissionAssumption DEF CommandInv, At, Step, SubmissionTypeOK
<1>1. /\ c \in Requests /\ Count[c] \in Nat /\ batch[c] \in Nat
  BY DEF Requests
<1>2. CASE SendsCommand(c)
  BY <1>1, <1>2 DEF SendsCommand, mailVars
<1>3. CASE TakesCommand(c)
  <2>1. /\ phase[c] = "sent" /\ phase'[c] = "done" /\ batch'[c] = Count[c]
        /\ accepted'[c] = accepted[c]
    BY <1>1, <1>3 DEF TakesCommand, mailVars
  <2>2. accepted'[c] = {}
    BY <2>1
  <2>3. 1..(Count[c] - batch'[c]) = {}
    BY <1>1, <2>1
  <2>4. batch'[c] <= Count[c]
    BY <1>1, <2>1
  <2>5. QED BY <2>1, <2>2, <2>3, <2>4 DEF CommandInv
<1>4. CASE PersistsNext(c)
  <2>1. /\ batch[c] > 0 /\ batch'[c] = batch[c] - 1 /\ phase'[c] = phase[c]
        /\ accepted'[c] = accepted[c] \cup {Count[c] - batch[c] + 1}
    BY <1>1, <1>4 DEF PersistsNext, serverVars
  <2>2. accepted'[c] = 1..(Count[c] - batch'[c])
    <3>1. accepted[c] = 1..(Count[c] - batch[c])
      BY <2>1
    <3>2. PICK n \in Nat : n = Count[c] - batch[c]
      BY <1>1, <2>1
    <3>3. Count[c] - batch'[c] = n + 1
      BY <1>1, <2>1, <3>2
    <3>4. 1..(n + 1) = 1..n \cup {n + 1}
      OBVIOUS
    <3>5. QED BY <2>1, <3>1, <3>2, <3>3, <3>4
  <2>3. QED BY <1>1, <2>1, <2>2
<1>5. CASE CommandIsLost(c)
  BY <1>1, <1>5 DEF CommandIsLost, mailVars
<1>6. CASE BatchIsLost(c)
  BY <1>1, <1>6 DEF BatchIsLost, mailVars
<1>7. QED
  BY <1>2, <1>3, <1>4, <1>5, <1>6 DEF CommandStep

LEMMA SubmissionStep ==
  ASSUME SubmissionInv, [SubmissionNext]_submissionVars
  PROVE  SubmissionInv'
<1>1. CASE UNCHANGED submissionVars
  BY <1>1 DEF SubmissionInv, SubmissionTypeOK, UploadInv, CommandInv, submissionVars,
              serverVars, mailVars
<1>2. ASSUME NEW q \in Uploads, UploadStep(q)
      PROVE  SubmissionInv'
  <2>1. SubmissionTypeOK'
    BY <1>2, UploadTypes DEF SubmissionInv
  <2>2. \A r \in Uploads : UploadInv(r)'
    BY <1>2, UploadKept, OthersKept, ViewDecides DEF SubmissionInv, Requests
  <2>3. \A c \in Commands : CommandInv(c)'
    BY <1>2, OthersKept, ViewDecides, SubmissionAssumption DEF SubmissionInv, Requests
  <2>4. QED BY <2>1, <2>2, <2>3 DEF SubmissionInv
<1>3. ASSUME NEW q \in Commands, CommandStep(q)
      PROVE  SubmissionInv'
  <2>1. SubmissionTypeOK'
    BY <1>3, CommandTypes DEF SubmissionInv
  <2>2. \A r \in Uploads : UploadInv(r)'
    BY <1>3, OthersKept, ViewDecides, SubmissionAssumption DEF SubmissionInv, Requests
  <2>3. \A c \in Commands : CommandInv(c)'
    BY <1>3, CommandKept, OthersKept, ViewDecides DEF SubmissionInv, Requests
  <2>4. QED BY <2>1, <2>2, <2>3 DEF SubmissionInv
<1>4. QED
  BY <1>1, <1>2, <1>3 DEF SubmissionNext, ServerNext, UploadStep

LEMMA SubmissionStarts ==
  ASSUME SubmissionInit
  PROVE  SubmissionInv
BY SubmissionAssumption
   DEF SubmissionInit, SubmissionInv, SubmissionTypeOK, UploadInv, CommandInv, Requests

LEMMA SubmissionInvariance == SubmissionSpec => []SubmissionInv
BY SubmissionStarts, SubmissionStep, PTL DEF SubmissionSpec

-----------------------------------------------------------------------------
(***************************************************************************)
(* The theorems about the server.                                          *)
(***************************************************************************)
\* After a success nothing is under way, and the books are complete.
LEMMA SuccessIsComplete ==
  ASSUME SubmissionInv, NEW r \in Uploads, answer[r] = "success"
  PROVE  /\ accepted[r] = Numbers(r)
         /\ jobMail[r] = {} /\ phase[r] = "done"
<1>1. /\ asked[r] \in Nat /\ acked[r] \in Nat /\ Count[r] \in Nat /\ UploadInv(r)
  BY SubmissionAssumption DEF SubmissionInv, SubmissionTypeOK, Requests
<1>2. acked[r] = Count[r] /\ asked[r] = Count[r]
  BY <1>1 DEF UploadInv
<1>3. accepted[r] = 1..Count[r] /\ phase[r] = "done"
  BY <1>1, <1>2 DEF UploadInv
<1>4. jobMail[r] = {}
  <2>1. (acked[r] + 1)..asked[r] = {}
    BY <1>1, <1>2
  <2>2. QED BY <1>1, <2>1 DEF UploadInv
<1>5. QED BY <1>3, <1>4 DEF Numbers

LEMMA CompleteAndBacked == SubmissionInv => AnswerIsComplete /\ CountIsBacked
<1>1. ASSUME SubmissionInv, NEW r \in Uploads
      PROVE  /\ 1..acked[r] \subseteq accepted[r]
             /\ accepted[r] \subseteq 1..asked[r]
             /\ asked[r] \in {acked[r], acked[r] + 1}
  <2>1. UploadInv(r) /\ asked[r] \in Nat /\ acked[r] \in Nat
    BY <1>1 DEF SubmissionInv, SubmissionTypeOK, Requests
  <2>2. QED BY <2>1 DEF UploadInv
<1>2. QED BY <1>1, SuccessIsComplete DEF AnswerIsComplete, CountIsBacked

(***************************************************************************)
(* Types of what the server, the master and the mail between them have of  *)
(* each submission; a batch of command line jobs never runs below nothing. *)
(***************************************************************************)
THEOREM SubmissionTypes == SubmissionSpec => []SubmissionTypeOK
<1>1. SubmissionInv => SubmissionTypeOK
  BY DEF SubmissionInv
<1>2. QED BY <1>1, SubmissionInvariance, PTL

(***************************************************************************)
(* The server's count of jobs (success in submitSimulationJob) is backed   *)
(* by the master's books, up to the job it waits for.                      *)
(***************************************************************************)
THEOREM CountsAreBacked == SubmissionSpec => []CountIsBacked
BY CompleteAndBacked, SubmissionInvariance, PTL

(***************************************************************************)
(* Who is told a tracking id has all the jobs asked for persisted.         *)
(***************************************************************************)
THEOREM AnswersAreComplete == SubmissionSpec => []AnswerIsComplete
BY CompleteAndBacked, SubmissionInvariance, PTL

\* What a step may still add to the submission r.
Settles(r) ==
  /\ answer[r] = "success" => accepted'[r] = accepted[r]
  /\ answer[r] = "failure" => accepted'[r] \subseteq accepted[r] \cup {acked[r] + 1}

LEMMA SettledKept ==
  ASSUME SubmissionInv, [SubmissionNext]_submissionVars, NEW r \in Uploads
  PROVE  Settles(r)
<1>1. CASE accepted'[r] = accepted[r]
  BY <1>1 DEF Settles
<1>2. ASSUME accepted'[r] # accepted[r]
      PROVE  \E i \in jobMail[r] : accepted'[r] = accepted[r] \cup {i}
  <2>1. r \in Requests /\ SubmissionTypeOK
    BY DEF SubmissionInv, Requests
  <2>2. PICK q \in Requests :
               (q \in Uploads /\ UploadStep(q)) \/ (q \in Commands /\ CommandStep(q))
    BY <1>2 DEF SubmissionNext, ServerNext, UploadStep, submissionVars, mailVars, Requests
  <2>3. q = r
    BY <1>2, <2>1, <2>2, OthersKept DEF View
  <2>4. UploadStep(r)
    BY <2>2, <2>3, SubmissionAssumption
  <2>5. QED
    BY <1>2, <2>1, <2>4
       DEF UploadStep, Serves, Delivers, Posts, Stages, Staged, StagingFails, Asks, GetsOk,
           TimesOut, Submitted, MasterAccepts, MailIsLost, At, mailVars, SubmissionTypeOK
<1>3. answer[r] = "success" => jobMail[r] = {}
  BY SuccessIsComplete
<1>4. \A i \in jobMail[r] : i = acked[r] + 1
  <2>1. /\ asked[r] \in Nat /\ acked[r] \in Nat /\ UploadInv(r)
    BY DEF SubmissionInv, SubmissionTypeOK, Requests
  <2>2. QED BY <2>1 DEF UploadInv
<1>5. QED BY <1>1, <1>2, <1>3, <1>4 DEF Settles
(***************************************************************************)
(* A success is final, and a failure may be followed by the acceptance of  *)
(* the one job that was on its way.                                        *)
(***************************************************************************)
THEOREM AnswersSettle == SubmissionSpec => AnswerSettles
<1>1. ASSUME SubmissionInv, [SubmissionNext]_submissionVars
      PROVE  [\A r \in Uploads : Settles(r)]_submissionVars
  BY <1>1, SettledKept
<1>2. QED BY <1>1, SubmissionInvariance, PTL DEF SubmissionSpec, AnswerSettles, Settles

(***************************************************************************)
(* A command of the command line client gets its jobs one after another,   *)
(* as many as it asked for, unless the master crashes.                     *)
(***************************************************************************)
THEOREM CommandsAreComplete == SubmissionSpec => []CommandIsComplete
<1>1. ASSUME SubmissionInv PROVE CommandIsComplete
  BY <1>1 DEF SubmissionInv, CommandInv, CommandIsComplete
<1>2. QED BY <1>1, SubmissionInvariance, PTL

-----------------------------------------------------------------------------
(***************************************************************************)
(* The submission page.                                                    *)
(***************************************************************************)
PageTypes ==
  /\ chosen \in [Visits -> Nat]
  /\ simulationFile \in [Visits -> BOOLEAN]
  /\ isUploading \in [Visits -> BOOLEAN]
  /\ owner \in [Uploads -> Visits \cup {Elsewhere}]
  /\ xhr \in [Uploads -> {"none", "open", "read", "broken"}]

ShownIsSubmitted == location \in Uploads => answer[location] = "success"

OwnedWhenSent ==
  \A r \in Uploads :
    /\ phase[r] = "unsent" => owner[r] = Elsewhere
    /\ xhr[r] = "open" => owner[r] \in Visits

\* A choice that can still be sent.
Unsent(v) == IF simulationFile[v] /\ ~isUploading[v] THEN 1 ELSE 0

VisitInv(v) ==
  /\ IsFiniteSet(Sent(v))
  /\ Cardinality(Sent(v)) + Unsent(v) <= chosen[v]
  /\ \A r \in Sent(v) : xhr[r] = "open" => isUploading[v]
  /\ \A q, r \in Sent(v) : xhr[q] = "open" /\ xhr[r] = "open" => q = r

RunInv ==
  /\ SubmissionInv
  /\ PageTypes /\ ShownIsSubmitted /\ OwnedWhenSent
  /\ \A v \in Visits : VisitInv(v)

-----------------------------------------------------------------------------
(***************************************************************************)
(* The server under the page.                                              *)
(***************************************************************************)
\* What the server does changes nothing of a success, and unsends nothing.
LEMMA ServerKeeps ==
  ASSUME SubmissionInv, ServerNext \/ (\E q \in Uploads : Posts(q)), NEW r \in Uploads
  PROVE  /\ answer[r] = "success" => answer'[r] = "success"
         /\ phase'[r] = "unsent" => phase[r] = "unsent"
<1>1. r \in Requests /\ SubmissionTypeOK /\ UploadInv(r)
  BY DEF SubmissionInv, Requests
<1>2. PICK q \in Requests :
             (q \in Uploads /\ UploadStep(q)) \/ (q \in Commands /\ CommandStep(q))
  BY DEF ServerNext, UploadStep, Requests
<1>3. CASE q # r
  BY <1>1, <1>2, <1>3, OthersKept DEF View
<1>4. CASE q = r
  <2>1. UploadStep(r)
    BY <1>2, <1>4, SubmissionAssumption
  <2>2. answer[r] = "success" => phase[r] = "done"
    BY <1>1 DEF UploadInv
  <2>3. QED
    BY <1>1, <2>1, <2>2
       DEF UploadStep, Serves, Delivers, Posts, Stages, Staged, StagingFails, Asks, GetsOk,
           TimesOut, Submitted, MasterAccepts, MailIsLost, At, Step, Answered, mailVars,
           serverVars, SubmissionTypeOK
<1>5. QED BY <1>3, <1>4

\* A refusal ends an upload before the server has touched it.
LEMMA RefusalKept ==
  ASSUME SubmissionInv, NEW r \in Uploads, Refused(r)
  PROVE  /\ SubmissionInv'
         /\ answer' = answer
         /\ phase' = [phase EXCEPT ![r] = "lost"] /\ phase[r] = "sent"
<1>1. /\ phase[r] = "sent" /\ phase' = [phase EXCEPT ![r] = "lost"]
      /\ UNCHANGED <<staged, asked, acked, answer, jobMail, ackMail, accepted, batch>>
  BY DEF Refused, Step, At, mailVars
<1>2. SubmissionTypeOK /\ r \in Requests /\ phase[r] # "done"
  BY <1>1 DEF SubmissionInv, Requests
<1>3. SubmissionTypeOK'
  BY <1>1, <1>2 DEF SubmissionTypeOK
<1>4. \A q \in Requests : q # r => View(q)' = View(q)
  BY <1>1, <1>2 DEF View, SubmissionTypeOK
<1>5. \A q \in Uploads : UploadInv(q)'
  <2>1. UploadInv(r)'
    BY <1>1, <1>2 DEF UploadInv, SubmissionInv, SubmissionTypeOK
  <2>2. QED BY <1>4, <2>1, ViewDecides DEF SubmissionInv, Requests
<1>6. \A c \in Commands : CommandInv(c)'
  BY <1>4, ViewDecides, SubmissionAssumption DEF SubmissionInv, Requests
<1>7. QED BY <1>1, <1>3, <1>5, <1>6 DEF SubmissionInv

-----------------------------------------------------------------------------
(***************************************************************************)
(* The steps of the page.                                                  *)
(***************************************************************************)
\* Steps that leave the components and their requests alone.
LEMMA VisitsStay ==
  ASSUME RunInv, UNCHANGED <<componentVars, owner, xhr>>
  PROVE  PageTypes' /\ \A v \in Visits : VisitInv(v)'
<1>1. /\ owner' = owner /\ xhr' = xhr /\ chosen' = chosen
      /\ simulationFile' = simulationFile /\ isUploading' = isUploading
  BY DEF componentVars
<1>2. PageTypes'
  BY <1>1 DEF RunInv, PageTypes
<1>3. ASSUME NEW v \in Visits PROVE VisitInv(v)'
  <2>1. Sent(v)' = Sent(v) /\ Unsent(v)' = Unsent(v) /\ VisitInv(v)
    BY <1>1 DEF Sent, Unsent, RunInv
  <2>2. QED BY <1>1, <2>1 DEF VisitInv
<1>4. QED BY <1>2, <1>3

LEMMA ServerStep ==
  ASSUME RunInv, ServerNext, UNCHANGED pageVars
  PROVE  RunInv'
<1>1. SubmissionInv'
  BY SubmissionStep DEF RunInv, SubmissionNext
<1>2. /\ location' = location /\ owner' = owner /\ xhr' = xhr /\ chosen' = chosen
      /\ simulationFile' = simulationFile /\ isUploading' = isUploading
  BY DEF pageVars, componentVars
<1>3. PageTypes' /\ \A v \in Visits : VisitInv(v)'
  BY VisitsStay DEF pageVars
<1>4. ShownIsSubmitted' /\ OwnedWhenSent'
  BY <1>2, ServerKeeps DEF RunInv, ShownIsSubmitted, OwnedWhenSent
<1>5. QED BY <1>1, <1>3, <1>4 DEF RunInv

LEMMA Navigation ==
  ASSUME RunInv, Leaves \/ \E v \in Visits : Opens(v)
  PROVE  RunInv'
<1>1. /\ location' \notin Uploads
      /\ UNCHANGED <<componentVars, owner, xhr, submissionVars>>
  BY RunPageAssumption DEF Leaves, Opens
<1>2. SubmissionInv'
  BY <1>1, SubmissionStep DEF RunInv
<1>3. PageTypes' /\ \A v \in Visits : VisitInv(v)'
  BY <1>1, VisitsStay
<1>4. ShownIsSubmitted' /\ OwnedWhenSent'
  BY <1>1 DEF RunInv, ShownIsSubmitted, OwnedWhenSent, submissionVars, serverVars
<1>5. QED BY <1>2, <1>3, <1>4 DEF RunInv

LEMMA Choice ==
  ASSUME RunInv, NEW v \in Visits, selectFile(v)
  PROVE  RunInv'
<1>1. /\ location' = location /\ owner' = owner /\ xhr' = xhr /\ isUploading' = isUploading
      /\ UNCHANGED submissionVars
      /\ chosen' = [chosen EXCEPT ![v] = chosen[v] + 1]
      /\ simulationFile' = [simulationFile EXCEPT ![v] = TRUE]
  BY DEF selectFile, At
<1>2. SubmissionInv' /\ phase' = phase /\ answer' = answer
  BY <1>1, SubmissionStep DEF RunInv, submissionVars, serverVars
<1>3. PageTypes'
  BY <1>1 DEF RunInv, PageTypes
<1>4. ASSUME NEW u \in Visits
      PROVE  VisitInv(u)'
  <2>1. VisitInv(u) /\ Sent(u)' = Sent(u) /\ Cardinality(Sent(u)) \in Nat /\ chosen[u] \in Nat
    BY <1>1, FS_CardinalityType DEF RunInv, VisitInv, Sent, PageTypes
  <2>2. Cardinality(Sent(u)) + Unsent(u)' <= chosen'[u]
    <3>1. CASE u = v
      BY <1>1, <2>1, <3>1 DEF VisitInv, Unsent, RunInv, PageTypes
    <3>2. CASE u # v
      BY <1>1, <2>1, <3>2 DEF VisitInv, Unsent, RunInv, PageTypes
    <3>3. QED BY <3>1, <3>2
  <2>3. QED BY <1>1, <2>1, <2>2 DEF VisitInv
<1>5. QED
  BY <1>1, <1>2, <1>3, <1>4 DEF RunInv, ShownIsSubmitted, OwnedWhenSent

\* An upload uses up the choice, as nothing else of its page is under way.
LEMMA UploadOnce ==
  ASSUME RunInv, NEW v \in Visits, NEW r \in Uploads, upload(v, r)
  PROVE  RunInv'
<1>1. /\ ~isUploading[v] /\ simulationFile[v] /\ location' = location /\ location = v
      /\ chosen' = chosen /\ simulationFile' = simulationFile
      /\ isUploading' = [isUploading EXCEPT ![v] = TRUE]
      /\ owner' = [owner EXCEPT ![r] = v]
      /\ xhr' = [xhr EXCEPT ![r] = "open"]
      /\ Posts(r)
  BY DEF upload, Sends, At
<1>2. SubmissionInv'
  BY <1>1, SubmissionStep DEF RunInv, SubmissionNext
<1>3. /\ phase[r] = "unsent" /\ owner[r] = Elsewhere
      /\ phase' = [phase EXCEPT ![r] = "sent"]
  BY <1>1 DEF Posts, Step, At, RunInv, OwnedWhenSent
<1>4. PageTypes'
  BY <1>1 DEF RunInv, PageTypes
<1>5. OwnedWhenSent'
  BY <1>1, <1>3 DEF RunInv, OwnedWhenSent, PageTypes, SubmissionInv, SubmissionTypeOK, Requests
<1>6. ShownIsSubmitted'
  BY <1>1, RunPageAssumption DEF ShownIsSubmitted
<1>7. ASSUME NEW u \in Visits
      PROVE  VisitInv(u)'
  <2>1. /\ VisitInv(u) /\ r \notin Sent(u)
        /\ Sent(u)' = IF u = v THEN Sent(u) \cup {r} ELSE Sent(u)
    BY <1>1, <1>3, RunPageAssumption DEF RunInv, Sent, PageTypes
  <2>2. Cardinality(Sent(u)) \in Nat /\ chosen[u] \in Nat /\ IsFiniteSet(Sent(u))
    BY <2>1, FS_CardinalityType DEF RunInv, VisitInv, PageTypes
  <2>3. CASE u = v
    <3>1. IsFiniteSet(Sent(u)') /\ Cardinality(Sent(u)') = Cardinality(Sent(u)) + 1
      BY <2>1, <2>2, <2>3, FS_AddElement
    <3>2. Unsent(u) = 1 /\ Unsent(u)' = 0 /\ isUploading'[u]
      BY <1>1, <2>3 DEF Unsent, RunInv, PageTypes
    <3>3. Cardinality(Sent(u)') + Unsent(u)' <= chosen'[u]
      BY <1>1, <2>1, <2>2, <3>1, <3>2 DEF VisitInv
    <3>4. \A q \in Sent(u)' : xhr'[q] = "open" => q = r
      BY <1>1, <2>1, <2>3 DEF VisitInv, Sent, RunInv, PageTypes
    <3>5. QED BY <3>1, <3>2, <3>3, <3>4 DEF VisitInv
  <2>4. CASE u # v
    <3>1. /\ Unsent(u)' = Unsent(u) /\ isUploading'[u] = isUploading[u]
          /\ \A q \in Sent(u) : xhr'[q] = xhr[q]
      BY <1>1, <2>1, <2>4 DEF Unsent, RunInv, PageTypes, Sent
    <3>2. QED BY <1>1, <2>1, <2>4, <3>1 DEF VisitInv
  <2>5. QED BY <2>3, <2>4
<1>8. QED BY <1>2, <1>4, <1>5, <1>6, <1>7 DEF RunInv

\* The end of a request: no other of its page was under way.
LEMMA EndsKept ==
  ASSUME RunInv, NEW r \in Uploads, NEW state \in {"read", "broken"}, NEW isFree \in BOOLEAN,
         Ends(r, state, isFree)
  PROVE  /\ PageTypes' /\ owner' = owner
         /\ \A q \in Uploads : xhr'[q] = "open" => xhr[q] = "open"
         /\ \A v \in Visits : VisitInv(v)'
<1>1. /\ xhr[r] = "open" /\ owner[r] \in Visits /\ owner' = owner /\ chosen' = chosen
      /\ xhr' = [xhr EXCEPT ![r] = state]
      /\ simulationFile' = [simulationFile EXCEPT ![owner[r]] = FALSE]
      /\ isUploading' = [isUploading EXCEPT ![owner[r]] = ~isFree]
  BY DEF Ends, At, RunInv, OwnedWhenSent
<1>2. PageTypes'
  BY <1>1 DEF RunInv, PageTypes
<1>3. \A q \in Uploads : xhr'[q] = "open" => xhr[q] = "open" /\ q # r
  BY <1>1 DEF RunInv, PageTypes
<1>4. ASSUME NEW u \in Visits
      PROVE  VisitInv(u)'
  <2>1. /\ VisitInv(u) /\ Sent(u)' = Sent(u) /\ chosen[u] \in Nat
        /\ Cardinality(Sent(u)) \in Nat
    BY <1>1, FS_CardinalityType DEF RunInv, VisitInv, Sent, PageTypes
  <2>2. Cardinality(Sent(u)) + Unsent(u)' <= chosen[u]
    <3>1. CASE u = owner[r]
      BY <1>1, <2>1, <3>1 DEF VisitInv, Unsent, RunInv, PageTypes
    <3>2. CASE u # owner[r]
      BY <1>1, <2>1, <3>2 DEF VisitInv, Unsent, RunInv, PageTypes
    <3>3. QED BY <3>1, <3>2
  <2>3. \A q \in Sent(u) : xhr'[q] = "open" => isUploading'[u]
    <3>1. CASE u = owner[r]
      <4>1. r \in Sent(u)
        BY <3>1 DEF Sent
      <4>2. QED BY <1>1, <1>3, <2>1, <4>1 DEF VisitInv, Sent
    <3>2. CASE u # owner[r]
      BY <1>1, <1>3, <2>1, <3>2 DEF VisitInv, Sent, RunInv, PageTypes
    <3>3. QED BY <3>1, <3>2
  <2>4. QED
    <3>1. \A q \in Sent(u) : xhr'[q] = "open" => xhr[q] = "open"
      BY <1>3 DEF Sent
    <3>2. QED BY <1>1, <2>1, <2>2, <2>3, <3>1 DEF VisitInv
<1>5. QED BY <1>1, <1>2, <1>3, <1>4

LEMMA Answer ==
  ASSUME RunInv, NEW r \in Uploads, Reads(r) \/ Refused(r) \/ Breaks(r)
  PROVE  RunInv'
<1>1. CASE Reads(r) \/ Breaks(r)
  <2>1. PICK state \in {"read", "broken"}, isFree \in BOOLEAN : Ends(r, state, isFree)
    BY <1>1 DEF Reads, Breaks
  <2>2. UNCHANGED submissionVars
    BY <1>1 DEF Reads, Breaks
  <2>3. SubmissionInv' /\ phase' = phase /\ answer' = answer
    BY <2>2, SubmissionStep DEF RunInv, submissionVars, serverVars
  <2>4. location' = location \/ (location' = r /\ answer[r] = "success")
    BY <1>1 DEF Reads, Breaks
  <2>5. ShownIsSubmitted'
    BY <2>3, <2>4 DEF RunInv, ShownIsSubmitted
  <2>6. QED BY <2>1, <2>3, <2>5, EndsKept DEF RunInv, OwnedWhenSent
<1>2. CASE Refused(r)
  <2>1. Ends(r, "read", TRUE) /\ location' = location
    BY <1>2 DEF Refused
  <2>2. /\ SubmissionInv' /\ answer' = answer
        /\ phase' = [phase EXCEPT ![r] = "lost"] /\ phase[r] = "sent"
    BY <1>2, RefusalKept DEF RunInv
  <2>3. ShownIsSubmitted'
    BY <2>1, <2>2 DEF RunInv, ShownIsSubmitted
  <2>4. \A q \in Uploads : phase'[q] = "unsent" => phase[q] = "unsent"
    BY <2>2 DEF RunInv, SubmissionInv, SubmissionTypeOK, Requests
  <2>5. QED BY <2>1, <2>2, <2>3, <2>4, EndsKept DEF RunInv, OwnedWhenSent
<1>3. QED BY <1>1, <1>2

-----------------------------------------------------------------------------
LEMMA RunInvariance == RunSafety => []RunInv
<1>1. ASSUME PageInit PROVE RunInv
  <2>1. SubmissionInv
    BY <1>1, SubmissionStarts DEF PageInit
  <2>2. PageTypes /\ ShownIsSubmitted /\ OwnedWhenSent
    BY <1>1, RunPageAssumption DEF PageInit, PageTypes, ShownIsSubmitted, OwnedWhenSent
  <2>3. ASSUME NEW v \in Visits PROVE VisitInv(v)
    <3>1. Sent(v) = {}
      BY <1>1, RunPageAssumption DEF PageInit, Sent
    <3>2. Unsent(v) = 0 /\ chosen[v] = 0
      BY <1>1 DEF PageInit, Unsent
    <3>3. QED BY <3>1, <3>2, FS_EmptySet DEF VisitInv
  <2>4. QED BY <2>1, <2>2, <2>3 DEF RunInv
<1>2. ASSUME RunInv, [RunNext]_runVars
      PROVE  RunInv'
  <2>1. CASE UNCHANGED runVars
    <3>1. SubmissionInv'
      BY <1>2, <2>1, SubmissionStep DEF RunInv, runVars
    <3>2. PageTypes' /\ \A v \in Visits : VisitInv(v)'
      BY <1>2, <2>1, VisitsStay DEF runVars, pageVars
    <3>3. ShownIsSubmitted' /\ OwnedWhenSent'
      BY <1>2, <2>1 DEF runVars, pageVars, submissionVars, serverVars, RunInv, ShownIsSubmitted,
                        OwnedWhenSent
    <3>4. QED BY <3>1, <3>2, <3>3 DEF RunInv
  <2>2. CASE ServerNext /\ UNCHANGED pageVars
    BY <1>2, <2>2, ServerStep
  <2>3. CASE PageNext
    BY <1>2, <2>3, Navigation, Choice, UploadOnce, Answer DEF PageNext
  <2>4. QED BY <1>2, <2>1, <2>2, <2>3 DEF RunNext
<1>3. QED BY <1>1, <1>2, PTL DEF RunSafety

(***************************************************************************)
(* All that holds of the server under any browser holds of it under the    *)
(* submission page, which refuses uploads besides (Refused).               *)
(***************************************************************************)
THEOREM PagesKeepPromises ==
  RunSafety => [](SubmissionTypeOK /\ AnswerIsComplete /\ CountIsBacked)
<1>1. RunInv => SubmissionTypeOK /\ AnswerIsComplete /\ CountIsBacked
  BY CompleteAndBacked DEF RunInv, SubmissionInv
<1>2. QED BY <1>1, RunInvariance, PTL

(***************************************************************************)
(* Whatever the pages do, an answer settles a submission; an upload that   *)
(* the server refuses was never begun.                                     *)
(***************************************************************************)
THEOREM PagesSettle == RunSafety => AnswerSettles
<1>1. ASSUME RunInv, [RunNext]_runVars
      PROVE  [\A r \in Uploads : Settles(r)]_submissionVars
  <2>1. CASE [SubmissionNext]_submissionVars
    BY <1>1, <2>1, SettledKept DEF RunInv
  <2>2. CASE \E r \in Uploads : Refused(r)
    BY <2>2 DEF Refused, mailVars, Settles
  <2>3. QED
    BY <1>1, <2>1, <2>2
       DEF RunNext, PageNext, Leaves, Opens, selectFile, upload, Sends, Reads, Breaks, runVars,
           SubmissionNext
<1>2. QED BY <1>1, RunInvariance, PTL DEF RunSafety, AnswerSettles, Settles

(***************************************************************************)
(* The page that follows a submission (run.component.ts:93) is shown only  *)
(* when the master has all of its jobs, wherever the user was meanwhile.   *)
(***************************************************************************)
THEOREM ShownIsComplete == RunSafety => []DetailIsComplete
<1>1. ASSUME RunInv PROVE DetailIsComplete
  BY <1>1, SuccessIsComplete DEF RunInv, ShownIsSubmitted, DetailIsComplete
<1>2. QED BY <1>1, RunInvariance, PTL

(***************************************************************************)
(* The uploader (multipart-uploader.ts) sends each choice at most once,    *)
(* and has one request under way at a time.                                *)
(***************************************************************************)
THEOREM ChoicesAreSentOnce == RunSafety => []ChoicesSubmittedOnce
<1>1. ASSUME RunInv, NEW v \in Visits
      PROVE  /\ Cardinality(Sent(v)) <= chosen[v]
             /\ Cardinality({r \in Sent(v) : xhr[r] = "open"}) <= 1
  <2> DEFINE Open == {r \in Sent(v) : xhr[r] = "open"}
  <2>1. VisitInv(v) /\ chosen[v] \in Nat
    BY <1>1 DEF RunInv, PageTypes
  <2>2. Cardinality(Sent(v)) <= chosen[v]
    BY <2>1, FS_CardinalityType DEF VisitInv, Unsent
  <2>3. Open = {} \/ \E r \in Open : Open = {r}
    BY <2>1 DEF VisitInv
  <2>4. Cardinality(Open) <= 1
    BY <2>3, FS_EmptySet, FS_Singleton
  <2>5. QED BY <2>2, <2>4
<1>2. ASSUME RunInv PROVE ChoicesSubmittedOnce
  BY <1>1, <1>2 DEF ChoicesSubmittedOnce
<1>3. QED BY <1>2, RunInvariance, PTL
=============================================================================
