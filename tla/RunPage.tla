------------------------------ MODULE RunPage ------------------------------
(***************************************************************************)
(* The page of the dashboard that submits simulations (run.component.ts)   *)
(* with its uploader (multipart-uploader.ts, multipart-item.ts), in front  *)
(* of the server of module Submission, in one browser tab.                 *)
(*                                                                         *)
(* Each visit of the page makes a component and an uploader of its own.    *)
(* Neither ends an upload when the user goes to another page: the answer   *)
(* still runs the callback.  The callback parses the answer; when it is    *)
(* not JSON - empty after a timeout of 10 s or an error of the network,    *)
(* or the text of a proxy - it throws, and what follows it in the handler  *)
(* of the request does not happen.                                         *)
(***************************************************************************)
EXTENDS Submission

CONSTANTS
  Visits,        \* visits of the page
  Elsewhere,     \* any page but this one and the detail pages
  MaxChoices     \* bound on the files chosen on each visit

ASSUME RunPageAssumption ==
  /\ MaxChoices \in [Visits -> Nat]
  /\ Elsewhere \notin Visits \cup Uploads
  /\ Visits \cap Uploads = {}

VARIABLES
  location,      \* a visit, the detail page of an upload, or Elsewhere
  opened,        \* visits that have begun
  chosen,        \* how often a file was chosen on each visit
  simulationFile,\* whether the component has a file to send
  isUploading,   \* of the uploader
  success,       \* of the component: FALSE shows the message of failure
  owner,         \* the visit that sent each upload
  xhr            \* the request of each upload, as the browser sees it

componentVars == <<chosen, simulationFile, isUploading, success>>
pageVars == <<location, opened, componentVars, owner, xhr>>
runVars == <<submissionVars, pageVars>>

PageInit ==
  /\ SubmissionInit
  /\ location = Elsewhere
  /\ opened = {}
  /\ chosen = [v \in Visits |-> 0]
  /\ simulationFile = [v \in Visits |-> FALSE]
  /\ isUploading = [v \in Visits |-> FALSE]
  /\ success = [v \in Visits |-> TRUE]
  /\ owner = [r \in Uploads |-> Elsewhere]
  /\ xhr = [r \in Uploads |-> "none"]

Opens(v) ==
  /\ v \notin opened
  /\ opened' = opened \cup {v}
  /\ location' = v
  /\ UNCHANGED <<componentVars, owner, xhr, submissionVars>>

Leaves ==
  /\ location' = Elsewhere
  /\ UNCHANGED <<opened, componentVars, owner, xhr, submissionVars>>

selectFile(v) ==
  /\ location = v
  /\ chosen[v] < MaxChoices[v]
  /\ chosen' = At(chosen, v, chosen[v] + 1)
  /\ simulationFile' = At(simulationFile, v, TRUE)
  /\ UNCHANGED <<location, opened, isUploading, success, owner, xhr, submissionVars>>

Sends(v, r) ==
  /\ location = v /\ simulationFile[v]
  /\ isUploading' = At(isUploading, v, TRUE)
  /\ owner' = At(owner, r, v)
  /\ xhr' = At(xhr, r, "open")
  /\ Posts(r)
  /\ UNCHANGED <<location, opened, chosen, simulationFile, success>>

\* Variant: a click sends the file, upload or no upload.
SendsTwice(v, r) == Sends(v, r)

\* A click while an upload is under way does nothing.
upload(v, r) == ~isUploading[v] /\ Sends(v, r)

(***************************************************************************)
(* What becomes of a request: the answer is read on whatever page the user *)
(* is by now; the server refuses it with an error that is JSON; or what    *)
(* comes is not JSON, in which case the server may still be at work.       *)
(***************************************************************************)
Ends(r, state, isFree) ==
  /\ xhr[r] = "open"
  /\ xhr' = At(xhr, r, state)
  /\ simulationFile' = At(simulationFile, owner[r], FALSE)
  /\ isUploading' = At(isUploading, owner[r], ~isFree)
  /\ UNCHANGED <<opened, chosen, owner>>

\* Variant: a failure leaves the uploader busy.
ReadsBusy(r) ==
  /\ answer[r] # "none"
  /\ Ends(r, "read", answer[r] = "success")
  /\ success' = At(success, owner[r], answer[r] = "success")
  /\ location' = IF answer[r] = "success" THEN r ELSE location
  /\ UNCHANGED submissionVars

\* Variant: any answer that is JSON is a success.
ReadsAnyAsSuccess(r) ==
  /\ answer[r] # "none"
  /\ Ends(r, "read", TRUE)
  /\ success' = At(success, owner[r], TRUE)
  /\ location' = r
  /\ UNCHANGED submissionVars

Reads(r) ==
  /\ answer[r] # "none"
  /\ Ends(r, "read", TRUE)
  /\ success' = At(success, owner[r], answer[r] = "success")
  /\ location' = IF answer[r] = "success" THEN r ELSE location
  /\ UNCHANGED submissionVars

Refused(r) ==
  /\ Step(r, "sent", "lost")
  /\ Ends(r, "read", TRUE)
  /\ success' = At(success, owner[r], FALSE)
  /\ UNCHANGED <<location, staged, asked, acked, answer, mailVars, batch>>

Breaks(r) ==
  /\ Ends(r, "broken", FALSE)
  /\ UNCHANGED <<location, success, submissionVars>>

PageNext ==
  \/ Leaves
  \/ \E v \in Visits :
       Opens(v) \/ selectFile(v) \/ \E r \in Uploads : upload(v, r)
  \/ \E r \in Uploads : Reads(r) \/ Refused(r) \/ Breaks(r)

RunNext ==
  \/ PageNext
  \/ ServerNext /\ UNCHANGED pageVars

RunSafety == PageInit /\ [][RunNext]_runVars

(***************************************************************************)
(* Fairness: the server goes on with what it was sent, and answers that    *)
(* are there reach the browser unless something breaks.                    *)
(***************************************************************************)
RunFairness ==
  \A r \in Uploads :
    /\ WF_runVars(Serves(r) /\ UNCHANGED pageVars)
    /\ WF_runVars(Reads(r))

RunSpec == RunSafety /\ RunFairness

(***************************************************************************)
(* Properties.                                                             *)
(***************************************************************************)
(***************************************************************************)
(* The page that follows a submission is only shown when the master has    *)
(* all of its jobs.                                                        *)
(***************************************************************************)
DetailIsComplete ==
  location \in Uploads => accepted[location] = Numbers(location)

(***************************************************************************)
(* However the user clicks, leaves and chooses again, and whatever answers *)
(* come late: each choice of a file is submitted at most once, and no page *)
(* has two uploads under way.                                              *)
(***************************************************************************)
Sent(v) == {r \in Uploads : owner[r] = v}

ChoicesSubmittedOnce ==
  \A v \in Visits :
    /\ Cardinality(Sent(v)) <= chosen[v]
    /\ Cardinality({r \in Sent(v) : xhr[r] = "open"}) <= 1

(***************************************************************************)
(* Every upload is answered by the server, although jobs and Acks may be   *)
(* lost.                                                                   *)
(***************************************************************************)
UploadsAreAnswered ==
  \A r \in Uploads : phase[r] = "sent" ~> answer[r] # "none" \/ phase[r] = "lost"

(***************************************************************************)
(* A page that has sent an upload can be used again, unless what came back *)
(* was not JSON.                                                           *)
(***************************************************************************)
PageIsFreed ==
  \A v \in Visits :
    isUploading[v] ~> ~isUploading[v] \/ \E r \in Sent(v) : xhr[r] = "broken"

(***************************************************************************)
(* "The job is not submitted properly please correct your input and try    *)
(* again" (run.component.html:79): a page whose upload has ended can be    *)
(* used to try again.  Broken by an answer that is not JSON.               *)
(***************************************************************************)
CanTryAgain == \A v \in Visits : isUploading[v] ~> ~isUploading[v]
=============================================================================
