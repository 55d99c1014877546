----------------------------- MODULE DetailPage -----------------------------
(***************************************************************************)
(* The pages of the dashboard that watch a submission: detail.component.ts *)
(* with workers.service.ts, the interceptor of every answer                *)
(* (interceptor.ts), the guard of every page (auth.guard.ts) and the login *)
(* page (login.component.ts), in one browser tab.                          *)
(*                                                                         *)
(* A visit of the detail page makes a component, which fetches the summary *)
(* when it starts, whenever the tracking id of its page changes, and every *)
(* 30 s.  Requests are answered in any order, also after the component was *)
(* destroyed.  A router that goes from one detail page to another keeps    *)
(* the component, with all it shows.                                       *)
(*                                                                         *)
(* The server is as modules Tracking and Master have it: a status per      *)
(* submission, and the cancel requests of the master.                      *)
(***************************************************************************)
EXTENDS Naturals

CONSTANTS
  Trackings,     \* submissions
  Changing,      \* those whose status changes: a bound
  Slots,         \* requests of components under way at a time: a bound
  Login,         \* the login page
  Elsewhere,     \* any other page behind the guard
  None

ASSUME DetailAssumption ==
  /\ {Login, Elsewhere} \cap Trackings = {} /\ Login # Elsewhere
  /\ Slots \subseteq Nat
  /\ Changing \subseteq Trackings

VARIABLES
  location,      \* Login, Elsewhere, or the submission of the detail page
  currentUser,   \* whether localStorage has one
  leaked,        \* polls of destroyed components go on
  jobSummary,    \* what the component shows: a submission and its status
  cancelled,     \* it shows "Job Successfully Cancelled."
  reportResult,  \* the submission of the report it offers
  reportInProgress,
  requests,      \* under way, in slots
  status,        \* of each submission
  cancelRequests \* of the master

componentVars == <<jobSummary, cancelled, reportResult, reportInProgress>>
browserVars == <<location, currentUser, leaked>>
serverVars == <<status, cancelRequests>>
detailVars == <<browserVars, componentVars, requests, serverVars>>

Statuses == {"open", "failed", "completed"}
Pages == {Login, Elsewhere} \cup Trackings

Summary(t, s) == [id |-> t, status |-> s]

\* A request of the component shown, or (not live) of a destroyed one.
Request(kind, t) == [kind |-> kind, id |-> t, live |-> TRUE, answer |-> "none"]

Sent == [kind : {"fetch", "abort", "report"}, id : Trackings, live : BOOLEAN,
         answer : {"none", "yes", "no"} \cup Statuses]

IsFree(s) == requests[s] = None
FirstFree(s) == IsFree(s) /\ \A other \in Slots : IsFree(other) => s <= other

Asks(kind, t) ==
  \E s \in Slots :
    FirstFree(s) /\ requests' = [requests EXCEPT ![s] = Request(kind, t)]

(***************************************************************************)
(* The router.                                                             *)
(***************************************************************************)
\* ngOnInit of the login page drops the user.
GoesToLogin == location' = Login /\ currentUser' = FALSE

\* What is shown is gone; the poll is not, and neither are the requests.
ClearsPage ==
  /\ jobSummary' = None /\ cancelled' = FALSE
  /\ reportResult' = None /\ reportInProgress' = FALSE
  /\ leaked' = (leaked \/ location \in Trackings)

\* Only a cancel request still matters when its component is gone.
Orphaned ==
  [s \in Slots |->
     IF ~IsFree(s) /\ requests[s].kind = "abort" /\ requests[s].answer = "none"
     THEN [requests[s] EXCEPT !.live = FALSE] ELSE None]

DetailInit ==
  /\ location = Login /\ currentUser = FALSE
  /\ leaked = FALSE
  /\ jobSummary = None /\ cancelled = FALSE
  /\ reportResult = None /\ reportInProgress = FALSE
  /\ requests = [s \in Slots |-> None]
  /\ status = [t \in Trackings |-> "open"]
  /\ cancelRequests = {}

canActivate == currentUser

\* A page with a component of its own.
Shows(page) ==
  /\ location' = page
  /\ IF page \in Trackings THEN Asks("fetch", page) ELSE requests' = Orphaned
  /\ ClearsPage
  /\ UNCHANGED serverVars

\* The page the guard had turned the user away from, or the overview.
login ==
  /\ location = Login
  /\ currentUser' = TRUE
  /\ \E returnUrl \in {Elsewhere} \cup Trackings : Shows(returnUrl)

\* Variant: the route is not guarded.
OpensUnguarded(t) ==
  /\ location \in {Elsewhere, Login}
  /\ UNCHANGED currentUser
  /\ Shows(t)

Opens(t) ==
  /\ location = Elsewhere /\ canActivate
  /\ UNCHANGED currentUser
  /\ Shows(t)

Leaves ==
  /\ location \in Trackings /\ canActivate
  /\ UNCHANGED currentUser
  /\ Shows(Elsewhere)

logout ==
  /\ location # Login
  /\ GoesToLogin
  /\ ClearsPage
  /\ requests' = Orphaned
  /\ UNCHANGED serverVars

\* From one detail page to another: the history of the browser, or the late
\* answer of an upload (run.component.ts).
NavigatesInPlace(t) ==
  /\ location \in Trackings \ {t} /\ canActivate
  /\ location' = t
  /\ Asks("fetch", t)
  /\ UNCHANGED <<currentUser, leaked, componentVars, serverVars>>

(***************************************************************************)
(* The component.                                                          *)
(***************************************************************************)
Clicks == UNCHANGED <<browserVars, jobSummary, cancelled, reportResult, serverVars>>

\* Variant: the poll remembers the submission it was made for.
PollsSummary ==
  /\ location \in Trackings
  /\ Asks("fetch", IF jobSummary = None THEN location ELSE jobSummary.id)
  /\ UNCHANGED reportInProgress
  /\ Clicks

Polls ==
  /\ location \in Trackings
  /\ Asks("fetch", location)
  /\ UNCHANGED reportInProgress
  /\ Clicks

\* Buttons are there for the status shown; requests name the page.
ShownAs(s) == location \in Trackings /\ jobSummary # None /\ jobSummary.status = s

cancelReport ==
  /\ ShownAs("open") /\ ~cancelled
  /\ Asks("abort", location)
  /\ UNCHANGED reportInProgress
  /\ Clicks

generateReport ==
  /\ ShownAs("completed") /\ reportResult = None
  /\ reportInProgress' = TRUE
  /\ Asks("report", location)
  /\ Clicks

(***************************************************************************)
(* The server: getJobDetail, postCancel (which may fail to hear of what    *)
(* the master has done and say FALSE) and postReport.                      *)
(***************************************************************************)
Awaits(s, kind) ==
  /\ ~IsFree(s)
  /\ requests[s].kind = kind /\ requests[s].answer = "none"

AnswersWith(s, answer) ==
  /\ requests' = [requests EXCEPT ![s].answer = answer]
  /\ UNCHANGED <<browserVars, componentVars, status>>

getJobDetail(s) ==
  /\ Awaits(s, "fetch")
  /\ AnswersWith(s, status[requests[s].id])
  /\ UNCHANGED cancelRequests

postCancel(s) ==
  /\ Awaits(s, "abort")
  /\ \/ /\ cancelRequests' = cancelRequests \cup {requests[s].id}
        /\ \E answer \in {"yes", "no"} : AnswersWith(s, answer)
     \/ AnswersWith(s, "no") /\ UNCHANGED cancelRequests

postReport(s) ==
  /\ Awaits(s, "report")
  /\ AnswersWith(s, "yes")
  /\ UNCHANGED cancelRequests

Progresses(t) ==
  /\ t \in Changing /\ status[t] # "completed"
  /\ \E s \in Statuses \ {status[t]} : status' = [status EXCEPT ![t] = s]
  /\ UNCHANGED <<browserVars, componentVars, requests, cancelRequests>>

(***************************************************************************)
(* Answers.  Data goes to the component that asked; so does an error,      *)
(* which ends the report in progress - unless the interceptor takes it     *)
(* for a lost session (status 401, 0 or 404): the component hears nothing  *)
(* and the user is sent to the login page.                                 *)
(***************************************************************************)
Frees(s) == requests' = [requests EXCEPT ![s] = None]

Delivers(s) ==
  /\ ~IsFree(s) /\ requests[s].answer # "none"
  /\ Frees(s)
  /\ LET r == requests[s] IN
       /\ jobSummary' = IF r.live /\ r.kind = "fetch" THEN Summary(r.id, r.answer) ELSE jobSummary
       /\ cancelled' = IF r.live /\ r.kind = "abort" THEN r.answer = "yes" ELSE cancelled
       /\ IF r.live /\ r.kind = "report"
          THEN reportResult' = r.id /\ reportInProgress' = FALSE
          ELSE UNCHANGED <<reportResult, reportInProgress>>
  /\ UNCHANGED <<browserVars, serverVars>>

Fails(s) ==
  /\ ~IsFree(s)
  /\ Frees(s)
  /\ reportInProgress' = (reportInProgress /\ ~(requests[s].live /\ requests[s].kind = "report"))
  /\ UNCHANGED <<browserVars, jobSummary, cancelled, reportResult, serverVars>>

\* Variant: the interceptor drops the error, and the user stays.
Swallows(s) ==
  /\ ~IsFree(s)
  /\ Frees(s)
  /\ UNCHANGED <<browserVars, componentVars, serverVars>>

TurnsAway(s) ==
  /\ ~IsFree(s)
  /\ GoesToLogin
  /\ ClearsPage
  /\ requests' = [Orphaned EXCEPT ![s] = None]
  /\ UNCHANGED serverVars

\* The poll of a destroyed component, or what it had under way, fails so.
LeakedPollTurnsAway ==
  /\ leaked /\ location # Login
  /\ GoesToLogin
  /\ ClearsPage
  /\ requests' = Orphaned
  /\ UNCHANGED serverVars

(***************************************************************************)
(* The specification.                                                      *)
(***************************************************************************)
Answered(s) == Delivers(s) \/ Fails(s) \/ TurnsAway(s)

Serves(s) == getJobDetail(s) \/ postCancel(s) \/ postReport(s)

DetailNext ==
  \/ login \/ logout \/ Leaves
  \/ \E t \in Trackings : Opens(t) \/ NavigatesInPlace(t) \/ Progresses(t)
  \/ Polls \/ cancelReport \/ generateReport
  \/ \E s \in Slots : Serves(s) \/ Answered(s)
  \/ LeakedPollTurnsAway

DetailSafety == DetailInit /\ [][DetailNext]_detailVars

(***************************************************************************)
(* Fairness: the timer of the page goes off, the server answers, every     *)
(* request ends in some way, and of the many fetches of a page not all     *)
(* fail: a network that is down sends the user to the login page.          *)
(***************************************************************************)
Shown(s) == ~IsFree(s) /\ requests[s].live /\ requests[s].kind = "fetch"

DetailFairness ==
  /\ SF_detailVars(Polls)
  /\ \A s \in Slots :
       /\ WF_detailVars(Answered(s))
       /\ SF_detailVars(Shown(s) /\ Serves(s))
       /\ SF_detailVars(Shown(s) /\ Delivers(s))

DetailSpec == DetailSafety /\ DetailFairness

(***************************************************************************)
(* Properties.                                                             *)
(***************************************************************************)
(***************************************************************************)
(* Types; and whoever sees a page behind the guard is logged in, while the *)
(* login page leaves nobody logged in, whatever answers come in late.      *)
(***************************************************************************)
DetailTypeOK ==
  /\ location \in Pages /\ currentUser \in BOOLEAN
  /\ currentUser <=> location # Login
  /\ leaked \in BOOLEAN
  /\ jobSummary \in {None} \cup [id : Trackings, status : Statuses]
  /\ cancelled \in BOOLEAN /\ reportInProgress \in BOOLEAN
  /\ reportResult \in {None} \cup Trackings
  /\ requests \in [Slots -> {None} \cup Sent]
  /\ status \in [Trackings -> Statuses]
  /\ cancelRequests \subseteq Trackings

(***************************************************************************)
(* A page that stays open on a submission whose status has settled ends    *)
(* up showing that status for good: late answers of earlier fetches, of    *)
(* another page's fetches and failures of others do not stick.             *)
(***************************************************************************)
DetailCatchesUp ==
  \A t \in Trackings, s \in Statuses :
    <>[](location = t /\ status[t] = s) => <>[](jobSummary = Summary(t, s))

(***************************************************************************)
(* A report in progress comes to an end, even if the interceptor swallows  *)
(* its error.                                                              *)
(***************************************************************************)
SpinnerStops == reportInProgress ~> ~reportInProgress

(***************************************************************************)
(* "Job Successfully Cancelled." (detail.component.html:158) is shown on   *)
(* the page of a submission the master was asked to cancel.                *)
(* Broken by navigation in place: the component shows what it showed.      *)
(***************************************************************************)
CancelShownIsRegistered ==
  cancelled /\ location \in Trackings => location \in cancelRequests
=============================================================================
