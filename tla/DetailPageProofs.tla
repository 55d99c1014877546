-------------------------- MODULE DetailPageProofs --------------------------
(***************************************************************************)
(* The login and the guard of the dashboard, for every number of           *)
(* submissions and of requests under way, in whatever order and however    *)
(* late they are answered.                                                 *)
(*                                                                         *)
(* What the page shows as a status is the answer of a request made         *)
(* earlier, perhaps by another visit of the page: the types need that only *)
(* a fetch is answered with a status, and with nothing else (AnswersFit).  *)
(***************************************************************************)
EXTENDS DetailPage, TLAPS

Fits(r) ==
  r.answer # "none" =>
    r.answer \in IF r.kind = "fetch" THEN Statuses ELSE {"yes", "no"}

AnswersFit == \A s \in Slots : ~IsFree(s) => Fits(requests[s])

RequestTypes == requests \in [Slots -> {None} \cup Sent] /\ AnswersFit

ComponentTypes ==
  /\ jobSummary \in {None} \cup [id : Trackings, status : Statuses]
  /\ cancelled \in BOOLEAN /\ reportInProgress \in BOOLEAN
  /\ reportResult \in {None} \cup Trackings

\* The login page is where nobody is logged in.
LoggedIn ==
  /\ location \in Pages /\ currentUser \in BOOLEAN /\ leaked \in BOOLEAN
  /\ currentUser <=> location # Login

ServerTypes == status \in [Trackings -> Statuses] /\ cancelRequests \subseteq Trackings

DetailInv == RequestTypes /\ ComponentTypes /\ LoggedIn /\ ServerTypes

-----------------------------------------------------------------------------
(***************************************************************************)
(* The requests under way.                                                 *)
(***************************************************************************)
LEMMA UnderWay ==
  ASSUME RequestTypes, NEW s \in Slots, ~IsFree(s)
  PROVE  requests[s] \in Sent /\ Fits(requests[s])
BY DEF RequestTypes, AnswersFit, IsFree

\* Slots are set to nothing, or to a request with an answer that fits it.
LEMMA RequestsChange ==
  ASSUME RequestTypes, NEW s \in Slots, NEW r \in {None} \cup Sent, r # None => Fits(r),
         requests' = [requests EXCEPT ![s] = r]
  PROVE  RequestTypes'
<1>1. requests' \in [Slots -> {None} \cup Sent]
  BY DEF RequestTypes
<1>2. ASSUME NEW q \in Slots, requests'[q] # None
      PROVE  Fits(requests'[q])
  <2>1. CASE q = s
    BY <1>2, <2>1 DEF RequestTypes
  <2>2. CASE q # s
    <3>1. requests'[q] = requests[q]
      BY <2>2 DEF RequestTypes
    <3>2. QED BY <1>2, <3>1, UnderWay DEF IsFree
  <2>3. QED BY <2>1, <2>2
<1>3. QED BY <1>1, <1>2 DEF RequestTypes, AnswersFit, IsFree

LEMMA Asking ==
  ASSUME RequestTypes, NEW t \in Trackings, NEW kind \in {"fetch", "abort", "report"},
         Asks(kind, t)
  PROVE  RequestTypes'
<1>1. PICK s \in Slots : requests' = [requests EXCEPT ![s] = Request(kind, t)]
  BY DEF Asks
<1>2. Request(kind, t) \in Sent /\ Fits(Request(kind, t))
  BY DEF Request, Sent, Fits
<1>3. QED BY <1>1, <1>2, RequestsChange

LEMMA Freeing ==
  ASSUME RequestTypes, NEW s \in Slots, Frees(s)
  PROVE  RequestTypes'
BY RequestsChange DEF Frees

LEMMA OrphanedTypes ==
  ASSUME RequestTypes
  PROVE  /\ Orphaned \in [Slots -> {None} \cup Sent]
         /\ \A s \in Slots : Orphaned[s] # None => Fits(Orphaned[s])
<1>1. ASSUME NEW s \in Slots, ~IsFree(s)
      PROVE  LET r == [requests[s] EXCEPT !.live = FALSE] IN r \in Sent /\ Fits(r)
  BY <1>1, UnderWay DEF Sent, Fits
<1>2. QED BY <1>1 DEF Orphaned

LEMMA Orphaning ==
  ASSUME RequestTypes,
         \/ requests' = Orphaned
         \/ \E s \in Slots : requests' = [Orphaned EXCEPT ![s] = None]
  PROVE  RequestTypes'
<1>1. requests' \in [Slots -> {None} \cup Sent]
  BY OrphanedTypes
<1>2. \A q \in Slots : requests'[q] = Orphaned[q] \/ requests'[q] = None
  BY OrphanedTypes
<1>3. QED BY <1>1, <1>2, OrphanedTypes DEF RequestTypes, AnswersFit, IsFree

-----------------------------------------------------------------------------
(***************************************************************************)
(* The router.                                                             *)
(***************************************************************************)
LEMMA ClearedTypes ==
  ASSUME LoggedIn, ClearsPage
  PROVE  ComponentTypes' /\ leaked' \in BOOLEAN
BY DEF LoggedIn, ClearsPage, ComponentTypes

LEMMA SentToLogin ==
  ASSUME DetailInv, GoesToLogin, ClearsPage, UNCHANGED serverVars,
         \/ requests' = Orphaned
         \/ \E s \in Slots : requests' = [Orphaned EXCEPT ![s] = None]
  PROVE  DetailInv'
<1>1. RequestTypes'
  BY Orphaning DEF DetailInv
<1>2. ComponentTypes' /\ LoggedIn'
  BY ClearedTypes DEF DetailInv, GoesToLogin, LoggedIn, Pages
<1>3. ServerTypes'
  BY DEF DetailInv, ServerTypes, serverVars
<1>4. QED BY <1>1, <1>2, <1>3 DEF DetailInv

LEMMA ShownPage ==
  ASSUME DetailInv, NEW page \in {Elsewhere} \cup Trackings, currentUser' = TRUE, Shows(page)
  PROVE  DetailInv'
<1>1. RequestTypes'
  <2>1. CASE page \in Trackings
    BY <2>1, Asking DEF DetailInv, Shows
  <2>2. CASE page \notin Trackings
    BY <2>2, Orphaning DEF DetailInv, Shows
  <2>3. QED BY <2>1, <2>2
<1>2. ComponentTypes' /\ leaked' \in BOOLEAN
  BY ClearedTypes DEF DetailInv, Shows
<1>3. page \in Pages /\ page # Login /\ location' = page
  BY DetailAssumption DEF Pages, Shows
<1>4. LoggedIn'
  BY <1>2, <1>3 DEF LoggedIn
<1>5. ServerTypes'
  BY DEF DetailInv, Shows, ServerTypes, serverVars
<1>6. QED BY <1>1, <1>2, <1>4, <1>5 DEF DetailInv

LEMMA Routing ==
  ASSUME DetailInv,
         \/ login \/ logout \/ Leaves \/ LeakedPollTurnsAway
         \/ \E t \in Trackings : Opens(t) \/ NavigatesInPlace(t)
  PROVE  DetailInv'
<1>1. CASE login
  BY <1>1, ShownPage DEF login
<1>2. CASE logout \/ LeakedPollTurnsAway
  BY <1>2, SentToLogin DEF logout, LeakedPollTurnsAway
<1>3. CASE Leaves
  BY <1>3, ShownPage DEF Leaves, canActivate
<1>4. ASSUME NEW t \in Trackings, Opens(t)
      PROVE  DetailInv'
  BY <1>4, ShownPage DEF Opens, canActivate
<1>5. ASSUME NEW t \in Trackings, NavigatesInPlace(t)
      PROVE  DetailInv'
  <2>1. RequestTypes'
    BY <1>5, Asking DEF NavigatesInPlace, DetailInv
  <2>2. ComponentTypes' /\ ServerTypes'
    BY <1>5 DEF NavigatesInPlace, DetailInv, ComponentTypes, ServerTypes, componentVars,
                serverVars
  <2>3. LoggedIn'
    BY <1>5, DetailAssumption DEF NavigatesInPlace, DetailInv, LoggedIn, Pages, canActivate
  <2>4. QED BY <2>1, <2>2, <2>3 DEF DetailInv
<1>6. QED BY <1>1, <1>2, <1>3, <1>4, <1>5

-----------------------------------------------------------------------------
(***************************************************************************)
(* The component, the server and the answers.                              *)
(***************************************************************************)
LEMMA Asked ==
  ASSUME DetailInv, Polls \/ cancelReport \/ generateReport
  PROVE  DetailInv'
<1>1. /\ location \in Trackings /\ Clicks
      /\ \E kind \in {"fetch", "abort", "report"} : Asks(kind, location)
      /\ reportInProgress' \in {reportInProgress, TRUE}
  BY DEF Polls, cancelReport, generateReport, ShownAs
<1>2. RequestTypes'
  BY <1>1, Asking DEF DetailInv
<1>3. ComponentTypes' /\ LoggedIn' /\ ServerTypes'
  BY <1>1 DEF DetailInv, Clicks, browserVars, serverVars, ComponentTypes, LoggedIn, ServerTypes
<1>4. QED BY <1>2, <1>3 DEF DetailInv

LEMMA Served ==
  ASSUME DetailInv, NEW s \in Slots, Serves(s)
  PROVE  DetailInv'
<1>1. /\ ~IsFree(s) /\ requests[s] \in Sent /\ requests[s].id \in Trackings
  <2>1. ~IsFree(s)
    BY DEF Serves, getJobDetail, postCancel, postReport, Awaits
  <2>2. QED BY <2>1, UnderWay DEF DetailInv, Sent
<1>2. PICK answer \in {"yes", "no"} \cup Statuses :
        /\ AnswersWith(s, answer)
        /\ answer \in IF requests[s].kind = "fetch" THEN Statuses ELSE {"yes", "no"}
        /\ cancelRequests' \in {cancelRequests, cancelRequests \cup {requests[s].id}}
  <2>1. status[requests[s].id] \in Statuses
    BY <1>1 DEF DetailInv, ServerTypes
  <2>2. CASE getJobDetail(s)
    BY <2>1, <2>2 DEF getJobDetail, Awaits
  <2>3. CASE postCancel(s) \/ postReport(s)
    BY <2>3 DEF postCancel, postReport, Awaits
  <2>4. QED BY <2>2, <2>3 DEF Serves
<1>3. RequestTypes'
  <2> DEFINE r == [requests[s] EXCEPT !.answer = answer]
  <2>1. r \in Sent /\ Fits(r)
    BY <1>1, <1>2 DEF Sent, Fits
  <2>2. requests' = [requests EXCEPT ![s] = r]
    BY <1>2 DEF AnswersWith
  <2>3. QED BY <2>1, <2>2, RequestsChange DEF DetailInv
<1>4. ComponentTypes' /\ LoggedIn' /\ ServerTypes'
  BY <1>1, <1>2 DEF AnswersWith, DetailInv, browserVars, componentVars, ComponentTypes, LoggedIn,
                    ServerTypes
<1>5. QED BY <1>3, <1>4 DEF DetailInv

\* Who is shown a status is shown one the server gave.
LEMMA Delivered ==
  ASSUME DetailInv, NEW s \in Slots, Delivers(s)
  PROVE  DetailInv'
<1> DEFINE r == requests[s]
<1>1. ~IsFree(s) /\ r.answer # "none" /\ r \in Sent /\ Fits(r)
  BY UnderWay DEF Delivers, DetailInv
<1>2. RequestTypes'
  BY Freeing DEF Delivers, DetailInv
<1>3. jobSummary' \in {None} \cup [id : Trackings, status : Statuses]
  <2>1. r.kind = "fetch" => Summary(r.id, r.answer) \in [id : Trackings, status : Statuses]
    BY <1>1 DEF Sent, Fits, Summary
  <2>2. QED BY <2>1 DEF Delivers, DetailInv, ComponentTypes
<1>4. ComponentTypes'
  BY <1>1, <1>3 DEF Delivers, DetailInv, ComponentTypes, Sent
<1>5. LoggedIn' /\ ServerTypes'
  BY DEF Delivers, DetailInv, LoggedIn, ServerTypes, browserVars, serverVars
<1>6. QED BY <1>2, <1>4, <1>5 DEF DetailInv

LEMMA Ended ==
  ASSUME DetailInv, NEW s \in Slots, Answered(s)
  PROVE  DetailInv'
<1>1. CASE Fails(s)
  <2>1. RequestTypes'
    BY <1>1, Freeing DEF Fails, DetailInv
  <2>2. ComponentTypes' /\ LoggedIn' /\ ServerTypes'
    BY <1>1 DEF Fails, DetailInv, ComponentTypes, LoggedIn, ServerTypes, browserVars, serverVars
  <2>3. QED BY <2>1, <2>2 DEF DetailInv
<1>2. CASE TurnsAway(s)
  BY <1>2, SentToLogin DEF TurnsAway
<1>3. QED BY <1>1, <1>2, Delivered DEF Answered

LEMMA Progressed ==
  ASSUME DetailInv, NEW t \in Trackings, Progresses(t)
  PROVE  DetailInv'
<1>1. ServerTypes'
  BY DEF Progresses, DetailInv, ServerTypes
<1>2. UNCHANGED <<browserVars, componentVars, requests>>
  BY DEF Progresses
<1>3. QED
  BY <1>1, <1>2 DEF DetailInv, RequestTypes, AnswersFit, IsFree, ComponentTypes, LoggedIn,
                    browserVars, componentVars

-----------------------------------------------------------------------------
LEMMA DetailInvariance == DetailSafety => []DetailInv
<1>1. DetailInit => DetailInv
  BY DEF DetailInit, DetailInv, RequestTypes, AnswersFit, IsFree, ComponentTypes, LoggedIn,
         ServerTypes, Pages, Statuses
<1>2. ASSUME DetailInv, [DetailNext]_detailVars
      PROVE  DetailInv'
  <2>1. CASE UNCHANGED detailVars
    BY <1>2, <2>1 DEF DetailInv, RequestTypes, AnswersFit, IsFree, ComponentTypes, LoggedIn,
                      ServerTypes, detailVars, browserVars, componentVars, serverVars
  <2>2. CASE DetailNext
    BY <1>2, <2>2, Routing, Asked, Served, Ended, Progressed DEF DetailNext
  <2>3. QED BY <1>2, <2>1, <2>2
<1>3. QED BY <1>1, <1>2, PTL DEF DetailSafety

(***************************************************************************)
(* Whoever sees a page behind the guard (auth.guard.ts) is logged in, and  *)
(* the login page leaves nobody logged in, whichever answers come in after *)
(* the page that asked is gone; and what the page shows as a status is     *)
(* one the server gave.                                                    *)
(***************************************************************************)
THEOREM GuardHolds == DetailSafety => []DetailTypeOK
<1>1. DetailInv => DetailTypeOK
  BY DEF DetailInv, RequestTypes, ComponentTypes, LoggedIn, ServerTypes, DetailTypeOK
<1>2. QED BY <1>1, DetailInvariance, PTL
=============================================================================
