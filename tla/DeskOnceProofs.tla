---------------------------- MODULE DeskOnceProofs ----------------------------
(***************************************************************************)
(* What must happen or exist once at most in a scene of Desk: an approved  *)
(* listing, a decision about a submission, an account for an address, an   *)
(* appointment, a report of a match, a favourite, a cover, a place.  No    *)
(* step of Desk changes the scene, and in a component's scene it is a step *)
(* of the component or leaves its variables alone.                         *)
(***************************************************************************)
EXTENDS Desk, FiniteSetTheorems, WellFoundedInduction, TLAPS

LEMMA SceneStays == [Next]_vars => scene' = scene
BY DEF Next, vars, Onboard, Verify, Account, Message, View, Search, Favour, Photograph, Quote,
       Demo, Show, Edit, Entitle, Report, Notice

-----------------------------------------------------------------------------
(* Onboarding, for any number of tabs, links, contents and revisions.  The *)
(* promises are not inductive: they rest on what ties an approval to the   *)
(* version it was given for, a binding to an approval, and a page to the   *)
(* version it was read at.                                                 *)

\* An approval is for the current version and content, or there is none.
ApprovalIsCurrent ==
  /\ prospect.approved \in {0, prospect.version}
  /\ prospect.approved # 0 => prospect.approvedAs = O!Content /\ O!Granted
  /\ prospect.bound => prospect.approved # 0

\* There is a listing exactly when the prospect was handed off.
HandedOff ==
  /\ made = IF prospect.status = "HANDED_OFF" THEN 1 ELSE 0
  /\ made = 1 => handed = O!Content /\ prospect.bound

\* A page with the prospect's version shows the prospect's content.
PagesShowTheirVersion ==
  \A c \in O!Tabs :
    /\ page[c].version <= prospect.version
    /\ page[c].version = prospect.version =>
         /\ page[c].payload = prospect.payload
         /\ page[c].whole => page[c].photos = prospect.photos

OnboardingSafe ==
  O!TypeOK /\ ApprovalIsCurrent /\ HandedOff /\ O!LinksOpenWhatWasIssued /\ PagesShowTheirVersion

USE DEF O!Prospects, O!Acceptable, O!Opens

LEMMA OnboardingStarts == O!Init => OnboardingSafe
<1> SUFFICES ASSUME O!Init PROVE OnboardingSafe
  OBVIOUS
<1>0. O!NoPage \in [version: Nat, payload: Payloads, photos: Photos, whole: BOOLEAN]
  <2>1. PICK payload \in Payloads, gallery \in Photos : TRUE
    BY DEF O!Init
  <2>2. (CHOOSE x \in Payloads : TRUE) \in Payloads /\ (CHOOSE x \in Photos : TRUE) \in Photos
    BY <2>1
  <2> QED BY <2>2 DEF O!NoPage
<1>1. O!TypeOK
  <2>1. prospect \in O!Prospects
    BY DEF O!Init, O!Acceptable, O!Statuses, O!Prospects
  <2> QED BY <1>0, <2>1 DEF O!Init, O!TypeOK, O!Unissued
<1>2. ApprovalIsCurrent /\ HandedOff
  BY DEF O!Init, ApprovalIsCurrent, HandedOff
<1>3. O!LinksOpenWhatWasIssued
  BY DEF O!Init, O!LinksOpenWhatWasIssued, O!Live, O!Unissued
<1>4. PagesShowTheirVersion
  BY DEF O!Init, PagesShowTheirVersion, O!NoPage
<1> QED BY <1>1, <1>2, <1>3, <1>4 DEF OnboardingSafe

\* Revocation leaves no live link, so the links' promise holds whatever changed.
LEMMA RevokedKeepsType ==
  ASSUME O!TypeOK PROVE /\ O!Revoked \in [Links -> [version: Nat, left: Nat, revoked: BOOLEAN]]
                      /\ \A k \in Links : O!Revoked[k].revoked
  BY DEF O!TypeOK, O!Revoked

\* Every invalidation starts a version nobody approved, linked to or looked at.
LEMMA InvalidateKeeps ==
  ASSUME OnboardingSafe, UNCHANGED <<page, made, handed>>, prospect.status \notin O!Gone,
         NEW status \in {"CONTENT_GATHERING", "CHANGES_REQUESTED", "CLOSED"},
         NEW consent \in O!Consents, NEW payload \in Payloads, NEW gallery \in Photos,
         O!Invalidate(status, consent, payload, gallery)
  PROVE  OnboardingSafe'
<1>1. O!TypeOK'
  BY RevokedKeepsType DEF OnboardingSafe, O!TypeOK, O!Invalidate, O!Statuses
<1>2. ApprovalIsCurrent' /\ HandedOff'
  BY DEF OnboardingSafe, O!TypeOK, O!Invalidate, ApprovalIsCurrent, HandedOff, O!Gone
<1>3. O!LinksOpenWhatWasIssued'
  BY RevokedKeepsType DEF OnboardingSafe, O!Invalidate, O!LinksOpenWhatWasIssued, O!Live
<1>4. PagesShowTheirVersion'
  BY DEF OnboardingSafe, O!TypeOK, O!Invalidate, PagesShowTheirVersion
<1> QED BY <1>1, <1>2, <1>3, <1>4 DEF OnboardingSafe

LEMMA LookKeeps ==
  ASSUME OnboardingSafe, NEW c \in O!Tabs, O!Look(c) PROVE OnboardingSafe'
<1>1. UNCHANGED <<prospect, links, made, handed>>
  BY DEF O!Look, O!ReadProspect, O!ReadPhotos
<1> DEFINE Page == [version: Nat, payload: Payloads, photos: Photos, whole: BOOLEAN]
<1>a. /\ page \in [O!Tabs -> Page] /\ page[c] \in Page
      /\ prospect.version \in Nat /\ prospect.payload \in Payloads /\ prospect.photos \in Photos
  BY DEF OnboardingSafe, O!TypeOK
<1>b. page' \in [O!Tabs -> Page]
  <2>1. CASE O!ReadProspect(c)
    <3> DEFINE new == [version |-> prospect.version, payload |-> prospect.payload,
                       photos |-> page[c].photos, whole |-> FALSE]
    <3>1. new \in Page BY <1>a
    <3>2. page' = [page EXCEPT ![c] = new] BY <2>1 DEF O!ReadProspect
    <3> HIDE DEF new, Page
    <3> QED BY <3>1, <3>2, <1>a
  <2>2. CASE O!ReadPhotos(c)
    <3> DEFINE new == [version |-> page[c].version, payload |-> page[c].payload,
                       photos |-> prospect.photos, whole |-> TRUE]
    <3>1. new \in Page BY <1>a
    <3>2. page' = [page EXCEPT ![c] = new] BY <2>2 DEF O!ReadPhotos
    <3> HIDE DEF new, Page
    <3> QED BY <3>1, <3>2, <1>a
  <2> QED BY <2>1, <2>2 DEF O!Look
<1>2. O!TypeOK'
  BY <1>1, <1>b DEF OnboardingSafe, O!TypeOK
<1>3. ApprovalIsCurrent' /\ HandedOff'
  BY <1>1 DEF OnboardingSafe, ApprovalIsCurrent, HandedOff, O!Content, O!Granted
<1>4. O!LinksOpenWhatWasIssued'
  BY <1>1 DEF OnboardingSafe, O!LinksOpenWhatWasIssued, O!Live, O!Granted
<1>5. PagesShowTheirVersion'
  BY <1>1 DEF OnboardingSafe, O!TypeOK, PagesShowTheirVersion, O!Look, O!ReadProspect, O!ReadPhotos
<1> QED BY <1>2, <1>3, <1>4, <1>5 DEF OnboardingSafe

LEMMA StaffStepKeeps ==
  ASSUME O!Terms, OnboardingSafe, NEW c \in Staff, O!StaffStep(c) PROVE OnboardingSafe'
<1> USE DEF OnboardingSafe, O!Locked
<1>1. CASE O!Revise(c) \/ O!ChangePhotos(c) \/ O!SendBack(c)
  BY <1>1, InvalidateKeeps DEF O!Revise, O!ChangePhotos, O!SendBack, O!TypeOK
<1>2. CASE O!Prepare(c) \/ O!Send(c)
  <2>1. O!TypeOK' BY <1>2 DEF O!Prepare, O!Send, O!TypeOK, O!Statuses
  <2>2. ApprovalIsCurrent' BY <1>2 DEF O!Prepare, O!Send, O!TypeOK, ApprovalIsCurrent, O!Content, O!Granted
  <2>3. HandedOff' BY <1>2 DEF O!Prepare, O!Send, O!TypeOK, HandedOff, O!Content, O!Gone
  <2>4. O!LinksOpenWhatWasIssued'
    BY <1>2 DEF O!Prepare, O!Send, O!TypeOK, O!LinksOpenWhatWasIssued, O!Live, O!Granted, O!Gone
  <2>5. PagesShowTheirVersion' BY <1>2 DEF O!Prepare, O!Send, O!TypeOK, PagesShowTheirVersion
  <2> QED BY <2>1, <2>2, <2>3, <2>4, <2>5
<1>3. CASE O!Issue(c)
  <2>1. PICK k \in Links : links' = [O!Revoked EXCEPT ![k] = [version |-> prospect.version,
                                                           left |-> LinkTerm, revoked |-> FALSE]]
    BY <1>3 DEF O!Issue
  <2>2. UNCHANGED <<prospect, page, made, handed>>
    BY <1>3 DEF O!Issue
  <2>3. O!TypeOK' BY <2>1, <2>2, RevokedKeepsType DEF O!TypeOK, O!Terms
  <2>4. ApprovalIsCurrent' /\ HandedOff' /\ PagesShowTheirVersion'
    BY <2>2 DEF ApprovalIsCurrent, HandedOff, PagesShowTheirVersion, O!Content, O!Granted
  <2>5. \A j \in Links : O!Live(j)' => j = k
    BY <2>1, RevokedKeepsType DEF O!Live
  <2>6. links'[k].version = prospect.version
    BY <2>1, RevokedKeepsType
  <2>7. O!LinksOpenWhatWasIssued'
    BY <1>3, <2>2, <2>5, <2>6 DEF O!Issue, O!LinksOpenWhatWasIssued, O!Granted, O!Gone
  <2> QED BY <2>3, <2>4, <2>7
<1>4. CASE O!Revoke(c)
  <2>1. O!TypeOK' BY <1>4, RevokedKeepsType DEF O!Revoke, O!TypeOK
  <2>2. ApprovalIsCurrent' /\ HandedOff' /\ PagesShowTheirVersion'
    BY <1>4 DEF O!Revoke, ApprovalIsCurrent, HandedOff, PagesShowTheirVersion, O!Content, O!Granted
  <2>3. O!LinksOpenWhatWasIssued'
    BY <1>4, RevokedKeepsType DEF O!Revoke, O!LinksOpenWhatWasIssued, O!Live
  <2> QED BY <2>1, <2>2, <2>3
<1>5. CASE O!Approve(c)
  <2>1. O!TypeOK' BY <1>5 DEF O!Approve, O!TypeOK, O!Statuses, O!Content
  <2>2. ApprovalIsCurrent' BY <1>5 DEF O!Approve, O!TypeOK, ApprovalIsCurrent, O!Content, O!Granted
  <2>3. HandedOff' BY <1>5 DEF O!Approve, O!TypeOK, HandedOff, O!Content, O!Gone
  <2>4. O!LinksOpenWhatWasIssued'
    BY <1>5 DEF O!Approve, O!TypeOK, O!LinksOpenWhatWasIssued, O!Live, O!Granted, O!Gone
  <2>5. PagesShowTheirVersion' BY <1>5 DEF O!Approve, O!TypeOK, PagesShowTheirVersion
  <2> QED BY <2>1, <2>2, <2>3, <2>4, <2>5
<1>6. CASE O!Invite(c)
  <2>1. O!TypeOK' BY <1>6 DEF O!Invite, O!TypeOK, O!Statuses, O!Terms
  <2>2. ApprovalIsCurrent' BY <1>6 DEF O!Invite, O!Approved, O!TypeOK, ApprovalIsCurrent, O!Content, O!Granted
  <2>3. HandedOff' BY <1>6 DEF O!Invite, O!TypeOK, HandedOff, O!Content, O!Gone
  <2>4. O!LinksOpenWhatWasIssued'
    BY <1>6 DEF O!Invite, O!TypeOK, O!LinksOpenWhatWasIssued, O!Live, O!Granted, O!Gone
  <2>5. PagesShowTheirVersion' BY <1>6 DEF O!Invite, O!TypeOK, PagesShowTheirVersion
  <2> QED BY <2>1, <2>2, <2>3, <2>4, <2>5
<1>7. CASE O!Destroy(c)
  <2>1. O!TypeOK' BY <1>7 DEF O!Destroy, O!TypeOK, O!Statuses, O!Unissued
  <2>2. ApprovalIsCurrent' /\ HandedOff'
    BY <1>7 DEF O!Destroy, O!TypeOK, ApprovalIsCurrent, HandedOff, O!Content, O!Granted
  <2>3. O!LinksOpenWhatWasIssued' BY <1>7 DEF O!Destroy, O!LinksOpenWhatWasIssued, O!Live, O!Unissued
  <2>4. PagesShowTheirVersion' BY <1>7 DEF O!Destroy, O!TypeOK, PagesShowTheirVersion
  <2> QED BY <2>1, <2>2, <2>3, <2>4
<1> QED BY <1>1, <1>2, <1>3, <1>4, <1>5, <1>6, <1>7 DEF O!StaffStep

LEMMA HandOffKeeps ==
  ASSUME OnboardingSafe, NEW c \in Claimants, O!HandOff(c) PROVE OnboardingSafe'
<1> USE DEF OnboardingSafe, O!HandOff, O!Claimable, O!Approved
<1>1. O!TypeOK'
  BY RevokedKeepsType DEF O!TypeOK, O!Statuses, O!Content
<1>2. ApprovalIsCurrent'
  BY DEF O!TypeOK, ApprovalIsCurrent, O!Content, O!Granted
<1>3. HandedOff'
  BY DEF O!TypeOK, HandedOff, O!Content
<1>4. O!LinksOpenWhatWasIssued'
  BY RevokedKeepsType DEF O!LinksOpenWhatWasIssued, O!Live
<1>5. PagesShowTheirVersion'
  BY DEF O!TypeOK, PagesShowTheirVersion
<1> QED BY <1>1, <1>2, <1>3, <1>4, <1>5

LEMMA TickKeeps == ASSUME OnboardingSafe, O!Tick PROVE OnboardingSafe'
<1> USE DEF OnboardingSafe, O!Tick
<1>1. \A n \in Nat : O!Less(n) \in Nat /\ (O!Less(n) > 0 => n > 0)
  BY DEF O!Less
<1>2. O!TypeOK'
  BY <1>1 DEF O!TypeOK
<1>3. ApprovalIsCurrent' /\ HandedOff'
  BY DEF O!TypeOK, ApprovalIsCurrent, HandedOff, O!Content, O!Granted
<1>4. \A k \in Links : /\ links'[k].version = links[k].version
                       /\ O!Live(k)' => O!Live(k)
  BY <1>1 DEF O!TypeOK, O!Live
<1>5. O!LinksOpenWhatWasIssued'
  BY <1>4 DEF O!TypeOK, O!LinksOpenWhatWasIssued, O!Granted
<1>6. PagesShowTheirVersion'
  BY DEF O!TypeOK, PagesShowTheirVersion
<1> QED BY <1>2, <1>3, <1>5, <1>6

LEMMA OnboardingKeeps == ASSUME O!Terms, OnboardingSafe, [O!Next]_(O!vars) PROVE OnboardingSafe'
<1>1. CASE O!Next
  BY <1>1, LookKeeps, StaffStepKeeps, HandOffKeeps, TickKeeps DEF O!Next
<1>2. CASE UNCHANGED O!vars
  BY <1>2 DEF O!vars, OnboardingSafe, O!TypeOK, ApprovalIsCurrent, HandedOff, O!LinksOpenWhatWasIssued, O!Live,
              PagesShowTheirVersion, O!Content, O!Granted
<1> QED BY <1>1, <1>2

LEMMA OnboardingHandsOff == OnboardingSafe => O!HandoffAsApproved
BY DEF OnboardingSafe, O!TypeOK, ApprovalIsCurrent, HandedOff, O!HandoffAsApproved

LEMMA OnboardingSees == OnboardingSafe => O!AsSeen
<1> SUFFICES ASSUME OnboardingSafe PROVE O!AsSeen
  OBVIOUS
<1>1. ASSUME NEW c \in Staff, O!Approve(c)
      PROVE  prospect'.approvedAs = <<page[c].payload, page[c].photos>>
  BY <1>1 DEF OnboardingSafe, O!TypeOK, PagesShowTheirVersion, O!Approve, O!Locked, O!Content, O!Tabs
<1>2. ASSUME NEW c \in Claimants, O!HandOff(c)
      PROVE  handed' = <<page[c].payload, page[c].photos>>
  BY <1>2 DEF OnboardingSafe, O!TypeOK, PagesShowTheirVersion, O!HandOff, O!Claimable, O!Content, O!Tabs
<1> QED BY <1>1, <1>2 DEF O!AsSeen

HIDE DEF O!Prospects, O!Acceptable, O!Opens

LEMMA OnboardingSteps == scene = "onboarding" /\ [Next]_vars => [O!Next]_(O!vars)
BY DEF Next, vars, Onboard, Verify, Account, Message, View, Search, Favour, Photograph, Quote,
       Demo, Show, Edit, Entitle, Report, Notice, onboarding, O!vars

OnboardingInv == scene = "onboarding" => OnboardingSafe

\* An approval is for the current version and content, a binding rests on an approval, a listing
\* exists exactly after the hand-off, and a page shows the content of its version
\* (core/onboarding.py).
THEOREM OnboardingInvariance == Spec => []OnboardingInv
<1>1. Init => OnboardingInv
  BY OnboardingStarts DEF Init, OnboardingInv
<1>2. OnboardingInv /\ [Next]_vars => OnboardingInv'
  <2> SUFFICES ASSUME scene' = "onboarding", OnboardingInv, [Next]_vars PROVE OnboardingSafe'
    BY DEF OnboardingInv
  <2>1. scene = "onboarding" /\ OnboardingSafe
    BY SceneStays DEF OnboardingInv
  <2>2. [O!Next]_(O!vars)
    BY <2>1, OnboardingSteps
  <2> QED BY <2>1, <2>2, Constants, OnboardingKeeps
<1> QED BY <1>1, <1>2, PTL DEF Spec

\* Whatever staff and claimants do, a prospect becomes one listing at most, with the
\* approved content and a standing consent (core/onboarding.py, ClaimView.post).
THEOREM HandedOffAsApproved == Spec => []HandoffAsApproved
<1>1. OnboardingInv => HandoffAsApproved
  BY OnboardingHandsOff DEF OnboardingInv, HandoffAsApproved
<1> QED BY <1>1, OnboardingInvariance, PTL

\* A link that still lives opens the content it was issued for (PreviewView.post).
THEOREM LiveLinksOpen == Spec => []LinksOpenWhatWasIssued
<1>1. OnboardingInv => LinksOpenWhatWasIssued
  BY DEF OnboardingInv, OnboardingSafe, LinksOpenWhatWasIssued
<1> QED BY <1>1, OnboardingInvariance, PTL

\* Approvals and claims decide on what their page shows, although it was read without
\* a lock and in two queries (ProspectViewSet.locked, ClaimView.get).
THEOREM EveryDecisionAsSeen == Spec => DecidedAsSeen
<1>1. OnboardingInv => [scene = "onboarding" => O!AsSeen]_vars
  BY OnboardingSees DEF OnboardingInv
<1> QED BY <1>1, OnboardingInvariance, PTL DEF DecidedAsSeen

-----------------------------------------------------------------------------
(* Verification, for any number of requests, documents and applicants.     *)
(* That no submission is decided twice is not inductive: a request under   *)
(* review must have a submission nobody decided, and an applicant's late   *)
(* write must never bring a request back under review.                     *)

\* A request under review has a submission more than decisions.
Undecided ==
  \A r \in Requests : IF V!Reviewable(r) THEN audit[r].decided < audit[r].submitted
                      ELSE audit[r].decided <= audit[r].submitted

\* A late write is about a request, and an edit restores a status an applicant may edit.
LateWrites ==
  \A c \in Applicants :
    /\ job[c].op \notin {"none", "create"} => job[c].request \in Requests
    /\ job[c].op = "edit" => job[c].status \in V!Editable

ReviewsSafe == V!TypeOK /\ Undecided /\ LateWrites

ReviewJobs == [op: {"none", "create", "submit", "edit", "upload", "remove", "cancel", "suspend"},
               request: Requests \cup {None}, status: V!Statuses, item: Items \cup {None}]

LEMMA NoReview == V!NoJob \in ReviewJobs /\ V!NoDocument \in V!DocumentRows
BY DEF V!NoJob, ReviewJobs, V!Statuses, V!NoDocument, V!DocumentRows

LEMMA ReviewsStart == V!Init => ReviewsSafe
<1> SUFFICES ASSUME V!Init PROVE ReviewsSafe
  OBVIOUS
<1>1. V!TypeOK
  BY NoReview DEF V!Init, V!TypeOK, ReviewJobs, V!RequestRows, V!Statuses
<1>2. Undecided
  BY DEF V!Init, Undecided, V!Reviewable, V!InReview
<1>3. LateWrites
  BY DEF V!Init, LateWrites, V!NoJob
<1> QED BY <1>1, <1>2, <1>3 DEF ReviewsSafe

LEMMA StatusKeepsType ==
  ASSUME request \in [Requests -> V!RequestRows], NEW r \in Requests, NEW s \in V!Statuses,
         request' = [request EXCEPT ![r].status = s]
  PROVE  /\ request' \in [Requests -> V!RequestRows]
         /\ request'[r].status = s
         /\ \A q \in Requests \ {r} : request'[q] = request[q]
<1> DEFINE new == [request[r] EXCEPT !.status = s]
<1>1. new \in V!RequestRows /\ new.status = s
  BY DEF V!RequestRows
<1>2. request' = [request EXCEPT ![r] = new]
  OBVIOUS
<1> HIDE DEF new
<1> QED BY <1>1, <1>2

\* Whoever ends a job changes no other.
LEMMA ReviewDone ==
  ASSUME ReviewsSafe, NEW c \in Applicants, V!Done(c)
  PROVE  job' \in [Applicants -> ReviewJobs] /\ LateWrites'
BY NoReview DEF ReviewsSafe, V!TypeOK, ReviewJobs, V!Done, LateWrites, V!NoJob

LEMMA ReviewLoads ==
  ASSUME V!Definitions, ReviewsSafe, NEW c \in Applicants, V!Load(c) \/ V!LoadItem(c) PROVE ReviewsSafe'
<1> USE DEF ReviewsSafe
<1>1. Undecided'
  BY DEF V!Load, V!LoadItem, Undecided, V!Reviewable
<1>2. CASE V!Load(c)
  <2>0. \A r \in Requests : request[r].item \in Items \cup {None}
    BY DEF V!TypeOK, V!RequestRows
  <2>1. PICK r \in Requests, op \in {"submit", "edit", "upload", "remove", "cancel", "suspend"} :
          /\ V!MayStart(op, r)
          /\ \E i \in IF op = "edit" THEN {x \in Items : ~V!Duplicate(x, {r})} ELSE {request[r].item} :
               job' = [job EXCEPT ![c] = [op |-> op, request |-> r, status |-> request[r].status, item |-> i]]
    BY <1>2 DEF V!Load
  <2>6. PICK i \in Items \cup {None} :
          job' = [job EXCEPT ![c] = [op |-> op, request |-> r, status |-> request[r].status, item |-> i]]
    <3>1. CASE op = "edit"
      BY <2>1, <3>1
    <3>2. CASE op # "edit"
      <4>1. job' = [job EXCEPT ![c] = [op |-> op, request |-> r, status |-> request[r].status,
                                       item |-> request[r].item]]
        BY <2>1, <3>2
      <4> QED BY <2>0, <4>1
    <3> QED BY <3>1, <3>2
  <2> DEFINE new == [op |-> op, request |-> r, status |-> request[r].status, item |-> i]
  <2>2. new \in ReviewJobs /\ new.request \in Requests /\ (new.op = "edit" => new.status \in V!Editable)
    BY <2>1 DEF V!TypeOK, V!RequestRows, ReviewJobs, V!MayStart
  <2>3. job' = [job EXCEPT ![c] = new]
    BY <2>6
  <2> HIDE DEF new
  <2>4. job' \in [Applicants -> ReviewJobs] /\ LateWrites'
    BY <2>2, <2>3 DEF V!TypeOK, ReviewJobs, LateWrites
  <2>5. V!TypeOK'
    BY <1>2, <2>4 DEF V!Load, V!TypeOK, ReviewJobs
  <2> QED BY <1>1, <2>4, <2>5
<1>3. CASE V!LoadItem(c)
  <2>1. PICK i \in Items : job' = [job EXCEPT ![c] = [V!NoJob EXCEPT !.op = "create", !.item = i]]
    BY <1>3 DEF V!LoadItem
  <2> DEFINE new == [V!NoJob EXCEPT !.op = "create", !.item = i]
  <2>2. new \in ReviewJobs /\ new.op = "create"
    BY NoReview DEF ReviewJobs, V!NoJob
  <2> HIDE DEF new
  <2>3. job' \in [Applicants -> ReviewJobs] /\ LateWrites'
    BY <2>1, <2>2 DEF V!TypeOK, ReviewJobs, LateWrites, new
  <2>4. V!TypeOK'
    BY <1>3, <2>3 DEF V!LoadItem, V!TypeOK, ReviewJobs
  <2> QED BY <1>1, <2>3, <2>4
<1> QED BY <1>2, <1>3

LEMMA ReviewWrites ==
  ASSUME ReviewsSafe, NEW c \in Applicants,
         \/ V!Create(c) \/ V!Submit(c) \/ V!Edit(c) \/ V!Cancel(c)
         \/ V!Upload(c) \/ V!Remove(c) \/ V!Suspend(c) \/ V!GiveUp(c)
  PROVE  ReviewsSafe'
<1> USE DEF ReviewsSafe, V!TypeOK
<1>0. V!Done(c) /\ job[c] \in ReviewJobs
  BY DEF V!Create, V!Submit, V!Edit, V!Cancel, V!Upload, V!Remove, V!Suspend, V!GiveUp, ReviewJobs
<1>1. job' \in [Applicants -> ReviewJobs] /\ LateWrites'
  BY <1>0, ReviewDone
<1>2. request' \in [Requests -> V!RequestRows]
  <2>1. CASE V!Create(c)
    BY <1>0, <2>1 DEF V!Create, V!RequestRows, ReviewJobs, V!Statuses
  <2>2. CASE V!Submit(c)
    BY <1>0, <2>2 DEF V!Submit, V!Save, V!RequestRows, ReviewJobs, V!Statuses
  <2>3. CASE V!Edit(c)
    BY <1>0, <2>3 DEF V!Edit, V!Save, V!RequestRows, ReviewJobs
  <2>4. CASE V!Cancel(c)
    BY <2>4, StatusKeepsType DEF V!Cancel, V!Set, LateWrites, V!Statuses
  <2>5. CASE UNCHANGED request
    BY <2>5
  <2> QED BY <2>1, <2>2, <2>3, <2>4, <2>5 DEF V!Upload, V!Remove, V!Suspend, V!GiveUp
<1>3. document' \in [Documents -> V!DocumentRows]
  <2>1. CASE V!Upload(c)
    <3>1. PICK d \in Documents, n \in Needs : document' =
            [document EXCEPT ![d] = [request |-> job[c].request, need |-> n, status |-> "PENDING"]]
      BY <2>1 DEF V!Upload
    <3> DEFINE new == [request |-> job[c].request, need |-> n, status |-> "PENDING"]
    <3>2. new \in V!DocumentRows
      BY <1>0 DEF V!DocumentRows, ReviewJobs
    <3>3. document' = [document EXCEPT ![d] = new]
      BY <3>1
    <3> HIDE DEF new
    <3> QED BY <3>2, <3>3
  <2>2. CASE V!Remove(c)
    <3>1. PICK d \in Documents : document' = [document EXCEPT ![d] = V!NoDocument]
      BY <2>2 DEF V!Remove, V!DocumentsOf
    <3> QED BY <3>1, NoReview
  <2>3. CASE UNCHANGED document
    BY <2>3
  <2> QED BY <2>1, <2>2, <2>3 DEF V!Create, V!Submit, V!Edit, V!Cancel, V!Suspend, V!GiveUp
<1>4. badge' \in [Entities -> {"UNVERIFIED", "VERIFIED", "SUSPENDED"}]
  <2>1. CASE V!Suspend(c)
    BY <2>1 DEF V!Suspend
  <2>2. CASE UNCHANGED badge
    BY <2>2
  <2> QED BY <2>1, <2>2 DEF V!Create, V!Submit, V!Edit, V!Cancel, V!Upload, V!Remove, V!GiveUp
<1>5. audit' \in [Requests -> [submitted: Nat, decided: Nat]]
  BY DEF V!Create, V!Submit, V!Edit, V!Cancel, V!Upload, V!Remove, V!Suspend, V!GiveUp, V!Note
<1>6. Undecided'
  <2>1. CASE V!Create(c)
    BY <2>1 DEF V!Create, Undecided, V!Reviewable, V!InReview, V!RequestRows
  <2>2. CASE V!Submit(c)
    <3>1. job[c].request \in Requests
      BY <2>2 DEF V!Submit, LateWrites
    <3>2. /\ request' = [request EXCEPT ![job[c].request] = [status |-> "SUBMITTED", item |-> job[c].item]]
          /\ audit' = [audit EXCEPT ![job[c].request].submitted = @ + 1]
      BY <2>2 DEF V!Submit, V!Save, V!Note
    <3> QED BY <3>1, <3>2 DEF Undecided, V!Reviewable, V!InReview, V!RequestRows
  <2>3. CASE V!Edit(c)
    <3>1. job[c].status \in V!Editable
      BY <2>3 DEF V!Edit, LateWrites
    <3> QED BY <2>3, <3>1 DEF V!Edit, V!Save, Undecided, V!Reviewable, V!InReview, V!Editable, V!RequestRows
  <2>4. CASE V!Cancel(c)
    BY <2>4 DEF V!Cancel, V!Set, Undecided, V!Reviewable, V!InReview, V!RequestRows
  <2>5. CASE V!Upload(c) \/ V!Remove(c) \/ V!Suspend(c) \/ V!GiveUp(c)
    BY <2>5 DEF V!Upload, V!Remove, V!Suspend, V!GiveUp, Undecided, V!Reviewable
  <2> QED BY <2>1, <2>2, <2>3, <2>4, <2>5
<1> QED BY <1>1, <1>2, <1>3, <1>4, <1>5, <1>6 DEF ReviewJobs

LEMMA ReviewDecides ==
  ASSUME V!Definitions, ReviewsSafe, NEW r \in Requests, V!Decide(r) PROVE ReviewsSafe'
<1> USE DEF ReviewsSafe, V!TypeOK
<1>0. \/ request' = [request EXCEPT ![r].status = "UNDER_REVIEW"] /\ request[r].status = "SUBMITTED"
         /\ UNCHANGED audit
      \/ /\ \E s \in {"APPROVED", "REJECTED", "CHANGES_REQUESTED"} :
              request' = [request EXCEPT ![r].status = s]
         /\ audit' = [audit EXCEPT ![r].decided = @ + 1]
         /\ V!Reviewable(r)
  BY DEF V!Decide, V!StartReview, V!Approve, V!Reject, V!RejectDocument, V!RequestChanges, V!Set, V!Note
<1>1. job' = job /\ LateWrites'
  BY DEF V!Decide, V!StartReview, V!Approve, V!Reject, V!RejectDocument, V!RequestChanges, LateWrites
<1>2. /\ request' \in [Requests -> V!RequestRows]
      /\ audit' \in [Requests -> [submitted: Nat, decided: Nat]]
  <2>1. request' \in [Requests -> V!RequestRows]
    BY <1>0, StatusKeepsType DEF V!Statuses
  <2>2. CASE UNCHANGED audit
    BY <2>1, <2>2
  <2>3. CASE audit' = [audit EXCEPT ![r].decided = @ + 1]
    <3> DEFINE new == [audit[r] EXCEPT !.decided = @ + 1]
    <3>1. new \in [submitted: Nat, decided: Nat]
      OBVIOUS
    <3>2. audit' = [audit EXCEPT ![r] = new]
      BY <2>3
    <3> HIDE DEF new
    <3> QED BY <2>1, <3>1, <3>2
  <2> QED BY <1>0, <2>2, <2>3
<1>3. document' \in [Documents -> V!DocumentRows]
  <2>1. document' = document \/ \E documents : V!Refuse(documents)
    BY DEF V!Decide, V!StartReview, V!Approve, V!Reject, V!RejectDocument, V!RequestChanges
  <2>2. \A x \in V!DocumentRows : [x EXCEPT !.status = "REJECTED"] \in V!DocumentRows
    BY DEF V!DocumentRows
  <2> QED BY <2>1, <2>2 DEF V!Refuse
<1>4. badge' \in [Entities -> {"UNVERIFIED", "VERIFIED", "SUSPENDED"}]
  <2>1. badge' = badge \/ badge' = [badge EXCEPT ![request[r].item] = "VERIFIED"]
    BY DEF V!Decide, V!StartReview, V!Approve, V!Reject, V!RejectDocument, V!RequestChanges
  <2> QED BY <2>1
<1>5. Undecided'
  BY <1>0, StatusKeepsType DEF Undecided, V!Reviewable, V!InReview, V!Statuses
<1> QED BY <1>1, <1>2, <1>3, <1>4, <1>5

LEMMA ReviewDestroys ==
  ASSUME ReviewsSafe, NEW r \in Requests, V!Destroy(r) PROVE ReviewsSafe'
<1> USE DEF ReviewsSafe, V!TypeOK, V!Destroy
<1>1. V!TypeOK'
  BY NoReview DEF V!RequestRows, V!Statuses
<1>2. Undecided'
  BY DEF Undecided, V!Reviewable, V!InReview, V!RequestRows
<1>3. LateWrites'
  BY DEF LateWrites
<1> QED BY <1>1, <1>2, <1>3

LEMMA ReviewsKeep == ASSUME V!Definitions, ReviewsSafe, [V!Next]_(V!vars) PROVE ReviewsSafe'
<1>1. CASE V!Next
  BY <1>1, ReviewLoads, ReviewWrites, ReviewDecides, ReviewDestroys DEF V!Next, V!Apply
<1>2. CASE UNCHANGED V!vars
  BY <1>2 DEF V!vars, ReviewsSafe, V!TypeOK, Undecided, V!Reviewable, LateWrites
<1> QED BY <1>1, <1>2

LEMMA ReviewsDecideOnce == ReviewsSafe => V!OneDecisionPerSubmission
BY DEF ReviewsSafe, V!TypeOK, Undecided, V!OneDecisionPerSubmission

LEMMA VerificationSteps == scene = "verification" /\ [Next]_vars => [V!Next]_(V!vars)
BY DEF Next, vars, Onboard, Verify, Account, Message, View, Search, Favour, Photograph, Quote,
       Demo, Show, Edit, Entitle, Report, Notice, verifying, V!vars

VerificationInv == scene = "verification" => ReviewsSafe

\* A request under review has a submission nobody decided, and no late write of an applicant
\* brings one back under review without a new submission (verification/services.py).
THEOREM VerificationInvariance == Spec => []VerificationInv
<1>1. Init => VerificationInv
  BY ReviewsStart DEF Init, VerificationInv
<1>2. VerificationInv /\ [Next]_vars => VerificationInv'
  <2> SUFFICES ASSUME scene' = "verification", VerificationInv, [Next]_vars PROVE ReviewsSafe'
    BY DEF VerificationInv
  <2>1. scene = "verification" /\ ReviewsSafe
    BY SceneStays DEF VerificationInv
  <2>2. [V!Next]_(V!vars)
    BY <2>1, VerificationSteps
  <2> QED BY <2>1, <2>2, Constants, ReviewsKeep
<1> QED BY <1>1, <1>2, PTL DEF Spec

\* Two reviewers, or a reviewer and an applicant with an old page, never make two decisions
\* about one submission (verification/services.py).
THEOREM NoSubmissionDecidedTwice == Spec => []OneDecisionPerSubmission
<1>1. VerificationInv => OneDecisionPerSubmission
  BY ReviewsDecideOnce DEF VerificationInv, OneDecisionPerSubmission
<1> QED BY <1>1, VerificationInvariance, PTL

-----------------------------------------------------------------------------
(* Accounts.  That no two share an address whatever its spelling rests on  *)
(* what is stored: every address in lower case, from the request that      *)
(* checked it to the row, so that the unique column, which compares        *)
(* spellings, and the check, which does not, mean the same.                *)

AccountOps  == {"none", "register", "profile", "unverify", "verify", "welcome", "password", "restrict",
         "reinstate"}
AccountJobs == [op: AccountOps, user: Registrants \cup {None}, seen: A!Row,
                email: Addresses \cup {None}]
RowsAndJobs == user \in [Registrants -> A!Row] /\ job \in [Clients -> AccountJobs]

IsLower(a) == Lower[a] = a
StoredLower ==
  /\ \A u \in Registrants : A!Exists(u) => IsLower(user[u].email)
  /\ \A u, v \in Registrants : u # v /\ A!Exists(u) => user[u].email # user[v].email

\* A request that will store an address has it in lower case.
CheckedLower ==
  \A c \in Clients :
    /\ job[c].op \in {"register", "profile"} => job[c].email \in Addresses /\ IsLower(job[c].email)
    /\ job[c].op = "profile" => job[c].user \in Registrants

AccountsSafe == RowsAndJobs /\ StoredLower /\ CheckedLower

LEMMA NoAccountYet == ASSUME A!Spelling PROVE A!Absent \in A!Row /\ A!Idle \in AccountJobs
<1>1. A!APassword \in Passwords
  BY DEF A!Spelling, A!APassword
<1> QED BY <1>1 DEF A!Absent, A!Row, A!Idle, AccountJobs, AccountOps

LEMMA AccountsStart == ASSUME A!Spelling, A!Init PROVE AccountsSafe
<1>1. RowsAndJobs
  BY NoAccountYet DEF A!Init, RowsAndJobs
<1>2. StoredLower
  BY DEF A!Init, StoredLower, A!Exists, A!Absent
<1>3. CheckedLower
  BY DEF A!Init, CheckedLower, A!Idle
<1> QED BY <1>1, <1>2, <1>3 DEF AccountsSafe

\* Loading: a request keeps what it may store later in lower case.
LEMMA StartKeeps ==
  ASSUME A!Spelling, AccountsSafe, NEW c \in Clients, NEW op \in AccountOps,
         NEW u \in Registrants \cup {None}, NEW a \in Addresses \cup {None}, A!Start(c, op, u, a), UNCHANGED user,
         op \in {"profile", "verify"} => u \in Registrants,
         op \in {"register", "profile"} => a \in Addresses /\ IsLower(a)
  PROVE  AccountsSafe'
<1> DEFINE seen == IF op \in {"profile", "verify"} THEN user[u] ELSE A!Absent
           new  == [op |-> op, user |-> u, email |-> a, seen |-> seen]
<1>1. seen \in A!Row
  BY NoAccountYet DEF AccountsSafe, RowsAndJobs
<1>2. job' = [job EXCEPT ![c] = new]
  BY DEF A!Start
<1> HIDE DEF seen
<1>3. new \in AccountJobs /\ new.op = op /\ new.user = u /\ new.email = a
  BY <1>1 DEF AccountJobs
<1> HIDE DEF new
<1>4. RowsAndJobs'
  BY <1>2, <1>3 DEF AccountsSafe, RowsAndJobs
<1>5. StoredLower'
  BY DEF AccountsSafe, StoredLower, A!Exists, IsLower
<1>6. CheckedLower'
  BY <1>2, <1>3 DEF AccountsSafe, RowsAndJobs, CheckedLower, IsLower
<1> QED BY <1>4, <1>5, <1>6 DEF AccountsSafe

LEMMA LoadKeeps == ASSUME A!Spelling, AccountsSafe, NEW c \in Clients, A!Load(c) PROVE AccountsSafe'
<1>0. UNCHANGED user
  BY DEF A!Load
<1>1. \A a \in Addresses : A!Normalized(a) \in Addresses /\ IsLower(A!Normalized(a))
  BY DEF A!Spelling, A!Normalized, IsLower
<1>2. CASE A!LoadRegistration(c)
  BY <1>0, <1>1, <1>2, StartKeeps DEF A!LoadRegistration, AccountOps
<1>3. CASE A!LoadProfile(c)
  BY <1>0, <1>1, <1>3, StartKeeps DEF A!LoadProfile, AccountOps
<1>4. CASE A!LoadVerification(c) \/ A!LoadPassword(c) \/ A!LoadReset(c)
  BY <1>0, <1>4, StartKeeps DEF A!LoadVerification, A!LoadPassword, A!LoadReset, AccountOps
<1>5. CASE A!LoadModeration(c)
  <2>1. PICK u \in Registrants, op \in {"restrict", "reinstate"} : A!Start(c, op, u, None)
    BY <1>5 DEF A!LoadModeration
  <2> QED BY <1>0, <2>1, StartKeeps DEF AccountOps
<1> QED BY <1>2, <1>3, <1>4, <1>5 DEF A!Load

\* A entry may change in everything but its address.
LEMMA SameAddressesKeep ==
  ASSUME AccountsSafe, user' \in [Registrants -> A!Row],
         \A u \in Registrants : user'[u].email = user[u].email
  PROVE  StoredLower'
BY DEF AccountsSafe, StoredLower, A!Exists, IsLower

LEMMA RowKeeps ==
  ASSUME AccountsSafe, NEW u, NEW entry, user' = [user EXCEPT ![u] = entry],
         u \in Registrants => entry \in A!Row /\ entry.email = user[u].email
  PROVE  user' \in [Registrants -> A!Row] /\ \A v \in Registrants : user'[v].email = user[v].email
BY DEF AccountsSafe, RowsAndJobs

\* A entry gets an address that is in lower case and no other entry's.
LEMMA NewAddressKeeps ==
  ASSUME AccountsSafe, NEW u \in Registrants, NEW entry \in A!Row, user' = [user EXCEPT ![u] = entry],
         entry.email \in Addresses, IsLower(entry.email), A!Unique(entry.email, u)
  PROVE  user' \in [Registrants -> A!Row] /\ StoredLower'
BY DEF AccountsSafe, RowsAndJobs, StoredLower, A!Exists, IsLower, A!Unique

\* A request that ends, or goes on to its second statement, has no address to store.
LEMMA DoneKeeps ==
  ASSUME A!Spelling, AccountsSafe, NEW c \in Clients,
         A!Done(c) \/ \E op \in {"unverify", "welcome"} : job' = [job EXCEPT ![c].op = op]
  PROVE  job' \in [Clients -> AccountJobs] /\ CheckedLower'
<1>1. CASE A!Done(c)
  BY <1>1, NoAccountYet DEF AccountsSafe, RowsAndJobs, CheckedLower, A!Done, A!Idle, IsLower
<1>2. ASSUME NEW op \in {"unverify", "welcome"}, job' = [job EXCEPT ![c].op = op]
      PROVE  job' \in [Clients -> AccountJobs] /\ CheckedLower'
  <2> DEFINE new == [job[c] EXCEPT !.op = op]
  <2>1. new \in AccountJobs /\ new.op \notin {"register", "profile"}
    BY DEF AccountsSafe, RowsAndJobs, AccountJobs, AccountOps
  <2>2. job' = [job EXCEPT ![c] = new]
    BY <1>2
  <2> HIDE DEF new
  <2> QED BY <2>1, <2>2 DEF AccountsSafe, RowsAndJobs, CheckedLower, IsLower
<1> QED BY <1>1, <1>2

LEMMA WriteKeeps == ASSUME A!Spelling, AccountsSafe, NEW c \in Clients, A!Write(c) PROVE AccountsSafe'
<1>0. job' \in [Clients -> AccountJobs] /\ CheckedLower'
  BY Zenon, DoneKeeps DEF A!Write, A!Insert, A!SaveProfile, A!Unverify, A!SaveVerified, A!Welcome,
                   A!SavePassword, A!SaveModeration, A!GiveUp
<1>p. A!APassword \in Passwords
  BY DEF A!Spelling, A!APassword
<1>1. CASE A!Insert(c)
  <2>1. PICK u \in Registrants, p \in Passwords :
          /\ A!Unique(job[c].email, u)
          /\ user' = [user EXCEPT ![u] = [A!Absent EXCEPT !.email = job[c].email, !.password = p]]
    BY Zenon, <1>1 DEF A!Insert
  <2> DEFINE entry == [A!Absent EXCEPT !.email = job[c].email, !.password = p]
  <2>2. job[c].email \in Addresses /\ IsLower(job[c].email)
    BY <1>1 DEF A!Insert, AccountsSafe, CheckedLower
  <2>3. entry \in A!Row /\ entry.email = job[c].email
    BY <2>2, NoAccountYet DEF A!Row, A!Absent
  <2>4. user' = [user EXCEPT ![u] = entry]
    BY <2>1
  <2> HIDE DEF entry
  <2>5. user' \in [Registrants -> A!Row] /\ StoredLower'
    BY <2>1, <2>2, <2>3, <2>4, NewAddressKeeps
  <2> QED BY <1>0, <2>5 DEF AccountsSafe, RowsAndJobs
<1>2. CASE A!SaveProfile(c)
  <2> DEFINE entry == [job[c].seen EXCEPT !.email = job[c].email]
  <2>1. /\ job[c].user \in Registrants /\ job[c].email \in Addresses /\ IsLower(job[c].email)
        /\ A!Unique(job[c].email, job[c].user)
        /\ user' = [user EXCEPT ![job[c].user] = entry]
    BY <1>2 DEF A!SaveProfile, AccountsSafe, CheckedLower
  <2>2. entry \in A!Row /\ entry.email = job[c].email
    BY <2>1 DEF AccountsSafe, RowsAndJobs, AccountJobs, A!Row
  <2> HIDE DEF entry
  <2>3. user' \in [Registrants -> A!Row] /\ StoredLower'
    BY <2>1, <2>2, NewAddressKeeps
  <2> QED BY <1>0, <2>3 DEF AccountsSafe, RowsAndJobs
<1>3. CASE \/ A!Unverify(c) \/ A!SaveVerified(c) \/ A!Welcome(c)
           \/ A!SavePassword(c) \/ A!SaveModeration(c)
  <2>1. user' \in [Registrants -> A!Row] /\ \A u \in Registrants : user'[u].email = user[u].email
    <3> DEFINE u == job[c].user
    <3>1. PICK b \in BOOLEAN, p \in Passwords :
            \/ user' = [user EXCEPT ![u].verified = b] \/ user' = [user EXCEPT ![u].welcomed = b]
            \/ user' = [user EXCEPT ![u].active = b]   \/ user' = [user EXCEPT ![u].password = p]
      BY <1>3, <1>p DEF A!Unverify, A!SaveVerified, A!Welcome, A!SavePassword, A!SaveModeration
    <3>2. CASE user' = [user EXCEPT ![u].verified = b]
      <4> DEFINE entry == [user[u] EXCEPT !.verified = b]
      <4>1. u \in Registrants => entry \in A!Row /\ entry.email = user[u].email
        BY DEF AccountsSafe, RowsAndJobs, A!Row
      <4>2. user' = [user EXCEPT ![u] = entry]
        BY <3>2
      <4> QED BY <4>1, <4>2, RowKeeps
    <3>3. CASE user' = [user EXCEPT ![u].welcomed = b]
      <4> DEFINE entry == [user[u] EXCEPT !.welcomed = b]
      <4>1. u \in Registrants => entry \in A!Row /\ entry.email = user[u].email
        BY DEF AccountsSafe, RowsAndJobs, A!Row
      <4>2. user' = [user EXCEPT ![u] = entry]
        BY <3>3
      <4> QED BY <4>1, <4>2, RowKeeps
    <3>4. CASE user' = [user EXCEPT ![u].active = b]
      <4> DEFINE entry == [user[u] EXCEPT !.active = b]
      <4>1. u \in Registrants => entry \in A!Row /\ entry.email = user[u].email
        BY DEF AccountsSafe, RowsAndJobs, A!Row
      <4>2. user' = [user EXCEPT ![u] = entry]
        BY <3>4
      <4> QED BY <4>1, <4>2, RowKeeps
    <3>5. CASE user' = [user EXCEPT ![u].password = p]
      <4> DEFINE entry == [user[u] EXCEPT !.password = p]
      <4>1. u \in Registrants => entry \in A!Row /\ entry.email = user[u].email
        BY DEF AccountsSafe, RowsAndJobs, A!Row
      <4>2. user' = [user EXCEPT ![u] = entry]
        BY <3>5
      <4> QED BY <4>1, <4>2, RowKeeps
    <3> QED BY <3>1, <3>2, <3>3, <3>4, <3>5
  <2> QED BY <1>0, <2>1, SameAddressesKeep DEF AccountsSafe, RowsAndJobs
<1>4. CASE A!GiveUp(c)
  BY <1>0, <1>4, SameAddressesKeep DEF A!GiveUp, AccountsSafe, RowsAndJobs
<1> QED BY <1>1, <1>2, <1>3, <1>4 DEF A!Write

LEMMA AccountsKeep == ASSUME A!Spelling, AccountsSafe, [A!Next]_(A!vars) PROVE AccountsSafe'
<1>1. CASE \E c \in Clients : A!Load(c) \/ A!Write(c)
  BY <1>1, LoadKeeps, WriteKeeps
<1>2. CASE UNCHANGED <<user, job>>
  BY <1>2 DEF AccountsSafe, RowsAndJobs, StoredLower, CheckedLower, A!Exists, IsLower
<1> QED BY <1>1, <1>2 DEF A!Next, A!Resend, A!AskReset, A!Expire, A!vars

\* What the invariant says of addresses.
LEMMA AccountsDistinguish == AccountsSafe => A!AddressesDistinct
BY DEF AccountsSafe, StoredLower, A!AddressesDistinct, A!Exists, IsLower

LEMMA AccountsSteps == scene = "accounts" /\ [Next]_vars => [A!Next]_(A!vars)
BY DEF Next, vars, Onboard, Verify, Account, Message, View, Search, Favour, Photograph, Quote,
       Demo, Show, Edit, Entitle, Report, Notice, accounts, A!vars

AccountsInv == scene = "accounts" => AccountsSafe

LEMMA AccountsInvariance == Spec => []AccountsInv
<1>0. A!Spelling
  BY Constants
<1>1. Init => AccountsInv
  BY <1>0, AccountsStart DEF Init, AccountsInv
<1>2. AccountsInv /\ [Next]_vars => AccountsInv'
  <2> SUFFICES ASSUME scene' = "accounts", AccountsInv, [Next]_vars PROVE AccountsSafe'
    BY DEF AccountsInv
  <2>1. scene = "accounts" /\ AccountsSafe
    BY SceneStays DEF AccountsInv
  <2>2. [A!Next]_(A!vars)
    BY <2>1, AccountsSteps
  <2> QED BY <1>0, <2>1, <2>2, AccountsKeep
<1> QED BY <1>1, <1>2, PTL DEF Spec

Indexed(table, keys) == table = [k \in keys |-> table[k]]

-----------------------------------------------------------------------------
(* Viewings.                                                               *)

ViewingsSafe == Indexed(viewing, Viewings) /\ W!OneActiveViewing

\* A write that meets the index unique_active_viewing_request.
LEMMA UniqueWriteKeeps ==
  ASSUME ViewingsSafe, NEW v, NEW r, W!Unique(v, r), viewing' = [viewing EXCEPT ![v] = r]
  PROVE  ViewingsSafe'
<1>1. Indexed(viewing, Viewings)'
  BY DEF ViewingsSafe, Indexed
<1>2. \A x \in Viewings : viewing'[x] = IF x = v THEN r ELSE viewing[x]
  BY DEF ViewingsSafe, Indexed
<1>3. ASSUME NEW x \in Viewings, NEW y \in Viewings, W!Active(x)', W!Active(y)', x # y
      PROVE  ~W!Same(viewing'[x], viewing'[y])
  <2>1. x # v /\ y # v => ~W!Same(viewing[x], viewing[y])
    BY <1>2, <1>3 DEF ViewingsSafe, W!OneActiveViewing, W!Active
  <2>2. x = v => ~W!Same(r, viewing[y])
    BY <1>2, <1>3 DEF W!Unique, W!Active, W!Same
  <2>3. y = v => ~W!Same(viewing[x], r)
    BY <1>2, <1>3 DEF W!Unique, W!Active
  <2> QED BY <1>2, <1>3, <2>1, <2>2, <2>3
<1> QED BY <1>1, <1>3 DEF ViewingsSafe, W!OneActiveViewing

LEMMA ViewingsKeep == ASSUME ViewingsSafe, [W!Next]_(W!vars) PROVE ViewingsSafe'
<1>1. CASE UNCHANGED viewing
  BY <1>1 DEF ViewingsSafe, Indexed, W!OneActiveViewing, W!Active
<1>2. ASSUME NEW c \in Clients, W!InsertRequest(c) PROVE ViewingsSafe'
  BY <1>2, UniqueWriteKeeps DEF W!InsertRequest
<1>3. ASSUME NEW c \in Clients, W!Change(c) PROVE ViewingsSafe'
  BY Zenon, <1>3, UniqueWriteKeeps DEF W!Change
<1> QED BY <1>1, <1>2, <1>3 DEF W!Next, W!Step, W!LoadRequest, W!LoadChange, W!GiveUp, W!Market, W!vars

-----------------------------------------------------------------------------
(* Saved searches.                                                         *)

SearchesSafe ==
  /\ announced \in [Searches -> [Listings -> {0, 1}]]
  /\ \A s \in Searches, l \in Listings : announced[s][l] = 1 => <<s, l>> \in events

LEMMA SearchesKeep == ASSUME SearchesSafe, [S!Next]_(S!vars) PROVE SearchesSafe'
<1>1. CASE UNCHANGED <<events, announced>>
  BY <1>1 DEF SearchesSafe
<1>2. ASSUME NEW w \in Clients, S!Item(w) PROVE SearchesSafe'
  <2> DEFINE s == S!Next1(w)
  <2>1. PICK l : /\ events' = events \cup {<<s, l>>}
                 /\ announced' = IF <<s, l>> \notin events
                                 THEN [announced EXCEPT ![s][l] = @ + 1] ELSE announced
    BY <1>2 DEF S!Item, S!IsNew
  <2> HIDE DEF s
  <2>2. CASE <<s, l>> \in events
    BY <2>1, <2>2 DEF SearchesSafe
  <2>3. CASE <<s, l>> \notin events
    <3>1. \A x \in Searches, y \in Listings :
            announced'[x][y] = IF x = s /\ y = l THEN 1 ELSE announced[x][y]
      BY <2>1, <2>3 DEF SearchesSafe
    <3>2. announced' \in [Searches -> [Listings -> {0, 1}]]
      <4>1. announced' = [announced EXCEPT ![s] = [announced[s] EXCEPT ![l] = announced[s][l] + 1]]
        BY <2>1, <2>3
      <4>2. \A x \in Searches : announced'[x] \in [Listings -> {0, 1}]
        BY <3>1, <4>1 DEF SearchesSafe
      <4> QED BY <4>1, <4>2 DEF SearchesSafe
    <3> QED BY <2>1, <3>1, <3>2 DEF SearchesSafe
  <2> QED BY <2>2, <2>3
<1>3. CASE S!Delete
  BY <1>3 DEF S!Delete, SearchesSafe
<1> QED BY Zenon, <1>1, <1>2, <1>3 DEF S!Next, S!Step, S!LoadEdit, S!Edit, S!StartTask, S!StartCheck,
     S!Evaluate, S!Checked, S!SaveNotified, S!GiveUp, S!Create, S!Market, S!Tick, S!vars

-----------------------------------------------------------------------------
(* Favourites.                                                             *)

FavouritesSafe == Indexed(favourite, Favourites) /\ F!OneFavourite

LEMMA FavouritesKeep == ASSUME FavouritesSafe, [F!Next]_(F!vars) PROVE FavouritesSafe'
<1>1. CASE UNCHANGED favourite
  BY <1>1 DEF FavouritesSafe, Indexed, F!OneFavourite
<1>2. ASSUME NEW f \in Favourites, NEW pair, pair = None \/ F!Unique(pair),
             favourite' = [favourite EXCEPT ![f] = pair]
      PROVE  FavouritesSafe'
  BY <1>2 DEF FavouritesSafe, Indexed, F!OneFavourite, F!Unique, F!Has
<1>3. ASSUME NEW c \in Clients, F!Insert(c) PROVE FavouritesSafe'
  BY <1>2, <1>3 DEF F!Insert
<1>4. CASE F!Remove
  BY <1>2, <1>4 DEF F!Remove
<1> QED BY <1>1, <1>3, <1>4 DEF F!Next, F!Validate, F!Refuse, F!vars

-----------------------------------------------------------------------------
(* Photos.  Only a property's endpoints repair the cover in a transaction  *)
(* of their own, and what a request changes is a photo it has read.        *)

\* A gallery that may be seen: one cover at most and, in a room's, one if there are photos.
Covered(gallery) ==
  /\ gallery \in [Photos -> {"absent", "plain", "cover"}]
  /\ \A p, q \in Photos : gallery[p] = "cover" /\ gallery[q] = "cover" => p = q
  /\ kind = "room" => \/ \A p \in Photos : gallery[p] = "absent"
                      \/ \E p \in Photos : gallery[p] = "cover"

Repairing == {"look", "mark"}
PhotoJob  == [op: {"none", "change", "delete", "look", "mark"}, id: Photos \cup {None}, cover: BOOLEAN]
PhotoJobs ==
  /\ job \in [Clients -> PhotoJob]
  /\ \A c \in Clients : /\ job[c].op \in {"change", "delete"} => job[c].id \in Photos
                        /\ job[c].op \in Repairing => kind # "room"

GallerySafe == Covered(photo) /\ PhotoJobs

\* The next job of a request changes a photo or repairs a property's gallery.
LEMMA PhotoJobKeeps ==
  ASSUME PhotoJobs, NEW c \in Clients, NEW j \in PhotoJob, P!Go(c, j), UNCHANGED kind,
         j.op \in {"change", "delete"} => j.id \in Photos, j.op \in Repairing => kind # "room"
  PROVE  PhotoJobs'
BY DEF PhotoJobs, P!Go

LEMMA AfterKeeps ==
  ASSUME PhotoJobs, NEW c \in Clients, NEW id \in Photos \cup {None}, P!After(c, id), UNCHANGED kind
  PROVE  PhotoJobs'
<1> DEFINE j == IF kind = "property" THEN [op |-> "look", id |-> id, cover |-> FALSE] ELSE P!Idle
<1>1. P!Go(c, j)
  BY DEF P!After
<1>2. j \in PhotoJob /\ j.op \notin {"change", "delete"} /\ (j.op \in Repairing => kind # "room")
  BY DEF P!Idle, Repairing, PhotoJob
<1> HIDE DEF j
<1> QED BY <1>1, <1>2, PhotoJobKeeps

LEMMA SaveKeepsCover ==
  ASSUME Covered(photo), UNCHANGED kind, NEW p \in Photos, NEW cover \in BOOLEAN, P!SavePhoto(p, cover)
  PROVE  Covered(photo)'
<1> DEFINE first == kind = "room" /\ P!Covers(photo) \ {p} = {}
<1>1. CASE cover \/ first
  <2>1. photo' = [q \in Photos |-> IF q = p THEN "cover"
                                  ELSE IF photo[q] = "cover" THEN "plain" ELSE photo[q]]
    BY <1>1 DEF P!SavePhoto, P!Demoted, P!As, P!Covers, Covered
  <2> QED BY <2>1 DEF Covered
<1>2. CASE ~(cover \/ first)
  <2>1. photo' = [photo EXCEPT ![p] = "plain"]
    BY <1>2 DEF P!SavePhoto, P!As
  <2>2. kind = "room" => \E q \in Photos : q # p /\ photo[q] = "cover"
    BY <1>2 DEF P!Covers
  <2> QED BY <2>1, <2>2 DEF Covered
<1> QED BY <1>1, <1>2

LEMMA DeleteKeepsCover ==
  ASSUME GallerySafe, NEW c \in Clients, P!Delete(c) PROVE Covered(photo)'
<1> DEFINE gone == job[c].id
           rest == [photo EXCEPT ![gone] = "absent"]
<1>1. gone \in Photos /\ UNCHANGED kind /\ rest \in [Photos -> {"absent", "plain", "cover"}]
  BY DEF P!Delete, GallerySafe, PhotoJobs, Covered
<1>2. \A q \in Photos : rest[q] = IF q = gone THEN "absent" ELSE photo[q]
  BY DEF GallerySafe, Covered
<1>3. photo' \in IF kind = "room" /\ P!Covers(rest) = {} /\ P!Present(rest) # {}
                 THEN {[rest EXCEPT ![p] = "cover"] : p \in P!Present(rest)} ELSE {rest}
  BY DEF P!Delete
<1> HIDE DEF rest
<1>4. CASE photo' = rest /\ ~(kind = "room" /\ P!Covers(rest) = {} /\ P!Present(rest) # {})
  BY <1>1, <1>2, <1>4 DEF GallerySafe, Covered, P!Covers, P!Present
<1>5. ASSUME NEW p \in P!Present(rest), P!Covers(rest) = {}, photo' = [rest EXCEPT ![p] = "cover"]
      PROVE  Covered(photo)'
  <2>1. \A q \in Photos : photo'[q] = IF q = p THEN "cover" ELSE rest[q]
    BY <1>1, <1>5
  <2>2. \A q \in Photos : rest[q] # "cover"
    BY <1>5 DEF P!Covers
  <2> QED BY <1>1, <1>5, <2>1, <2>2 DEF Covered, P!Present
<1> QED BY <1>3, <1>4, <1>5

LEMMA GalleryKeeps == ASSUME GallerySafe, [P!Next]_(P!vars) PROVE GallerySafe'
<1>1. CASE UNCHANGED <<kind, photo, job>>
  BY <1>1 DEF GallerySafe, Covered, PhotoJobs
<1>2. ASSUME NEW c \in Clients, P!Upload(c) PROVE GallerySafe'
  <2>1. UNCHANGED kind /\ P!After(c, None)
    BY <1>2 DEF P!Upload
  <2>2. PICK p \in Photos, cover \in BOOLEAN : P!SavePhoto(p, cover /\ kind # "property")
    BY <1>2 DEF P!Upload
  <2>3. (cover /\ kind # "property") \in BOOLEAN
    OBVIOUS
  <2>4. Covered(photo)'
    BY <2>1, <2>2, <2>3, SaveKeepsCover DEF GallerySafe
  <2> QED BY <2>1, <2>4, AfterKeeps DEF GallerySafe
<1>3. ASSUME NEW c \in Clients, P!LoadPhoto(c) PROVE GallerySafe'
  <2>1. PICK p \in P!Present(photo), cover \in BOOLEAN, op \in {"change", "delete"} :
          P!Go(c, [op |-> op, id |-> p, cover |-> cover])
    BY <1>3 DEF P!LoadPhoto
  <2>2. UNCHANGED <<kind, photo>> /\ p \in Photos
    BY <1>3 DEF P!LoadPhoto, P!Present
  <2>3. PhotoJobs'
    BY <2>1, <2>2, PhotoJobKeeps DEF GallerySafe, Repairing, PhotoJob
  <2> QED BY <2>2, <2>3 DEF GallerySafe, Covered
<1>4. ASSUME NEW c \in Clients, P!Change(c) PROVE GallerySafe'
  <2>1. UNCHANGED kind /\ P!SavePhoto(job[c].id, job[c].cover)
    BY <1>4 DEF P!Change
  <2>2. job[c].id \in Photos /\ job[c].cover \in BOOLEAN
    BY <1>4 DEF P!Change, GallerySafe, PhotoJobs, PhotoJob
  <2>3. Covered(photo)'
    BY <2>1, <2>2, SaveKeepsCover DEF GallerySafe
  <2>4. PICK id \in Photos \cup {None} : P!After(c, id)
    BY <1>4, <2>2 DEF P!Change
  <2>5. PhotoJobs'
    BY <2>1, <2>4, AfterKeeps DEF GallerySafe
  <2> QED BY <2>3, <2>5 DEF GallerySafe
<1>5. ASSUME NEW c \in Clients, P!Delete(c) PROVE GallerySafe'
  BY <1>5, DeleteKeepsCover, AfterKeeps DEF P!Delete, GallerySafe
<1>6. ASSUME NEW c \in Clients, P!Look(c) PROVE GallerySafe'
  <2>1. UNCHANGED <<kind, photo>> /\ kind # "room"
    BY Zenon, <1>6 DEF P!Look, GallerySafe, PhotoJobs, Repairing
  <2>2. PICK id \in Photos \cup {None} :
          \/ P!Go(c, P!Idle) \/ P!Go(c, [job[c] EXCEPT !.op = "mark"])
          \/ P!Go(c, [job[c] EXCEPT !.op = "mark", !.id = id])
    BY Zenon, <1>6 DEF P!Look, P!Present
  <2>3. job[c] \in PhotoJob
    BY DEF GallerySafe, PhotoJobs
  <2> DEFINE Ready(j) == j \in PhotoJob /\ j.op \notin {"change", "delete"}
  <2>4. Ready(P!Idle)
    BY DEF P!Idle, PhotoJob
  <2>5. Ready([job[c] EXCEPT !.op = "mark"])
    BY <2>3 DEF PhotoJob
  <2>6. Ready([job[c] EXCEPT !.op = "mark", !.id = id])
    BY <2>3 DEF PhotoJob
  <2>7. PICK j : P!Go(c, j) /\ Ready(j)
    BY <2>2, <2>4, <2>5, <2>6, Zenon
  <2> QED BY <2>1, <2>7, PhotoJobKeeps DEF GallerySafe, Covered
<1>7. ASSUME NEW c \in Clients, P!Mark(c) PROVE GallerySafe'
  <2>1. UNCHANGED kind /\ kind # "room" /\ P!Go(c, P!Idle)
    BY <1>7 DEF P!Mark, GallerySafe, PhotoJobs, Repairing
  <2>2. Covered(photo)'
    BY <1>7, <2>1 DEF P!Mark, P!As, GallerySafe, Covered
  <2> QED BY <2>1, <2>2, PhotoJobKeeps DEF GallerySafe, P!Idle, Repairing, PhotoJob
<1>8. ASSUME NEW c \in Clients, P!GiveUp(c) PROVE GallerySafe'
  BY <1>8, PhotoJobKeeps DEF P!GiveUp, P!Idle, GallerySafe, Covered, Repairing, PhotoJob
<1> QED BY <1>1, <1>2, <1>3, <1>4, <1>5, <1>6, <1>7, <1>8 DEF P!Next, P!Step, P!vars

\* Photos counts as Desk does.
LEMMA CoversCounted == ASSUME NEW some PROVE P!Cardinality(some) = Cardinality(some)
BY DEF P!Cardinality, Cardinality

LEMMA GalleryHasOneCover == GallerySafe => P!OneCover
<1> SUFFICES ASSUME GallerySafe PROVE P!OneCover
  OBVIOUS
<1>0. Cardinality({}) = 0 /\ \A p \in Photos : Cardinality({p}) = 1
  BY FS_EmptySet, FS_Singleton
<1>1. P!Covers(photo) = {} \/ \E p \in Photos : P!Covers(photo) = {p}
  BY DEF GallerySafe, Covered, P!Covers
<1>2. P!Cardinality(P!Covers(photo)) <= 1
  BY <1>0, <1>1, CoversCounted
<1>3. kind = "room" /\ P!Present(photo) # {} => P!Covers(photo) # {}
  BY DEF GallerySafe, Covered, P!Covers, P!Present
<1> QED BY <1>2, <1>3 DEF P!OneCover

-----------------------------------------------------------------------------
(* Induction and recursion over the naturals, on sets.                     *)

LEMMA LeastNatural ==
  ASSUME NEW some, some \subseteq Nat, some # {}
  PROVE  \E n \in some : \A m \in some : n <= m
<1>1. PICK n \in some : \A m \in some : <<m, n>> \notin OpToRel(<, Nat)
  BY NatLessThanWellFounded, WFMin, Zenon
<1>2. \A m \in some : ~(m < n)
  BY <1>1 DEF OpToRel
<1> QED BY <1>2

LEMMA Climb ==
  ASSUME NEW reached, 0 \in reached, NEW n \in Nat, \A i \in 1..n : i - 1 \in reached => i \in reached
  PROVE  0..n \subseteq reached
<1> DEFINE missing == (0..n) \ reached
<1> SUFFICES ASSUME missing # {} PROVE FALSE
  OBVIOUS
<1>0. missing \subseteq Nat
  OBVIOUS
<1>1. PICK i \in missing : \A j \in missing : i <= j
  <2> HIDE DEF missing
  <2> QED BY <1>0, LeastNatural
<1>2. i \in 1..n /\ i - 1 \in reached
  BY <1>1
<1> QED BY <1>1, <1>2

\* What a table is after i rows, for a function that says what one row makes of it.
Chain(g, start, step, n) ==
  g = [i \in 0..n |-> IF i = 0 THEN start ELSE step[<<i, g[i - 1]>>]]

LEMMA ChainExists ==
  ASSUME NEW start, NEW step, NEW n \in Nat PROVE \E g : Chain(g, start, step, n)
<1> DEFINE reached == {i \in Nat : \E g : Chain(g, start, step, i)}
<1>1. 0 \in reached
  <2>1. Chain([i \in 0..0 |-> start], start, step, 0)
    BY DEF Chain
  <2> QED BY <2>1
<1>2. ASSUME NEW i \in 1..n, i - 1 \in reached PROVE i \in reached
  <2>1. PICK g : Chain(g, start, step, i - 1)
    BY <1>2
  <2> DEFINE h == [j \in 0..i |-> IF j = i THEN step[<<i, g[i - 1]>>] ELSE g[j]]
  <2>2. ASSUME NEW j \in 0..i PROVE h[j] = IF j = 0 THEN start ELSE step[<<j, h[j - 1]>>]
    <3>1. CASE j = i
      BY <3>1
    <3>2. CASE j # i
      <4>1. g[j] = IF j = 0 THEN start ELSE step[<<j, g[j - 1]>>]
        BY <2>1, <3>2 DEF Chain
      <4> QED BY <3>2, <4>1
    <3> QED BY <3>1, <3>2
  <2> HIDE DEF h
  <2>3. h = [j \in 0..i |-> h[j]]
    BY DEF h
  <2>4. Chain(h, start, step, i)
    BY <2>2, <2>3 DEF Chain
  <2> QED BY <2>4
<1>3. n \in reached
  <2> HIDE DEF reached
  <2>1. 0..n \subseteq reached
    BY <1>1, <1>2, Climb
  <2> QED BY <2>1
<1> QED BY <1>3

LEMMA ChainStays ==
  ASSUME NEW Values, NEW start \in Values, NEW n \in Nat, NEW step \in [(1..n) \X Values -> Values],
         NEW g, Chain(g, start, step, n)
  PROVE  \A i \in 0..n : g[i] \in Values
<1> DEFINE reached == {i \in 0..n : g[i] \in Values}
<1>1. 0 \in reached
  BY DEF Chain
<1>2. ASSUME NEW i \in 1..n, i - 1 \in reached PROVE i \in reached
  BY <1>2 DEF Chain
<1>3. 0..n \subseteq reached
  <2> HIDE DEF reached
  <2> QED BY <1>1, <1>2, Climb
<1> QED BY <1>3
-----------------------------------------------------------------------------
(* Demo data.                                                              *)

Payers == {"account", "agency"} \X (0..3)
Titles == 0..(D!PropertyTitles - 1)
Stayed == 0..(D!StayTitles - 1)
Entry  == {D!Row(payer, live) : payer \in Payers, live \in BOOLEAN} \cup {None}

\* The tables in which no payer has more active listings than the plan has places left.
Fitting(keys, used) ==
  {table \in [keys -> Entry] : \A payer \in Payers : Cardinality(D!Live(table, payer)) + used[payer] <= FreePlan}

LEMMA DemoCounts == ASSUME NEW some PROVE D!Cardinality(some) = Cardinality(some)
BY DEF D!Cardinality, Cardinality

LEMMA LiveFinite ==
  ASSUME NEW keys, IsFiniteSet(keys), NEW table \in [keys -> Entry], NEW payer
  PROVE  IsFiniteSet(D!Live(table, payer)) /\ Cardinality(D!Live(table, payer)) \in Nat
<1>1. D!Live(table, payer) \subseteq keys
  BY DEF D!Live
<1> QED BY <1>1, FS_Subset, FS_CardinalityType

\* Fewer active listings fit, too.
LEMMA FewerFit ==
  ASSUME FreePlan \in Nat, NEW keys, IsFiniteSet(keys), NEW used \in [Payers -> Nat],
         NEW table \in Fitting(keys, used), NEW after \in [keys -> Entry],
         \A payer \in Payers : D!Live(after, payer) \subseteq D!Live(table, payer)
  PROVE  after \in Fitting(keys, used)
<1>1. ASSUME NEW payer \in Payers PROVE Cardinality(D!Live(after, payer)) + used[payer] <= FreePlan
  <2>1. Cardinality(D!Live(after, payer)) <= Cardinality(D!Live(table, payer))
    BY LiveFinite, FS_Subset DEF Fitting
  <2>2. Cardinality(D!Live(table, payer)) \in Nat /\ Cardinality(D!Live(after, payer)) \in Nat
    BY LiveFinite DEF Fitting
  <2>3. Cardinality(D!Live(table, payer)) + used[payer] <= FreePlan
    BY DEF Fitting
  <2> QED BY <2>1, <2>2, <2>3
<1> QED BY <1>1 DEF Fitting

\* A row that is saved looks for a place if it enters the plan.
LEMMA SavedFits ==
  ASSUME FreePlan \in Nat, NEW keys, IsFiniteSet(keys), NEW used \in [Payers -> Nat],
         NEW table \in Fitting(keys, used), NEW t \in keys,
         NEW payer \in Payers, NEW live \in BOOLEAN, NEW others, Cardinality(others) = used[payer]
  PROVE  D!Saved(table, t, D!Row(payer, live), others) \in Fitting(keys, used) \cup {None}
<1> DEFINE r == D!Row(payer, live)
           after == [table EXCEPT ![t] = r]
           places == Cardinality(D!Live(table, payer)) + used[payer]
<1>0. r \in Entry /\ r.payer = payer /\ r.live = live /\ table \in [keys -> Entry]
  BY DEF Entry, D!Row, Fitting
<1>1. D!Saved(table, t, r, others) = IF D!Enters(table[t], r) /\ places >= FreePlan THEN None ELSE after
  BY <1>0, DemoCounts DEF D!Saved
<1> HIDE DEF r
<1>2. after \in [keys -> Entry] /\ \A k \in keys : after[k] = IF k = t THEN r ELSE table[k]
  BY <1>0
<1> HIDE DEF after
<1>3. CASE ~D!Enters(table[t], r)
  <2>1. \A p \in Payers : D!Live(after, p) \subseteq D!Live(table, p)
    BY <1>0, <1>2, <1>3 DEF D!Live, D!Enters
  <2> QED BY <1>1, <1>2, <1>3, <2>1, FewerFit DEF r
<1>4. CASE places < FreePlan
  <2>1. ASSUME NEW p \in Payers PROVE Cardinality(D!Live(after, p)) + used[p] <= FreePlan
    <3>1. /\ IsFiniteSet(D!Live(table, p)) /\ Cardinality(D!Live(table, p)) \in Nat
          /\ Cardinality(D!Live(after, p)) \in Nat
      BY <1>0, <1>2, LiveFinite
    <3>2. CASE p = payer
      <4>1. D!Live(after, p) \subseteq D!Live(table, p) \cup {t}
        BY <1>0, <1>2 DEF D!Live
      <4>2. /\ IsFiniteSet(D!Live(table, p) \cup {t})
            /\ Cardinality(D!Live(table, p) \cup {t}) <= Cardinality(D!Live(table, p)) + 1
        <5>1. /\ IsFiniteSet(D!Live(table, p) \cup {t})
              /\ \/ Cardinality(D!Live(table, p) \cup {t}) = Cardinality(D!Live(table, p))
                 \/ Cardinality(D!Live(table, p) \cup {t}) = Cardinality(D!Live(table, p)) + 1
          BY <3>1, FS_AddElement, Zenon
        <5> QED BY <3>1, <5>1
      <4>3. Cardinality(D!Live(after, p)) <= Cardinality(D!Live(table, p) \cup {t})
        BY <4>1, <4>2, FS_Subset
      <4>4. Cardinality(D!Live(table, p) \cup {t}) \in Nat
        BY <4>2, FS_CardinalityType
      <4> QED BY <1>4, <3>1, <3>2, <4>2, <4>3, <4>4
    <3>3. CASE p # payer
      <4>1. D!Live(after, p) \subseteq D!Live(table, p)
        BY <1>0, <1>2, <3>3 DEF D!Live
      <4>2. Cardinality(D!Live(after, p)) <= Cardinality(D!Live(table, p))
        BY <3>1, <4>1, FS_Subset
      <4>3. Cardinality(D!Live(table, p)) + used[p] <= FreePlan
        BY DEF Fitting
      <4> QED BY <3>1, <4>2, <4>3
    <3> QED BY <3>2, <3>3
  <2>2. after \in Fitting(keys, used)
    BY <1>2, <2>1 DEF Fitting
  <2>3. ~(places >= FreePlan)
    <3>1. Cardinality(D!Live(table, payer)) \in Nat
      BY <1>0, LiveFinite
    <3> QED BY <1>4, <3>1
  <2> QED BY <1>1, <2>2, <2>3 DEF r
<1>5. CASE D!Enters(table[t], r) /\ ~(places < FreePlan)
  <2>1. places >= FreePlan
    <3>1. Cardinality(D!Live(table, payer)) \in Nat
      BY <1>0, LiveFinite
    <3> QED BY <1>5, <3>1
  <2> QED BY <1>1, <1>5, <2>1 DEF r
<1> QED BY <1>3, <1>4, <1>5

Added == [payer \in Payers |-> Cardinality(D!ByHand(payer))]
Nobody == [payer \in Payers |-> 0]

LEMMA AddedCounted ==
  /\ Added \in [Payers -> Nat]
  /\ \A payer \in Payers : D!ByHand(payer) = {} \/ D!ByHand(payer) = {<<"listing", payer>>}
<1>1. \A payer \in Payers : D!ByHand(payer) = {} \/ D!ByHand(payer) = {<<"listing", payer>>}
  BY DEF D!ByHand
<1>2. \A payer \in Payers : Cardinality(D!ByHand(payer)) \in Nat
  <2>1. Cardinality({}) = 0 /\ \A payer \in Payers : Cardinality({<<"listing", payer>>}) = 1
    BY FS_EmptySet, FS_Singleton
  <2> QED BY <1>1, <2>1
<1> QED BY <1>1, <1>2 DEF Added
LEMMA NobodyCounted == Nobody \in [Payers -> Nat]
BY DEF Nobody

LEMMA DemoFinite == IsFiniteSet(Titles) /\ IsFiniteSet(Stayed)
<1>1. \A a, b \in Int : IsFiniteSet(a..b)
  BY FS_Interval
<1>2. Titles = 0..29 /\ Stayed = 0..19
  BY DEF Titles, Stayed, D!PropertyTitles, D!StayTitles
<1>3. 0 \in Int /\ 29 \in Int /\ 19 \in Int
  OBVIOUS
<1> QED BY <1>1, <1>2, <1>3, Zenon

LEMMA IndicesCounted ==
  ASSUME NEW n \in Nat
  PROVE  D!Cardinality(D!PropertyIndices(n)) \in Nat /\ D!Cardinality(D!StayIndices(n)) \in Nat
<1>1. D!Cardinality(D!PropertyIndices(n)) \in Nat
  <2>1. (6 * n + 5) \div 10 - 1 \in Int
    OBVIOUS
  <2>2. IsFiniteSet(D!PropertyIndices(n))
    BY <2>1, FS_Interval DEF D!PropertyIndices
  <2> QED BY <2>2, FS_CardinalityType, DemoCounts
<1>2. D!Cardinality(D!StayIndices(n)) \in Nat
  <2>1. n - D!Cardinality(D!PropertyIndices(n)) - 1 \in Int
    BY <1>1
  <2>2. IsFiniteSet(D!StayIndices(n))
    BY <2>1, FS_Interval DEF D!StayIndices
  <2> QED BY <2>2, FS_CardinalityType, DemoCounts
<1> QED BY <1>1, <1>2

LEMMA DemoPropertyRows ==
  ASSUME NEW i \in Nat PROVE \E payer \in Payers, live \in BOOLEAN : D!PropertyRow(i) = D!Row(payer, live)
<1>1. <<"account", i % 4>> \in Payers /\ <<"agency", i % 4>> \in Payers
  BY DEF Payers
<1>2. (i % D!PropertyTitles < D!PublishedTitles /\ i % 3 = 0) \in BOOLEAN
  OBVIOUS
<1> QED BY <1>1, <1>2 DEF D!PropertyRow
LEMMA DemoStayRows ==
  ASSUME NEW i \in Nat PROVE \E payer \in Payers, live \in BOOLEAN : D!StayRow(i) = D!Row(payer, live)
<1>1. <<"account", i % 4>> \in Payers /\ <<"agency", i % 4>> \in Payers
  BY DEF Payers
<1>2. (i % D!StayTitles < D!PublishedNames) \in BOOLEAN
  BY DEF D!StayTitles, D!PublishedNames
<1> QED BY <1>1, <1>2 DEF D!StayRow

\* The loops over the rows, as far as they go.
PropertyRun(after, table, k) ==
  /\ after[0] = table
  /\ \A i \in 1..k : after[i] =
       IF after[i - 1] = None THEN None
       ELSE D!Saved(after[i - 1], (i - 1) % D!PropertyTitles, D!PropertyRow(i - 1), D!ByHand(D!PropertyRow(i - 1).payer))
StayRun(after, table, k) ==
  /\ after[0] = table
  /\ \A i \in 1..k : after[i] =
       IF after[i - 1] = None THEN None ELSE D!Saved(after[i - 1], (i - 1) % D!StayTitles, D!StayRow(i - 1), {})

LEMMA PropertiesSeeded ==
  ASSUME FreePlan \in Nat, NEW n \in Nat, NEW table \in Fitting(Titles, Added)
  PROVE  LET k == D!Cardinality(D!PropertyIndices(n))
         IN  \E after \in [0..k -> Fitting(Titles, Added) \cup {None}] :
               PropertyRun(after, table, k) /\ D!SeededProperties(table, n) = after[k]
<1> DEFINE k == D!Cardinality(D!PropertyIndices(n))
           Values == Fitting(Titles, Added) \cup {None}
           Saved(i, x) == IF x = None THEN None
                          ELSE D!Saved(x, (i - 1) % D!PropertyTitles, D!PropertyRow(i - 1), D!ByHand(D!PropertyRow(i - 1).payer))
           Made(g) == [i \in 0..k |-> IF i = 0 THEN table ELSE Saved(i, g[i - 1])]
           after == CHOOSE g : g = Made(g)
<1>1. D!SeededProperties(table, n) = after[k]
  BY DEF D!SeededProperties
<1>2. k \in Nat
  BY IndicesCounted
<1> HIDE DEF k
<1>3. ASSUME NEW i \in 1..k, NEW x \in Values PROVE Saved(i, x) \in Values
  <2>1. (i - 1) % D!PropertyTitles \in Titles
    BY <1>2 DEF Titles, D!PropertyTitles
  <2>2. PICK payer \in Payers, live \in BOOLEAN : D!PropertyRow(i - 1) = D!Row(payer, live)
    BY <1>2, DemoPropertyRows
  <2>3. D!PropertyRow(i - 1).payer = payer
    BY <2>2 DEF D!Row
  <2>4. CASE x \in Fitting(Titles, Added)
    <3>1. Cardinality(D!ByHand(payer)) = Added[payer]
      BY FS_EmptySet DEF Added
    <3>2. D!Saved(x, (i - 1) % D!PropertyTitles, D!Row(payer, live), D!ByHand(payer)) \in Values
      BY <2>1, <2>4, <3>1, DemoFinite, AddedCounted, SavedFits
    <3> QED BY <2>2, <2>3, <3>2
  <2> QED BY <2>4
<1> HIDE DEF Values, Saved
<1>4. \E g : g = Made(g)
  <2> DEFINE step == [y \in (1..k) \X Values |-> Saved(y[1], y[2])]
  <2>1. step \in [(1..k) \X Values -> Values]
    BY <1>3
  <2> HIDE DEF step
  <2>2. PICK g : Chain(g, table, step, k)
    BY <1>2, ChainExists
  <2>3. \A i \in 0..k : g[i] \in Values
    <3>1. table \in Values
      BY DEF Values
    <3> QED BY <1>2, <2>1, <2>2, <3>1, ChainStays
  <2>4. \A i \in 1..k : step[<<i, g[i - 1]>>] = Saved(i, g[i - 1])
    BY <1>2, <2>3 DEF step
  <2>5. g = Made(g)
    BY <1>2, <2>2, <2>4 DEF Chain
  <2> QED BY <2>5
<1>5. after = Made(after)
  BY <1>4
<1> HIDE DEF after
<1>6. 0..k \subseteq {i \in 0..k : after[i] \in Values}
  <2> DEFINE reached == {i \in 0..k : after[i] \in Values}
  <2>1. 0 \in reached
    BY <1>2, <1>5 DEF Values
  <2>2. ASSUME NEW i \in 1..k, i - 1 \in reached PROVE i \in reached
    BY <1>2, <1>3, <1>5, <2>2
  <2> HIDE DEF reached
  <2>3. 0..k \subseteq reached
    BY <1>2, <2>1, <2>2, Climb
  <2> QED BY <2>3 DEF reached
<1>7. after \in [0..k -> Values]
  BY <1>5, <1>6
<1>8. PropertyRun(after, table, k)
  BY <1>2, <1>5 DEF Saved, PropertyRun
<1>9. \E g \in [0..k -> Values] : PropertyRun(g, table, k) /\ D!SeededProperties(table, n) = g[k]
  BY <1>1, <1>7, <1>8
<1> QED BY <1>9 DEF Values, k

LEMMA StaysSeeded ==
  ASSUME FreePlan \in Nat, NEW n \in Nat, NEW table \in Fitting(Stayed, Nobody)
  PROVE  LET k == D!Cardinality(D!StayIndices(n))
         IN  \E after \in [0..k -> Fitting(Stayed, Nobody) \cup {None}] :
               StayRun(after, table, k) /\ D!SeededStays(table, n) = after[k]
<1> DEFINE k == D!Cardinality(D!StayIndices(n))
           Values == Fitting(Stayed, Nobody) \cup {None}
           Saved(i, x) == IF x = None THEN None
                          ELSE D!Saved(x, (i - 1) % D!StayTitles, D!StayRow(i - 1), {})
           Made(g) == [i \in 0..k |-> IF i = 0 THEN table ELSE Saved(i, g[i - 1])]
           after == CHOOSE g : g = Made(g)
<1>1. D!SeededStays(table, n) = after[k]
  BY DEF D!SeededStays
<1>2. k \in Nat
  BY IndicesCounted
<1> HIDE DEF k
<1>3. ASSUME NEW i \in 1..k, NEW x \in Values PROVE Saved(i, x) \in Values
  <2>1. (i - 1) % D!StayTitles \in Stayed
    BY <1>2 DEF Stayed, D!StayTitles
  <2>2. PICK payer \in Payers, live \in BOOLEAN : D!StayRow(i - 1) = D!Row(payer, live)
    BY <1>2, DemoStayRows
  <2>3. D!StayRow(i - 1).payer = payer
    BY <2>2 DEF D!Row
  <2>4. CASE x \in Fitting(Stayed, Nobody)
    <3>1. Cardinality({}) = Nobody[payer]
      BY FS_EmptySet DEF Nobody
    <3>2. D!Saved(x, (i - 1) % D!StayTitles, D!Row(payer, live), {}) \in Values
      BY <2>1, <2>4, <3>1, DemoFinite, NobodyCounted, SavedFits
    <3> QED BY <2>2, <2>3, <3>2
  <2> QED BY <2>4
<1> HIDE DEF Values, Saved
<1>4. \E g : g = Made(g)
  <2> DEFINE step == [y \in (1..k) \X Values |-> Saved(y[1], y[2])]
  <2>1. step \in [(1..k) \X Values -> Values]
    BY <1>3
  <2> HIDE DEF step
  <2>2. PICK g : Chain(g, table, step, k)
    BY <1>2, ChainExists
  <2>3. \A i \in 0..k : g[i] \in Values
    <3>1. table \in Values
      BY DEF Values
    <3> QED BY <1>2, <2>1, <2>2, <3>1, ChainStays
  <2>4. \A i \in 1..k : step[<<i, g[i - 1]>>] = Saved(i, g[i - 1])
    BY <1>2, <2>3 DEF step
  <2>5. g = Made(g)
    BY <1>2, <2>2, <2>4 DEF Chain
  <2> QED BY <2>5
<1>5. after = Made(after)
  BY <1>4
<1> HIDE DEF after
<1>6. 0..k \subseteq {i \in 0..k : after[i] \in Values}
  <2> DEFINE reached == {i \in 0..k : after[i] \in Values}
  <2>1. 0 \in reached
    BY <1>2, <1>5 DEF Values
  <2>2. ASSUME NEW i \in 1..k, i - 1 \in reached PROVE i \in reached
    BY <1>2, <1>3, <1>5, <2>2
  <2> HIDE DEF reached
  <2>3. 0..k \subseteq reached
    BY <1>2, <2>1, <2>2, Climb
  <2> QED BY <2>3 DEF reached
<1>7. after \in [0..k -> Values]
  BY <1>5, <1>6
<1>8. StayRun(after, table, k)
  BY <1>2, <1>5 DEF Saved, StayRun
<1>9. \E g \in [0..k -> Values] : StayRun(g, table, k) /\ D!SeededStays(table, n) = g[k]
  BY <1>1, <1>7, <1>8
<1> QED BY <1>9 DEF Values, k

LEMMA SeededFit ==
  ASSUME FreePlan \in Nat, NEW n \in Nat
  PROVE  /\ \A table \in Fitting(Titles, Added) : D!SeededProperties(table, n) \in Fitting(Titles, Added) \cup {None}
         /\ \A table \in Fitting(Stayed, Nobody) : D!SeededStays(table, n) \in Fitting(Stayed, Nobody) \cup {None}
<1> DEFINE p == D!Cardinality(D!PropertyIndices(n))
           k == D!Cardinality(D!StayIndices(n))
<1>1. p \in 0..p /\ k \in 0..k
  BY IndicesCounted
<1>2. ASSUME NEW table \in Fitting(Titles, Added)
      PROVE  D!SeededProperties(table, n) \in Fitting(Titles, Added) \cup {None}
  <2>1. PICK after \in [0..p -> Fitting(Titles, Added) \cup {None}] : D!SeededProperties(table, n) = after[p]
    BY PropertiesSeeded
  <2> QED BY <1>1, <2>1
<1>3. ASSUME NEW table \in Fitting(Stayed, Nobody)
      PROVE  D!SeededStays(table, n) \in Fitting(Stayed, Nobody) \cup {None}
  <2>1. PICK after \in [0..k -> Fitting(Stayed, Nobody) \cup {None}] : D!SeededStays(table, n) = after[k]
    BY StaysSeeded
  <2> QED BY <1>1, <2>1
<1> QED BY <1>2, <1>3

DemoSafe ==
  /\ db = [keys |-> db.keys, property |-> db.property, stay |-> db.stay]
  /\ db.property \in Fitting(Titles, Added)
  /\ db.stay \in Fitting(Stayed, Nobody)

\* Nothing was seeded, and nobody has added a listing.
LEMMA EmptyFits ==
  ASSUME D!Terms
  PROVE  /\ \A payer \in Payers : D!ByHand(payer) = {} => Cardinality(D!Live(D!Empty.property, payer)) + Added[payer] <= FreePlan
         /\ D!Empty.property \in [Titles -> Entry]
         /\ D!Empty.stay \in Fitting(Stayed, Nobody)
<1>1. D!Empty.property \in [Titles -> Entry] /\ D!Empty.stay \in [Stayed -> Entry]
  BY DEF D!Empty, Titles, Stayed, Entry
<1>2. \A payer : D!Live(D!Empty.property, payer) = {} /\ D!Live(D!Empty.stay, payer) = {}
  BY DEF D!Live, D!Empty
<1>3. Cardinality({}) = 0
  BY FS_EmptySet
<1>4. \A payer \in Payers : Nobody[payer] = 0 /\ (D!ByHand(payer) = {} => Added[payer] = 0)
  BY <1>3 DEF Nobody, Added
<1>5. FreePlan \in Nat
  BY DEF D!Terms
<1>6. \A payer \in Payers : D!ByHand(payer) = {} => Cardinality(D!Live(D!Empty.property, payer)) + Added[payer] <= FreePlan
  BY <1>2, <1>3, <1>4, <1>5
<1>7. \A payer \in Payers : Cardinality(D!Live(D!Empty.stay, payer)) + Nobody[payer] <= FreePlan
  BY <1>2, <1>3, <1>4, <1>5
<1>8. D!Empty.stay \in Fitting(Stayed, Nobody)
  BY <1>1, <1>7 DEF Fitting
<1> QED BY <1>1, <1>6, <1>8

LEMMA DemoInit == ASSUME D!Terms, D!Init PROVE DemoSafe
<1>1. \A payer \in Payers : D!ByHand(payer) = {}
  BY DEF D!Init, D!ByHand
<1>2. D!Empty = [keys |-> D!Empty.keys, property |-> D!Empty.property, stay |-> D!Empty.stay]
  BY DEF D!Empty
<1> QED BY <1>1, <1>2, EmptyFits DEF D!Init, DemoSafe, Fitting

LEMMA SeedKeeps ==
  ASSUME D!Terms, DemoSafe, NEW n \in Counts, NEW reset \in BOOLEAN, D!Run(n, reset) PROVE DemoSafe'
<1> DEFINE start == IF reset THEN D!Swept ELSE db
           properties == D!SeededProperties(start.property, n)
           stays == D!SeededStays(start.stay, n)
           ok == /\ reset => D!Protected = {}
                 /\ ~reset => <<"twin">> \notin extra
                 /\ properties # None /\ stays # None
<1>1. /\ db' = IF ok THEN [keys |-> start.keys \cup D!Keys(n, today), property |-> properties, stay |-> stays] ELSE db
      /\ extra' = IF reset /\ ok THEN {} ELSE extra
  BY DEF D!Run
<1>2. n \in Nat /\ FreePlan \in Nat
  BY DEF D!Terms
<1>3. CASE ~ok
  <2>1. UNCHANGED <<db, extra>>
    BY <1>1, <1>3
  <2> QED BY <2>1 DEF DemoSafe, Fitting, Added, D!ByHand, D!Live
<1>4. CASE ok
  <2>1. \A payer \in Payers : reset => D!ByHand(payer) = {}
    BY <1>4 DEF D!ByHand, D!Protected
  <2>2. start.property \in Fitting(Titles, Added) /\ start.stay \in Fitting(Stayed, Nobody)
    <3>1. D!Swept.property = D!Empty.property /\ D!Swept.stay = D!Empty.stay
      BY DEF D!Swept, D!Empty
    <3> QED BY <2>1, <3>1, EmptyFits DEF DemoSafe, Fitting
  <2>3. properties \in Fitting(Titles, Added) /\ stays \in Fitting(Stayed, Nobody)
    BY <1>2, <1>4, <2>2, SeededFit
  <2>4. \A payer \in Payers : D!ByHand(payer)' = D!ByHand(payer)
    BY <1>1, <1>4, <2>1 DEF D!ByHand
  <2>5. Added' = Added
    BY <2>4 DEF Added
  <2>6. db' = [keys |-> start.keys \cup D!Keys(n, today), property |-> properties, stay |-> stays]
    BY <1>1, <1>4
  <2> HIDE DEF properties, stays, start, ok
  <2> QED BY <2>3, <2>5, <2>6 DEF DemoSafe, Fitting, D!Live, Nobody
<1> QED BY <1>3, <1>4

\* Taking a listing down, or leaving the tables alone while nobody adds one.
LEMMA UsedKeeps ==
  ASSUME D!Terms, DemoSafe, \A payer \in Payers : D!ByHand(payer)' = D!ByHand(payer),
         \/ UNCHANGED db
         \/ \E t \in DOMAIN db.property : db' = [db EXCEPT !.property[t].live = FALSE] /\ db.property[t] # None
  PROVE  DemoSafe'
<1>1. Added' = Added
  BY DEF Added
<1>2. CASE UNCHANGED db
  BY <1>1, <1>2 DEF DemoSafe, Fitting, D!Live, Nobody
<1>3. ASSUME NEW t \in DOMAIN db.property, db' = [db EXCEPT !.property[t].live = FALSE], db.property[t] # None
      PROVE  DemoSafe'
  <2>0. PICK off \in BOOLEAN : off = FALSE
    OBVIOUS
  <2> DEFINE after == [db.property EXCEPT ![t].live = off]
  <2>1. db.property \in [Titles -> Entry] /\ t \in Titles
    BY <1>3 DEF DemoSafe, Fitting
  <2>2. PICK payer \in Payers, live \in BOOLEAN : db.property[t] = D!Row(payer, live)
    BY <1>3, <2>1 DEF Entry
  <2>3. [db.property[t] EXCEPT !.live = off] = D!Row(payer, off)
    BY <2>2 DEF D!Row
  <2>4. after = [db.property EXCEPT ![t] = D!Row(payer, off)]
    BY <2>3
  <2>5. after \in [Titles -> Entry]
    <3>1. D!Row(payer, off) \in Entry
      BY DEF Entry
    <3> QED BY <2>1, <2>4, <3>1
  <2>6. \A p \in Payers : D!Live(after, p) \subseteq D!Live(db.property, p)
    BY <2>0, <2>1, <2>4 DEF D!Live, D!Row
  <2>7. db' = [keys |-> db.keys, property |-> after, stay |-> db.stay]
    BY <1>3, <2>0 DEF DemoSafe
  <2> HIDE DEF after
  <2>8. after \in Fitting(Titles, Added)
    BY <2>5, <2>6, DemoFinite, AddedCounted, FewerFit DEF DemoSafe, D!Terms
  <2> QED BY <1>1, <2>7, <2>8 DEF DemoSafe, Fitting, D!Live, Nobody
<1> QED BY <1>2, <1>3

LEMMA PublishKeeps == ASSUME D!Terms, DemoSafe, D!Publish PROVE DemoSafe'
<1>1. PICK o \in 0..3 :
        /\ D!ByHand(<<"account", o>>) = {}
        /\ D!Cardinality(D!Live(db.property, <<"account", o>>)) < FreePlan
        /\ UNCHANGED db /\ extra' = extra \cup {<<"listing", <<"account", o>>>>}
  BY DEF D!Publish, D!Used
<1> DEFINE payer == <<"account", o>>
<1>2. payer \in Payers
  BY DEF Payers
<1>3. \A p \in Payers : D!ByHand(p)' = IF p = payer THEN {<<"listing", payer>>} ELSE D!ByHand(p)
  BY <1>1 DEF D!ByHand
<1>4. Cardinality(D!Live(db.property, payer)) < FreePlan
  BY <1>1, DemoCounts
<1> HIDE DEF payer
<1>5. \A p \in Payers : Added'[p] = IF p = payer THEN 1 ELSE Added[p]
  <2>1. Cardinality({<<"listing", payer>>}) = 1
    BY FS_Singleton
  <2> QED BY <1>3, <2>1 DEF Added
<1>6. \A p \in Payers : Cardinality(D!Live(db.property, p)) + Added'[p] <= FreePlan
  <2>1. Cardinality(D!Live(db.property, payer)) \in Nat
    BY LiveFinite, DemoFinite DEF DemoSafe, Fitting
  <2> QED BY <1>4, <1>5, <2>1 DEF DemoSafe, Fitting, D!Terms
<1> QED BY <1>1, <1>6 DEF DemoSafe, Fitting, D!Live, Nobody

LEMMA DemoKeeps == ASSUME D!Terms, DemoSafe, [D!Next]_(D!vars) PROVE DemoSafe'
<1>1. CASE D!Seed
  BY <1>1, SeedKeeps DEF D!Seed
<1>2. CASE D!Pause
  <2>1. \A payer \in Payers : D!ByHand(payer)' = D!ByHand(payer)
    BY <1>2 DEF D!Pause, D!Used, D!ByHand
  <2>2. \E t \in DOMAIN db.property : db' = [db EXCEPT !.property[t].live = FALSE] /\ db.property[t] # None
    BY <1>2 DEF D!Pause, D!Used
  <2> QED BY <2>1, <2>2, UsedKeeps
<1>3. CASE D!Publish
  BY <1>3, PublishKeeps
<1>4. CASE D!Book \/ D!Repeat
  <2>1. UNCHANGED db /\ (extra' = extra \cup {<<"booking">>} \/ extra' = extra \cup {<<"twin">>})
    BY <1>4 DEF D!Book, D!Repeat, D!Used
  <2>2. \A payer \in Payers : D!ByHand(payer)' = D!ByHand(payer)
    <3>1. \A payer : <<"booking">> # <<"listing", payer>> /\ <<"twin">> # <<"listing", payer>>
      OBVIOUS
    <3> QED BY <2>1, <3>1 DEF D!ByHand
  <2> QED BY <2>1, <2>2, UsedKeeps
<1>5. CASE D!NextDay \/ UNCHANGED D!vars
  <2>1. UNCHANGED <<db, extra>>
    BY <1>5 DEF D!NextDay, D!vars
  <2> QED BY <2>1, UsedKeeps DEF D!ByHand
<1> QED BY <1>1, <1>2, <1>3, <1>4, <1>5 DEF D!Next

LEMMA DemoStaysWithinPlans == ASSUME D!Terms, DemoSafe PROVE D!WithinPlans
<1>1. ASSUME NEW payer \in Payers
      PROVE  /\ Cardinality(D!Live(db.property, payer)) + Cardinality(D!ByHand(payer)) <= FreePlan
             /\ Cardinality(D!Live(db.stay, payer)) <= FreePlan
  <2>1. Cardinality(D!Live(db.stay, payer)) \in Nat
    BY LiveFinite, DemoFinite DEF DemoSafe, Fitting
  <2> QED BY <2>1 DEF DemoSafe, Fitting, Added, Nobody, D!Terms
<1> QED BY <1>1, DemoCounts DEF D!WithinPlans, Payers

-----------------------------------------------------------------------------
(* What must exist once at most, in its scene.                             *)

LEMMA SmallSteps ==
  ASSUME [Next]_vars
  PROVE  /\ scene = "viewings" => [W!Next]_(W!vars)
         /\ scene = "searches" => [S!Next]_(S!vars)
         /\ scene = "favourites" => [F!Next]_(F!vars)
         /\ scene = "photos" => [P!Next]_(P!vars)
         /\ scene = "demo" => [D!Next]_(D!vars)
BY DEF Next, vars, Onboard, Verify, Account, Message, View, Search, Favour, Photograph, Quote,
       Demo, Show, Edit, Entitle, Report, Notice, searching, photos, demo, W!vars, S!vars, F!vars,
       P!vars, D!vars

OnceInv ==
  /\ scene = "viewings" => ViewingsSafe
  /\ scene = "searches" => SearchesSafe
  /\ scene = "favourites" => FavouritesSafe
  /\ scene = "photos" => GallerySafe
  /\ scene = "demo" => DemoSafe

LEMMA OnceStart == Init => OnceInv
<1> SUFFICES ASSUME Init PROVE OnceInv
  OBVIOUS
<1>1. scene = "viewings" => ViewingsSafe
  BY DEF Init, W!Init, ViewingsSafe, Indexed, W!OneActiveViewing, W!Active, W!NoRow, W!Holding
<1>2. scene = "searches" => SearchesSafe
  BY DEF Init, S!Init, SearchesSafe
<1>3. scene = "favourites" => FavouritesSafe
  BY DEF Init, F!Init, FavouritesSafe, Indexed, F!OneFavourite
<1>4. scene = "photos" => GallerySafe
  <2>1. P!Idle \in PhotoJob /\ P!Idle.op = "none"
    BY DEF P!Idle, PhotoJob
  <2> QED BY <2>1 DEF Init, P!Init, GallerySafe, Covered, PhotoJobs, Repairing
<1>5. scene = "demo" => DemoSafe
  BY Constants, DemoInit DEF Init
<1> QED BY <1>1, <1>2, <1>3, <1>4, <1>5 DEF OnceInv

LEMMA OnceKeeps == OnceInv /\ [Next]_vars => OnceInv'
<1> SUFFICES ASSUME OnceInv, [Next]_vars PROVE OnceInv'
  OBVIOUS
<1>0. scene' = scene
  BY SceneStays
<1>1. CASE scene = "viewings"
  BY <1>0, <1>1, SmallSteps, ViewingsKeep DEF OnceInv
<1>2. CASE scene = "searches"
  BY <1>0, <1>2, SmallSteps, SearchesKeep DEF OnceInv
<1>3. CASE scene = "favourites"
  BY <1>0, <1>3, SmallSteps, FavouritesKeep DEF OnceInv
<1>4. CASE scene = "photos"
  BY <1>0, <1>4, SmallSteps, GalleryKeeps DEF OnceInv
<1>5. CASE scene = "demo"
  BY <1>0, <1>5, Constants, SmallSteps, DemoKeeps DEF OnceInv
<1>6. CASE scene \notin {"viewings", "searches", "favourites", "photos", "demo"}
  BY <1>0, <1>6 DEF OnceInv
<1> QED BY <1>1, <1>2, <1>3, <1>4, <1>5, <1>6

LEMMA OnceInvariance == Spec => []OnceInv
  BY OnceStart, OnceKeeps, PTL DEF Spec

\* An account for an address, whatever its spelling, a slot's appointment, a report of a match,
\* a favourite, a gallery's cover and a place of a plan exist once at most, however requests
\* overlap between a check and its write (accounts/serializers.py, bookings/views.py, alerts/services.py,
\* favourites/views.py, properties/views.py, core/management/commands/seed_demo_data.py).
THEOREM NothingTwice == Spec => []OneOfEach
<1>1. AccountsInv /\ OnceInv => OneOfEach
  <2>1. ViewingsSafe => W!OneActiveViewing
    BY DEF ViewingsSafe
  <2>2. SearchesSafe => S!MatchCountedOnce
    BY DEF SearchesSafe, S!MatchCountedOnce
  <2>3. FavouritesSafe => F!OneFavourite
    BY DEF FavouritesSafe
  <2> QED BY <2>1, <2>2, <2>3, Constants, AccountsDistinguish, GalleryHasOneCover, DemoStaysWithinPlans
      DEF AccountsInv, OnceInv, OneOfEach
<1> QED BY <1>1, AccountsInvariance, OnceInvariance, PTL
=============================================================================
