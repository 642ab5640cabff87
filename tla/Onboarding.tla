----------------------------- MODULE Onboarding -----------------------------
(***************************************************************************)
(* Onboarding invitations (core/onboarding.py): staff gather a prospect's  *)
(* content, show it to its owner by a private link, record the owner's     *)
(* approval and bind an invitation; the owner claims it and gets a draft   *)
(* listing.  Every operation of staff and the claim lock the prospect's    *)
(* row and compare the version of the page they were sent from; pages are  *)
(* read without a lock, the prospect first and its photos after it.        *)
(***************************************************************************)
EXTENDS Integers

CONSTANTS
  Payloads,   \* contents of the listing
  Photos,     \* collections of photos, with their captions and permissions
  Staff,      \* browser tabs of staff
  Claimants,  \* browser tabs of the invited owner
  Links,      \* OnboardingPreview rows, each with a token of its own
  NoContent,
  LinkTerm,   \* days a link works, 7 in the code
  ClaimTerm,  \* days an invitation stands, 7 in the code
  MaxVersion  \* revisions (bound)

\* What the constants stand for; whoever instantiates the module assumes it.
Terms == /\ LinkTerm \in Nat \ {0} /\ ClaimTerm \in Nat \ {0} /\ MaxVersion \in Nat
         /\ NoContent \notin Payloads \X Photos

VARIABLES
  prospect, \* the OnboardingProspect row and what belongs to it
  links,    \* its OnboardingPreview rows
  page,     \* what each tab shows
  made,     \* draft listings created from the prospect
  handed    \* the content of the last one

vars == <<prospect, links, page, made, handed>>

Tabs     == Staff \cup Claimants
Statuses == {"NEW", "CONTENT_GATHERING", "PREVIEW_READY", "PREVIEW_SENT", "CHANGES_REQUESTED",
             "APPROVED", "CLAIM_PENDING", "HANDED_OFF", "CLOSED", "DELETED"}
Consents == {"UNKNOWN", "GRANTED", "WITHDRAWN"}   \* UNKNOWN: also REQUESTED
Gone     == {"HANDED_OFF", "CLOSED", "DELETED"}
Unissued == [version |-> 0, left |-> 0, revoked |-> TRUE]
NoPage   == [version |-> 0, payload |-> CHOOSE x \in Payloads : TRUE,
             photos |-> CHOOSE x \in Photos : TRUE, whole |-> FALSE]

Content == <<prospect.payload, prospect.photos>>     \* what snapshot_hash digests
Granted == prospect.consent = "GRANTED"
Live(k) == ~links[k].revoked /\ links[k].left > 0
\* PreviewView.post: the link is looked up with its prospect, then both are compared.
Opens(k) == /\ Live(k) /\ links[k].version = prospect.version
            /\ Granted /\ prospect.status \notin Gone
\* What ProspectSerializer and validate_payload let through: listing content, and a consent
\* with its evidence.
Acceptable == [consent: Consents, payload: Payloads]
-----------------------------------------------------------------------------
(* Pages.                                                                  *)

\* The prospect and its version; the claimant only sees an invitation that stands.
ReadProspect(c) ==
  /\ prospect.status # "DELETED"
  /\ c \in Claimants => prospect.bound /\ (prospect.left > 0 \/ prospect.status = "HANDED_OFF")
  /\ page' = [page EXCEPT ![c] = [version |-> prospect.version, payload |-> prospect.payload,
                                  photos |-> page[c].photos, whole |-> FALSE]]
  /\ UNCHANGED <<prospect, links, made, handed>>

\* The photos are read afterwards, whatever happened meanwhile.
ReadPhotosAgain(c) ==
  /\ page' = [page EXCEPT ![c] = [version |-> prospect.version, payload |-> page[c].payload,
                                  photos |-> prospect.photos, whole |-> TRUE]]
  /\ UNCHANGED <<prospect, links, made, handed>>
ReadPhotos(c) ==
  /\ page' = [page EXCEPT ![c] = [version |-> page[c].version, payload |-> page[c].payload,
                                  photos |-> prospect.photos, whole |-> TRUE]]
  /\ UNCHANGED <<prospect, links, made, handed>>
Look(c) == ReadProspect(c) \/ (page[c].version > 0 /\ ReadPhotos(c))

\* ProspectViewSet.locked: the row is locked, its version is the page's.
Locked(c) == /\ page[c].whole /\ page[c].version = prospect.version
             /\ prospect.status \notin Gone
-----------------------------------------------------------------------------
(* Staff.                                                                  *)

RevokedLater == links
Revoked == [k \in Links |-> [links[k] EXCEPT !.revoked = TRUE]]

\* invalidate, with what the request changes besides.
Invalidate(status, consent, payload, photos) ==
  /\ prospect' = [status |-> status, consent |-> consent, version |-> prospect.version + 1,
                  payload |-> payload, photos |-> photos,
                  approved |-> 0, approvedAs |-> NoContent, bound |-> FALSE, left |-> 0]
  /\ links' = Revoked

Revise(c) ==
  /\ Locked(c) /\ prospect.version < MaxVersion
  /\ \E new \in Acceptable : Invalidate("CONTENT_GATHERING", new.consent, new.payload, prospect.photos)
  /\ UNCHANGED <<page, made, handed>>

ChangePhotos(c) ==
  /\ Locked(c) /\ prospect.version < MaxVersion
  /\ \E photos \in Photos : Invalidate("CONTENT_GATHERING", prospect.consent, prospect.payload, photos)
  /\ UNCHANGED <<page, made, handed>>

Prepare(c) ==
  /\ Locked(c) /\ Granted
  /\ prospect' = [prospect EXCEPT !.status = "PREVIEW_READY"]
  /\ UNCHANGED <<links, page, made, handed>>

Issue(c) ==
  /\ Locked(c) /\ Granted
  /\ prospect.status \in {"PREVIEW_READY", "PREVIEW_SENT", "APPROVED", "CLAIM_PENDING"}
  /\ \E k \in Links :
       /\ links[k] = Unissued
       /\ links' = [Revoked EXCEPT ![k] = [version |-> prospect.version, left |-> LinkTerm, revoked |-> FALSE]]
  /\ UNCHANGED <<prospect, page, made, handed>>

Revoke(c) ==
  /\ Locked(c)
  /\ links' = Revoked
  /\ UNCHANGED <<prospect, page, made, handed>>

\* transition: sent, changes requested or closed.
Send(c) ==
  /\ Locked(c) /\ prospect.status = "PREVIEW_READY"
  /\ prospect' = [prospect EXCEPT !.status = "PREVIEW_SENT"]
  /\ UNCHANGED <<links, page, made, handed>>
SendBack(c) ==
  /\ Locked(c) /\ prospect.version < MaxVersion
  /\ \E target \in {"CHANGES_REQUESTED", "CLOSED"} :
       Invalidate(target, prospect.consent, prospect.payload, prospect.photos)
  /\ UNCHANGED <<page, made, handed>>

Approve(c) ==
  /\ Locked(c) /\ Granted /\ prospect.status \in {"PREVIEW_READY", "PREVIEW_SENT"}
  /\ prospect' = [prospect EXCEPT !.status = "APPROVED", !.approved = prospect.version,
                                  !.approvedAs = Content]
  /\ UNCHANGED <<links, page, made, handed>>

Approved == prospect.approved = prospect.version /\ prospect.approvedAs = Content /\ Granted
Invite(c) ==
  /\ Locked(c) /\ Approved
  /\ prospect' = [prospect EXCEPT !.status = "CLAIM_PENDING", !.bound = TRUE, !.left = ClaimTerm]
  /\ UNCHANGED <<links, page, made, handed>>

Destroy(c) ==
  /\ page[c].version = prospect.version /\ prospect.status = "CLOSED"
  /\ prospect' = [prospect EXCEPT !.status = "DELETED"]
  /\ links' = [k \in Links |-> Unissued]
  /\ UNCHANGED <<page, made, handed>>
-----------------------------------------------------------------------------
(* The owner.                                                              *)

\* Without the status, a second claim meets the same invitation.
ClaimableAgain(c) == /\ prospect.bound /\ prospect.left > 0
                     /\ page[c].whole /\ page[c].version = prospect.version /\ Approved
Claimable(c) == /\ prospect.bound /\ prospect.status = "CLAIM_PENDING" /\ prospect.left > 0
                /\ page[c].whole /\ page[c].version = prospect.version /\ Approved

\* ClaimView.post, one transaction; a second claim only learns of the first.
HandOff(c) ==
  /\ Claimable(c)
  /\ prospect' = [prospect EXCEPT !.status = "HANDED_OFF"]
  /\ links' = Revoked
  /\ made' = made + 1 /\ handed' = Content
  /\ UNCHANGED page

Less(n) == IF n > 0 THEN n - 1 ELSE n
Tick ==
  /\ prospect' = [prospect EXCEPT !.left = Less(@)]
  /\ links' = [k \in Links |-> [links[k] EXCEPT !.left = Less(@)]]
  /\ UNCHANGED <<page, made, handed>>
-----------------------------------------------------------------------------
Init ==
  /\ \E new \in Acceptable, photos \in Photos :
       prospect = [status |-> "NEW", consent |-> new.consent, version |-> 1, payload |-> new.payload,
                   photos |-> photos, approved |-> 0, approvedAs |-> NoContent,
                   bound |-> FALSE, left |-> 0]
  /\ links = [k \in Links |-> Unissued]
  /\ page = [c \in Tabs |-> NoPage]
  /\ made = 0 /\ handed = NoContent

StaffStep(c) == \/ Revise(c) \/ ChangePhotos(c) \/ Prepare(c) \/ Issue(c) \/ Revoke(c) \/ Send(c)
                \/ SendBack(c) \/ Approve(c) \/ Invite(c) \/ Destroy(c)
Next ==
  \/ \E c \in Tabs : Look(c)
  \/ \E c \in Staff : StaffStep(c)
  \/ \E c \in Claimants : HandOff(c)
  \/ Tick

Spec == Init /\ [][Next]_vars
-----------------------------------------------------------------------------
(* The promises.                                                           *)

Prospects == [status: Statuses, consent: Consents, version: Nat \ {0}, payload: Payloads,
              photos: Photos, approved: Nat, approvedAs: (Payloads \X Photos) \cup {NoContent},
              bound: BOOLEAN, left: Nat]
TypeOK ==
  /\ prospect \in Prospects
  /\ links \in [Links -> [version: Nat, left: Nat, revoked: BOOLEAN]]
  /\ page \in [Tabs -> [version: Nat, payload: Payloads, photos: Photos, whole: BOOLEAN]]
  /\ made \in Nat /\ handed \in (Payloads \X Photos) \cup {NoContent}

\* A prospect becomes one listing at most, however often it is claimed, with the very
\* content that was approved, under a consent that was never withdrawn (ClaimView.post).
HandoffAsApproved ==
  /\ made <= 1
  /\ made = 1 => /\ handed = prospect.approvedAs /\ handed = Content
                 /\ Granted /\ prospect.status = "HANDED_OFF"

\* A link that was neither revoked nor has expired opens the content it was issued for:
\* there is one at most, and every revision, closure, withdrawn consent and handoff
\* ends it (invalidate, issue, ClaimView.post, PreviewView.post).
LinksOpenWhatWasIssued ==
  \A k \in Links : Live(k) =>
    /\ Opens(k)
    /\ \A j \in Links : Live(j) => j = k

\* Staff approve and the owner accepts what the page in front of them shows, text and
\* photos, although it was read without a lock and in two queries.
AsSeen ==
  /\ \A c \in Staff : Approve(c) => prospect'.approvedAs = <<page[c].payload, page[c].photos>>
  /\ \A c \in Claimants : HandOff(c) => handed' = <<page[c].payload, page[c].photos>>
DecidedAsSeen == [][AsSeen]_vars
=============================================================================
