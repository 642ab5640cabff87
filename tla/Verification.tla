---------------------------- MODULE Verification ----------------------------
(***************************************************************************)
(* Verification requests (verification/services.py, views.py,              *)
(* serializers.py): applicants file a request about themselves or an       *)
(* entity, attach evidence and submit it; reviewers decide.  An            *)
(* applicant's endpoint reads the request, looks at its status and writes  *)
(* later what it read; a reviewer's holds the row from the read on.        *)
(***************************************************************************)
EXTENDS Integers, FiniteSets, FiniteSetsExt

CONSTANTS
  Requests,    \* VerificationRequest primary keys
  Documents,   \* VerificationDocument primary keys
  Items,       \* what an applicant may ask for: a person or an entity
  Needs,       \* the requirements of a definition, alternatives taken together
  Prerequisite,\* Prerequisite[i]: items whose verification must come first
  Entities,    \* the items that carry a badge
  Clients,     \* requests of applicants in progress
  NoRequest, NoItem,
  MaxSubmissions \* submissions of one request (bound)

\* What the constants stand for; whoever instantiates the module assumes it.
Definitions == /\ Entities \subseteq Items /\ Prerequisite \in [Items -> SUBSET Items]
               /\ NoRequest \notin Requests /\ NoItem \notin Items /\ MaxSubmissions \in Nat

VARIABLES
  request, \* [status, item]
  document,\* [request, need, status]
  badge,   \* verification_status of each entity
  audit,   \* how many SUBMITTED events and how many decisions each request's audit holds
  job      \* what each client read

vars == <<request, document, badge, audit, job>>

Statuses  == {"NONE", "DRAFT", "SUBMITTED", "UNDER_REVIEW", "APPROVED", "REJECTED",
              "CHANGES_REQUESTED", "CANCELLED", "DELETED"}
Editable  == {"DRAFT", "CHANGES_REQUESTED"}
InReview  == {"SUBMITTED", "UNDER_REVIEW"}
NoJob     == [op |-> "none", request |-> NoRequest, status |-> "NONE", item |-> NoItem]
NoDocument == [request |-> NoRequest, need |-> NoRequest, status |-> "NONE"]

DocumentsOf(r) == {d \in Documents : document[d].request = r}
Evidence(r) == {document[d].need : d \in {e \in DocumentsOf(r) : document[e].status # "REJECTED"}}
Verified(i) == \E r \in Requests : request[r].item = i /\ request[r].status = "APPROVED"
Ready(r, item) == Needs \subseteq Evidence(r) /\ \A i \in Prerequisite[item] : Verified(i)
\* What validate counts as a second request for an item.
Duplicate(i, but) == \E r \in Requests \ but :
  request[r].item = i /\ request[r].status \in Editable \cup InReview \cup {"APPROVED"}

Set(r, s) == request' = [request EXCEPT ![r].status = s]
Save(c, s) == request' = [request EXCEPT ![job[c].request] = [status |-> s, item |-> job[c].item]]
Note(r, event) == audit' = [audit EXCEPT ![r][event] = @ + 1]
Done(c) == job' = [job EXCEPT ![c] = NoJob]
-----------------------------------------------------------------------------
(* Requests that read and look first and write later: the applicant's, and *)
(* the suspension.                                                         *)

MayStart(op, r) ==
  CASE op \in {"submit", "edit", "upload", "remove"} -> request[r].status \in Editable
    [] op = "cancel" -> request[r].status \in {"DRAFT", "SUBMITTED"}
    [] op = "suspend" -> request[r].status = "APPROVED" /\ request[r].item \in Entities

Load(c) ==
  /\ job[c] = NoJob
  /\ \E r \in Requests, op \in {"submit", "edit", "upload", "remove", "cancel", "suspend"} :
       /\ MayStart(op, r)
       /\ \E i \in IF op = "edit" THEN {x \in Items : ~Duplicate(x, {r})} ELSE {request[r].item} :
            job' = [job EXCEPT ![c] = [op |-> op, request |-> r, status |-> request[r].status, item |-> i]]
  /\ UNCHANGED <<request, document, badge, audit>>

\* The duplicate check reads the table before the row is inserted.
LoadItem(c) ==
  /\ job[c] = NoJob
  /\ \E i \in Items : ~Duplicate(i, {}) /\ job' = [job EXCEPT ![c] = [NoJob EXCEPT !.op = "create", !.item = i]]
  /\ UNCHANGED <<request, document, badge, audit>>
Create(c) ==
  /\ job[c].op = "create"
  /\ \E r \in Requests : /\ request[r].status = "NONE"
                         /\ request' = [request EXCEPT ![r] = [status |-> "DRAFT", item |-> job[c].item]]
  /\ Done(c)
  /\ UNCHANGED <<document, badge, audit>>

\* submit: the evidence is read now, the status was read before.
Submit(c) ==
  LET r == job[c].request
  IN  /\ job[c].op = "submit" /\ audit[r].submitted < MaxSubmissions
      /\ Ready(r, job[c].item)
      /\ Save(c, "SUBMITTED") /\ Note(r, "submitted") /\ Done(c)
      /\ UNCHANGED <<document, badge>>

\* perform_update saves every column, the status it read among them; a row that was
\* deleted meanwhile is inserted again.
Edit(c) ==
  /\ job[c].op = "edit"
  /\ Save(c, job[c].status) /\ Done(c)
  /\ UNCHANGED <<document, badge, audit>>

\* update_fields: nothing is written when the row is gone.
Cancel(c) ==
  /\ job[c].op = "cancel" /\ request[job[c].request].status # "DELETED"
  /\ Set(job[c].request, "CANCELLED") /\ Done(c)
  /\ UNCHANGED <<document, badge, audit>>

Upload(c) ==
  /\ job[c].op = "upload" /\ request[job[c].request].status # "DELETED"
  /\ \E d \in Documents, n \in Needs :
       /\ document[d].status = "NONE"
       /\ document' = [document EXCEPT ![d] = [request |-> job[c].request, need |-> n, status |-> "PENDING"]]
  /\ Done(c)
  /\ UNCHANGED <<request, badge, audit>>

Remove(c) ==
  /\ job[c].op = "remove"
  /\ \E d \in DocumentsOf(job[c].request) : document' = [document EXCEPT ![d] = NoDocument]
  /\ Done(c)
  /\ UNCHANGED <<request, badge, audit>>

\* suspend takes the badge away and leaves the request as it is.
Suspend(c) ==
  /\ job[c].op = "suspend"
  /\ badge' = [badge EXCEPT ![job[c].item] = "SUSPENDED"]
  /\ Done(c)
  /\ UNCHANGED <<request, document, audit>>

\* A submission without its evidence, an upload that is refused, a browser that is closed.
GiveUp(c) == /\ job[c] # NoJob /\ Done(c)
             /\ UNCHANGED <<request, document, badge, audit>>

\* The viewset also deletes, in any status, the documents and the audit with the row.
Destroy(r) ==
  /\ request[r].status \notin {"NONE", "DELETED"}
  /\ request' = [request EXCEPT ![r] = [status |-> "DELETED", item |-> NoItem]]
  /\ document' = [d \in Documents |-> IF document[d].request = r THEN NoDocument ELSE document[d]]
  /\ audit' = [audit EXCEPT ![r] = [submitted |-> 0, decided |-> 0]]
  /\ UNCHANGED <<badge, job>>
-----------------------------------------------------------------------------
(* Reviewers: select_for_update, then the status, then the write.          *)

StartReview(r) ==
  /\ request[r].status = "SUBMITTED"
  /\ Set(r, "UNDER_REVIEW")
  /\ UNCHANGED <<document, badge, audit, job>>

ReviewableOnceSubmitted(r) == audit[r].submitted > 0
Reviewable(r) == request[r].status \in InReview

Approve(r) ==
  LET i == request[r].item
  IN  /\ Reviewable(r) /\ Ready(r, i)
      /\ Set(r, "APPROVED") /\ Note(r, "decided")
      /\ badge' = IF i \in Entities THEN [badge EXCEPT ![i] = "VERIFIED"] ELSE badge
      /\ UNCHANGED <<document, job>>

Reject(r) ==
  /\ Reviewable(r)
  /\ Set(r, "REJECTED") /\ Note(r, "decided")
  /\ UNCHANGED <<document, badge, job>>

Refuse(documents) == document' = [d \in Documents |-> IF d \in documents THEN [document[d] EXCEPT !.status = "REJECTED"]
                                                      ELSE document[d]]
RejectDocument(r) ==
  /\ Reviewable(r)
  /\ \E d \in DocumentsOf(r) : document[d].status # "REJECTED" /\ Refuse({d})
  /\ Set(r, "CHANGES_REQUESTED") /\ Note(r, "decided")
  /\ UNCHANGED <<badge, job>>

\* Every document that serves one of the requirements sent back.
RequestChanges(r) ==
  /\ Reviewable(r)
  /\ \E needs \in SUBSET Needs : needs # {} /\ Refuse({d \in DocumentsOf(r) : document[d].need \in needs})
  /\ Set(r, "CHANGES_REQUESTED") /\ Note(r, "decided")
  /\ UNCHANGED <<badge, job>>
-----------------------------------------------------------------------------
Init ==
  /\ request = [r \in Requests |-> [status |-> "NONE", item |-> NoItem]]
  /\ document = [d \in Documents |-> NoDocument]
  /\ badge = [i \in Entities |-> "UNVERIFIED"]
  /\ audit = [r \in Requests |-> [submitted |-> 0, decided |-> 0]]
  /\ job = [c \in Clients |-> NoJob]

Apply(c) == \/ Load(c) \/ LoadItem(c) \/ Create(c) \/ Submit(c) \/ Edit(c) \/ Cancel(c)
            \/ Upload(c) \/ Remove(c) \/ Suspend(c) \/ GiveUp(c)
Decide(r) == StartReview(r) \/ Approve(r) \/ Reject(r) \/ RejectDocument(r) \/ RequestChanges(r)
Next == (\E c \in Clients : Apply(c)) \/ (\E r \in Requests : Decide(r) \/ Destroy(r))

Spec == Init /\ [][Next]_vars
-----------------------------------------------------------------------------
(* The promises.                                                           *)

RequestRows  == [status: Statuses, item: Items \cup {NoItem}]
DocumentRows == [request: Requests \cup {NoRequest}, need: Needs \cup {NoRequest},
                 status: {"NONE", "PENDING", "REJECTED"}]
TypeOK ==
  /\ request \in [Requests -> RequestRows]
  /\ document \in [Documents -> DocumentRows]
  /\ badge \in [Entities -> {"UNVERIFIED", "VERIFIED", "SUSPENDED"}]
  /\ audit \in [Requests -> [submitted: Nat, decided: Nat]]
  /\ job \in [Clients -> [op: {"none", "create", "submit", "edit", "upload", "remove", "cancel", "suspend"},
                          request: Requests \cup {NoRequest}, status: Statuses, item: Items \cup {NoItem}]]

\* Staff decide each submission once: two reviewers, or a reviewer and an applicant who
\* edits, cancels, deletes or submits an old page, never make two decisions about one
\* (review, reject_document and request_changes; ModerationConflict).
OneDecisionPerSubmission ==
  \A r \in Requests : audit[r].decided <= audit[r].submitted

\* RequestSerializer.get_requirements: what the applicant's and the reviewer's page tick.
get_requirements(r) ==
  [n \in Needs |-> \E d \in Documents : /\ document[d].request = r /\ document[d].need = n
                                         /\ document[d].status # "REJECTED"]
\* What other pages count and list: an entity's evidence, drafts apart; the reviewers' work;
\* the applicant's requests that are not settled.
Filed(i) == {r \in Requests : request[r].item = i /\ request[r].status \notin {"NONE", "DRAFT", "DELETED"}}
_evidence_counts(i) == [requests  |-> Cardinality(Filed(i)),
                        documents |-> Cardinality({d \in Documents : document[d].request \in Filed(i)})]
verification_requests == Cardinality({r \in Requests : request[r].status \in {"SUBMITTED", "UNDER_REVIEW"}})
verification_attention ==
  {r \in Requests : request[r].status \in {"CHANGES_REQUESTED", "DRAFT", "SUBMITTED", "UNDER_REVIEW"}}

\* The ticks are exactly what submit and review accept; an entity's evidence is counted where
\* a reviewer sees it; and whatever refuses another request for an item is a request that is
\* listed to its applicant or approved.
ChecklistAgrees ==
  /\ \A r \in Requests : {n \in Needs : get_requirements(r)[n]} = Evidence(r)
  /\ \A i \in Items : /\ _evidence_counts(i).documents
                           = MapThenSumSet(LAMBDA r : Cardinality(DocumentsOf(r)), Filed(i))
                       /\ Duplicate(i, {}) <=> Verified(i) \/ \E r \in verification_attention : request[r].item = i
  /\ verification_requests = Cardinality({r \in Requests : Reviewable(r)})
=============================================================================
