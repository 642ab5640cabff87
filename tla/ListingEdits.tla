---------------------------- MODULE ListingEdits ----------------------------
(***************************************************************************)
(* The edit form of a property or a stay against what happens to the       *)
(* listing meanwhile (properties/serializers.py, stays/serializers.py).    *)
(* The form is validated against the listing as loaded; under the owners'  *)
(* lock the current row must still be of the same owner and agency and the *)
(* editor still manage it, and the fields that were sent, no others, are   *)
(* written to it.  A property is moderated on a loaded copy whose status   *)
(* column is saved, a stay under the lock, but for pausing, which saves    *)
(* every column of the copy.                                               *)
(***************************************************************************)
EXTENDS Integers, FiniteSets

CONSTANTS
  People, Agency,
  Staff,
  Clients, \* requests in progress at once                                (bound)
  Shift,   \* requests, transfers and changes of the team, in all         (bound)
  None

VARIABLES
  kind,    \* "property" or "stay": PropertyListing or Stay
  listing, \* the row, None before it exists
  member,  \* AgentProfile.is_active of a person in the agency, None without a profile
  job,     \* requests between validation and writing
  unseen,  \* a write went past the check that a published listing is complete
  shifts

vars == <<kind, listing, member, job, unseen, shifts>>

Statuses == {"DRAFT", "SUBMITTED", "PUBLISHED", "PAUSED", "SUSPENDED"}
Rows == [owner: People \cup Staff, agency: {None, Agency}, agent: People \cup {None},
         status: Statuses, complete: BOOLEAN]
\* What the constants stand for; whoever instantiates the module assumes it.
Terms == None \notin BOOLEAN \cup Rows

Idle == [op |-> "none", by |-> None, row |-> None, form |-> <<>>]
Active(u) == u \in People /\ member[u] = TRUE
Scope(row) == <<row.owner, row.agency>>

can_manage_property(u, row) ==
  \/ u \in Staff
  \/ IF row.agency # None THEN Active(u) ELSE row.owner = u \/ (row.agent = u /\ Active(u))
can_manage_stay(u, row) ==
  \/ u \in Staff \/ row.owner = u \/ (row.agent = u /\ Active(u))
  \/ (row.agency # None /\ Active(u))
can_manage(u, row) == IF kind = "property" THEN can_manage_property(u, row) ELSE can_manage_stay(u, row)

\* complete: description, region, town and location of a published listing are not empty.
\* A form names the fields it sends; an agent it names is of the agency.
Forms(agency) == [{"complete"} -> BOOLEAN]
                 \cup [{"agent"} -> {None} \cup {v \in People : agency # None /\ member[v] # None}]
\* The fields that were sent are written over those of a row.
Written(form, row) == [field \in DOMAIN row |-> IF field \in DOMAIN form THEN form[field] ELSE row[field]]
MayName(u, agency) == agency # None => Active(u) \/ u \in Staff
Change == shifts > 0 /\ shifts' = shifts - 1
Start(c, op, u, form) ==
  /\ Change /\ job[c] = Idle /\ job' = [job EXCEPT ![c] = [op |-> op, by |-> u, row |-> listing, form |-> form]]
Finish(c) == job' = [job EXCEPT ![c] = Idle]
-----------------------------------------------------------------------------
(* Creating and editing.                                                   *)

ValidateNew(c, u) ==
  /\ listing = None
  /\ \E agency \in {None, Agency}, complete \in BOOLEAN :
       /\ MayName(u, agency)
       /\ \E agent \in {None} \cup {v \in People : agency # None /\ member[v] # None} :
            Start(c, "create", u, [agency |-> agency, agent |-> agent, complete |-> complete])
  /\ UNCHANGED <<kind, listing, member, unseen>>
\* Neither the team nor the allowance is asked again.
Create(c) ==
  /\ job[c].op = "create" /\ listing = None
  /\ listing' = [owner |-> job[c].by, agency |-> job[c].form.agency, agent |-> job[c].form.agent,
                 status |-> "DRAFT", complete |-> job[c].form.complete]
  /\ Finish(c) /\ UNCHANGED <<kind, member, unseen, shifts>>

ValidateEdit(c, u) ==
  /\ listing # None /\ can_manage(u, listing) /\ MayName(u, listing.agency)
  /\ \E form \in Forms(listing.agency) :
       \* full_clean() of the copy, which a stay's form does not call.
       /\ LET edited == Written(form, listing)
          IN  kind = "property" /\ edited.status = "PUBLISHED" => edited.complete
       /\ Start(c, "edit", u, form)
  /\ UNCHANGED <<kind, listing, member, unseen>>
Confirmed(c) == Scope(job[c].row) = Scope(listing) /\ can_manage(job[c].by, listing)
Edit(c) ==
  /\ job[c].op = "edit" /\ Confirmed(c)
  /\ listing' = Written(job[c].form, listing)
  /\ unseen' = (unseen \/ (listing'.status = "PUBLISHED"
                           /\ (kind = "stay" \/ job[c].row.status # "PUBLISHED")))
  /\ Finish(c) /\ UNCHANGED <<kind, member, shifts>>
Refused(c) == /\ job[c].op = "edit" /\ ~Confirmed(c)
              /\ Finish(c) /\ UNCHANGED <<kind, listing, member, unseen, shifts>>
-----------------------------------------------------------------------------
(* Submission, pausing and staff decisions.                                *)

From == [submit |-> {"DRAFT", "PAUSED"}, approve |-> {"SUBMITTED"}, suspend |-> {"PUBLISHED"},
         restore |-> {"SUSPENDED"}, pause |-> {"PUBLISHED"}]
To   == [submit |-> "SUBMITTED", approve |-> "PUBLISHED", suspend |-> "SUSPENDED",
         restore |-> "PUBLISHED", pause |-> "PAUSED"]
\* Where the copy is validated as a published listing; a property is restored without.
Checks(op) == op \in {"submit", "approve"} \/ (kind = "stay" /\ op = "restore")
Allowed(op, row) == row.status \in From[op] /\ (Checks(op) => row.complete)

Load(c, op) ==
  /\ listing # None /\ (kind = "property" \/ op = "pause") /\ Allowed(op, listing)
  /\ Start(c, op, None, <<>>) /\ UNCHANGED <<kind, listing, member, unseen>>
\* save(update_fields=["status", ...])
Write(c) ==
  /\ job[c].op \in DOMAIN To /\ kind = "property"
  /\ listing' = [listing EXCEPT !.status = To[job[c].op]]
  /\ unseen' = (unseen \/ job[c].op = "restore"
                \/ (To[job[c].op] = "PUBLISHED" /\ listing.complete # job[c].row.complete))
  /\ Finish(c) /\ UNCHANGED <<kind, member, shifts>>
\* pause(): save() of the copy.
WriteAll(c) ==
  /\ job[c].op = "pause" /\ kind = "stay"
  /\ listing' = [job[c].row EXCEPT !.status = "PAUSED"]
  /\ Finish(c) /\ UNCHANGED <<kind, member, unseen, shifts>>
\* submit() and the decisions about stays lock the row before they look.
Decide(op) ==
  /\ Change /\ listing # None /\ kind = "stay" /\ op # "pause" /\ Allowed(op, listing)
  /\ listing' = [listing EXCEPT !.status = To[op]]
  /\ UNCHANGED <<kind, member, job, unseen>>
GiveUp(c) == job[c] # Idle /\ Finish(c) /\ UNCHANGED <<kind, listing, member, unseen, shifts>>

Transfer == /\ Change /\ listing # None
            /\ \E u \in People, a \in {None, Agency} :
                 listing' = [listing EXCEPT !.owner = u, !.agency = a, !.agent = None]
            /\ Scope(listing') # Scope(listing)
            /\ UNCHANGED <<kind, member, job, unseen>>
Join(u)  == /\ Change /\ ~Active(u) /\ member' = [member EXCEPT ![u] = TRUE]
            /\ UNCHANGED <<kind, listing, job, unseen>>
Leave(u) == /\ Change /\ Active(u) /\ member' = [member EXCEPT ![u] = FALSE]
            /\ UNCHANGED <<kind, listing, job, unseen>>

Init == /\ kind \in {"property", "stay"}
        /\ \E u, v \in People :
             /\ member = [w \in People |-> IF w = v THEN TRUE ELSE None]
             /\ listing \in {None} \cup [owner : {u}, agency : {Agency, None}, agent : {None},
                                       status : Statuses, complete : {TRUE}]
        /\ job = [c \in Clients |-> Idle] /\ unseen = FALSE /\ shifts = Shift
Next == \/ \E c \in Clients : \/ \E u \in People \cup Staff : ValidateNew(c, u) \/ ValidateEdit(c, u)
                              \/ Create(c) \/ Edit(c) \/ Refused(c) \/ Write(c) \/ WriteAll(c) \/ GiveUp(c)
                              \/ \E op \in DOMAIN To : Load(c, op)
        \/ \E op \in DOMAIN To : Decide(op)
        \/ Transfer
        \/ \E u \in People : Join(u) \/ Leave(u)
Spec == Init /\ [][Next]_vars
-----------------------------------------------------------------------------
TypeOK == /\ listing \in Rows \cup {None}
          /\ DOMAIN job = Clients /\ shifts \in 0..Shift

\* Whatever overtakes a form on its way, a listing with an agent is of the agent's agency:
\* a form validated before a transfer brings no agent of the old agency into the new scope.
AgentInTeam == listing # None /\ listing.agent # None => listing.agency = Agency /\ member[listing.agent] # None
\* A published listing has what its clean() demands, as long as nothing was written past
\* the check: a form of a stay, a form or a decision about a property that another overtook,
\* a restored property.
PublishedComplete == listing # None /\ listing.status = "PUBLISHED" /\ ~unseen => listing.complete
=============================================================================
