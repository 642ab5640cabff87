-------------------------- MODULE ListingTransfer --------------------------
(***************************************************************************)
(* Requests to hand a listing to another user or to the agency, on top of  *)
(* the agency's changing team (core/transfers.py, core/transfer_models.py).*)
(* Creating a request locks the owners and the listing; answering one      *)
(* locks the request's row first and, to accept, the owners and listing    *)
(* after it.  Owner rows and capacity are StayAllowance's: here the lock   *)
(* on a listing stands for both, and a capacity error is a rollback.       *)
(***************************************************************************)
EXTENDS AgencyTeam

CONSTANTS
  Listings, Transfers,
  Clients,       \* requests about transfers in progress at once    (bound)
  Agency,        \* as the destination of a transfer
  Targets,       \* the users and agency listings are offered to     (bound)
  Nobody,
  TransferTerm   \* seven days

ASSUME Apart == /\ Agency \notin Users /\ Targets \subseteq Users \cup {Agency} /\ Listings \cap Transfers = {}
                /\ TransferTerm \in Nat \ {0} /\ Nobody \notin Clients

VARIABLES
  held,      \* who a listing belongs to: its owner and whether the agency manages it
  transfer,  \* ListingTransfer rows
  holder,    \* row locks on listings and transfers
  stage, request

vars == <<now, teamVars, held, transfer, holder, stage, request>>

NoTransfer == [status |-> "NONE"]
NoRequest  == [kind |-> "none"]
-----------------------------------------------------------------------------
\* can_send and can_receive.
CanSend(u, place) == IF place.managed THEN IsManager(u) ELSE place.owner = u
CanReceive(u, t) == IF transfer[t].target = Agency THEN IsManager(u) ELSE transfer[t].target = u

Lock(x, c) == holder[x] = Nobody /\ holder' = [holder EXCEPT ![x] = c]
Finish(c) == /\ stage' = [stage EXCEPT ![c] = "idle"]
             /\ request' = [request EXCEPT ![c] = NoRequest]
             /\ holder' = [x \in DOMAIN holder |-> IF holder[x] = c THEN Nobody ELSE holder[x]]

\* A new request takes the listing first; nothing it read before counts.
BeginSend(c) ==
  /\ stage[c] = "idle"
  /\ \E u \in Users, l \in Listings, d \in Targets :
       /\ Lock(l, c)
       /\ request' = [request EXCEPT ![c] = [kind |-> "send", user |-> u, listing |-> l, target |-> d]]
  /\ stage' = [stage EXCEPT ![c] = "save"]
  /\ UNCHANGED <<now, teamVars, held, transfer>>

\* locked_listing of an acceptance, which has its request's row already.
LockListing(c) ==
  /\ stage[c] = "listing"
  /\ Lock(request[c].listing, c)
  /\ stage' = [stage EXCEPT ![c] = "save"]
  /\ UNCHANGED <<now, teamVars, held, transfer, request>>

\* Whether the destination is one, and another than today's.
Sendable(d, place) ==
  IF d = Agency THEN ~place.managed /\ \E u \in Users : IsManager(u)
  ELSE place.managed \/ d # place.owner

Pending(l) == {t \in Transfers : transfer[t].status = "PENDING" /\ transfer[t].listing = l}

\* No request for the listing is still open; unique_pending_listing_transfer agrees.
Unblocked(l) == \A t \in Pending(l) : transfer[t].expires <= now

\* How overdue requests are closed, and what data() shows for them until then.
Overdue      == "EXPIRED"
ClosedAs     == "CANCELLED"

\* Overdue requests are closed, which waits for whoever answers one, and a new one
\* is inserted unless another is pending.
SaveTransfer(c) ==
  LET req == request[c]
      place == held[req.listing]
      overdue == {t \in Pending(req.listing) : transfer[t].expires <= now}
  IN  /\ stage[c] = "save" /\ req.kind = "send"
      /\ CanSend(req.user, place) /\ Sendable(req.target, place)
      /\ \A t \in overdue : holder[t] = Nobody
      /\ Unblocked(req.listing)
      /\ \E n \in Transfers :
           /\ transfer[n] = NoTransfer
           /\ transfer' = [t \in Transfers |->
                IF t = n THEN [status |-> "PENDING", listing |-> req.listing, sender |-> req.user,
                               source |-> place, target |-> req.target, expires |-> now + TransferTerm]
                ELSE IF t \in overdue THEN [transfer[t] EXCEPT !.status = ClosedAs]
                ELSE transfer[t]]
      /\ Finish(c)
      /\ UNCHANGED <<now, teamVars, held>>
-----------------------------------------------------------------------------
May(u, action, t) == IF action = "cancel" THEN transfer[t].sender = u ELSE CanReceive(u, t)
Open(t) == transfer[t].status = "PENDING" /\ transfer[t].expires > now

Answer(c, u, action, t) ==
  /\ request' = [request EXCEPT ![c] =
       [kind |-> action, user |-> u, transfer |-> t, listing |-> transfer[t].listing]]
  /\ stage' = [stage EXCEPT ![c] = IF action = "accept" THEN "listing" ELSE "save"]
  /\ UNCHANGED <<now, teamVars, held, transfer>>

ReadTransfer(c) ==
  /\ stage[c] = "idle"
  /\ \E u \in Users, action \in {"accept", "decline", "cancel"}, t \in Transfers :
       /\ Open(t) /\ May(u, action, t)
       /\ Answer(c, u, action, t)
  /\ UNCHANGED holder

\* resolve_transfer's select_for_update on the request, and its guards.
LockTransfer(c) ==
  /\ stage[c] = "idle"
  /\ \E u \in Users, action \in {"accept", "decline", "cancel"}, t \in Transfers :
       /\ Lock(t, c) /\ Open(t) /\ May(u, action, t)
       /\ Answer(c, u, action, t)

SourceAssumed(t) == TRUE
\* The listing is still where the request found it.
SourceUnchanged(t) == held[transfer[t].listing] = transfer[t].source

AcceptTransfer(c) ==
  LET req == request[c]
      t == req.transfer
  IN  /\ stage[c] = "save" /\ req.kind = "accept"
      /\ SourceUnchanged(t) /\ CanSend(transfer[t].sender, held[req.listing])
      /\ held' = [held EXCEPT ![req.listing] = [owner |-> req.user, managed |-> transfer[t].target = Agency]]
      /\ transfer' = [transfer EXCEPT ![t].status = "ACCEPTED"]
      /\ Finish(c)
      /\ UNCHANGED <<now, teamVars>>

CloseTransfer(c) ==
  LET req == request[c]
  IN  /\ stage[c] = "save" /\ req.kind \in {"decline", "cancel"}
      /\ transfer' = [transfer EXCEPT ![req.transfer].status =
                        IF req.kind = "decline" THEN "DECLINED" ELSE "CANCELLED"]
      /\ Finish(c)
      /\ UNCHANGED <<now, teamVars, held>>

\* A refusal, an error, a deadlock's victim or a lost connection.
Rollback(c) == stage[c] # "idle" /\ Finish(c) /\ UNCHANGED <<now, teamVars, held, transfer>>

\* Staff give a listing to a user of their own choice, out of the agency.
Reassign(l) ==
  /\ holder[l] = Nobody
  /\ \E u \in Users : held' = [held EXCEPT ![l] = [owner |-> u, managed |-> FALSE]]
  /\ UNCHANGED <<now, teamVars, transfer, holder, stage, request>>
-----------------------------------------------------------------------------
Init ==
  /\ TeamInit
  /\ held \in [Listings -> [owner: Users, managed: {FALSE}]]
  /\ transfer = [t \in Transfers |-> NoTransfer]
  /\ holder = [x \in Listings \cup Transfers |-> Nobody]
  /\ stage = [c \in Clients |-> "idle"]
  /\ request = [c \in Clients |-> NoRequest]

TransferStep(c) == \/ BeginSend(c) \/ LockListing(c) \/ SaveTransfer(c) \/ LockTransfer(c)
                   \/ AcceptTransfer(c) \/ CloseTransfer(c) \/ Rollback(c)

Next == \/ TeamNext /\ UNCHANGED <<held, transfer, holder, stage, request>>
        \/ \E c \in Clients : TransferStep(c)
        \/ \E l \in Listings : Reassign(l)
Spec == Init /\ [][Next]_vars
-----------------------------------------------------------------------------
TypeOK ==
  /\ now \in 0..MaxTime
  /\ role \in [Users -> Roles \cup {"NONE"}] /\ active \in [Users -> BOOLEAN]
  /\ \A u \in Users : active[u] => role[u] \in Roles
  /\ invite \in [Invitations -> [status: {"NONE", "PENDING", "ACCEPTED", "DECLINED", "EXPIRED"},
                                 for: Users \cup {NoUser}, role: Roles, expires: Nat]]
  /\ step \in [TeamClients -> {"idle", "authorised", "loaded", "ready"}]
  /\ late \subseteq TeamClients /\ raced \in BOOLEAN
  /\ held \in [Listings -> [owner: Users, managed: BOOLEAN]]
  /\ \A t \in Transfers :
       transfer[t] # NoTransfer =>
         transfer[t] \in [status: {"PENDING", "ACCEPTED", "DECLINED", "CANCELLED"}, listing: Listings,
                         sender: Users, source: [owner: Users, managed: BOOLEAN],
                         target: Users \cup {Agency}, expires: Nat]
  /\ \A l \in Listings : Cardinality(Pending(l)) <= 1
  /\ holder \in [Listings \cup Transfers -> Clients \cup {Nobody}]
  /\ stage \in [Clients -> {"idle", "listing", "save"}]

\* A request is decided once: recipients who accept and decline, senders who
\* cancel and new requests that close overdue ones may all come at the same time.
DecidedOnce ==
  [][\A t \in Transfers :
       transfer[t] # NoTransfer /\ transfer[t].status # "PENDING" => transfer'[t] = transfer[t]]_vars

\* An acceptance moves a listing from where its request saw it to where it asked for
\* it to go, whatever staff did in between, and is recorded in the same step.
MovesAsRequested ==
  [][\A l \in Listings, t \in Transfers :
       transfer[t] # NoTransfer /\ transfer'[t] # transfer[t] /\ transfer'[t].status = "ACCEPTED"
         /\ transfer[t].listing = l
       => /\ held[l] = transfer[t].source
          /\ transfer[t].target = IF held'[l].managed THEN Agency ELSE held'[l].owner]_vars

\* A listing the agency manages can be handed on by somebody, whatever requests about
\* the team overlap, unless one of them wrote after it was overtaken: ensure_other_owner,
\* the check of an invitee and the single answer to an invitation then keep an owner.
NoOrphans ==
  ~raced => \A l \in Listings : held[l].managed => \E u \in Users : CanSend(u, held[l])
=============================================================================
