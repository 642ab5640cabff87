-------------------------- MODULE PropertyListing --------------------------
(***************************************************************************)
(* Property listings: what hosts, staff and two periodic tasks do to their *)
(* publication and availability, and what a plan and extra units allow     *)
(* (properties/models.py, entitlements.py, services.py, tasks.py, the      *)
(* property endpoints of moderation/views.py, notifications/tasks.py).     *)
(*                                                                         *)
(* A request loads the listing without a lock and looks at its status; its *)
(* save then locks owner rows and the listing row, checks capacity, writes *)
(* some columns:  idle -> loaded -> checked -> owners -> row -> idle       *)
(* What the featured page makes of it is the subject of Screens.           *)
(* property_availability_reminders and listing_action lock the listing row *)
(* themselves and then save, which asks for owner rows: stage "held".      *)
(* A run of a task is over before the day is.                              *)
(***************************************************************************)
EXTENDS Integers, FiniteSets

CONSTANTS
  Scopes,       \* accounts and agencies, in the order lock_listing_owners takes them
  Listings,
  Units,        \* PropertyListingAddOn primary keys, in the order they are granted
  Clients,      \* one request each (bound)
  Upkeep,       \* the worker of property_availability_reminders
  Expiry,       \* the worker of process_property_entitlements
  Nobody, NoListing,
  Does,         \* the operations each client may request
  StartingTables, \* what the table may hold at first    (bound)
  Stock,        \* units granted before we look         (bound)
  FreeLimit,    \* active_listing_limit of the free plans
  PaidLimit,    \* active_listing_limit of the plan on sale
  Term,         \* days a subscription lasts, its grace included
  Duration,     \* PropertyListingAddOn.duration_days
  Validity,     \* PropertyAddOnPackage.purchase_validity_days
  ReminderDays, \* settings.PROPERTY_AVAILABILITY_REMINDER_DAYS
  StaleDays,    \* settings.PROPERTY_AVAILABILITY_STALE_DAYS
  MaxDays       \* days that pass (bound)

ASSUME OrderedKeys == Scopes \subseteq Nat /\ Units \subseteq Nat /\ Scopes \cap Listings = {}
ASSUME NullsApart == NoListing \notin Listings /\ Nobody \notin Clients \cup {Upkeep, Expiry}
ASSUME WorkersApart == Upkeep # Expiry /\ {Upkeep, Expiry} \cap Clients = {}
ASSUME Lengths == /\ {FreeLimit, PaidLimit, MaxDays} \subseteq Nat
                  /\ {Term, Duration, Validity, ReminderDays} \subseteq Nat \ {0}
                  /\ StaleDays \in Nat /\ StaleDays > ReminderDays

VARIABLES
  day,             \* days since we look
  listing,         \* the PropertyListing table
  unit,            \* the PropertyListingAddOn table
  paid,            \* days each owner's ACTIVE subscription has left, -1 without one
  holder,          \* row locks on owners and listings
  stage, request,  \* each transaction's progress and operation
  asked,           \* clients that have had their turn
  todo             \* what each task's current run has still to visit

tables  == <<listing, unit, paid>>
session == <<stage, request>>
vars    == <<day, tables, holder, session, asked, todo>>

Tasks     == {Upkeep, Expiry}
Processes == Clients \cup Tasks
\* DRAFT: also REJECTED and CHANGES_REQUESTED; SUBMITTED: also UNDER_REVIEW.
Statuses  == {"DRAFT", "SUBMITTED", "PUBLISHED", "PAUSED", "SUSPENDED"}
HostOps   == {"submit", "pause", "confirm", "withdraw", "edit", "accept"}
StaffOps  == {"start_review", "approve", "send_back", "suspend", "restore", "verify"}
LegacyOps == {"legacy_suspend", "legacy_pause", "legacy_reinstate"}
GrantOps  == {"grant", "subscribe", "cancel"}
Operations == HostOps \cup StaffOps \cup LegacyOps \cup GrantOps
Stages    == {"idle", "loaded", "checked", "owners", "row", "held"}

NoUnit == [status |-> "NONE", scope |-> Nobody, listing |-> NoListing, left |-> 0]
NoRequest == [op |-> "none"]
Rows == [status: Statuses, available: {"UNKNOWN", "AVAILABLE", "UNAVAILABLE"}, owner: Scopes,
         age: 0..StaleDays, confirmed: BOOLEAN, dated: BOOLEAN, reminded: BOOLEAN]

ASSUME Beginnings ==
  /\ Scopes # {} /\ Stock \subseteq Units /\ \A c \in Clients : Does[c] \subseteq Operations
  /\ StartingTables \subseteq [Listings -> Rows]
  /\ \A table \in StartingTables, l \in Listings :
       table[l].status = "PUBLISHED" => table[l].dated
-----------------------------------------------------------------------------
(* Who is on the market, and what the plan allows.                         *)

consumes_slot(row) == row.status = "PUBLISHED" /\ row.available = "AVAILABLE"
Live(o) == {l \in Listings : listing[l].owner = o /\ consumes_slot(listing[l])}

ValidOn(l) == {u \in Units : unit[u].status = "ACTIVE" /\ unit[u].listing = l /\ unit[u].left > 0}
Unused(o) == {u \in Units : unit[u].scope = o /\ unit[u].status = "UNUSED" /\ unit[u].left > 0}

\* summary: the live listings that no valid unit covers, which the plan has to.
Ordinary(o) == Cardinality({l \in Live(o) : ValidOn(l) = {}})
Limit(o) == IF paid[o] > 0 THEN PaidLimit ELSE FreeLimit
OverLimit(o) == Ordinary(o) > Limit(o)

\* ensure_capacity: raises, needs nothing, or returns the oldest unused unit.
Refused(l, o) == ValidOn(l) = {} /\ Ordinary(o) >= Limit(o) /\ Unused(o) = {}
NeedsUnit(l, o) == ValidOn(l) = {} /\ Ordinary(o) >= Limit(o)
Oldest(units) == {u \in units : \A v \in units : u <= v}

\* activate_unit: the unit is bound and lapsed ones on the listing are closed.
Bind(u, l) ==
  [v \in Units |->
     IF v = u THEN [unit[v] EXCEPT !.status = "ACTIVE", !.listing = l, !.left = Duration]
     ELSE IF unit[v].status = "ACTIVE" /\ unit[v].listing = l /\ unit[v].left = 0
       THEN [unit[v] EXCEPT !.status = "EXPIRED"]
     ELSE unit[v]]
HasHistory(l) == \E u \in Units : unit[u].listing = l
-----------------------------------------------------------------------------
(* What each operation writes, as a change of the row it meets.            *)

Reset(row) == IF row.confirmed THEN row.age ELSE 0     \* published_at := now
Confirmed(row) == [row EXCEPT !.available = "AVAILABLE", !.confirmed = TRUE, !.age = 0,
                              !.reminded = FALSE]
PublishedUndated(row) == [row EXCEPT !.status = "PUBLISHED", !.age = Reset(row)]
Published(row) == [row EXCEPT !.status = "PUBLISHED", !.age = Reset(row), !.dated = TRUE]
Reinstated(row) == [row EXCEPT !.status = "PUBLISHED", !.dated = TRUE,
                               !.age = IF row.dated THEN @ ELSE Reset(row)]
NewStatus == [submit |-> "SUBMITTED", pause |-> "PAUSED", start_review |-> "SUBMITTED",
              send_back |-> "DRAFT", suspend |-> "SUSPENDED",
              legacy_suspend |-> "SUSPENDED", legacy_pause |-> "PAUSED"]

\* Partial saves write their own columns over the locked row; verification's
\* review saves every column of the copy it loaded.
Written(req, row) ==
  CASE req.op = "confirm" -> Confirmed(row)
    [] req.op = "withdraw" -> [row EXCEPT !.available = "UNAVAILABLE"]
    [] req.op \in {"approve", "restore"} -> Published(row)
    [] req.op = "legacy_reinstate" -> Reinstated(row)
    [] req.op = "accept" -> [row EXCEPT !.owner = req.to]
    [] req.op = "edit" -> row
    [] req.op = "verify" -> req.copy
    [] req.op \in DOMAIN NewStatus -> [row EXCEPT !.status = NewStatus[req.op]]

\* What the endpoint asks of the copy it loaded, before any lock.
Loadable(op, row) ==
  CASE op = "submit" -> row.status \in {"DRAFT", "PAUSED"}
    [] op \in {"pause", "suspend"} -> row.status = "PUBLISHED"
    [] op = "restore" -> row.status = "SUSPENDED"
    [] op \in {"start_review", "approve"} -> row.status = "SUBMITTED"
    [] op = "send_back" -> row.status \in {"SUBMITTED", "DRAFT"}
    [] OTHER -> TRUE

\* Whether the row newly takes a place on its (new) owner's plan.
EnteringIfStatusChanges(new, old) == new.status = "PUBLISHED" /\ old.status # "PUBLISHED"
Entering(new, old) == /\ consumes_slot(new)
                      /\ ~consumes_slot(old) \/ new.owner # old.owner
-----------------------------------------------------------------------------
(* Row locks.                                                              *)

Free(x) == holder[x] = Nobody
Lock(x, p) == holder' = [holder EXCEPT ![x] = p]
Release(p) == holder' = [x \in DOMAIN holder |-> IF holder[x] = p THEN Nobody ELSE holder[x]]
Goto(p, s) == stage' = [stage EXCEPT ![p] = s]
Finish(p) == /\ Goto(p, "idle")
             /\ request' = [request EXCEPT ![p] = NoRequest]

Missing(p) == {o \in request[p].scopes : holder[o] # p}
NextScope(p) == {o \in Missing(p) : \A q \in Missing(p) : o <= q}
Waiting(p, s) == stage[p] = s

\* lock_listing_owners: owner rows one after the other, then the listing row.
LockOwner(p) ==
  /\ Waiting(p, "owners")
  /\ \E o \in NextScope(p) :
       /\ Free(o) /\ Lock(o, p)
       /\ Goto(p, IF Missing(p) # {o} THEN "owners"
                  ELSE IF holder[request[p].listing] = p THEN "held" ELSE "row")
  /\ UNCHANGED <<day, tables, request, asked, todo>>

RowFree(p) == Waiting(p, "row") /\ Free(request[p].listing)

\* The database ends a circle of waiting transactions by failing one of them.
Wanted(p) == CASE stage[p] = "owners" -> NextScope(p)
               [] stage[p] = "row" -> {request[p].listing}
               [] OTHER -> {}
Circles == {C \in SUBSET Processes :
              C # {} /\ \A p \in C : \E x \in Wanted(p) : holder[x] \in C \ {p}}
BreakCircle(p) ==
  /\ \E C \in Circles : p \in C
  /\ Release(p) /\ Finish(p)
  /\ todo' = IF p \in Tasks THEN [todo EXCEPT ![p] = {}] ELSE todo
  /\ UNCHANGED <<day, tables, asked>>
-----------------------------------------------------------------------------
(* Requests of hosts and staff.                                            *)

Request(op, l) == [op |-> op, listing |-> l, copy |-> listing[l], to |-> listing[l].owner,
                   seen |-> listing[l].owner, scopes |-> {listing[l].owner}]

Open(c, req, s) == /\ request' = [request EXCEPT ![c] = req]
                   /\ Goto(c, s)
                   /\ asked' = asked \cup {c}
                   /\ UNCHANGED <<day, tables, holder, todo>>

\* get_object and the status check of the endpoint.
Load(c) ==
  /\ c \notin asked
  /\ \E l \in Listings, op \in Does[c] \ GrantOps :
       /\ Loadable(op, listing[l])
       /\ LET req == Request(op, l)
          IN  CASE op = "accept" -> \E o \in Scopes \ {req.seen} : Open(c, [req EXCEPT !.to = o], "checked")
                [] op \in {"submit", "approve"} -> Open(c, req, "loaded")
                [] op \in LegacyOps -> Open(c, req, "owners")
                [] OTHER -> Open(c, req, "checked")

\* check_submission, a transaction of its own, and full_clean.
CheckSubmission(c) ==
  /\ Waiting(c, "loaded")
  /\ LET o == request[c].copy.owner
     IN  /\ Free(o)
         /\ IF Refused(request[c].listing, o) THEN Finish(c)
            ELSE Goto(c, "checked") /\ UNCHANGED request
  /\ UNCHANGED <<day, tables, holder, asked, todo>>

\* lock_listing_owners reads the row to see whose locks it needs: the owner it has
\* and the owner it is about to get.
ReadScopes(c) ==
  /\ Waiting(c, "checked")
  /\ LET req == request[c]
         o == listing[req.listing].owner
         dest == CASE req.op = "accept" -> req.to [] req.op = "verify" -> req.copy.owner [] OTHER -> o
     IN  request' = [request EXCEPT ![c].scopes = {o, dest}, ![c].seen = o]
  /\ Goto(c, "owners")
  /\ UNCHANGED <<day, tables, holder, asked, todo>>

SavableAnyHistory(req, row, new) ==
  /\ row.owner = req.seen
  /\ req.op = "accept" => row.owner = req.copy.owner
  /\ Entering(new, row) => ~Refused(req.listing, new.owner)
\* What PropertyListing.save checks under the locks.
Savable(req, row, new) ==
  /\ row.owner = req.seen
  /\ req.op = "accept" => row.owner = req.copy.owner
  /\ new.owner # row.owner => ~HasHistory(req.listing)
  /\ Entering(new, row) => ~Refused(req.listing, new.owner)

\* The write, and the unit that publication takes.
Save(p, l, new) ==
  /\ listing' = [listing EXCEPT ![l] = new]
  /\ unit' = IF Entering(new, listing[l]) /\ NeedsUnit(l, new.owner)
               THEN Bind(CHOOSE u \in Oldest(Unused(new.owner)) : TRUE, l) ELSE unit
  /\ Release(p) /\ Finish(p)

SaveOrRefuse(c) ==
  LET req == request[c]
      row == listing[req.listing]
      new == Written(req, row)
  IN  /\ \/ RowFree(c) /\ req.op \notin LegacyOps
         \/ Waiting(c, "held")
      /\ IF Savable(req, row, new) THEN Save(c, req.listing, new)
         ELSE Release(c) /\ Finish(c) /\ UNCHANGED <<listing, unit>>
      /\ UNCHANGED <<day, paid, asked, todo>>

\* listing_action holds its candidate's owner and takes the row; its save locks
\* the owner the row has by now.
LockRow(c) ==
  /\ RowFree(c) /\ request[c].op \in LegacyOps
  /\ LET l == request[c].listing
         o == listing[l].owner
     IN  /\ Lock(l, c)
         /\ request' = [request EXCEPT ![c].scopes = {o}, ![c].seen = o]
         /\ Goto(c, IF holder[o] = c THEN "held" ELSE "owners")
  /\ UNCHANGED <<day, tables, asked, todo>>

\* Staff grant a package of units, sell or prolong a plan, or cancel it, each
\* under the owner's row and no other.
Granted(o, units) == [u \in Units |-> IF u \in units
                       THEN [NoUnit EXCEPT !.status = "UNUSED", !.scope = o, !.left = Validity]
                       ELSE unit[u]]
Grant(c) ==
  /\ c \notin asked
  /\ \E o \in Scopes, op \in Does[c] \cap GrantOps :
       /\ Free(o)
       /\ CASE op = "grant" -> /\ UNCHANGED paid
                               /\ \E u \in Oldest({v \in Units : unit[v].status = "NONE"}) :
                                    unit' = Granted(o, {u})
            [] op = "subscribe" -> paid' = [paid EXCEPT ![o] = Term] /\ UNCHANGED unit
            [] op = "cancel" -> paid' = [paid EXCEPT ![o] = -1] /\ UNCHANGED unit
  /\ asked' = asked \cup {c}
  /\ UNCHANGED <<day, listing, holder, session, todo>>
-----------------------------------------------------------------------------
(* property_availability_reminders.                                        *)

Due(l) == consumes_slot(listing[l]) /\ listing[l].age >= ReminderDays
StillDueUnlessReminded(l) == Due(l) /\ ~listing[l].reminded
StillDue(l) == Due(l) /\ (listing[l].age >= StaleDays \/ ~listing[l].reminded)
StaleSooner(row) == row.age >= ReminderDays
Stale(row) == row.age >= StaleDays
Reviewed(row) == IF Stale(row) THEN [row EXCEPT !.available = "UNAVAILABLE"]
                 ELSE [row EXCEPT !.reminded = TRUE]

StartUpkeep ==
  /\ todo[Upkeep] = {} /\ Waiting(Upkeep, "idle")
  /\ \E l \in Listings : Due(l)
  /\ todo' = [todo EXCEPT ![Upkeep] = {l \in Listings : Due(l)}]
  /\ UNCHANGED <<day, tables, holder, session, asked>>

\* select_for_update of the row that is still due, then save, which wants the owner.
VisitListing ==
  /\ Waiting(Upkeep, "idle")
  /\ \E l \in todo[Upkeep] :
       /\ Free(l)
       /\ todo' = [todo EXCEPT ![Upkeep] = @ \ {l}]
       /\ IF StillDue(l)
            THEN /\ Lock(l, Upkeep)
                 /\ request' = [request EXCEPT ![Upkeep] = Request("upkeep", l)]
                 /\ Goto(Upkeep, "owners")
            ELSE UNCHANGED <<holder, session>>
  /\ UNCHANGED <<day, tables, asked>>

SaveReview ==
  /\ Waiting(Upkeep, "held")
  /\ LET l == request[Upkeep].listing IN Save(Upkeep, l, Reviewed(listing[l]))
  /\ UNCHANGED <<day, paid, asked, todo>>
-----------------------------------------------------------------------------
(* process_property_entitlements: only the listing of the lapsing unit may *)
(* be paused, and only when the plan has no room for it.                   *)

StartExpiry ==
  /\ todo[Expiry] = {} /\ Waiting(Expiry, "idle")
  /\ \E u \in Units : unit[u].status = "ACTIVE" /\ unit[u].left = 0
  /\ todo' = [todo EXCEPT ![Expiry] = {u \in Units : unit[u].status \in {"ACTIVE", "EXPIRED"}}]
  /\ UNCHANGED <<day, tables, holder, session, asked>>

Lapsed(u) == [unit EXCEPT ![u].status = "EXPIRED"]
CrowdedAsSold(l) == consumes_slot(listing[l]) /\ Ordinary(listing[l].owner) > PaidLimit
Crowded(l) == consumes_slot(listing[l]) /\ OverLimit(listing[l].owner)

VisitUnit ==
  /\ Waiting(Expiry, "idle")
  /\ \E u \in todo[Expiry] :
       LET o == unit[u].scope
           l == unit[u].listing
       IN  /\ Free(o)
           /\ todo' = [todo EXCEPT ![Expiry] = @ \ {u}]
           /\ IF unit[u].status = "ACTIVE" /\ unit[u].left = 0
                THEN IF Crowded(l)
                       THEN /\ Lock(o, Expiry) /\ Goto(Expiry, "row") /\ UNCHANGED unit
                            /\ request' = [request EXCEPT ![Expiry] = [op |-> "expire", listing |-> l, unit |-> u]]
                       ELSE unit' = Lapsed(u) /\ UNCHANGED <<holder, session>>
                ELSE UNCHANGED <<unit, holder, session>>
  /\ UNCHANGED <<day, listing, paid, asked>>

\* The unit and its listing change in one transaction.
PauseLapsed ==
  /\ RowFree(Expiry)
  /\ LET req == request[Expiry]
     IN  /\ unit' = Lapsed(req.unit)
         /\ listing' = [listing EXCEPT ![req.listing].status = "PAUSED"]
  /\ Release(Expiry) /\ Finish(Expiry)
  /\ UNCHANGED <<day, paid, asked, todo>>
-----------------------------------------------------------------------------
(* Time.                                                                   *)

Older(row) == [row EXCEPT !.age = IF @ < StaleDays THEN @ + 1 ELSE @]
Less(n) == IF n > 0 THEN n - 1 ELSE n
Tick ==
  /\ day < MaxDays
  /\ \A p \in Tasks : todo[p] = {} /\ Waiting(p, "idle")
  /\ day' = day + 1
  /\ listing' = [l \in Listings |-> Older(listing[l])]
  /\ unit' = [u \in Units |-> IF unit[u].status = "EXPIRED" THEN unit[u] ELSE [unit[u] EXCEPT !.left = Less(@)]]
  /\ paid' = [o \in Scopes |-> Less(paid[o])]
  /\ request' = [p \in Processes |-> IF "copy" \in DOMAIN request[p]
                                       THEN [request[p] EXCEPT !.copy = Older(@)] ELSE request[p]]
  /\ UNCHANGED <<holder, stage, asked, todo>>
-----------------------------------------------------------------------------
Init ==
  /\ day = 0
  /\ listing \in StartingTables
  /\ unit = [u \in Units |-> IF u \in Stock
               THEN [NoUnit EXCEPT !.status = "UNUSED", !.scope = CHOOSE o \in Scopes : \A q \in Scopes : o <= q,
                                   !.left = Validity]
               ELSE NoUnit]
  /\ paid = [o \in Scopes |-> -1]
  /\ \A o \in Scopes : Ordinary(o) <= FreeLimit
  /\ holder = [x \in Scopes \cup Listings |-> Nobody]
  /\ stage = [p \in Processes |-> "idle"] /\ request = [p \in Processes |-> NoRequest]
  /\ asked = {} /\ todo = [p \in Tasks |-> {}]

Step(c) == \/ CheckSubmission(c) \/ ReadScopes(c) \/ LockOwner(c) \/ LockRow(c)
           \/ SaveOrRefuse(c)
UpkeepStep == VisitListing \/ LockOwner(Upkeep) \/ SaveReview
ExpiryStep == VisitUnit \/ PauseLapsed

Next ==
  \/ \E c \in Clients : Load(c) \/ Grant(c) \/ Step(c)
  \/ StartUpkeep \/ UpkeepStep \/ StartExpiry \/ ExpiryStep
  \/ \E p \in Processes : BreakCircle(p)
  \/ Tick

Spec == Init /\ [][Next]_vars

\* Requests end, the beat starts both tasks again and again, a waiter for a row is
\* not overtaken for ever, and a circle is broken each time it closes.
Fairness ==
  /\ \A c \in Clients : SF_vars(Step(c))
  /\ WF_vars(StartUpkeep) /\ SF_vars(VisitListing) /\ SF_vars(LockOwner(Upkeep)) /\ WF_vars(SaveReview)
  /\ WF_vars(StartExpiry) /\ SF_vars(VisitUnit) /\ SF_vars(PauseLapsed)
  /\ WF_vars(\E p \in Processes : BreakCircle(p))
FairSpec == Spec /\ Fairness
-----------------------------------------------------------------------------
(* The promises.                                                           *)

TypeOK ==
  /\ day \in 0..MaxDays
  /\ listing \in [Listings -> Rows]
  /\ unit \in [Units -> [status: {"NONE", "UNUSED", "ACTIVE", "EXPIRED"}, scope: Scopes \cup {Nobody},
                         listing: Listings \cup {NoListing}, left: Nat]]
  /\ paid \in [Scopes -> -1..Term]
  /\ holder \in [Scopes \cup Listings -> Processes \cup {Nobody}]
  /\ stage \in [Processes -> Stages]
  /\ \A p \in Processes : stage[p] # "idle" => request[p].listing \in Listings
  /\ asked \subseteq Clients
  /\ todo[Upkeep] \subseteq Listings /\ todo[Expiry] \subseteq Units
  /\ \A l \in Listings : consumes_slot(listing[l]) => listing[l].dated

\* A unit that covers or covered a listing belongs to the listing's owner, and a
\* listing is never covered twice, whoever publishes, transfers, verifies or
\* pauses it meanwhile (save, activate_unit, one_active_addon_per_property).
UnitsFollowListing ==
  /\ \A u \in Units : unit[u].listing \in Listings => unit[u].scope = listing[unit[u].listing].owner
  /\ \A u, v \in Units : /\ u # v /\ unit[u].status = "ACTIVE" /\ unit[v].status = "ACTIVE"
                         => unit[u].listing # unit[v].listing

\* No save takes an owner's uncovered listings past the plan, whatever was approved,
\* confirmed, restored or received since the request looked (ensure_capacity).
PublicationWithinPlan ==
  [][\A o \in Scopes : Ordinary(o)' > Ordinary(o) /\ day' = day
       => Ordinary(o)' <= Limit(o)]_<<day, listing, unit>>

\* The reminder task never withdraws a listing that was confirmed or published
\* within StaleDays, although it picked it before (notifications/tasks.py).
ConfirmedStaysUp ==
  [][\A l \in Listings : /\ stage[Upkeep] = "held" /\ stage'[Upkeep] # "held"
                         /\ consumes_slot(listing[l]) /\ ~consumes_slot(listing[l])'
       => listing[l].age = StaleDays]_<<stage, listing>>

\* When a unit is marked EXPIRED its listing is, in the same step, withdrawn, covered
\* by another unit, or within its owner's plan (process_property_entitlements).
LapseWithdraws ==
  [][\A u \in Units : unit[u].status = "ACTIVE" /\ unit'[u].status = "EXPIRED" =>
       LET l == unit[u].listing
       IN  \/ ~consumes_slot(listing[l])' \/ ValidOn(l)' # {}
           \/ ~OverLimit(listing[l].owner)']_<<listing, unit>>

\* A listing nobody confirms does not stay on the market (docs/property-availability.md).
StaleLeaves == \A l \in Listings : (consumes_slot(listing[l]) /\ Stale(listing[l]))
                                   ~> ~(consumes_slot(listing[l]) /\ Stale(listing[l]))

\* "Keep owner-before-listing lock order": nobody waits in a circle.
NoLockCycle == Circles = {}
=============================================================================
