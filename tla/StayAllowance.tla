--------------------------- MODULE StayAllowance ---------------------------
(***************************************************************************)
(* How many stays a host or agency may keep published: the plan its        *)
(* subscription pays for, plus extra units that are bound to one stay each *)
(* for a limited time (stays/entitlements.py, Stay.save, stays/tasks.py,   *)
(* moderation/stays.py).                                                   *)
(*                                                                         *)
(* Everything that counts or changes the allowance runs in a transaction   *)
(* that locks the row of each owner concerned, then the stay, and commits. *)
(* Its stages are                                                          *)
(*    idle -> read (pause alone) -> scope (waits for owners)               *)
(*         -> stay (waits for the Stay row) -> check -> commit -> idle     *)
(* The hourly task does many such transactions with the instant at which   *)
(* it started as its clock.  Bookings appear as what they oblige a stay to *)
(* (RoomBooking has the details).                                          *)
(***************************************************************************)
EXTENDS Integers, FiniteSets, Sequences

CONSTANTS
  Scopes,      \* hosts and agencies, as lock_stay_owners orders them
  Stays,
  Units,       \* StayListingAddOn primary keys, in the order they are granted
  Clients,     \* requests of hosts and staff
  Beats,       \* workers of process_stay_entitlements
  Nobody, NoStay,
  Workload,    \* the operations requested, a subset of Operations (bound)
  StartingAs,  \* statuses the stays may have at first            (bound)
  Stock,       \* units granted before we look, to one owner      (bound)
  FreeLimit,   \* active_listing_limit of HOST_FREE
  PaidLimit,   \* active_listing_limit of the plan on sale
  Term,        \* length of a subscription
  GraceTime,   \* settings.STAY_SUBSCRIPTION_GRACE_DAYS
  Duration,    \* StayListingAddOn.duration_days
  Validity,    \* StayAddOnPackage.purchase_validity_days
  MaxSubs,     \* subscriptions per owner                         (bound)
  MaxTime      \* last instant of the clock                       (bound)

ASSUME OrderedKeys == Scopes \subseteq Nat /\ Units \subseteq Nat /\ Scopes \cap Stays = {}
ASSUME NullsApart == /\ NoStay \notin Stays /\ Nobody \notin Clients \cup Beats \cup Scopes
                     /\ Clients \cap Beats = {}
ASSUME Lengths == /\ {FreeLimit, PaidLimit, GraceTime, MaxSubs, MaxTime} \subseteq Nat
                  /\ {Term, Duration, Validity} \subseteq Nat \ {0}

VARIABLES
  now,             \* timezone.now()
  status, owner,   \* Stay.status and its entitlement owner
  unit,            \* the StayListingAddOn table
  subs,            \* each owner's StaySubscription rows, oldest first
  review,          \* StayCapacityReview of each stay
  obliged,         \* booking_obligations(stay).exists()
  holder,          \* row locks on owners and stays
  stage, request,  \* each transaction's progress and operation
  run              \* each worker's run of process_stay_entitlements

tables  == <<status, owner, unit, subs, review, obliged>>
session == <<stage, request>>
vars    == <<now, tables, holder, session, run>>

Processes  == Clients \cup Beats
\* DRAFT: also CHANGES_REQUESTED and REJECTED; SUBMITTED: also UNDER_REVIEW.
Statuses   == {"DRAFT", "SUBMITTED", "PUBLISHED", "PAUSED", "SUSPENDED"}
Reasons    == {"NONE", "ADDON_EXPIRED", "SUBSCRIPTION_EXPIRED", "LEGACY_OVER_LIMIT"}
Operations == {"submit", "approve", "restore", "refuse", "suspend", "reinstate", "pause",
               "accept", "renew", "grant", "subscribe", "cancel", "oblige", "abort"}
Stages     == {"idle", "read", "scope", "stay", "check", "commit"}
ASSUME Bounds == StartingAs \subseteq Statuses /\ Workload \subseteq Operations

NoUnit == [status |-> "NONE", scope |-> Nobody, stay |-> NoStay, activated |-> 0,
           expires |-> 0, before |-> 0]
NoReview == [status |-> "RESOLVED", reason |-> "NONE"]   \* or no row at all
NoRequest == [kind |-> "none"]
NoRun == [phase |-> "off", at |-> 0, todo |-> {}, scopes |-> {}]
-----------------------------------------------------------------------------
(* Counting.                                                               *)

Live(o) == {s \in Stays : owner[s] = o /\ status[s] = "PUBLISHED"}

ValidUnits(o, t) == {u \in Units : /\ unit[u].scope = o /\ unit[u].status = "ACTIVE"
                                   /\ unit[u].expires > t}
\* The published stays that no unit covers, which the plan has to.
Ordinary(o, t) == Cardinality(Live(o) \ {unit[u].stay : u \in ValidUnits(o, t)})

\* effective_plan: the latest subscription that had started by then decides.
Started(o, t) == {i \in DOMAIN subs[o] : subs[o][i].starts <= t}
Latest(o, t)  == CHOOSE i \in Started(o, t) : \A j \in Started(o, t) : j <= i
Subscribed(o, t) ==
  /\ Started(o, t) # {}
  /\ subs[o][Latest(o, t)].status \in {"ACTIVE", "GRACE"}
  /\ t < subs[o][Latest(o, t)].expires + GraceTime
Limit(o, t) == IF Subscribed(o, t) THEN PaidLimit ELSE FreeLimit

OverLimit(o, t) == Ordinary(o, t) > Limit(o, t)

UnusedUnits(o, t) == {u \in Units : /\ unit[u].scope = o /\ unit[u].status = "UNUSED"
                                    /\ unit[u].before > t}
\* available_unit: the oldest grant first, or none.
AvailableUnit(o, t) == {u \in UnusedUnits(o, t) : \A v \in UnusedUnits(o, t) : u <= v}

Covered(s, o, t) == \E u \in ValidUnits(o, t) : unit[u].stay = s

\* ensure_capacity: the units it would bind, a singleton or {}; Refused if it raises.
Refused(s, o, t) == /\ ~Covered(s, o, t)
                    /\ \/ OverLimit(o, t)
                       \/ Ordinary(o, t) = Limit(o, t) /\ UnusedUnits(o, t) = {}
NeedsUnit(s, o, t) == ~Covered(s, o, t) /\ Ordinary(o, t) = Limit(o, t)
EnsureCapacity(s, o, t) == IF NeedsUnit(s, o, t) THEN AvailableUnit(o, t) ELSE {}
-----------------------------------------------------------------------------
(* Row locks.                                                              *)

Free(x) == holder[x] = Nobody
Lock(x, c) == Free(x) /\ holder' = [holder EXCEPT ![x] = c]
End(c) == /\ stage' = [stage EXCEPT ![c] = "idle"]
          /\ request' = [request EXCEPT ![c] = NoRequest]
          /\ holder' = [x \in DOMAIN holder |-> IF holder[x] = c THEN Nobody ELSE holder[x]]

FirstStage(kind) == IF kind = "pause" THEN "read" ELSE "scope"
Begin(c, req) == /\ stage[c] = "idle"
                 /\ stage' = [stage EXCEPT ![c] = FirstStage(req.kind)]
                 /\ request' = [request EXCEPT ![c] = req]
                 /\ UNCHANGED <<now, tables, holder>>
At(c, kinds, s) == stage[c] = s /\ request[c].kind \in kinds

Unlocked(c) == {o \in request[c].scopes : holder[o] # c}
NextScopesUnordered(c) == Unlocked(c)
NextScopes(c) == {o \in Unlocked(c) : \A p \in Unlocked(c) : o <= p}

StayKinds == {"submit", "approve", "restore", "refuse", "suspend", "reinstate", "pause",
              "accept", "renew"}
Checked   == {"approve", "restore", "reinstate", "accept", "renew"}  \* these may bind a unit
Legacy    == {"suspend", "reinstate"}   \* listing_action, beside the review console

AfterStay(kind) == IF kind \in Checked THEN "check" ELSE "commit"

LockScope(c) ==
  /\ stage[c] = "scope"
  /\ \E o \in NextScopes(c) :
       /\ Lock(o, c)
       /\ stage' = [stage EXCEPT ![c] =
            IF Unlocked(c) # {o} THEN "scope"
            ELSE IF request[c].kind \notin StayKinds THEN "commit"
            ELSE IF holder[request[c].stay] = c THEN AfterStay(request[c].kind) ELSE "stay"]
  /\ UNCHANGED <<now, tables, request, run>>

\* lock_stay_owners, submit and StaffStayViewSet.get_object look again at who
\* owns the stay once they have its row.
OwnerAssumed(c) == TRUE
OwnerUnchanged(c) == owner[request[c].stay] = request[c].seen
LockStay(c) ==
  /\ stage[c] = "stay"
  /\ request[c].kind \in StayKinds \ Legacy
  /\ OwnerUnchanged(c)
  /\ Lock(request[c].stay, c)
  /\ stage' = [stage EXCEPT ![c] = AfterStay(request[c].kind)]
  /\ UNCHANGED <<now, tables, request, run>>

\* listing_action looks at the status but not at the owner again: whoever owns the stay
\* by then is locked by Stay.save, after the stay.
LockStayAnyway(c) ==
  LET s == request[c].stay
  IN  /\ At(c, Legacy, "stay")
      /\ status[s] \in IF request[c].kind = "suspend" THEN {"PUBLISHED"} ELSE {"SUSPENDED", "PAUSED"}
      /\ Lock(s, c)
      /\ request' = [request EXCEPT ![c].scopes = {owner[s]}, ![c].to = owner[s]]
      /\ stage' = [stage EXCEPT ![c] = IF holder[owner[s]] = c THEN AfterStay(request[c].kind)
                                       ELSE "scope"]
      /\ UNCHANGED <<now, tables, run>>

\* A refusal, a changed owner, an early return or a lost connection.
Rollback(c) ==
  /\ c \in Clients
  /\ \/ stage[c] \in {"read", "check", "commit"}
     \/ stage[c] = "stay" /\ request[c].kind \in StayKinds /\ Free(request[c].stay)
  /\ End(c)
  /\ UNCHANGED <<now, tables, run>>

\* The database ends a circle of waiting transactions by failing one of them; the
\* hourly task does not catch the error, and the rest of its run is lost.
Wanted(c) ==
  CASE stage[c] = "scope" -> NextScopes(c)
    [] stage[c] = "stay" -> {request[c].stay}
    [] stage[c] = "commit" /\ request[c].kind = "expire_unit" -> {unit[request[c].row].stay} \cap Stays
    [] OTHER -> {}
Circles == {C \in SUBSET Processes :
              C # {} /\ \A c \in C : \E x \in Wanted(c) : holder[x] \in C}
BreakCircle(c) ==
  /\ \E C \in Circles : c \in C
  /\ End(c)
  /\ run' = IF c \in Beats THEN [run EXCEPT ![c] = NoRun] ELSE run
  /\ UNCHANGED <<now, tables>>
-----------------------------------------------------------------------------
(* Binding a unit.                                                         *)

ActiveOn(s) == {u \in Units : unit[u].status = "ACTIVE" /\ unit[u].stay = s}

\* activate_unit: closes what has lapsed on the stay, then binds the unit to it.
Bind(u, s) ==
  [v \in Units |->
     IF v = u THEN [unit[v] EXCEPT !.status = "ACTIVE", !.stay = s, !.activated = now,
                                   !.expires = now + Duration]
     ELSE IF v \in ActiveOn(s) /\ unit[v].expires <= now THEN [unit[v] EXCEPT !.status = "EXPIRED"]
     ELSE unit[v]]

\* set_review: the reason of a closed review is not looked at again.
Resolve(s) == review' = [review EXCEPT ![s] = NoReview]

\* Stay.save's tail: the unit chosen by the check, if any, is bound and the review closed.
BindChosen(s, chosen) ==
  IF chosen = {} THEN UNCHANGED <<unit, review>>
  ELSE /\ \E u \in chosen : unit' = Bind(u, s)
       /\ Resolve(s)
-----------------------------------------------------------------------------
(* Moderation, host requests and staff grants.                             *)

StayRequest(kind, s) == [kind |-> kind, stay |-> s, seen |-> owner[s], scopes |-> {owner[s]},
                         to |-> owner[s], chosen |-> {}, at |-> 0]

BeginOnStay(c) ==
  \E s \in Stays, kind \in Workload \cap {"submit", "approve", "restore", "refuse", "suspend",
                                     "reinstate", "renew"} :
    /\ Begin(c, StayRequest(kind, s))
    /\ UNCHANGED run

\* The pause view loads the whole stay and looks at its status there and then.
BeginPause(c) ==
  \E s \in Stays :
    /\ "pause" \in Workload /\ status[s] = "PUBLISHED"
    /\ Begin(c, StayRequest("pause", s))
    /\ UNCHANGED run

\* Stay.save of that copy: both its owner and the current one are locked.
ReadForSave(c) ==
  /\ At(c, {"pause"}, "read")
  /\ request' = [request EXCEPT ![c].seen = owner[request[c].stay],
                             ![c].scopes = @ \cup {owner[request[c].stay]}]
  /\ stage' = [stage EXCEPT ![c] = "scope"]
  /\ UNCHANGED <<now, tables, holder, run>>

\* resolve_transfer accepts: source and destination owners are locked.
BeginAccept(c) ==
  \E s \in Stays, o \in Scopes :
    /\ "accept" \in Workload /\ o # owner[s]
    /\ Begin(c, [StayRequest("accept", s) EXCEPT !.scopes = {owner[s], o}, !.to = o])
    /\ UNCHANGED run

BeginOnScope(c) ==
  \E o \in Scopes, kind \in Workload \cap {"grant", "subscribe", "cancel"} :
    /\ Begin(c, [kind |-> kind, scopes |-> {o}])
    /\ UNCHANGED run

HasHistoryValid(s) == \E u \in ActiveOn(s) : unit[u].expires > now
HasHistory(s) == \E u \in Units : unit[u].stay = s
Entering(c) == LET s == request[c].stay
               IN  CASE request[c].kind = "approve" -> status[s] = "SUBMITTED"
                     [] request[c].kind = "restore" -> status[s] = "SUSPENDED"
                     [] request[c].kind = "reinstate" -> status[s] \in {"SUSPENDED", "PAUSED"}
                     [] request[c].kind = "accept"  -> status[s] = "PUBLISHED"

\* Whose allowance a publication uses: the owner the stay will have.
TakerBefore(req) == req.seen
Taker(req) == req.to

\* The last ensure_capacity before the write, whose unit is bound after it.
CheckPublication(c) ==
  LET req == request[c]
  IN  /\ At(c, Checked \ {"renew"}, "check")
      /\ Entering(c)
      /\ req.kind = "accept" => ~HasHistory(req.stay)
      /\ ~Refused(req.stay, Taker(req), now)
      /\ request' = [request EXCEPT ![c].chosen = EnsureCapacity(req.stay, Taker(req), now), ![c].at = now]
      /\ stage' = [stage EXCEPT ![c] = "commit"]
      /\ UNCHANGED <<now, tables, holder, run>>

SavePublication(c) ==
  LET req == request[c]
  IN  /\ At(c, Checked \ {"renew"}, "commit")
      /\ status' = [status EXCEPT ![req.stay] = "PUBLISHED"]
      /\ owner'  = [owner EXCEPT ![req.stay] = req.to]
      /\ BindChosen(req.stay, req.chosen)
      /\ End(c)
      /\ UNCHANGED <<now, subs, obliged, run>>

\* A transfer of a stay that is not published needs no capacity.
SaveQuietTransfer(c) ==
  LET req == request[c]
  IN  /\ At(c, {"accept"}, "check")
      /\ ~HasHistory(req.stay) /\ status[req.stay] # "PUBLISHED"
      /\ owner' = [owner EXCEPT ![req.stay] = req.to]
      /\ End(c)
      /\ UNCHANGED <<now, status, unit, subs, review, obliged, run>>

\* submit reserves nothing: it only refuses a host who could not publish now.
SaveSubmission(c) ==
  LET s == request[c].stay
  IN  /\ At(c, {"submit"}, "commit")
      /\ status[s] \in {"DRAFT", "PAUSED"} /\ ~Refused(s, owner[s], now)
      /\ status' = [status EXCEPT ![s] = "SUBMITTED"]
      /\ End(c)
      /\ UNCHANGED <<now, owner, unit, subs, review, obliged, run>>

\* A reviewer sends a submission back or suspends a live stay, in the console or
\* through listing_action, which can pause it as well.
SaveRefusal(c) ==
  LET s == request[c].stay
  IN  /\ At(c, {"refuse", "suspend"}, "commit")
      /\ \/ /\ request[c].kind = "refuse" /\ status[s] = "SUBMITTED"
            /\ status' = [status EXCEPT ![s] = "DRAFT"]
         \/ /\ status[s] = "PUBLISHED"
            /\ \E new \in {"SUSPENDED"} \cup (IF request[c].kind = "suspend" THEN {"PAUSED"} ELSE {}) :
                 status' = [status EXCEPT ![s] = new]
      /\ End(c)
      /\ UNCHANGED <<now, owner, unit, subs, review, obliged, run>>

\* pause writes every column of the copy it loaded, its owner included.
SavePause(c) ==
  LET req == request[c]
  IN  /\ At(c, {"pause"}, "commit")
      /\ req.to # owner[req.stay] => ~HasHistory(req.stay)
      /\ status' = [status EXCEPT ![req.stay] = "PAUSED"]
      /\ owner'  = [owner EXCEPT ![req.stay] = req.to]
      /\ End(c)
      /\ UNCHANGED <<now, unit, subs, review, obliged, run>>

\* allocate_renewal: a stay that has a valid unit keeps it.
RenewableIfUnits(s) == UnusedUnits(owner[s], now) # {}
Renewable(s) == ~Covered(s, owner[s], now) /\ UnusedUnits(owner[s], now) # {}
SaveRenewal(c) ==
  LET s == request[c].stay
  IN  /\ At(c, {"renew"}, "check")
      /\ Renewable(s)
      /\ BindChosen(s, AvailableUnit(owner[s], now))
      /\ End(c)
      /\ UNCHANGED <<now, status, owner, subs, obliged, run>>

\* grant_package, one unit of it (a package is as many grants).
SaveGrant(c) ==
  /\ At(c, {"grant"}, "commit")
  /\ \E o \in request[c].scopes, u \in Units :
       /\ unit[u] = NoUnit
       /\ \A v \in Units : v < u => unit[v] # NoUnit
       /\ unit' = [unit EXCEPT ![u] = [NoUnit EXCEPT !.status = "UNUSED", !.scope = o,
                                                    !.before = now + Validity]]
  /\ End(c)
  /\ UNCHANGED <<now, status, owner, subs, review, obliged, run>>

Current(o) == {i \in DOMAIN subs[o] : subs[o][i].status \in {"ACTIVE", "GRACE"}}

\* StaySubscriptionAdmin: a new one only when none is current (unique constraint).
SaveSubscription(c) ==
  /\ At(c, {"subscribe"}, "commit")
  /\ \E o \in request[c].scopes :
       /\ Current(o) = {} /\ Len(subs[o]) < MaxSubs
       /\ subs' = [subs EXCEPT ![o] = Append(@, [status |-> "ACTIVE", starts |-> now,
                                               expires |-> now + Term])]
  /\ End(c)
  /\ UNCHANGED <<now, status, owner, unit, review, obliged, run>>

SaveCancellation(c) ==
  /\ At(c, {"cancel"}, "commit")
  /\ \E o \in request[c].scopes : \E i \in Current(o) :
       subs' = [subs EXCEPT ![o][i].status = "CANCELLED"]
  /\ End(c)
  /\ UNCHANGED <<now, status, owner, unit, review, obliged, run>>
-----------------------------------------------------------------------------
(* process_stay_entitlements: one run visits every subscription, then      *)
(* every unit ever bound, then every owner, each in its own transaction    *)
(* and all with the instant at which the run started.                      *)

SubRows == {<<o, i>> : o \in Scopes, i \in 1..MaxSubs}
RowsStillActive(phase) ==
  CASE phase = "subs"  -> {p \in SubRows : p[2] \in DOMAIN subs[p[1]]}
    [] phase = "units" -> {u \in Units : unit[u].status = "ACTIVE"}
    [] OTHER -> {}
Rows(phase) ==
  CASE phase = "subs"  -> {p \in SubRows : p[2] \in DOMAIN subs[p[1]]}
    [] phase = "units" -> {u \in Units : unit[u].status \in {"ACTIVE", "EXPIRED"}}
    [] OTHER -> {}

StartRun(b) ==
  /\ run[b].phase = "off"
  /\ run' = [run EXCEPT ![b] = [phase |-> "subs", at |-> now, todo |-> Rows("subs"), scopes |-> {}]]
  /\ UNCHANGED <<now, tables, holder, session>>

\* The next table is read when the last row of one has been dealt with.
NextPhase(b) ==
  /\ run[b].phase # "off" /\ run[b].todo = {} /\ stage[b] = "idle"
  /\ run' = [run EXCEPT ![b] =
       CASE run[b].phase = "subs"  -> [run[b] EXCEPT !.phase = "units", !.todo = Rows("units")]
         [] run[b].phase = "units" -> [run[b] EXCEPT !.phase = "scopes",
               !.todo = run[b].scopes \cup {owner[s] : s \in {x \in Stays : status[x] = "PUBLISHED"}}]
         [] OTHER -> NoRun]
  /\ UNCHANGED <<now, tables, holder, session>>

VisitKind == [subs |-> "expire_sub", units |-> "expire_unit", scopes |-> "review"]
ScopeOf(phase, x) == CASE phase = "subs" -> x[1] [] phase = "units" -> unit[x].scope [] OTHER -> x
Visit(b) ==
  /\ run[b].phase # "off"
  /\ \E x \in run[b].todo :
       LET o == ScopeOf(run[b].phase, x)
       IN  /\ Begin(b, [kind |-> VisitKind[run[b].phase], row |-> x, scopes |-> {o}])
           /\ run' = [run EXCEPT ![b].todo = @ \ {x}, ![b].scopes = @ \cup {o}]

ExpireSubscription(b) ==
  /\ At(b, {"expire_sub"}, "commit")
  /\ LET o == request[b].row[1]
         i == request[b].row[2]
         sub == subs[o][i]
         t == run[b].at
     IN  /\ sub.status \in {"ACTIVE", "GRACE"} /\ sub.expires <= t
         /\ subs' = [subs EXCEPT ![o][i].status = IF t < sub.expires + GraceTime THEN "GRACE"
                                                  ELSE "EXPIRED"]
  /\ End(b)
  /\ UNCHANGED <<now, status, owner, unit, review, obliged, run>>

Renewed(u) == \E v \in Units : unit[v].stay = unit[u].stay /\ unit[v].activated > unit[u].activated
ExpiredReleased(u) == [unit EXCEPT ![u].status = "EXPIRED", ![u].stay = NoStay]
Expired(u) == [unit EXCEPT ![u].status = "EXPIRED"]

\* A unit that has run out while a later one covers its stay, or did.
ExpireRenewedUnit(b) ==
  LET u == request[b].row
  IN  /\ At(b, {"expire_unit"}, "commit")
      /\ unit[u].expires <= run[b].at /\ Renewed(u)
      /\ unit' = Expired(u)
      /\ End(b)
      /\ UNCHANGED <<now, status, owner, subs, review, obliged, run>>

LockExpiredStay(b) ==
  LET u == request[b].row
  IN  /\ At(b, {"expire_unit"}, "commit")
      /\ unit[u].expires <= run[b].at /\ ~Renewed(u)
      /\ Lock(unit[u].stay, b)
      /\ stage' = [stage EXCEPT ![b] = "check"]
      /\ UNCHANGED <<now, tables, request, run>>

\* Whether a stay keeps its place at time t although a unit of it has run out.
KeepsPlace(s, o, t) == status[s] # "PUBLISHED" \/ Covered(s, o, t) \/ ~OverLimit(o, t)

\* resolve_expired_stay: keep it, protect its guests, or pause it.
ResolveExpired(b) ==
  LET u == request[b].row
      s == unit[u].stay
      covered == KeepsPlace(s, unit[u].scope, run[b].at)
  IN  /\ At(b, {"expire_unit"}, "check")
      /\ unit' = Expired(u)
      /\ \/ covered /\ Resolve(s) /\ UNCHANGED status
         \/ /\ ~covered /\ obliged[s]
            /\ review' = [review EXCEPT ![s] = [status |-> "PROTECTED_BOOKINGS", reason |-> "ADDON_EXPIRED"]]
            /\ UNCHANGED status
         \/ /\ ~covered /\ ~obliged[s]
            /\ status' = [status EXCEPT ![s] = "PAUSED"]
            /\ Resolve(s)
      /\ End(b)
      /\ UNCHANGED <<now, owner, subs, obliged, run>>

\* review_scope: an owner within its limit has its open reviews closed; over it,
\* its stays are marked, and none is paused.
Marked(o, t) == {s \in Live(o) : /\ ~(review[s].status # "RESOLVED" /\ review[s].reason = "ADDON_EXPIRED")
                                 /\ ~Covered(s, o, t)}
ClosingProtected(o) == {s \in Live(o) : review[s].status = "PROTECTED_BOOKINGS"}
Closing(o) == {s \in Live(o) : review[s].status # "RESOLVED"}
ReviewScope(b) ==
  LET o == request[b].row
      t == run[b].at
      reason == IF Started(o, t) # {} THEN "SUBSCRIPTION_EXPIRED" ELSE "LEGACY_OVER_LIMIT"
      opened(s) == [status |-> IF obliged[s] THEN "PROTECTED_BOOKINGS" ELSE "OVER_LIMIT", reason |-> reason]
  IN  /\ At(b, {"review"}, "commit")
      /\ review' = [s \in Stays |->
           IF OverLimit(o, t) THEN IF s \in Marked(o, t) THEN opened(s) ELSE review[s]
           ELSE IF s \in Closing(o) THEN NoReview ELSE review[s]]
      /\ End(b)
      /\ UNCHANGED <<now, status, owner, unit, subs, obliged, run>>

\* A row that is not due after all.
NotDue(b) ==
  LET x == request[b].row
  IN  /\ stage[b] = "commit"
      /\ \/ request[b].kind = "expire_unit" /\ unit[x].expires > run[b].at
         \/ request[b].kind = "expire_sub" /\ ~(/\ subs[x[1]][x[2]].status \in {"ACTIVE", "GRACE"}
                                               /\ subs[x[1]][x[2]].expires <= run[b].at)
      /\ End(b)
      /\ UNCHANGED <<now, tables, run>>

\* A failing transaction or a killed worker: the rest of the run is lost.  Workers
\* stop being killed before the last instant, so that progress can be judged.
AbortRun(b) ==
  /\ "abort" \in Workload /\ now < MaxTime
  /\ stage[b] \in {"check", "commit"}
  /\ End(b)
  /\ run' = [run EXCEPT ![b] = NoRun]
  /\ UNCHANGED <<now, tables>>
-----------------------------------------------------------------------------
(* Time and guests.                                                        *)

Tick == /\ now < MaxTime
        /\ now' = now + 1
        /\ UNCHANGED <<tables, holder, session, run>>

\* create_booking holds the Stay row when it makes a stay owe something;
\* checkout, cancellation and lapsing need no lock of ours to end it.
Oblige(s) ==
  /\ "oblige" \in Workload
  /\ status[s] = "PUBLISHED" /\ Free(s) /\ ~obliged[s]
  /\ obliged' = [obliged EXCEPT ![s] = TRUE]
  /\ UNCHANGED <<now, status, owner, unit, subs, review, holder, session, run>>
Discharge(s) ==
  /\ obliged[s]
  /\ obliged' = [obliged EXCEPT ![s] = FALSE]
  /\ UNCHANGED <<now, status, owner, unit, subs, review, holder, session, run>>
-----------------------------------------------------------------------------
Init ==
  /\ now = 0
  /\ status \in [Stays -> StartingAs] /\ owner \in [Stays -> Scopes]
  /\ \E o \in Scopes :
       unit = [u \in Units |-> IF u \in Stock THEN [NoUnit EXCEPT !.status = "UNUSED", !.scope = o,
                                                                  !.before = Validity]
                               ELSE NoUnit]
  /\ subs = [o \in Scopes |-> <<>>]
  /\ review = [s \in Stays |-> NoReview]
  /\ obliged = [s \in Stays |-> FALSE]
  /\ holder = [x \in Scopes \cup Stays |-> Nobody]
  /\ stage = [c \in Processes |-> "idle"]
  /\ request = [c \in Processes |-> NoRequest]
  /\ run = [b \in Beats |-> NoRun]

BeginAny(c) == BeginOnStay(c) \/ BeginPause(c) \/ BeginAccept(c) \/ BeginOnScope(c)
Commit(c) == \/ CheckPublication(c) \/ SavePublication(c) \/ SaveQuietTransfer(c)
             \/ SaveSubmission(c) \/ SaveRefusal(c) \/ SavePause(c) \/ SaveRenewal(c)
             \/ SaveGrant(c) \/ SaveSubscription(c) \/ SaveCancellation(c)
Locking(c) == LockScope(c) \/ LockStay(c) \/ LockStayAnyway(c) \/ ReadForSave(c)
Process(b) == \/ ExpireSubscription(b) \/ ExpireRenewedUnit(b) \/ LockExpiredStay(b)
              \/ ResolveExpired(b) \/ ReviewScope(b) \/ NotDue(b)

Next ==
  \/ \E c \in Clients : BeginAny(c) \/ Locking(c) \/ Commit(c) \/ Rollback(c)
  \/ \E b \in Beats : \/ StartRun(b) \/ NextPhase(b) \/ Visit(b)
                      \/ LockScope(b) \/ Process(b) \/ AbortRun(b)
  \/ \E p \in Processes : BreakCircle(p)
  \/ \E s \in Stays : Oblige(s) \/ Discharge(s)
  \/ Tick

Spec == Init /\ [][Next]_vars
-----------------------------------------------------------------------------
(* The promises.                                                           *)

TypeOK ==
  /\ now \in 0..MaxTime
  /\ status \in [Stays -> Statuses] /\ owner \in [Stays -> Scopes]
  /\ unit \in [Units -> [status: {"NONE", "UNUSED", "ACTIVE", "EXPIRED"}, scope: Scopes \cup {Nobody},
                         stay: Stays \cup {NoStay}, activated: Nat, expires: Nat, before: Nat]]
  /\ \A u \in Units : IF unit[u].status \in {"ACTIVE", "EXPIRED"}
                        THEN unit[u].stay \in Stays /\ unit[u].expires > unit[u].activated
                        ELSE unit[u].stay = NoStay
  /\ \A o \in Scopes : /\ Len(subs[o]) <= MaxSubs
                        /\ \A i, j \in DOMAIN subs[o] :
                             {subs[o][i].status, subs[o][j].status} \subseteq {"ACTIVE", "GRACE"} => i = j
  /\ review \in [Stays -> [status: {"RESOLVED", "PROTECTED_BOOKINGS", "OVER_LIMIT"}, reason: Reasons]]
  /\ obliged \in [Stays -> BOOLEAN]
  /\ holder \in [Scopes \cup Stays -> Processes \cup {Nobody}]
  /\ stage \in [Processes -> Stages]
  /\ \A b \in Beats : run[b].phase \in {"off", "subs", "units", "scopes"}

\* A unit that is or was bound belongs to the owner of its stay, and a stay is never
\* covered by two running units, although transfers, publications, renewals and stale
\* saves of the stay race with the binding (the entitlement history check in Stay.save,
\* allocate_renewal, activate_unit, one_active_addon_per_stay).
UnitsFollowStays ==
  /\ \A u \in Units : unit[u].stay # NoStay => owner[unit[u].stay] = unit[u].scope
  /\ \A s \in Stays : Cardinality(ActiveOn(s)) <= 1

\* A publication, restoration or transfer never takes its owner's ordinary stays
\* past the plan, judged at the instant of its own check and with what has been
\* committed since.
PublicationWithinPlan ==
  [][\A c \in Clients, o \in Scopes, t \in 0..MaxTime :
       /\ stage[c] = "commit" /\ stage'[c] = "idle"
       /\ request[c].kind \in Checked /\ t = request[c].at
       /\ Ordinary(o, t)' > Ordinary(o, t)
       => Ordinary(o, t)' <= Limit(o, t)]_vars

\* "Keep owner-before-listing lock order consistent with publication/expiry"
\* (src/moderation/views.py:386): owners in one order, then the stay, so that nobody
\* waits in a circle.
NoLockCycle == Circles = {}

\* What is left of it: whenever transactions wait for each other, one of them is a
\* listing_action that waits for the owner the stay has by now while it holds the stay.
\* Publications, transfers, pauses, renewals, grants and the hourly task, whatever owners
\* they lock, keep to the order.
CirclesAreListingActions ==
  \A C \in Circles :
    \E c \in C : At(c, Legacy, "scope") /\ holder[request[c].stay] = c

\* A stale write "cannot reverse ... an ownership transfer" (docs/stay-pricing-phase-2.md):
\* a stay changes hands only when a transfer is accepted.
OwnerChangesByTransfer ==
  [][\A s \in Stays : owner'[s] # owner[s] =>
       \E c \in Clients : request[c].kind = "accept" /\ request[c].stay = s /\ stage'[c] = "idle"]_vars
-----------------------------------------------------------------------------
(* Each request and each visit of the hourly task, however many steps and  *)
(* locks it takes, is one step of PlaceLedger.                             *)

GrantOf(u) == [status |-> unit[u].status, owner |-> unit[u].scope, stay |-> unit[u].stay,
               since |-> unit[u].activated,
               until |-> IF unit[u].status = "UNUSED" THEN unit[u].before ELSE unit[u].expires]

OnMarket  == {s \in Stays : status[s] = "PUBLISHED"}
Owing     == {s \in Stays : obliged[s]}
GrantRows == [u \in Units |-> GrantOf(u)]
Plans     == [o \in Scopes |-> [t \in 0..MaxTime |-> Limit(o, t)]]

Ledger == INSTANCE PlaceLedger WITH
            Owners <- Scopes, Grants <- Units, Limits <- {FreeLimit, PaidLimit},
            Length <- Duration, Lifetime <- Validity, LastTime <- MaxTime,
            live <- OnMarket, owed <- Owing, grant <- GrantRows, plan <- Plans

\* Stays go live within the plan or on a grant of the owner's that is spent once, oldest
\* first; a unit that has run out takes its stay off the market exactly when the plan has
\* no room and no guest is due; a stay that was ever covered never changes hands.
ImplementsPlaceLedger == Ledger!Spec
-----------------------------------------------------------------------------
(* Progress: requests end, waiters of a row lock are not overtaken for     *)
(* ever, a circle of them is broken (deadlock_timeout), and the hourly     *)
(* beat starts a run whenever the last one has ended.                      *)

Fairness ==
  /\ \A c \in Clients : /\ WF_vars(Commit(c) \/ Rollback(c)) /\ SF_vars(Locking(c))
  /\ \A b \in Beats : /\ WF_vars(StartRun(b) \/ NextPhase(b) \/ Visit(b))
                       /\ SF_vars(LockScope(b)) /\ SF_vars(Process(b))
  /\ WF_vars(\E p \in Processes : BreakCircle(p))
  /\ WF_vars(Tick)
FairSpec == Spec /\ Fairness

\* An extra stay whose unit has run out, that its owner's plan does not cover and
\* that owes no guest anything does not stay like that: it is paused, renewed, or
\* the owner's capacity recovers.
Overstaying(s) ==
  /\ status[s] = "PUBLISHED" /\ HasHistory(s) /\ ~obliged[s]
  /\ ~Covered(s, owner[s], now) /\ OverLimit(owner[s], now)
OverstaysEnd == \A s \in Stays : Overstaying(s) ~> ~Overstaying(s)

\* The review of a published stay does not stay open once its owner is within its plan:
\* a renewal, a grant or a new subscription takes the warning away.
Needless(s) == /\ status[s] = "PUBLISHED" /\ review[s].status # "RESOLVED"
               /\ ~OverLimit(owner[s], now)
ReviewsClose == \A s \in Stays : Needless(s) ~> ~Needless(s)
=============================================================================
