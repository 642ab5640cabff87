---------------------------- MODULE RoomBooking ----------------------------
(***************************************************************************)
(* Stay bookings as bookings/services.py runs them: every request is a     *)
(* database transaction that takes the room type's row lock, re-reads what *)
(* the lock protects, checks, writes and commits.  The clock moves between *)
(* any two of these steps, transactions interleave, and any transaction    *)
(* may be rolled back by a validation error or a lost connection.          *)
(*                                                                         *)
(* A transaction goes through the stages                                   *)
(*    idle -> room (waits for RoomType) -> stay (waits for Stay)           *)
(*         -> check (has its locks) -> commit (has decided) -> idle        *)
(* and its request record says which operation it performs.  Prices,       *)
(* guests' details, occupancy and minimum-stay rules can only refuse a     *)
(* request, which Rollback stands for.                                     *)
(***************************************************************************)
EXTENDS Integers, FiniteSets

CONSTANTS
  Bookings,   \* primary keys of Booking rows
  Clients,    \* web requests in progress
  Workers,    \* the clients that run expire_pending and nothing else
  Rooms,      \* RoomType primary keys; the order of keys is the lock order
  Stays,
  StayOf,     \* RoomType.stay
  Keys,       \* (guest, idempotency key) pairs
  NoKey, NoRow, Nobody,
  Workload,   \* the operations requested, a subset of Operations (bound)
  LastDay,    \* nights are 1..LastDay                        (bound)
  MaxUnits,   \* largest quantity, and largest order          (bound)
  MaxTime,    \* last instant of the clock                    (bound)
  HoldTime    \* settings.BOOKING_HOLD_MINUTES

ASSUME BookingsFinite == IsFiniteSet(Bookings)
ASSUME RoomsArePks == Rooms \subseteq Nat
ASSUME WorkersAreClients == Workers \subseteq Clients
ASSUME StayOfRoom == StayOf \in [Rooms -> Stays] /\ Rooms \cap Stays = {}
ASSUME NullsApart == NoKey \notin Keys /\ NoRow \notin Nat /\ Nobody \notin Clients
ASSUME Bounds == /\ LastDay \in Nat /\ MaxUnits \in Nat /\ MaxTime \in Nat
                 /\ HoldTime \in Nat \ {0}

VARIABLES
  now, today,      \* timezone.now() and timezone.localdate()
  stayStatus,      \* Stay.status
  bookingMode,     \* Stay.booking_mode
  quantity,        \* RoomType.quantity
  active,          \* RoomType.is_active
  rowUnits,        \* RoomAvailability.available_units, NoRow without a row
  blocked,         \* the nights whose RoomAvailability.is_blocked holds
  booking,         \* the Booking table
  holder,          \* row locks on RoomType and Stay: who holds each
  stage, request,  \* each transaction's progress and operation
  expiring         \* the bookings an expire_pending run has still to visit

calendar == <<quantity, active, rowUnits, blocked>>
stayRow  == <<stayStatus, bookingMode>>
clock    == <<now, today>>
session  == <<stage, request>>
vars == <<clock, stayRow, calendar, booking, holder, session, expiring>>

Days     == 1..LastDay
Statuses == {"PENDING", "CONFIRMED", "DECLINED", "CANCELLED", "COMPLETED", "EXPIRED"}
StayStatuses == {"PUBLISHED", "PAUSED"}   \* PAUSED: or any other unpublished status
Modes    == {"INSTANT_BOOK", "REQUEST_TO_BOOK"}
Operations == {"create", "bulk", "resize", "deactivate", "pause", "write"} \cup Statuses
Stages   == {"idle", "room", "stay", "check", "commit"}

NoRequest == [kind |-> "none"]
CreateRequests == [kind: {"create"}, room: Rooms, from: Days, to: 2..(LastDay + 1), rooms: 1..MaxUnits,
                   key: Keys \cup {NoKey}]
ChangeRequests == [kind: {"change"}, room: Rooms, booking: Bookings,
                   target: Statuses \ {"PENDING"}]
BulkRequests   == [kind: {"bulk"}, room: Rooms, first: Days, last: Days,
                   units: (0..MaxUnits) \cup {NoRow}, block: BOOLEAN \cup {NoRow}]
RoomRequests   == [kind: {"update"}, room: Rooms, quantity: 0..MaxUnits, active: BOOLEAN]
PauseRequests  == [kind: {"pause"}, stay: Stays]
Requests == CreateRequests \cup ChangeRequests \cup BulkRequests \cup RoomRequests
              \cup PauseRequests

BookingRows == [status: Statuses, room: Rooms, from: Days, to: 2..(LastDay + 1),
                rooms: 1..MaxUnits, key: Keys \cup {NoKey}, expires: Nat]
NoBooking == [status |-> "NONE"]
-----------------------------------------------------------------------------
(* Inventory.                                                              *)

Exists(b) == booking[b].status # "NONE"

\* A booking takes rooms while CONFIRMED, and while PENDING until its hold lapses.
Reserving(b) == \/ booking[b].status = "CONFIRMED"
                \/ booking[b].status = "PENDING" /\ booking[b].expires > now

Covers(b, r, d) == booking[b].room = r /\ booking[b].from <= d /\ d < booking[b].to

\* The rooms taken by a set of bookings, counted one by one: Sum("rooms").
RoomsTaken(B) == {u \in B \X (1..MaxUnits) : u[2] <= booking[u[1]].rooms}
Total(B) == Cardinality(RoomsTaken(B))

ReservedOn(r, d) == {b \in Bookings : Reserving(b) /\ Covers(b, r, d)}
reserved_units(r, d) == Total(ReservedOn(r, d))

\* What the host offers that night, whether or not it is blocked.
Offered(r, d) == IF rowUnits[r][d] = NoRow THEN quantity[r] ELSE rowUnits[r][d]

inventory(r, d) ==
  LET base == IF d \in blocked[r] THEN 0 ELSE Offered(r, d)
      free == base - reserved_units(r, d)
  IN  IF free > 0 THEN free ELSE 0

Existing(key) == {b \in Bookings : Exists(b) /\ key # NoKey /\ booking[b].key = key}

\* booking_obligations: what keeps a stay from being paused automatically.
Obligations(s) == {b \in Bookings : Reserving(b) /\ StayOf[booking[b].room] = s
                                      /\ booking[b].to >= today}
-----------------------------------------------------------------------------
(* Row locks.                                                              *)

Free(x) == holder[x] = Nobody
Lock(x, c) == Free(x) /\ holder' = [holder EXCEPT ![x] = c]
ReleaseAll(c) == holder' = [x \in DOMAIN holder |-> IF holder[x] = c THEN Nobody ELSE holder[x]]

Goto(c, s) == stage' = [stage EXCEPT ![c] = s] /\ UNCHANGED request
Begin(c, req) == /\ stage[c] = "idle"
                 /\ stage' = [stage EXCEPT ![c] = "room"]
                 /\ request' = [request EXCEPT ![c] = req]
                 /\ UNCHANGED <<clock, stayRow, calendar, booking, holder>>
End(c) == /\ stage' = [stage EXCEPT ![c] = "idle"]
          /\ request' = [request EXCEPT ![c] = NoRequest]
          /\ ReleaseAll(c)

At(c, kind, s) == stage[c] = s /\ request[c].kind = kind

\* The rooms a transaction locks: one, or all of a stay's in primary-key order.
RoomsOf(req) == IF req.kind = "pause" THEN {r \in Rooms : StayOf[r] = req.stay} ELSE {req.room}
Unlocked(c) == {r \in RoomsOf(request[c]) : holder[r] # c}
NextRoomsUnordered(c) == Unlocked(c)
NextRooms(c) == {r \in Unlocked(c) : \A q \in Unlocked(c) : r <= q}
AfterRooms(req) == IF req.kind \in {"create", "pause"} THEN "stay" ELSE "check"
StayWanted(req) == IF req.kind = "pause" THEN req.stay ELSE StayOf[req.room]
-----------------------------------------------------------------------------
(* Steps every transaction takes.                                          *)

LockRoom(c) ==
  /\ stage[c] = "room"
  /\ \E r \in NextRooms(c) :
       /\ Lock(r, c)
       /\ Goto(c, IF Unlocked(c) # {r} THEN "room" ELSE AfterRooms(request[c]))
  /\ UNCHANGED <<clock, stayRow, calendar, booking, expiring>>

LockStay(c) ==
  /\ stage[c] = "stay"
  /\ Lock(StayWanted(request[c]), c)
  /\ Goto(c, "check")
  /\ UNCHANGED <<clock, stayRow, calendar, booking, expiring>>

\* A ValidationError, an early return without a write, or a lost connection.  The
\* server notices none of them while the transaction waits for a row lock.
Rollback(c) ==
  /\ stage[c] \in {"check", "commit"}
  /\ End(c)
  /\ UNCHANGED <<clock, stayRow, calendar, booking, expiring>>

Decide(c) == /\ Goto(c, "commit")
             /\ UNCHANGED <<clock, stayRow, calendar, booking, holder, expiring>>
-----------------------------------------------------------------------------
(* create_booking.                                                         *)

\* A request whose key is already used returns that booking and starts nothing.
BeginCreate(c) ==
  /\ "create" \in Workload
  /\ \E req \in CreateRequests :
       /\ req.from < req.to
       /\ Existing(req.key) = {}
       /\ Begin(c, req)
  /\ UNCHANGED expiring

BookableIfPublished(r) == stayStatus[StayOf[r]] = "PUBLISHED"
Bookable(r) == stayStatus[StayOf[r]] = "PUBLISHED" /\ active[r]

\* Without the second look at the key, once the locks are held.
CheckCreateOnce(c) ==
  LET req == request[c]
  IN  /\ At(c, "create", "check")
      /\ Bookable(req.room)
      /\ req.from >= today
      /\ \A d \in req.from..(req.to - 1) : inventory(req.room, d) >= req.rooms
      /\ Decide(c)
CheckCreate(c) ==
  LET req == request[c]
  IN  /\ At(c, "create", "check")
      /\ Existing(req.key) = {}
      /\ Bookable(req.room)
      /\ req.from >= today
      /\ \A d \in req.from..(req.to - 1) : inventory(req.room, d) >= req.rooms
      /\ Decide(c)

HoldBackdated == now - HoldTime
HoldEnds == now + HoldTime

\* unique_guest_booking_idempotency: a second row for a key cannot be inserted.
InsertBooking(c) ==
  LET req == request[c]
      instant == bookingMode[StayOf[req.room]] = "INSTANT_BOOK"
  IN  /\ At(c, "create", "commit")
      /\ Existing(req.key) = {}
      /\ \E b \in Bookings :
           /\ ~Exists(b)
           /\ booking' = [booking EXCEPT ![b] =
                [status  |-> IF instant THEN "CONFIRMED" ELSE "PENDING",
                 room    |-> req.room, from |-> req.from, to |-> req.to,
                 rooms   |-> req.rooms, key |-> req.key,
                 expires |-> IF instant THEN 0 ELSE HoldEnds]]
      /\ End(c)
      /\ UNCHANGED <<clock, stayRow, calendar, expiring>>
-----------------------------------------------------------------------------
(* transition and its callers.                                             *)

TRANSITIONSReopened == [PENDING   |-> {"CONFIRMED", "DECLINED", "CANCELLED", "EXPIRED"},
                        CONFIRMED |-> {"CANCELLED", "COMPLETED"},
                        CANCELLED |-> {"CONFIRMED"}]
TRANSITIONS == [PENDING   |-> {"CONFIRMED", "DECLINED", "CANCELLED", "EXPIRED"},
                CONFIRMED |-> {"CANCELLED", "COMPLETED"}]
Targets(status) == IF status \in DOMAIN TRANSITIONS THEN TRANSITIONS[status] ELSE {}

ChangeOf(b, target) == [kind |-> "change", room |-> booking[b].room, booking |-> b,
                        target |-> target]

\* BookingViewSet.confirm, decline, cancel, complete; who may do which is a
\* reason for Rollback, except that EXPIRED is the worker's alone.
BeginChange(c) ==
  /\ \E b \in Bookings, t \in Workload \cap {"CONFIRMED", "DECLINED", "CANCELLED", "COMPLETED"} :
       Exists(b) /\ Begin(c, ChangeOf(b, t))
  /\ UNCHANGED expiring

Overdue == {b \in Bookings : booking[b].status = "PENDING" /\ booking[b].expires <= now}

\* expire_pending: the candidates are read without a lock, then visited one by one.
ScanJustExpired(w) ==
  /\ "EXPIRED" \in Workload
  /\ expiring[w] = {} /\ stage[w] = "idle"
  /\ \E b \in Overdue : booking[b].expires = now
  /\ expiring' = [expiring EXCEPT ![w] = {b \in Overdue : booking[b].expires = now}]
  /\ UNCHANGED <<clock, stayRow, calendar, booking, holder, session>>
ScanExpired(w) ==
  /\ "EXPIRED" \in Workload
  /\ expiring[w] = {} /\ stage[w] = "idle"
  /\ Overdue # {}
  /\ expiring' = [expiring EXCEPT ![w] = Overdue]
  /\ UNCHANGED <<clock, stayRow, calendar, booking, holder, session>>

BeginExpire(w) ==
  \E b \in expiring[w] :
    /\ Begin(w, ChangeOf(b, "EXPIRED"))
    /\ expiring' = [expiring EXCEPT ![w] = @ \ {b}]

AllowedIfListed(row, target) == row.status \in {"PENDING", "CONFIRMED", "CANCELLED"}
Allowed(row, target) ==
  /\ target \in Targets(row.status)
  /\ target = "CONFIRMED" => row.expires > now
  /\ target = "COMPLETED" => row.to <= today

CheckChange(c) ==
  /\ At(c, "change", "check")
  /\ Allowed(booking[request[c].booking], request[c].target)
  /\ Decide(c)

SaveChange(c) ==
  /\ At(c, "change", "commit")
  /\ booking' = [booking EXCEPT ![request[c].booking].status = request[c].target]
  /\ End(c)
  /\ UNCHANGED <<clock, stayRow, calendar, expiring>>
-----------------------------------------------------------------------------
(* RoomViewSet.bulk and RoomViewSet.perform_update.                        *)

BeginBulk(c) ==
  /\ "bulk" \in Workload
  /\ \E req \in BulkRequests :
       /\ req.first <= req.last
       /\ req.units = NoRow \/ req.block = NoRow   \* one field per request (bound)
       /\ Begin(c, req)
  /\ UNCHANGED expiring

\* available_units of a night's row once the request is applied to it.
UnitsAfter(req, d) == IF req.units # NoRow THEN req.units ELSE Offered(req.room, d)

RowValidIgnoringBookings(r, d, units) == units <= quantity[r]
RowValidBeyondQuantity(r, d, units) == units >= reserved_units(r, d)
RowValid(r, d, units) == units <= quantity[r] /\ units >= reserved_units(r, d)

CheckBulk(c) ==
  LET req == request[c]
  IN  /\ At(c, "bulk", "check")
      /\ \A d \in req.first..req.last : RowValid(req.room, d, UnitsAfter(req, d))
      /\ Decide(c)

SaveBulk(c) ==
  LET req == request[c]
      nights == req.first..req.last
  IN  /\ At(c, "bulk", "commit")
      /\ rowUnits' = [rowUnits EXCEPT ![req.room] =
           [d \in Days |-> IF d \in nights THEN UnitsAfter(req, d) ELSE @[d]]]
      /\ blocked' = IF req.block = NoRow THEN blocked
                    ELSE [blocked EXCEPT ![req.room] =
                            IF req.block THEN @ \cup nights ELSE @ \ nights]
      /\ End(c)
      /\ UNCHANGED <<clock, stayRow, quantity, active, booking, expiring>>

BeginUpdate(c) ==
  /\ \E req \in RoomRequests :
       /\ req.quantity # quantity[req.room] => "resize" \in Workload
       /\ req.active # active[req.room] => "deactivate" \in Workload
       /\ {"resize", "deactivate"} \cap Workload # {}
       /\ Begin(c, req)
  /\ UNCHANGED expiring

\* A smaller quantity is compared with the reservations on arrival days only.
ArrivalDaysAhead(r) ==
  {booking[b].from : b \in {x \in Bookings : Reserving(x) /\ booking[x].room = r /\ booking[x].from > today}}
ArrivalDays(r) ==
  {IF booking[b].from > today THEN booking[b].from ELSE today :
     b \in {x \in Bookings : Reserving(x) /\ booking[x].room = r /\ booking[x].to > today}}

QuantityCoversBookings(r, q) == \A d \in ArrivalDays(r) : reserved_units(r, d) <= q
QuantityValid(r, q) ==
  /\ QuantityCoversBookings(r, q)
  /\ \A d \in Days : d >= today /\ rowUnits[r][d] # NoRow => rowUnits[r][d] <= q

CheckUpdate(c) ==
  LET req == request[c]
  IN  /\ At(c, "update", "check")
      /\ req.quantity < quantity[req.room] => QuantityValid(req.room, req.quantity)
      /\ Decide(c)

SaveUpdate(c) ==
  LET req == request[c]
  IN  /\ At(c, "update", "commit")
      /\ quantity' = [quantity EXCEPT ![req.room] = req.quantity]
      /\ active' = [active EXCEPT ![req.room] = req.active]
      /\ End(c)
      /\ UNCHANGED <<clock, stayRow, rowUnits, blocked, booking, expiring>>
-----------------------------------------------------------------------------
(* Writers of the Stay row, and the clock.                                 *)

\* resolve_expired_stay: rooms first, then the stay, under an owner lock that
\* no booking takes.
BeginPause(c) ==
  /\ "pause" \in Workload
  /\ \E req \in PauseRequests : Begin(c, req)
  /\ UNCHANGED expiring

CheckPauseBlind(c) ==
  /\ At(c, "pause", "check")
  /\ stayStatus[request[c].stay] = "PUBLISHED"
  /\ Decide(c)
CheckPause(c) ==
  /\ At(c, "pause", "check")
  /\ stayStatus[request[c].stay] = "PUBLISHED"
  /\ Obligations(request[c].stay) = {}
  /\ Decide(c)

SavePause(c) ==
  /\ At(c, "pause", "commit")
  /\ stayStatus' = [stayStatus EXCEPT ![request[c].stay] = "PAUSED"]
  /\ End(c)
  /\ UNCHANGED <<clock, bookingMode, calendar, booking, expiring>>

\* Stay.save by the host or a moderator: it locks the Stay row only.
WriteStay(s) ==
  /\ "write" \in Workload
  /\ Free(s)
  /\ \E st \in StayStatuses : stayStatus' = [stayStatus EXCEPT ![s] = st]
  /\ \E m \in Modes : bookingMode' = [bookingMode EXCEPT ![s] = m]
  /\ UNCHANGED <<clock, calendar, booking, holder, session, expiring>>

Tick ==
  /\ now < MaxTime
  /\ now' = now + 1
  /\ today' \in {today, today + 1}
  /\ UNCHANGED <<stayRow, calendar, booking, holder, session, expiring>>
-----------------------------------------------------------------------------
Init ==
  /\ now = 0 /\ today = 1
  /\ stayStatus = [s \in Stays |-> "PUBLISHED"]
  /\ bookingMode \in [Stays -> Modes]
  /\ quantity = [r \in Rooms |-> MaxUnits]
  /\ active = [r \in Rooms |-> TRUE]
  /\ rowUnits = [r \in Rooms |-> [d \in Days |-> NoRow]]
  /\ blocked = [r \in Rooms |-> {}]
  /\ booking = [b \in Bookings |-> NoBooking]
  /\ holder = [x \in Rooms \cup Stays |-> Nobody]
  /\ stage = [c \in Clients |-> "idle"]
  /\ request = [c \in Clients |-> NoRequest]
  /\ expiring = [w \in Workers |-> {}]

Ask(c)    == BeginCreate(c) \/ BeginChange(c) \/ BeginBulk(c) \/ BeginUpdate(c) \/ BeginPause(c)
Expire(w) == ScanExpired(w) \/ BeginExpire(w)
Work(c)   == \/ LockRoom(c) \/ LockStay(c)
             \/ CheckCreate(c) \/ InsertBooking(c)
             \/ CheckChange(c) \/ SaveChange(c)
             \/ CheckBulk(c) \/ SaveBulk(c)
             \/ CheckUpdate(c) \/ SaveUpdate(c)
             \/ CheckPause(c) \/ SavePause(c)

Next ==
  \/ Tick
  \/ \E s \in Stays : WriteStay(s)
  \/ \E w \in Workers : Expire(w)
  \/ \E c \in Clients \ Workers : Ask(c)
  \/ \E c \in Clients : Work(c) \/ Rollback(c)

Spec == Init /\ [][Next]_vars
-----------------------------------------------------------------------------
(* The promises.                                                           *)

TypeOK ==
  /\ now \in Nat /\ today \in Nat \ {0}
  /\ stayStatus \in [Stays -> StayStatuses] /\ bookingMode \in [Stays -> Modes]
  /\ quantity \in [Rooms -> 0..MaxUnits] /\ active \in [Rooms -> BOOLEAN]
  /\ rowUnits \in [Rooms -> [Days -> (0..MaxUnits) \cup {NoRow}]]
  /\ blocked \in [Rooms -> SUBSET Days]
  /\ booking \in [Bookings -> BookingRows \cup {NoBooking}]
  /\ holder \in [Rooms \cup Stays -> Clients \cup {Nobody}]
  /\ stage \in [Clients -> Stages]
  /\ request \in [Clients -> Requests \cup {NoRequest}]
  /\ expiring \in [Workers -> SUBSET {b \in Bookings : Exists(b)}]

\* No night from today on has more rooms reserved than the host offers on it,
\* whatever bookings, confirmations, expiries and calendar edits interleave
\* (create_booking's second inventory check, transition's room lock).
NeverOversold ==
  \A r \in Rooms, d \in Days : d >= today => reserved_units(r, d) <= Offered(r, d)

\* A night's own row never offers more rooms than the room type has, even when
\* the quantity is being lowered (RoomAvailability.clean, perform_update).
CalendarWithinQuantity ==
  \A r \in Rooms, d \in Days :
    d >= today /\ rowUnits[r][d] # NoRow => rowUnits[r][d] <= quantity[r]

\* The invariant behind both: what a transaction found in its check is still true
\* when it commits, because it holds the rows it looked at and, while it does,
\* the clock can only free rooms.
LocksHeld ==
  \A c \in Clients :
    /\ stage[c] \in {"stay", "check", "commit"} => Unlocked(c) = {}
    /\ stage[c] \in {"check", "commit"} /\ request[c].kind \in {"create", "pause"}
         => holder[StayWanted(request[c])] = c

FitsWith(r, d, B) == Total(ReservedOn(r, d) \cup B) <= Offered(r, d)

StillGood(req) ==
  CASE req.kind = "create" ->
         \A d \in req.from..(req.to - 1) :
           d >= today => reserved_units(req.room, d) + req.rooms <= Offered(req.room, d)
    [] req.kind = "change" /\ req.target = "CONFIRMED" ->
         \A d \in Days :
           d >= today /\ Covers(req.booking, req.room, d) => FitsWith(req.room, d, {req.booking})
    [] req.kind = "bulk" ->
         \A d \in req.first..req.last :
           reserved_units(req.room, d) <= UnitsAfter(req, d) /\ UnitsAfter(req, d) <= quantity[req.room]
    [] req.kind = "update" ->
         \A d \in Days : d >= today =>
           IF rowUnits[req.room][d] = NoRow THEN reserved_units(req.room, d) <= req.quantity
           ELSE rowUnits[req.room][d] <= req.quantity
    [] OTHER -> TRUE

DecisionsHold == \A c \in Clients : stage[c] = "commit" => StillGood(request[c])

\* A retry with the key of a committed booking of the same stay never gets as
\* far as the insert, where the unique index would turn it into a server error
\* (the second idempotency lookup of create_booking).
RetryFindsFirst ==
  \A c \in Clients : At(c, "create", "commit") =>
    \A b \in Existing(request[c].key) :
      StayOf[booking[b].room] # StayOf[request[c].room]

\* Of any set of transactions one waits for nobody in the set: the lock order
\* rooms by key, then stay, leaves no cycle of row-lock waits.
Wanted(c) ==
  CASE stage[c] = "room" -> NextRooms(c)
    [] stage[c] = "stay" -> {StayWanted(request[c])}
    [] OTHER -> {}
NoLockCycle ==
  \A C \in (SUBSET Clients) \ {{}} :
    \E c \in C : \A x \in Wanted(c) : holder[x] \notin C

\* A booking appears only while its stay is published, its room is active and
\* none of its nights is blocked, at the very step that inserts it.
AcceptedOnlyIfOpen ==
  [][\A b \in Bookings : ~Exists(b) /\ Exists(b)' =>
       LET row == booking'[b]
       IN  /\ stayStatus[StayOf[row.room]] = "PUBLISHED" /\ active[row.room]
           /\ \A d \in row.from..(row.to - 1) : d \notin blocked[row.room]]_vars

\* A booking's status moves only along TRANSITIONS, although the transaction
\* that moves it chose the booking from an unlocked read.
StatusFollowsGraph ==
  [][\A b \in Bookings : Exists(b) /\ booking'[b] # booking[b] =>
       /\ booking'[b].status \in Targets(booking[b].status)
       /\ booking'[b] = [booking[b] EXCEPT !.status = booking'[b].status]]_vars

\* The entitlement task never pauses a stay that still has a live hold or a
\* confirmed reservation to honour.
PauseSparesObligations ==
  [][\A s \in Stays, c \in Clients :
       At(c, "pause", "commit") /\ request[c].stay = s /\ stayStatus'[s] # stayStatus[s]
         => Obligations(s) = {}]_vars
-----------------------------------------------------------------------------
(* The ledger this implements.  A hold counts as held while its            *)
(* confirmation is between its check and its commit, even if the clock has *)
(* passed expires_at: the room lock keeps anyone from using its rooms.     *)

BeingConfirmed(b) == \E c \in Clients : /\ At(c, "change", "commit")
                                        /\ request[c].booking = b
                                        /\ request[c].target = "CONFIRMED"

ClaimState(b) ==
  CASE booking[b].status = "CONFIRMED" -> "booked"
    [] booking[b].status = "PENDING" ->
         IF Reserving(b) \/ BeingConfirmed(b) THEN "held" ELSE "lapsed"
    [] OTHER -> "over"

ClaimOf(b) == IF ~Exists(b) THEN [state |-> "none"]
              ELSE [state |-> ClaimState(b), room |-> booking[b].room,
                    from |-> booking[b].from, to |-> booking[b].to, rooms |-> booking[b].rooms]

Ledger == INSTANCE RoomLedger WITH
            claim <- [b \in Bookings |-> ClaimOf(b)],
            offer <- [r \in Rooms |-> [d \in Days |-> Offered(r, d)]]

\* Every interleaving of transactions, clock and rollbacks is a behaviour of the
\* ledger: grants are whole and fit, lapsed holds never come back, reservations
\* never lapse, offers never drop below what is granted.
ImplementsLedger == Ledger!Spec
-----------------------------------------------------------------------------
(* Progress.  A web request or task ends (it is bounded by statement and   *)
(* request timeouts), so its locks are released; PostgreSQL queues the     *)
(* waiters of a row lock, so none is overtaken for ever; the five-minute   *)
(* beat keeps starting expire_pending, whose connection does not fail      *)
(* every single time.                                                      *)

Fairness ==
  /\ \A c \in Clients : /\ WF_vars(Work(c) \/ Rollback(c))
                        /\ SF_vars(LockRoom(c) \/ LockStay(c))
  /\ \A w \in Workers : /\ WF_vars(Expire(w))
                        /\ SF_vars(CheckChange(w)) /\ SF_vars(SaveChange(w))

FairSpec == Spec /\ Fairness

\* A hold that has lapsed is moved on, to EXPIRED if nobody acts on it first.
LapsedHoldsAreResolved ==
  \A b \in Bookings : (b \in Overdue) ~> (b \notin Overdue)
=============================================================================
