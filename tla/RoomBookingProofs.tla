------------------------- MODULE RoomBookingProofs -------------------------
(* Theorems about RoomBooking for every value of its constants.            *)
EXTENDS RoomBooking, FiniteSetTheorems, WellFoundedInduction, TLAPS

\* A transition's request names a row of the Booking table and that row's room,
\* although it was made before any lock was taken: rows are never deleted and
\* never move to another room.
RequestsRefer ==
  \A c \in Clients : request[c].kind = "change" =>
    Exists(request[c].booking) /\ booking[request[c].booking].room = request[c].room

(***************************************************************************)
(* Type correctness.                                                       *)
(***************************************************************************)
LEMMA LocksTyped ==
  ASSUME TypeOK, NEW c \in Clients
  PROVE  /\ ReleaseAll(c) => holder' \in [Rooms \cup Stays -> Clients \cup {Nobody}]
         /\ \A x \in Rooms \cup Stays :
              Lock(x, c) => holder' \in [Rooms \cup Stays -> Clients \cup {Nobody}]
  BY DEF TypeOK, ReleaseAll, Lock

LEMMA SessionsTyped ==
  ASSUME TypeOK, NEW c \in Clients
  PROVE  /\ End(c) => /\ stage' \in [Clients -> Stages]
                      /\ request' \in [Clients -> Requests \cup {NoRequest}]
                      /\ holder' \in [Rooms \cup Stays -> Clients \cup {Nobody}]
         /\ \A s \in Stages : Goto(c, s) =>
              /\ stage' \in [Clients -> Stages]
              /\ request' \in [Clients -> Requests \cup {NoRequest}]
         /\ \A req \in Requests : Begin(c, req) =>
              /\ stage' \in [Clients -> Stages]
              /\ request' \in [Clients -> Requests \cup {NoRequest}]
              /\ UNCHANGED <<clock, stayRow, calendar, booking, holder>>
  BY LocksTyped DEF TypeOK, End, Goto, Begin, Stages

LEMMA KindOfRequest ==
  ASSUME TypeOK, NEW c \in Clients, NEW k, NEW s, At(c, k, s)
  PROVE  /\ k = "create" => request[c] \in CreateRequests
         /\ k = "change" => request[c] \in ChangeRequests
         /\ k = "bulk"   => request[c] \in BulkRequests
         /\ k = "update" => request[c] \in RoomRequests
         /\ k = "pause"  => request[c] \in PauseRequests
  BY DEF TypeOK, At, Requests, NoRequest, CreateRequests, ChangeRequests, BulkRequests,
         RoomRequests, PauseRequests

LEMMA RowTyped ==
  ASSUME TypeOK, NEW b \in Bookings, Exists(b)
  PROVE  booking[b] \in BookingRows
  BY DEF TypeOK, Exists, NoBooking

LEMMA ChangesTyped ==
  ASSUME TypeOK, NEW b \in Bookings, Exists(b), NEW t \in Statuses \ {"PENDING"}
  PROVE  ChangeOf(b, t) \in Requests
  BY RowTyped DEF ChangeOf, Requests, ChangeRequests, BookingRows

\* A transaction that has started needs rooms and a stay that exist.
LEMMA NeedsTyped ==
  ASSUME TypeOK, NEW c \in Clients, request[c] # NoRequest
  PROVE  /\ RoomsOf(request[c]) \subseteq Rooms
         /\ StayWanted(request[c]) \in Stays
  BY StayOfRoom DEF TypeOK, RoomsOf, StayWanted, Requests, NoRequest, CreateRequests,
     ChangeRequests, BulkRequests, RoomRequests, PauseRequests

LEMMA TypeStep == TypeOK /\ RequestsRefer /\ [Next]_vars => TypeOK'
<1>2. ASSUME TypeOK, RequestsRefer, [Next]_vars PROVE TypeOK'
  <2> USE <1>2
  <2>1. CASE Tick
    BY <2>1 DEF TypeOK, Tick, stayRow, calendar, session, Exists
  <2>2. CASE \E s \in Stays : WriteStay(s)
    BY <2>2 DEF TypeOK, WriteStay, clock, calendar, session, Exists
  <2>3. ASSUME NEW w \in Workers, Expire(w) PROVE TypeOK'
    <3> w \in Clients BY WorkersAreClients
    <3>1. CASE ScanExpired(w)
      BY <3>1 DEF TypeOK, ScanExpired, Overdue, Exists, clock, stayRow, calendar, session
    <3>2. CASE BeginExpire(w)
      <4>1. PICK b \in expiring[w] : /\ Begin(w, ChangeOf(b, "EXPIRED"))
                                     /\ expiring' = [expiring EXCEPT ![w] = @ \ {b}]
        BY <3>2 DEF BeginExpire
      <4>2. ChangeOf(b, "EXPIRED") \in Requests
        BY <4>1, ChangesTyped DEF TypeOK, Statuses
      <4> QED BY <4>1, <4>2, SessionsTyped DEF TypeOK, clock, stayRow, calendar, Exists
    <3> QED BY <2>3, <3>1, <3>2 DEF Expire
  <2>4. ASSUME NEW c \in Clients, Ask(c) PROVE TypeOK'
    <3>1. \E req \in Requests : Begin(c, req)
      <4>1. CASE BeginCreate(c) BY <4>1 DEF BeginCreate, Requests
      <4>2. CASE BeginChange(c) BY <4>2, ChangesTyped DEF BeginChange, Statuses
      <4>3. CASE BeginBulk(c) BY <4>3 DEF BeginBulk, Requests
      <4>4. CASE BeginUpdate(c) BY <4>4 DEF BeginUpdate, Requests
      <4>5. CASE BeginPause(c) BY <4>5 DEF BeginPause, Requests
      <4> QED BY <2>4, <4>1, <4>2, <4>3, <4>4, <4>5 DEF Ask
    <3>2. UNCHANGED expiring
      BY <2>4 DEF Ask, BeginCreate, BeginChange, BeginBulk, BeginUpdate, BeginPause
    <3> QED BY <3>1, <3>2, SessionsTyped DEF TypeOK, clock, stayRow, calendar, Exists
  <2>5. ASSUME NEW c \in Clients, Work(c) PROVE TypeOK'
    <3>1. CASE LockRoom(c)
      <4>1. PICK r \in Unlocked(c), s \in Stages : Lock(r, c) /\ Goto(c, s)
        BY <3>1 DEF LockRoom, NextRooms, AfterRooms, Stages
      <4>2. DOMAIN holder = Rooms \cup Stays BY DEF TypeOK
      <4>3. holder' \in [Rooms \cup Stays -> Clients \cup {Nobody}]
        BY <4>1, <4>2 DEF Lock, TypeOK
      <4> QED BY <3>1, <4>1, <4>3, SessionsTyped
              DEF LockRoom, TypeOK, clock, stayRow, calendar, Exists
    <3>2. CASE LockStay(c)
      <4>1. holder' \in [Rooms \cup Stays -> Clients \cup {Nobody}]
        BY <3>2 DEF LockStay, Lock, TypeOK
      <4> QED BY <3>2, <4>1, SessionsTyped
              DEF LockStay, TypeOK, clock, stayRow, calendar, Exists, Stages
    <3>3. CASE CheckCreate(c) \/ CheckChange(c) \/ CheckBulk(c) \/ CheckUpdate(c) \/ CheckPause(c)
      <4>1. Decide(c)
        BY <3>3 DEF CheckCreate, CheckChange, CheckBulk, CheckUpdate, CheckPause
      <4> QED BY <4>1, SessionsTyped DEF Decide, TypeOK, clock, stayRow, calendar, Exists, Stages
    <3>4. CASE InsertBooking(c)
      <4>1. request[c] \in CreateRequests
        BY <3>4, KindOfRequest DEF InsertBooking
      <4> DEFINE req == request[c]
                 instant == bookingMode[StayOf[req.room]] = "INSTANT_BOOK"
                 row == [status  |-> IF instant THEN "CONFIRMED" ELSE "PENDING",
                         room    |-> req.room, from |-> req.from, to |-> req.to,
                         rooms   |-> req.rooms, key |-> req.key,
                         expires |-> IF instant THEN 0 ELSE HoldEnds]
      <4>a. row \in BookingRows
        BY <4>1, Bounds DEF BookingRows, CreateRequests, Statuses, TypeOK, HoldEnds
      <4>2. PICK b \in Bookings : ~Exists(b) /\ booking' = [booking EXCEPT ![b] = row]
        BY <3>4 DEF InsertBooking
      <4> HIDE DEF row
      <4>3. row.status # "NONE"
        BY <4>a DEF BookingRows, Statuses
      <4>4. \A x \in Bookings : Exists(x) => Exists(x)'
        BY <4>2, <4>3 DEF Exists, TypeOK
      <4>5. booking' \in [Bookings -> BookingRows \cup {NoBooking}]
        BY <4>a, <4>2 DEF TypeOK
      <4> QED BY <3>4, <4>4, <4>5, SessionsTyped
              DEF InsertBooking, TypeOK, clock, stayRow, calendar
    <3>5. CASE SaveChange(c)
      <4>1. request[c] \in ChangeRequests
        BY <3>5, KindOfRequest DEF SaveChange
      <4>2. request[c].booking \in Bookings /\ booking[request[c].booking] \in BookingRows
        BY <3>5, <4>1, RowTyped DEF SaveChange, At, RequestsRefer, ChangeRequests
      <4>3. booking' \in [Bookings -> BookingRows \cup {NoBooking}]
        BY <3>5, <4>1, <4>2 DEF SaveChange, TypeOK, BookingRows, ChangeRequests
      <4>4. \A x \in Bookings : Exists(x) => Exists(x)'
        BY <3>5, <4>1, <4>2 DEF SaveChange, TypeOK, Exists, BookingRows, ChangeRequests, Statuses
      <4> QED BY <3>5, <4>3, <4>4, SessionsTyped
              DEF SaveChange, TypeOK, clock, stayRow, calendar
    <3>6. CASE SaveBulk(c)
      <4> DEFINE r == request[c].room
                 nights == request[c].first..request[c].last
      <4>1. request[c] \in BulkRequests
        BY <3>6, KindOfRequest DEF SaveBulk
      <4>2. rowUnits' \in [Rooms -> [Days -> (0..MaxUnits) \cup {NoRow}]]
        BY <3>6, <4>1 DEF SaveBulk, TypeOK, BulkRequests, UnitsAfter, Offered
      <4>3. blocked' \in [Rooms -> SUBSET Days]
        <5>1. nights \subseteq Days BY <4>1, Bounds DEF BulkRequests, Days
        <5> QED BY <3>6, <4>1, <5>1 DEF SaveBulk, TypeOK, BulkRequests
      <4> QED BY <3>6, <4>2, <4>3, SessionsTyped DEF SaveBulk, TypeOK, clock, stayRow, Exists
    <3>7. CASE SaveUpdate(c)
      <4>1. request[c] \in RoomRequests
        BY <3>7, KindOfRequest DEF SaveUpdate
      <4> QED BY <3>7, <4>1, SessionsTyped
              DEF SaveUpdate, TypeOK, RoomRequests, clock, stayRow, Exists
    <3>8. CASE SavePause(c)
      BY <3>8, SessionsTyped, KindOfRequest
         DEF SavePause, TypeOK, clock, stayRow, calendar, Exists, StayStatuses, PauseRequests
    <3> QED BY <2>5, <3>1, <3>2, <3>3, <3>4, <3>5, <3>6, <3>7, <3>8 DEF Work
  <2>6. ASSUME NEW c \in Clients, Rollback(c) PROVE TypeOK'
    BY <2>6, SessionsTyped DEF Rollback, TypeOK, clock, stayRow, calendar, Exists
  <2>7. CASE UNCHANGED vars
    BY <2>7 DEF TypeOK, vars, clock, stayRow, calendar, session, Exists
  <2> QED BY <2>1, <2>2, <2>3, <2>4, <2>5, <2>6, <2>7 DEF Next
<1> QED BY <1>2

(***************************************************************************)
(* Rows stay where they are, so requests keep referring to them.           *)
(***************************************************************************)
LEMMA RowsStay ==
  ASSUME TypeOK, RequestsRefer, [Next]_vars, NEW b \in Bookings, Exists(b)
  PROVE  Exists(b)' /\ booking'[b].room = booking[b].room
<1>1. CASE \E c \in Clients : InsertBooking(c)
  BY <1>1 DEF InsertBooking, TypeOK, Exists
<1>2. ASSUME NEW c \in Clients, SaveChange(c)
      PROVE  Exists(b)' /\ booking'[b].room = booking[b].room
  <2>1. request[c] \in ChangeRequests
    BY <1>2, KindOfRequest DEF SaveChange
  <2>2. booking[b] \in BookingRows
    BY RowTyped
  <2> QED BY <1>2, <2>1, <2>2
          DEF SaveChange, TypeOK, Exists, ChangeRequests, Statuses, BookingRows
<1>3. CASE UNCHANGED booking
  BY <1>3 DEF Exists
<1>4. (\E c \in Clients : InsertBooking(c) \/ SaveChange(c)) \/ UNCHANGED booking
  BY DEF Next, vars, Tick, WriteStay, Expire, ScanExpired, BeginExpire, Begin, Ask, BeginCreate,
     BeginChange, BeginBulk, BeginUpdate, BeginPause, Work, LockRoom, LockStay, CheckCreate,
     CheckChange, CheckBulk, CheckUpdate, CheckPause, Decide, SaveBulk, SaveUpdate, SavePause,
     Rollback
<1> QED BY <1>1, <1>2, <1>3, <1>4

LEMMA RequestsSteps ==
  ASSUME TypeOK, [Next]_vars, NEW c \in Clients
  PROVE  \/ request'[c] = request[c]
         \/ request'[c] = NoRequest
         \/ stage[c] = "idle" /\ request'[c] \in Requests
              /\ (request'[c].kind = "change" =>
                    \E b \in Bookings : Exists(b) /\ \E t \in Statuses : request'[c] = ChangeOf(b, t))
<1> DEFINE Started(d) ==
      stage[d] = "idle" /\ request'[d] \in Requests
        /\ (request'[d].kind = "change" =>
              \E b \in Bookings : Exists(b) /\ \E t \in Statuses : request'[d] = ChangeOf(b, t))
<1>1. ASSUME NEW d \in Clients, NEW req \in Requests, Begin(d, req),
             req.kind = "change" =>
               \E b \in Bookings : Exists(b) /\ \E t \in Statuses : req = ChangeOf(b, t)
      PROVE  request'[c] = request[c] \/ Started(c)
  BY <1>1 DEF Begin, TypeOK
<1>2. CASE \E w \in Workers : BeginExpire(w)
  <2>0. PICK w \in Workers : BeginExpire(w)
    BY <1>2
  <2>1. PICK b \in expiring[w] : Begin(w, ChangeOf(b, "EXPIRED"))
    BY <2>0 DEF BeginExpire
  <2>2. b \in Bookings /\ Exists(b) /\ w \in Clients
    BY WorkersAreClients DEF TypeOK
  <2> QED BY <1>1, <2>1, <2>2, ChangesTyped DEF Statuses
<1>3. ASSUME NEW d \in Clients, Ask(d)
      PROVE  request'[c] = request[c] \/ Started(c)
  <2>1. CASE BeginChange(d)
    BY <1>1, <2>1, ChangesTyped DEF BeginChange, Statuses
  <2>2. CASE BeginCreate(d)
    BY <1>1, <2>2 DEF BeginCreate, Requests, CreateRequests
  <2>3. CASE BeginBulk(d)
    BY <1>1, <2>3 DEF BeginBulk, Requests, BulkRequests
  <2>4. CASE BeginUpdate(d)
    BY <1>1, <2>4 DEF BeginUpdate, Requests, RoomRequests
  <2>5. CASE BeginPause(d)
    BY <1>1, <2>5 DEF BeginPause, Requests, PauseRequests
  <2> QED BY <1>3, <2>1, <2>2, <2>3, <2>4, <2>5 DEF Ask
<1>4. ASSUME NEW d \in Clients, Work(d) \/ Rollback(d)
      PROVE  request'[c] = request[c] \/ request'[c] = NoRequest
  BY <1>4 DEF TypeOK, Work, LockRoom, LockStay, CheckCreate, CheckChange, CheckBulk, CheckUpdate,
     CheckPause, Decide, Goto, InsertBooking, SaveChange, SaveBulk, SaveUpdate, SavePause,
     Rollback, End
<1>5. CASE UNCHANGED request
  BY <1>5
<1> QED BY <1>2, <1>3, <1>4, <1>5
        DEF Next, vars, session, Tick, WriteStay, Expire, ScanExpired

LEMMA ReferStep == TypeOK /\ RequestsRefer /\ [Next]_vars => RequestsRefer'
<1> SUFFICES ASSUME TypeOK, RequestsRefer, [Next]_vars, NEW c \in Clients,
                    request'[c].kind = "change"
             PROVE  /\ booking'[request'[c].booking].status # "NONE"
                    /\ booking'[request'[c].booking].room = request'[c].room
  BY DEF RequestsRefer, Exists
<1> DEFINE q == request'[c]
<1>1. CASE request'[c] = request[c]
  <2>1. q.booking \in Bookings
    BY <1>1 DEF TypeOK, Requests, NoRequest, CreateRequests, ChangeRequests, BulkRequests,
       RoomRequests, PauseRequests
  <2> QED BY <1>1, <2>1, RowsStay DEF RequestsRefer, Exists
<1>2. CASE request'[c] = NoRequest
  BY <1>2 DEF NoRequest
<1>3. CASE \E b \in Bookings : Exists(b) /\ \E t \in Statuses : request'[c] = ChangeOf(b, t)
  BY <1>3, RowsStay DEF ChangeOf, Exists
<1> QED BY <1>1, <1>2, <1>3, RequestsSteps

\* Init and every action keep every variable in its type.
THEOREM TypeCorrect == Spec => []TypeOK
<1>1. Init => TypeOK /\ RequestsRefer
  BY Bounds, StayOfRoom DEF Init, TypeOK, RequestsRefer, Stages, StayStatuses, Modes, NoRequest
<1>2. TypeOK /\ RequestsRefer /\ [Next]_vars => TypeOK' /\ RequestsRefer'
  BY TypeStep, ReferStep
<1> QED BY <1>1, <1>2, PTL DEF Spec

(***************************************************************************)
(* Counting rooms.  WFMin over the naturals stands in for induction.       *)
(***************************************************************************)
LEMMA LeastNat == ASSUME NEW T, T \subseteq Nat, T # {} PROVE \E x \in T : \A y \in T : x <= y
<1> DEFINE R == {ss \in Nat \X Nat : ss[1] < ss[2]}
<1>1. R = OpToRel(<, Nat)
  BY DEF OpToRel
<1>2. IsWellFoundedOn(R, Nat)
  BY <1>1, NatLessThanWellFounded
<1>3. \E x \in T : \A y \in T : ~(<<y, x>> \in R)
  <2> HIDE DEF R
  <2> QED BY <1>2, WFMin
<1>4. PICK x \in T : \A y \in T : ~(<<y, x>> \in R)
  BY <1>3
<1>5. ASSUME NEW y \in T PROVE x <= y
  <2>1. x \in Nat /\ y \in Nat OBVIOUS
  <2>2. ~(y < x) BY <1>4, <2>1
  <2> QED BY <2>1, <2>2
<1> QED BY <1>5

Count(f, B) == Cardinality({u \in B \X (1..MaxUnits) : u[2] <= f[u[1]].rooms})

LEMMA CountFinite ==
  ASSUME NEW f, NEW B \in SUBSET Bookings
  PROVE  /\ IsFiniteSet({u \in B \X (1..MaxUnits) : u[2] <= f[u[1]].rooms})
         /\ Count(f, B) \in Nat
<1> DEFINE Units == {u \in B \X (1..MaxUnits) : u[2] <= f[u[1]].rooms}
<1>1. IsFiniteSet(1..MaxUnits) BY FS_Interval, Bounds
<1>2. IsFiniteSet(B) BY FS_Subset, BookingsFinite
<1>3. IsFiniteSet(B \X (1..MaxUnits)) BY <1>1, <1>2, FS_Product
<1>4. Units \in SUBSET (B \X (1..MaxUnits)) OBVIOUS
<1>5. IsFiniteSet(Units) BY <1>3, <1>4, FS_Subset
<1> QED BY <1>5, FS_CardinalityType DEF Count

LEMMA CountMonotone ==
  ASSUME NEW f, NEW g, NEW B \in SUBSET Bookings, NEW A \in SUBSET B,
         \A b \in A : f[b].rooms = g[b].rooms
  PROVE  Count(f, A) <= Count(g, B)
<1> DEFINE Fewer == {u \in A \X (1..MaxUnits) : u[2] <= f[u[1]].rooms}
           More  == {u \in B \X (1..MaxUnits) : u[2] <= g[u[1]].rooms}
<1>1. Fewer \in SUBSET More OBVIOUS
<1>2. IsFiniteSet(More) BY CountFinite
<1> QED BY <1>1, <1>2, FS_Subset DEF Count

LEMMA CountEmpty == ASSUME NEW f PROVE Count(f, {}) = 0
<1>1. {u \in {} \X (1..MaxUnits) : u[2] <= f[u[1]].rooms} = {} OBVIOUS
<1> QED BY <1>1, FS_EmptySet DEF Count

\* One more booking adds at most its own rooms.
LEMMA CountAdd ==
  ASSUME NEW f, NEW B \in SUBSET Bookings, NEW b \in Bookings, NEW n \in 1..MaxUnits,
         f[b].rooms = n
  PROVE  Count(f, B \cup {b}) <= Count(f, B) + n
<1> DEFINE Own == {b} \X (1..n)
           Units(A) == {u \in A \X (1..MaxUnits) : u[2] <= f[u[1]].rooms}
<1>1. IsFiniteSet(Own) /\ Cardinality(Own) = n
  <2>1. IsFiniteSet(1..n) /\ Cardinality(1..n) = n BY FS_Interval, Bounds
  <2>2. IsFiniteSet({b}) /\ Cardinality({b}) = 1 BY FS_Singleton
  <2>3. IsFiniteSet(Own) /\ Cardinality(Own) = Cardinality({b}) * Cardinality(1..n)
    BY <2>1, <2>2, FS_Product
  <2> QED BY <2>1, <2>2, <2>3
<1>2. Units(B \cup {b}) = Units(B) \cup Own
  BY Bounds
<1>3. IsFiniteSet(Units(B)) /\ Cardinality(Units(B)) \in Nat
  BY CountFinite DEF Count
<1>4. Count(f, B) = Cardinality(Units(B)) /\ Count(f, B \cup {b}) = Cardinality(Units(B \cup {b}))
  BY DEF Count
<1> HIDE DEF Own, Units
<1>5. Cardinality(Units(B) \cup Own)
        = Cardinality(Units(B)) + Cardinality(Own) - Cardinality(Units(B) \cap Own)
  BY <1>1, <1>3, FS_Union
<1>6. Cardinality(Units(B) \cap Own) \in Nat
  <2>1. IsFiniteSet(Units(B) \cap Own) BY <1>3, FS_Intersection
  <2> QED BY <2>1, FS_CardinalityType
<1>7. ASSUME NEW x \in Nat, NEW i \in Nat, NEW z, z = x + n - i PROVE z <= x + n
  BY <1>7, Bounds
<1> QED BY <1>1, <1>2, <1>3, <1>4, <1>5, <1>6, <1>7

LEMMA ReservedCounted ==
  ASSUME NEW r, NEW d
  PROVE  /\ ReservedOn(r, d) \in SUBSET Bookings
         /\ reserved_units(r, d) = Count(booking, ReservedOn(r, d))
         /\ reserved_units(r, d) \in Nat
         /\ ReservedOn(r, d)' \in SUBSET Bookings
         /\ reserved_units(r, d)' = Count(booking', ReservedOn(r, d)')
         /\ reserved_units(r, d)' \in Nat
<1>1. ReservedOn(r, d) \in SUBSET Bookings /\ ReservedOn(r, d)' \in SUBSET Bookings
  BY DEF ReservedOn
<1>2. /\ reserved_units(r, d) = Count(booking, ReservedOn(r, d))
      /\ reserved_units(r, d)' = Count(booking', ReservedOn(r, d)')
  BY DEF reserved_units, Total, RoomsTaken, Count
<1> QED BY <1>1, <1>2, CountFinite

\* The rooms reserved on any night are at most those reserved on some arrival
\* day: perform_update may look at arrival days only.
LEMMA PeakIsOnArrival ==
  ASSUME TypeOK, NEW r \in Rooms, NEW q \in Nat,
         \A d \in ArrivalDays(r) : reserved_units(r, d) <= q,
         NEW d \in Days, d >= today
  PROVE  reserved_units(r, d) <= q
<1> DEFINE R == ReservedOn(r, d)
           At0(b) == IF booking[b].from > today THEN booking[b].from ELSE today
<1>0. /\ R \in SUBSET Bookings
      /\ reserved_units(r, d) = Count(booking, R) /\ reserved_units(r, d) \in Nat
  BY ReservedCounted
<1>1. CASE R = {}
  BY <1>0, <1>1, CountEmpty
<1>2. CASE R # {}
  <2>1. \A b \in R : /\ At0(b) \in Nat /\ At0(b) <= d /\ booking[b].from <= At0(b)
                     /\ booking[b] \in BookingRows /\ d < booking[b].to
                     /\ At0(b) \in ArrivalDays(r) /\ booking[b].room = r /\ Reserving(b)
    <3> SUFFICES ASSUME NEW b \in R
                 PROVE  /\ At0(b) \in Nat /\ At0(b) <= d /\ booking[b].from <= At0(b)
                        /\ booking[b] \in BookingRows /\ d < booking[b].to
                        /\ At0(b) \in ArrivalDays(r) /\ booking[b].room = r /\ Reserving(b)
      OBVIOUS
    <3>1. b \in Bookings /\ Reserving(b) /\ Covers(b, r, d) BY DEF ReservedOn
    <3>2. booking[b] \in BookingRows BY <3>1, RowTyped DEF Reserving, Exists
    <3>3. booking[b].from \in Nat /\ today \in Nat /\ d \in Nat /\ booking[b].to \in Nat
      BY <3>2, Bounds DEF BookingRows, Days, TypeOK
    <3> QED BY <3>1, <3>2, <3>3 DEF Covers, ArrivalDays
  <2> DEFINE Gaps == {d - At0(b) : b \in R}
  <2>2. Gaps \subseteq Nat /\ Gaps # {}
    BY <1>2, <2>1 DEF Days
  <2>3. PICK g \in Gaps : \A x \in Gaps : g <= x
    <3> HIDE DEF Gaps
    <3> QED BY <2>2, LeastNat
  <2>4. PICK b \in R : g = d - At0(b) BY <2>3
  <2> DEFINE m == At0(b)
  <2>5. m \in ArrivalDays(r) /\ m <= d /\ m \in Nat BY <2>1
  <2>6. \A x \in R : At0(x) <= m
    <3> SUFFICES ASSUME NEW x \in R PROVE At0(x) <= m OBVIOUS
    <3>1. g <= d - At0(x) BY <2>3
    <3> QED BY <3>1, <2>4, <2>1 DEF Days
  <2>7. R \subseteq ReservedOn(r, m)
    <3> SUFFICES ASSUME NEW x \in R PROVE x \in ReservedOn(r, m) OBVIOUS
    <3>1. x \in Bookings /\ Reserving(x) BY DEF ReservedOn
    <3>2. /\ booking[x].from \in Nat /\ booking[x].to \in Nat /\ booking[x].from <= At0(x)
          /\ At0(x) \in Nat /\ booking[x].room = r /\ d < booking[x].to
      BY <2>1, Bounds DEF BookingRows, Days
    <3>3. At0(x) <= m BY <2>6
    <3> HIDE DEF m, At0
    <3> QED BY <3>1, <3>2, <3>3, <2>5 DEF ReservedOn, Covers, Days
  <2>8. Count(booking, R) <= reserved_units(r, m) /\ reserved_units(r, m) \in Nat
    BY <2>7, ReservedCounted, CountMonotone
  <2>9. reserved_units(r, m) <= q BY <2>5
  <2> QED BY <1>0, <2>8, <2>9
<1> QED BY <1>1, <1>2

(***************************************************************************)
(* Locks.  A transaction that has got past a lock keeps it until it ends.  *)
(***************************************************************************)
Engaged == \A c \in Clients : stage[c] # "idle" => request[c] # NoRequest

LEMMA SessionSteps ==
  ASSUME TypeOK, [Next]_vars, NEW c \in Clients
  PROVE  \/ stage'[c] = stage[c] /\ request'[c] = request[c]
         \/ stage'[c] = "idle"
         \/ stage[c] = "idle" /\ stage'[c] = "room" /\ request'[c] # NoRequest
         \/ LockRoom(c) \/ LockStay(c)
         \/ stage[c] = "check" /\ stage'[c] = "commit" /\ request'[c] = request[c]
<1> DEFINE Goal == \/ stage'[c] = stage[c] /\ request'[c] = request[c]
                   \/ stage'[c] = "idle"
                   \/ stage[c] = "idle" /\ stage'[c] = "room" /\ request'[c] # NoRequest
                   \/ LockRoom(c) \/ LockStay(c)
                   \/ stage[c] = "check" /\ stage'[c] = "commit" /\ request'[c] = request[c]
<1>1. ASSUME NEW d \in Clients, NEW req \in Requests, Begin(d, req) PROVE Goal
  BY <1>1 DEF Begin, TypeOK, Requests, NoRequest, CreateRequests, ChangeRequests, BulkRequests,
     RoomRequests, PauseRequests
<1>2. ASSUME NEW w \in Workers, BeginExpire(w) PROVE Goal
  <2>1. PICK b \in expiring[w] : Begin(w, ChangeOf(b, "EXPIRED"))
    BY <1>2 DEF BeginExpire
  <2>2. b \in Bookings /\ Exists(b) /\ w \in Clients
    BY WorkersAreClients DEF TypeOK
  <2> QED BY <1>1, <2>1, <2>2, ChangesTyped DEF Statuses
<1>3. ASSUME NEW d \in Clients, Ask(d) PROVE Goal
  <2>1. \E req \in Requests : Begin(d, req)
    <3>1. CASE BeginCreate(d) BY <3>1 DEF BeginCreate, Requests
    <3>2. CASE BeginChange(d) BY <3>2, ChangesTyped DEF BeginChange, Statuses
    <3>3. CASE BeginBulk(d) BY <3>3 DEF BeginBulk, Requests
    <3>4. CASE BeginUpdate(d) BY <3>4 DEF BeginUpdate, Requests
    <3>5. CASE BeginPause(d) BY <3>5 DEF BeginPause, Requests
    <3> QED BY <1>3, <3>1, <3>2, <3>3, <3>4, <3>5 DEF Ask
  <2> QED BY <1>1, <2>1
<1>4. ASSUME NEW d \in Clients, Work(d) \/ Rollback(d) PROVE Goal
  <2>1. CASE d = c
    BY <1>4, <2>1 DEF TypeOK, Work, CheckCreate, CheckChange, CheckBulk, CheckUpdate, CheckPause,
       Decide, Goto, At, InsertBooking, SaveChange, SaveBulk, SaveUpdate, SavePause, Rollback, End
  <2>2. CASE d # c
    BY <1>4, <2>2 DEF TypeOK, Work, LockRoom, LockStay, CheckCreate, CheckChange, CheckBulk,
       CheckUpdate, CheckPause, Decide, Goto, InsertBooking, SaveChange, SaveBulk, SaveUpdate,
       SavePause, Rollback, End
  <2> QED BY <2>1, <2>2
<1>5. CASE UNCHANGED session
  BY <1>5 DEF session
<1> QED BY <1>2, <1>3, <1>4, <1>5 DEF Next, vars, Tick, WriteStay, Expire, ScanExpired

LEMMA HoldersKeep ==
  ASSUME TypeOK, [Next]_vars, NEW c \in Clients, NEW x \in Rooms \cup Stays, holder[x] = c
  PROVE  holder'[x] = c \/ stage'[c] = "idle"
<1>0. c # Nobody BY NullsApart
<1>1. ASSUME NEW d \in Clients, LockRoom(d) \/ LockStay(d) PROVE holder'[x] = c
  BY <1>0, <1>1 DEF LockRoom, LockStay, Lock, Free, TypeOK
<1>2. ASSUME NEW d \in Clients, End(d) PROVE holder'[x] = c \/ stage'[c] = "idle"
  BY <1>2 DEF End, ReleaseAll, TypeOK
<1>3. \/ UNCHANGED holder
      \/ \E d \in Clients : LockRoom(d) \/ LockStay(d) \/ End(d)
  BY DEF Next, vars, Tick, WriteStay, Expire, ScanExpired, BeginExpire, Begin, Ask, BeginCreate,
     BeginChange, BeginBulk, BeginUpdate, BeginPause, Work, CheckCreate, CheckChange, CheckBulk,
     CheckUpdate, CheckPause, Decide, InsertBooking, SaveChange, SaveBulk, SaveUpdate, SavePause,
     Rollback
<1> QED BY <1>1, <1>2, <1>3

LEMMA EngagedStep == TypeOK /\ Engaged /\ [Next]_vars => Engaged'
  BY SessionSteps DEF Engaged, LockRoom, LockStay, Goto, TypeOK

LEMMA LocksStep == TypeOK /\ Engaged /\ LocksHeld /\ [Next]_vars => LocksHeld'
<1> SUFFICES ASSUME TypeOK, Engaged, LocksHeld, [Next]_vars, NEW c \in Clients
             PROVE  /\ stage'[c] \in {"stay", "check", "commit"} => Unlocked(c)' = {}
                    /\ stage'[c] \in {"check", "commit"} /\ request'[c].kind \in {"create", "pause"}
                         => holder'[StayWanted(request'[c])] = c
  BY DEF LocksHeld
<1>1. ASSUME request'[c] = request[c], stage[c] # "idle", stage'[c] # "idle",
             NEW x \in RoomsOf(request[c]) \cup {StayWanted(request[c])}, holder[x] = c
      PROVE  holder'[x] = c
  BY <1>1, NeedsTyped, HoldersKeep DEF Engaged
<1>2. CASE /\ request'[c] = request[c]
           /\ stage'[c] = stage[c] \/ (stage[c] = "check" /\ stage'[c] = "commit")
  BY <1>1, <1>2 DEF LocksHeld, Unlocked
<1>3. CASE LockRoom(c)
  <2>1. PICK r \in Unlocked(c) :
          /\ Lock(r, c)
          /\ Goto(c, IF Unlocked(c) # {r} THEN "room"
                     ELSE IF request[c].kind \in {"create", "pause"} THEN "stay" ELSE "check")
    BY <1>3 DEF LockRoom, NextRooms, AfterRooms
  <2>2. request'[c] = request[c] BY <2>1 DEF Goto
  <2>3. r \in RoomsOf(request[c]) /\ r \in Rooms
    BY <1>3, NeedsTyped DEF Unlocked, LockRoom, Engaged
  <2>4. CASE Unlocked(c) # {r}
    BY <2>1, <2>4 DEF Goto, TypeOK
  <2>5. CASE Unlocked(c) = {r}
    <3>1. stage'[c] = IF request[c].kind \in {"create", "pause"} THEN "stay" ELSE "check"
      BY <2>1, <2>5 DEF Goto, TypeOK
    <3>2. \A x \in RoomsOf(request[c]) : holder'[x] = c
      <4> SUFFICES ASSUME NEW x \in RoomsOf(request[c]) PROVE holder'[x] = c OBVIOUS
      <4>1. CASE x = r BY <4>1, <2>1, <2>3 DEF Lock, TypeOK
      <4>2. CASE x # r
        <5>1. holder[x] = c BY <4>2, <2>5 DEF Unlocked
        <5> QED BY <5>1, <1>1, <1>3, <2>2, <3>1 DEF LockRoom
      <4> QED BY <4>1, <4>2
    <3> QED BY <2>2, <3>1, <3>2 DEF Unlocked
  <2> QED BY <2>4, <2>5
<1>4. CASE LockStay(c)
  <2>1. request'[c] = request[c] /\ stage'[c] = "check" /\ stage[c] = "stay"
    BY <1>4 DEF LockStay, Goto, TypeOK
  <2>2. Unlocked(c) = {} BY <2>1 DEF LocksHeld
  <2>3. Unlocked(c)' = {} BY <1>1, <2>1, <2>2 DEF Unlocked
  <2>4. StayWanted(request[c]) \in Stays BY <2>1, NeedsTyped DEF Engaged
  <2>5. holder'[StayWanted(request[c])] = c BY <1>4, <2>4 DEF LockStay, Lock, TypeOK
  <2> QED BY <2>1, <2>3, <2>5
<1>5. CASE stage'[c] \in {"idle", "room"}
  BY <1>5
<1>6. \/ stage'[c] = stage[c] /\ request'[c] = request[c]
      \/ stage'[c] \in {"idle", "room"}
      \/ LockRoom(c) \/ LockStay(c)
      \/ stage[c] = "check" /\ stage'[c] = "commit" /\ request'[c] = request[c]
  BY SessionSteps
<1> QED BY <1>2, <1>3, <1>4, <1>5, <1>6

(***************************************************************************)
(* Calm steps: what happens to a room type in any step that neither adds   *)
(* to what is reserved on it nor edits what it offers.                     *)
(***************************************************************************)
SameTerms(b) == /\ booking'[b].room = booking[b].room
                /\ booking'[b].from = booking[b].from /\ booking'[b].to = booking[b].to
                /\ booking'[b].rooms = booking[b].rooms

Calm(r) == /\ today' >= today
           /\ \A b \in Bookings : Exists(b) => SameTerms(b)
           /\ \A b \in Bookings : Reserving(b)' /\ booking'[b].room = r => Reserving(b)
           /\ quantity'[r] = quantity[r] /\ rowUnits'[r] = rowUnits[r]

LEMMA ReservingExists == \A b \in Bookings : Reserving(b) => Exists(b)
  BY DEF Reserving, Exists

LEMMA CalmShrinks ==
  ASSUME NEW r, Calm(r), NEW d
  PROVE  /\ reserved_units(r, d)' <= reserved_units(r, d)
         /\ \A b \in Bookings :
              Exists(b) => Total(ReservedOn(r, d) \cup {b})' <= Total(ReservedOn(r, d) \cup {b})
<1>1. \A b \in ReservedOn(r, d)' : b \in ReservedOn(r, d) /\ booking'[b].rooms = booking[b].rooms
  BY ReservingExists DEF Calm, SameTerms, ReservedOn, Covers
<1>2. ReservedOn(r, d)' \in SUBSET ReservedOn(r, d)
  BY <1>1
<1>3. reserved_units(r, d)' <= reserved_units(r, d)
  BY <1>1, <1>2, ReservedCounted, CountMonotone
<1>4. ASSUME NEW b \in Bookings, Exists(b)
      PROVE  Total(ReservedOn(r, d) \cup {b})' <= Total(ReservedOn(r, d) \cup {b})
  <2> DEFINE A == ReservedOn(r, d)' \cup {b}
             B == ReservedOn(r, d) \cup {b}
  <2>1. A \in SUBSET B /\ B \in SUBSET Bookings BY <1>2, ReservedCounted
  <2>2. \A x \in A : booking'[x].rooms = booking[x].rooms
    BY <1>1, <1>4 DEF Calm, SameTerms
  <2>3. Count(booking', A) <= Count(booking, B)
    <3> HIDE DEF A, B
    <3> QED BY <2>1, <2>2, CountMonotone
  <2>4. Total(B) = Count(booking, B) /\ Total(ReservedOn(r, d) \cup {b})' = Count(booking', A)
    BY DEF Total, RoomsTaken, Count
  <2> QED BY <2>3, <2>4
<1> QED BY <1>3, <1>4

RoomFits(r) == \A d \in Days : d >= today => reserved_units(r, d) <= Offered(r, d)
RoomRows(r) == \A d \in Days : d >= today /\ rowUnits[r][d] # NoRow => rowUnits[r][d] <= quantity[r]

LEMMA OfferedTyped ==
  ASSUME TypeOK, NEW r \in Rooms, NEW d \in Days
  PROVE  Offered(r, d) \in 0..MaxUnits
  BY DEF TypeOK, Offered

LEMMA CalmRoom ==
  ASSUME TypeOK, TypeOK', NEW r \in Rooms, Calm(r), RoomFits(r), RoomRows(r)
  PROVE  RoomFits(r)' /\ RoomRows(r)'
<1>1. ASSUME NEW d \in Days, d >= today'
      PROVE  reserved_units(r, d)' <= Offered(r, d)'
  <2>1. d >= today BY <1>1 DEF Calm, TypeOK, Days
  <2>2. Offered(r, d)' = Offered(r, d) BY DEF Calm, Offered
  <2>3. reserved_units(r, d) <= Offered(r, d) BY <2>1 DEF RoomFits
  <2>4. /\ reserved_units(r, d)' <= reserved_units(r, d)
        /\ reserved_units(r, d)' \in Nat /\ reserved_units(r, d) \in Nat
    BY CalmShrinks, ReservedCounted
  <2> QED BY <2>2, <2>3, <2>4, OfferedTyped, Bounds
<1>2. RoomRows(r)'
  BY DEF RoomRows, Calm, TypeOK, Days
<1> QED BY <1>1, <1>2 DEF RoomFits

LEMMA StillGoodCalm ==
  ASSUME TypeOK, TypeOK', NEW req \in Requests, req.kind # "pause", Calm(req.room),
         req.kind = "change" => Exists(req.booking), StillGood(req)
  PROVE  StillGood(req)'
<1> DEFINE r == req.room
<1>0. r \in Rooms
  BY DEF Requests, CreateRequests, ChangeRequests, BulkRequests, RoomRequests, PauseRequests
<1>1. \A d \in Days : /\ Offered(r, d)' = Offered(r, d) /\ Offered(r, d) \in Nat
                      /\ d >= today' => d >= today
                      /\ reserved_units(r, d)' <= reserved_units(r, d)
                      /\ reserved_units(r, d)' \in Nat /\ reserved_units(r, d) \in Nat
  <2> TAKE d \in Days
  <2>1. Offered(r, d)' = Offered(r, d) BY DEF Calm, Offered
  <2>2. Offered(r, d) \in Nat BY <1>0, OfferedTyped, Bounds
  <2>3. d >= today' => d >= today BY DEF Calm, TypeOK, Days
  <2> QED BY <2>1, <2>2, <2>3, CalmShrinks, ReservedCounted
<1>2. CASE req \in CreateRequests
  <2>1. req.kind = "create" /\ req.rooms \in Nat BY <1>2, Bounds DEF CreateRequests
  <2>2. req.from..(req.to - 1) \subseteq Days BY <1>2, Bounds DEF CreateRequests, Days
  <2>3. \A d \in req.from..(req.to - 1) :
          d >= today => reserved_units(r, d) + req.rooms <= Offered(r, d)
    BY <2>1 DEF StillGood
  <2>4. \A d \in req.from..(req.to - 1) :
          d >= today' => reserved_units(r, d)' + req.rooms <= Offered(r, d)'
    <3> SUFFICES ASSUME NEW d \in req.from..(req.to - 1), d >= today'
                 PROVE  reserved_units(r, d)' + req.rooms <= Offered(r, d)'
      OBVIOUS
    <3> HIDE DEF r
    <3> QED BY <1>1, <2>1, <2>2, <2>3
  <2> QED BY <2>1, <2>4 DEF StillGood
<1>3. CASE req \in ChangeRequests /\ req.target = "CONFIRMED"
  <2>1. req.kind = "change" /\ req.booking \in Bookings BY <1>3 DEF ChangeRequests
  <2> DEFINE b == req.booking
  <2>2. SUFFICES ASSUME NEW d \in Days, d >= today', Covers(b, r, d)'
                 PROVE  Total(ReservedOn(r, d) \cup {b})' <= Offered(r, d)'
    BY <1>3, <2>1 DEF StillGood, FitsWith
  <2>3. Covers(b, r, d) BY <2>1, <2>2 DEF Covers, Calm, SameTerms
  <2>4. Total(ReservedOn(r, d) \cup {b}) <= Offered(r, d)
    BY <1>1, <1>3, <2>1, <2>2, <2>3 DEF StillGood, FitsWith
  <2>5. Total(ReservedOn(r, d) \cup {b})' <= Total(ReservedOn(r, d) \cup {b})
    BY <2>1, CalmShrinks
  <2>6. Total(ReservedOn(r, d) \cup {b})' \in Nat /\ Total(ReservedOn(r, d) \cup {b}) \in Nat
    <3>1. Total(ReservedOn(r, d) \cup {b}) = Count(booking, ReservedOn(r, d) \cup {b})
      BY DEF Total, RoomsTaken, Count
    <3>2. Total(ReservedOn(r, d) \cup {b})' = Count(booking', ReservedOn(r, d)' \cup {b})
      BY DEF Total, RoomsTaken, Count
    <3>3. /\ ReservedOn(r, d) \cup {b} \in SUBSET Bookings
          /\ ReservedOn(r, d)' \cup {b} \in SUBSET Bookings
      BY <2>1, ReservedCounted
    <3> QED BY <3>1, <3>2, <3>3, CountFinite
  <2> HIDE DEF r, b
  <2> QED BY <1>1, <2>4, <2>5, <2>6
<1>4. CASE req \in BulkRequests
  <2>1. req.kind = "bulk" /\ req.first..req.last \subseteq Days
    BY <1>4, Bounds DEF BulkRequests, Days
  <2>2. SUFFICES ASSUME NEW d \in req.first..req.last
                 PROVE  /\ reserved_units(r, d)' <= UnitsAfter(req, d)'
                        /\ UnitsAfter(req, d)' <= quantity'[r]
    BY <2>1 DEF StillGood
  <2>3. d \in Days BY <2>1
  <2>4. UnitsAfter(req, d)' = UnitsAfter(req, d) /\ UnitsAfter(req, d) \in Nat
    BY <1>1, <1>4, <2>3, Bounds DEF UnitsAfter, BulkRequests
  <2>5. reserved_units(r, d) <= UnitsAfter(req, d) /\ UnitsAfter(req, d) <= quantity[r]
    BY <2>1 DEF StillGood
  <2>6. quantity'[r] = quantity[r] BY DEF Calm
  <2> HIDE DEF r
  <2> QED BY <1>1, <2>3, <2>4, <2>5, <2>6
<1>5. CASE req \in RoomRequests
  <2>1. req.kind = "update" /\ req.quantity \in Nat BY <1>5, Bounds DEF RoomRequests
  <2>2. SUFFICES ASSUME NEW d \in Days, d >= today'
                 PROVE  IF rowUnits'[r][d] = NoRow THEN reserved_units(r, d)' <= req.quantity
                        ELSE rowUnits'[r][d] <= req.quantity
    BY <2>1 DEF StillGood
  <2>3. IF rowUnits[r][d] = NoRow THEN reserved_units(r, d) <= req.quantity
        ELSE rowUnits[r][d] <= req.quantity
    BY <1>1, <2>1, <2>2 DEF StillGood
  <2>4. rowUnits'[r] = rowUnits[r] BY DEF Calm
  <2> HIDE DEF r
  <2> QED BY <1>1, <2>1, <2>3, <2>4
<1>6. CASE req \in ChangeRequests /\ req.target # "CONFIRMED"
  BY <1>6 DEF StillGood, ChangeRequests
<1>7. req \notin PauseRequests BY DEF PauseRequests
<1> QED BY <1>2, <1>3, <1>4, <1>5, <1>6, <1>7 DEF Requests

(***************************************************************************)
(* Deciding: each check establishes what the commit relies on.             *)
(***************************************************************************)
Calendar == (\A r \in Rooms : RoomFits(r)) /\ (\A r \in Rooms : RoomRows(r))

LEMMA CalendarMeans == Calendar <=> NeverOversold /\ CalendarWithinQuantity
  BY DEF Calendar, RoomFits, RoomRows, NeverOversold, CalendarWithinQuantity

LEMMA CreateDecided ==
  ASSUME TypeOK, NEW c \in Clients, CheckCreate(c) PROVE StillGood(request[c])
<1> DEFINE req == request[c]
           r == req.room
<1>1. req \in CreateRequests BY KindOfRequest DEF CheckCreate
<1>2. SUFFICES ASSUME NEW d \in req.from..(req.to - 1)
               PROVE  reserved_units(r, d) + req.rooms <= Offered(r, d)
  BY <1>1 DEF StillGood, CreateRequests
<1>3. r \in Rooms /\ d \in Days /\ req.rooms \in Nat /\ req.rooms >= 1
  BY <1>1, Bounds DEF CreateRequests, Days
<1>4. inventory(r, d) >= req.rooms BY DEF CheckCreate
<1>5. reserved_units(r, d) \in Nat /\ Offered(r, d) \in Nat
  BY <1>3, ReservedCounted, OfferedTyped, Bounds
<1> HIDE DEF req, r
<1> QED BY <1>3, <1>4, <1>5 DEF inventory

LEMMA ChangeDecided ==
  ASSUME TypeOK, RequestsRefer, Calendar, NEW c \in Clients, CheckChange(c)
  PROVE  StillGood(request[c])
<1> DEFINE req == request[c]
           b == req.booking
<1>1. req \in ChangeRequests /\ req.kind = "change"
  BY KindOfRequest DEF CheckChange, ChangeRequests
<1>2. b \in Bookings /\ req.room \in Rooms BY <1>1 DEF ChangeRequests
<1>3. CASE req.target # "CONFIRMED"
  BY <1>1, <1>3 DEF StillGood
<1>4. CASE req.target = "CONFIRMED"
  <2>1. Reserving(b)
    BY <1>4 DEF CheckChange, Allowed, Targets, TRANSITIONS, Reserving
  <2>2. SUFFICES ASSUME NEW d \in Days, d >= today, Covers(b, req.room, d)
                 PROVE  Total(ReservedOn(req.room, d) \cup {b}) <= Offered(req.room, d)
    BY <1>1, <1>4 DEF StillGood, FitsWith
  <2>3. ReservedOn(req.room, d) \cup {b} = ReservedOn(req.room, d)
    BY <1>2, <2>1, <2>2 DEF ReservedOn
  <2> QED BY <1>2, <2>2, <2>3 DEF Calendar, RoomFits, reserved_units
<1> QED BY <1>3, <1>4

LEMMA BulkDecided ==
  ASSUME TypeOK, NEW c \in Clients, CheckBulk(c) PROVE StillGood(request[c])
<1> DEFINE req == request[c]
<1>1. req \in BulkRequests /\ req.kind = "bulk" /\ req.room \in Rooms
  BY KindOfRequest DEF CheckBulk, BulkRequests
<1>2. SUFFICES ASSUME NEW d \in req.first..req.last
               PROVE  /\ reserved_units(req.room, d) <= UnitsAfter(req, d)
                      /\ UnitsAfter(req, d) <= quantity[req.room]
  BY <1>1 DEF StillGood
<1>3. d \in Days BY <1>1, Bounds DEF BulkRequests, Days
<1>4. UnitsAfter(req, d) >= reserved_units(req.room, d) /\ UnitsAfter(req, d) <= quantity[req.room]
  BY DEF CheckBulk, RowValid
<1>5. UnitsAfter(req, d) \in Nat
  BY <1>1, <1>3, OfferedTyped, Bounds DEF UnitsAfter, BulkRequests
<1>6. reserved_units(req.room, d) \in Nat BY ReservedCounted
<1> HIDE DEF req
<1> QED BY <1>4, <1>5, <1>6

LEMMA UpdateDecided ==
  ASSUME TypeOK, Calendar, NEW c \in Clients, CheckUpdate(c) PROVE StillGood(request[c])
<1> DEFINE req == request[c]
           r == req.room
<1>1. req \in RoomRequests /\ req.kind = "update" /\ r \in Rooms /\ req.quantity \in Nat
  BY KindOfRequest, Bounds DEF CheckUpdate, RoomRequests
<1>2. SUFFICES ASSUME NEW d \in Days, d >= today
               PROVE  IF rowUnits[r][d] = NoRow THEN reserved_units(r, d) <= req.quantity
                      ELSE rowUnits[r][d] <= req.quantity
  BY <1>1 DEF StillGood
<1>3. /\ quantity[r] \in Nat /\ rowUnits[r][d] \in Nat \cup {NoRow}
      /\ reserved_units(r, d) \in Nat
  BY <1>1, ReservedCounted, Bounds DEF TypeOK
<1>4. CASE req.quantity < quantity[r]
  <2>1. \A x \in ArrivalDays(r) : reserved_units(r, x) <= req.quantity
    BY <1>4 DEF CheckUpdate, QuantityValid, QuantityCoversBookings
  <2>2. rowUnits[r][d] # NoRow => rowUnits[r][d] <= req.quantity
    BY <1>2, <1>4 DEF CheckUpdate, QuantityValid
  <2>3. reserved_units(r, d) <= req.quantity
    <3> HIDE DEF r, req
    <3> QED BY <1>1, <1>2, <2>1, PeakIsOnArrival
  <2> QED BY <2>2, <2>3
<1>5. CASE ~(req.quantity < quantity[r])
  <2>1. reserved_units(r, d) <= Offered(r, d)
    BY <1>1, <1>2 DEF Calendar, RoomFits
  <2>2. rowUnits[r][d] # NoRow => rowUnits[r][d] <= quantity[r]
    BY <1>1, <1>2 DEF Calendar, RoomRows
  <2> HIDE DEF r, req
  <2> QED BY <1>1, <1>3, <1>5, <2>1, <2>2 DEF Offered
<1> QED BY <1>4, <1>5

LEMMA Decided ==
  ASSUME TypeOK, RequestsRefer, Calendar, NEW c \in Clients,
         stage[c] = "check", stage'[c] = "commit", [Next]_vars
  PROVE  request'[c].kind = "pause" \/ StillGood(request[c])
<1>1. \/ CheckCreate(c) \/ CheckChange(c) \/ CheckBulk(c) \/ CheckUpdate(c)
      \/ CheckPause(c) /\ request'[c] = request[c]
  <2>2. ASSUME NEW d \in Clients, NEW req, Begin(d, req) PROVE FALSE
    BY <2>2 DEF Begin, TypeOK
  <2>3. ASSUME NEW d \in Clients, Ask(d) \/ Rollback(d) PROVE FALSE
    BY <2>2, <2>3 DEF Ask, BeginCreate, BeginChange, BeginBulk, BeginUpdate, BeginPause, Rollback,
       End, TypeOK
  <2>4. ASSUME NEW w \in Workers, Expire(w) PROVE FALSE
    BY <2>2, <2>4, WorkersAreClients DEF Expire, ScanExpired, BeginExpire, session
  <2>5. ASSUME NEW d \in Clients, Work(d)
        PROVE  \/ CheckCreate(c) \/ CheckChange(c) \/ CheckBulk(c) \/ CheckUpdate(c)
               \/ CheckPause(c) /\ request'[c] = request[c]
    <3>1. CASE d # c
      BY <2>5, <3>1 DEF Work, LockRoom, LockStay, CheckCreate, CheckChange, CheckBulk, CheckUpdate,
         CheckPause, Decide, Goto, InsertBooking, SaveChange, SaveBulk, SaveUpdate, SavePause, End,
         TypeOK
    <3>2. CASE d = c
      BY <2>5, <3>2 DEF Work, LockRoom, LockStay, InsertBooking, SaveChange, SaveBulk, SaveUpdate,
         SavePause, End, At, CheckPause, Decide, Goto, TypeOK
    <3> QED BY <3>1, <3>2
  <2> QED BY <2>3, <2>4, <2>5 DEF Next, vars, session, Tick, WriteStay
<1> QED BY <1>1, CreateDecided, ChangeDecided, BulkDecided, UpdateDecided DEF CheckPause, At

(***************************************************************************)
(* Steps that only look, and steps that commit.                            *)
(***************************************************************************)
Quiet == UNCHANGED <<booking, quantity, rowUnits>> /\ now' >= now /\ today' >= today

LEMMA QuietOrCommit ==
  ASSUME TypeOK, [Next]_vars
  PROVE  \/ Quiet
         \/ \E c \in Clients : InsertBooking(c) \/ SaveChange(c) \/ SaveBulk(c) \/ SaveUpdate(c)
<1>0. now \in Nat /\ today \in Nat /\ now >= now /\ today >= today BY DEF TypeOK
<1>1. CASE Tick
  BY <1>0, <1>1 DEF Tick, Quiet, calendar
<1>2. CASE UNCHANGED vars
  BY <1>0, <1>2 DEF Quiet, vars, clock, calendar
<1>3. CASE \E s \in Stays : WriteStay(s)
  BY <1>0, <1>3 DEF WriteStay, Quiet, clock, calendar
<1>4. CASE \E w \in Workers : Expire(w)
  BY <1>0, <1>4 DEF Expire, ScanExpired, BeginExpire, Begin, Quiet, clock, calendar
<1>5. CASE \E c \in Clients : Ask(c)
  BY <1>0, <1>5 DEF Ask, BeginCreate, BeginChange, BeginBulk, BeginUpdate, BeginPause, Begin, Quiet,
     clock, calendar
<1>6. ASSUME NEW c \in Clients, Work(c) \/ Rollback(c)
      PROVE  Quiet \/ InsertBooking(c) \/ SaveChange(c) \/ SaveBulk(c) \/ SaveUpdate(c)
  BY <1>0, <1>6 DEF Work, Rollback, LockRoom, LockStay, CheckCreate, CheckChange, CheckBulk,
     CheckUpdate, CheckPause, Decide, SavePause, Quiet, clock, calendar
<1> QED BY <1>1, <1>2, <1>3, <1>4, <1>5, <1>6 DEF Next

LEMMA QuietIsCalm == ASSUME TypeOK, TypeOK', Quiet PROVE \A r \in Rooms : Calm(r)
<1>1. ASSUME NEW b \in Bookings, Reserving(b)' PROVE Reserving(b)
  <2>1. booking'[b] = booking[b] BY DEF Quiet
  <2>2. CASE booking[b].status = "CONFIRMED" BY <2>2 DEF Reserving
  <2>3. CASE booking[b].status = "PENDING" /\ booking[b].expires > now'
    <3>1. booking[b] \in BookingRows BY <2>3, RowTyped DEF Exists
    <3>2. booking[b].expires \in Nat /\ now \in Nat /\ now' \in Nat /\ now' >= now
      BY <3>1 DEF BookingRows, TypeOK, Quiet
    <3>3. booking[b].expires > now BY <2>3, <3>2
    <3> QED BY <2>3, <3>3 DEF Reserving
  <2> QED BY <1>1, <2>1, <2>2, <2>3 DEF Reserving
<1> QED BY <1>1 DEF Calm, Quiet, SameTerms

LEMMA KeepsGood ==
  ASSUME TypeOK, TypeOK', RequestsRefer, Engaged, NEW e \in Clients,
         stage[e] # "idle", request'[e] = request[e],
         request[e].kind # "pause" => StillGood(request[e]) /\ Calm(request[e].room)
  PROVE  StillGood(request[e])'
<1> DEFINE req == request[e]
<1>1. req \in Requests BY DEF TypeOK, Engaged
<1>2. CASE req.kind = "pause"
  BY <1>2 DEF StillGood
<1>3. CASE req.kind # "pause"
  <2>1. req.kind = "change" => Exists(req.booking) BY DEF RequestsRefer
  <2>2. StillGood(req) /\ Calm(req.room) BY <1>3
  <2>3. PICK q : q = req OBVIOUS
  <2>4. StillGood(q)'
    <3> HIDE DEF req
    <3> QED BY <1>1, <1>3, <2>1, <2>2, <2>3, StillGoodCalm
  <2> QED BY <2>3, <2>4
<1> QED BY <1>2, <1>3

Promised == Calendar /\ DecisionsHold

LEMMA QuietStep ==
  ASSUME TypeOK, TypeOK', RequestsRefer, Engaged, Promised, [Next]_vars, Quiet
  PROVE  Promised'
<1>1. \A r \in Rooms : Calm(r) BY QuietIsCalm
<1>2. Calendar' BY <1>1, CalmRoom DEF Promised, Calendar
<1>3. ASSUME NEW e \in Clients, stage'[e] = "commit" PROVE StillGood(request[e])'
  <2>1. /\ request'[e] = request[e] /\ stage[e] \in {"check", "commit"}
    BY <1>3, SessionSteps DEF LockRoom, LockStay, Goto, AfterRooms, TypeOK
  <2>2. request[e].kind # "pause" => StillGood(request[e])
    BY <1>3, <2>1, Decided DEF Promised, DecisionsHold
  <2>3. request[e].kind # "pause" => request[e].room \in Rooms
    BY <2>1 DEF TypeOK, Engaged, Requests, NoRequest, CreateRequests, ChangeRequests, BulkRequests,
       RoomRequests, PauseRequests
  <2> QED BY <1>1, <2>1, <2>2, <2>3, KeepsGood
<1> QED BY <1>2, <1>3 DEF Promised, DecisionsHold

\* Two transactions past their locks never work on the same room type.
LEMMA RoomsApart ==
  ASSUME LocksHeld, NEW c \in Clients, NEW e \in Clients, c # e,
         stage[c] = "commit", stage[e] = "commit",
         request[c].kind # "pause", request[e].kind # "pause"
  PROVE  request[c].room # request[e].room
  BY DEF LocksHeld, Unlocked, RoomsOf

\* What is left to show for a step that commits: the room type it works on.
LEMMA CommitStep ==
  ASSUME TypeOK, TypeOK', RequestsRefer, Engaged, LocksHeld, Promised, [Next]_vars,
         NEW c \in Clients, stage[c] = "commit", End(c), request[c].kind # "pause",
         \A r \in Rooms : r # request[c].room => Calm(r),
         \A r \in Rooms : r = request[c].room => RoomFits(r)' /\ RoomRows(r)'
  PROVE  Promised'
<1>1. ASSUME NEW r \in Rooms PROVE RoomFits(r)' /\ RoomRows(r)'
  BY CalmRoom DEF Promised, Calendar
<1>2. ASSUME NEW e \in Clients, stage'[e] = "commit" PROVE StillGood(request[e])'
  <2>1. e # c /\ stage[e] = "commit" /\ request'[e] = request[e]
    BY <1>2 DEF End, TypeOK
  <2>2. request[e].kind # "pause" => request[e].room \in Rooms /\ request[e].room # request[c].room
    BY <2>1, RoomsApart DEF TypeOK, Engaged, Requests, NoRequest, CreateRequests, ChangeRequests,
       BulkRequests, RoomRequests, PauseRequests
  <2> QED BY <2>1, <2>2, KeepsGood DEF Promised, DecisionsHold
<1> QED BY <1>1, <1>2 DEF Promised, Calendar, DecisionsHold

LEMMA InsertStep ==
  ASSUME TypeOK, TypeOK', RequestsRefer, Engaged, LocksHeld, Promised, [Next]_vars,
         NEW c \in Clients, InsertBooking(c)
  PROVE  Promised'
<1>0. PICK req : req = request[c] OBVIOUS
<1> DEFINE instant == bookingMode[StayOf[req.room]] = "INSTANT_BOOK"
           row == [status  |-> IF instant THEN "CONFIRMED" ELSE "PENDING",
                   room    |-> req.room, from |-> req.from, to |-> req.to,
                   rooms   |-> req.rooms, key |-> req.key,
                   expires |-> IF instant THEN 0 ELSE HoldEnds]
<1>1. /\ req \in CreateRequests /\ req.kind = "create" /\ stage[c] = "commit" /\ End(c)
      /\ UNCHANGED <<now, today, quantity, rowUnits>>
  BY <1>0, KindOfRequest DEF InsertBooking, CreateRequests, At, clock, calendar
<1>2. PICK b \in Bookings : ~Exists(b) /\ booking' = [booking EXCEPT ![b] = row]
  BY <1>0 DEF InsertBooking
<1>3. /\ \A x \in Bookings : x # b => booking'[x] = booking[x]
      /\ booking'[b].room = req.room /\ booking'[b].rooms = req.rooms
      /\ booking'[b].from = req.from /\ booking'[b].to = req.to
  BY <1>2 DEF TypeOK
<1>4. \A x \in Bookings : x # b => SameTerms(x) /\ (Reserving(x)' => Reserving(x))
  BY <1>1, <1>3 DEF SameTerms, Reserving
<1>5. today' >= today BY <1>1 DEF TypeOK
<1>6. \A r \in Rooms : r # req.room => Calm(r)
  BY <1>1, <1>2, <1>3, <1>4, <1>5 DEF Calm
<1>7. ASSUME NEW d \in Days, d >= today'
      PROVE  reserved_units(req.room, d)' <= Offered(req.room, d)'
  <2> DEFINE r == req.room
             R == ReservedOn(r, d)
             RR == ReservedOn(r, d)'
  <2>0. r \in Rooms /\ req.rooms \in 1..MaxUnits /\ req.from \in Nat /\ req.to \in Nat
    BY <1>1, Bounds DEF CreateRequests, Days
  <2>1. Offered(r, d)' = Offered(r, d) /\ Offered(r, d) \in Nat
    BY <1>1, <2>0, OfferedTyped, Bounds DEF Offered
  <2>2. RR \in SUBSET (R \cup {b}) /\ R \in SUBSET Bookings /\ b \notin R
    <3>1. \A x \in RR : x # b => x \in R
      BY <1>3, <1>4 DEF ReservedOn, Covers
    <3>2. b \notin R BY <1>2, ReservingExists DEF ReservedOn
    <3> QED BY <3>1, <3>2, ReservedCounted
  <2>3. \A x \in R : booking'[x].rooms = booking[x].rooms
    BY <1>3, <2>2
  <2> DEFINE n == reserved_units(r, d)
             nn == reserved_units(r, d)'
  <2>4. n = Count(booking, R) /\ nn = Count(booking', RR) /\ n \in Nat /\ nn \in Nat
    BY ReservedCounted
  <2>5. Count(booking', R) <= Count(booking, R) /\ Count(booking', R) \in Nat
    BY <2>2, <2>3, CountMonotone, CountFinite
  <2> HIDE DEF R, RR, n, nn
  <2>6. CASE b \in RR
    <3>1. req.from <= d /\ d < req.to
      BY <2>6, <1>3 DEF RR, ReservedOn, Covers
    <3>2. d \in req.from..(req.to - 1) BY <3>1, <2>0 DEF Days
    <3>3. n + req.rooms <= Offered(r, d)
      <4>1. d >= today BY <1>1, <1>7
      <4>2. StillGood(request[c]) BY <1>1 DEF Promised, DecisionsHold
      <4> QED BY <4>1, <4>2, <3>2, <1>0, <1>1 DEF StillGood, n
    <3>4. Count(booking', R \cup {b}) <= Count(booking', R) + req.rooms
      BY <1>3, <2>0, <2>2, CountAdd
    <3>5. Count(booking', RR) <= Count(booking', R \cup {b}) /\ Count(booking', R \cup {b}) \in Nat
      <4>1. R \cup {b} \in SUBSET Bookings BY <2>2
      <4> QED BY <4>1, <2>2, CountMonotone, CountFinite
    <3>6. ASSUME NEW u \in Nat, NEW v \in Nat, NEW x \in Nat, NEW o \in Nat, NEW k \in Nat, NEW m \in Nat,
                 u <= v, v <= x + k, x <= m, m + k <= o
          PROVE  u <= o
      BY <3>6
    <3>7. req.rooms \in Nat BY <2>0, Bounds
    <3>8. nn <= Offered(r, d)
      BY <2>1, <2>4, <2>5, <3>3, <3>4, <3>5, <3>6, <3>7
    <3> QED BY <3>8, <2>1 DEF nn
  <2>7. CASE b \notin RR
    <3>1. RR \in SUBSET R BY <2>2, <2>7
    <3>2. nn <= n
      BY <2>2, <2>3, <2>4, <3>1, CountMonotone
    <3>3. n <= Offered(r, d)
      BY <1>1, <1>7, <2>0 DEF Promised, Calendar, RoomFits, n
    <3>4. nn <= Offered(r, d) BY <2>1, <2>4, <3>2, <3>3
    <3> QED BY <3>4, <2>1 DEF nn
  <2> QED BY <2>6, <2>7
<1>8. \A r \in Rooms : r = req.room => RoomFits(r)'
  BY <1>7 DEF RoomFits
<1>9. \A r \in Rooms : RoomRows(r)'
  BY <1>1 DEF RoomRows, Promised, Calendar
<1> QED BY <1>0, <1>1, <1>6, <1>8, <1>9, CommitStep

LEMMA SaveChangeStep ==
  ASSUME TypeOK, TypeOK', RequestsRefer, Engaged, LocksHeld, Promised, [Next]_vars,
         NEW c \in Clients, SaveChange(c)
  PROVE  Promised'
<1>0. PICK req, b : req = request[c] /\ b = req.booking OBVIOUS
<1>1. /\ req \in ChangeRequests /\ req.kind = "change" /\ stage[c] = "commit" /\ End(c)
      /\ UNCHANGED <<now, today, quantity, rowUnits>>
      /\ b \in Bookings /\ Exists(b) /\ booking[b].room = req.room /\ req.room \in Rooms
      /\ req.target # "PENDING" /\ req.target \in Statuses
  BY <1>0, KindOfRequest DEF SaveChange, ChangeRequests, At, clock, calendar, RequestsRefer
<1>2. booking' = [booking EXCEPT ![b].status = req.target]
  BY <1>0 DEF SaveChange
<1>3. /\ \A x \in Bookings : x # b => booking'[x] = booking[x]
      /\ booking'[b] = [booking[b] EXCEPT !.status = req.target]
  BY <1>1, <1>2 DEF TypeOK
<1>4. booking[b] \in BookingRows BY <1>1, RowTyped
<1>5. SameTerms(b) /\ booking'[b].status = req.target
  BY <1>3, <1>4 DEF SameTerms, BookingRows
<1>6. /\ \A x \in Bookings : SameTerms(x)
      /\ \A x \in Bookings : x # b => (Reserving(x)' => Reserving(x))
  BY <1>1, <1>3, <1>5 DEF SameTerms, Reserving
<1>7. today' >= today BY <1>1 DEF TypeOK
<1>8. /\ StillGood(req)
      /\ \A r \in Rooms : RoomFits(r) /\ RoomRows(r)
  BY <1>0, <1>1 DEF Promised, DecisionsHold, Calendar
<1>9. \A r \in Rooms : r # req.room => Calm(r)
  BY <1>1, <1>5, <1>6, <1>7 DEF Calm, SameTerms
<1>10. CASE req.target # "CONFIRMED"
  <2>1. ~Reserving(b)' BY <1>1, <1>5, <1>10 DEF Reserving
  <2>2. \A r \in Rooms : Calm(r) BY <1>1, <1>6, <1>7, <2>1 DEF Calm
  <2> QED BY <1>1, <1>8, <1>0, <2>2, CalmRoom, CommitStep
<1>11. CASE req.target = "CONFIRMED"
  <2>1. ASSUME NEW d \in Days, d >= today'
        PROVE  reserved_units(req.room, d)' <= Offered(req.room, d)'
    <3> DEFINE r == req.room
               R == ReservedOn(r, d)
               RR == ReservedOn(r, d)'
               n == reserved_units(r, d)
               nn == reserved_units(r, d)'
    <3>1. Offered(r, d)' = Offered(r, d) /\ Offered(r, d) \in Nat
      BY <1>1, OfferedTyped, Bounds DEF Offered
    <3>2. RR \in SUBSET (R \cup {b}) /\ R \in SUBSET Bookings
      <4>1. \A x \in RR : x # b => x \in R
        BY <1>6 DEF ReservedOn, Covers, SameTerms
      <4> QED BY <4>1, ReservedCounted
    <3>3. \A x \in R \cup {b} : booking'[x].rooms = booking[x].rooms
      BY <1>1, <1>6, <3>2 DEF SameTerms
    <3>4. n = Count(booking, R) /\ nn = Count(booking', RR) /\ n \in Nat /\ nn \in Nat
      BY ReservedCounted
    <3>5. b \in RR => Total(R \cup {b}) <= Offered(r, d)
      <4> SUFFICES ASSUME b \in RR PROVE Total(R \cup {b}) <= Offered(r, d) OBVIOUS
      <4>1. Covers(b, r, d) BY <1>1, <1>6 DEF ReservedOn, Covers, SameTerms
      <4>2. d >= today BY <1>1, <2>1
      <4> QED BY <4>1, <4>2, <1>0, <1>1, <1>8, <1>11 DEF StillGood, FitsWith
    <3>6. Total(R \cup {b}) = Count(booking, R \cup {b})
      BY DEF Total, RoomsTaken, Count
    <3>7. n <= Offered(r, d)
      BY <1>1, <1>8, <2>1 DEF RoomFits
    <3> HIDE DEF R, RR, n, nn
    <3>8. CASE b \in RR
      <4>1. R \cup {b} \in SUBSET Bookings BY <1>1, <3>2
      <4>2. Count(booking', RR) <= Count(booking, R \cup {b}) /\ Count(booking, R \cup {b}) \in Nat
        BY <3>2, <3>3, <4>1, CountMonotone, CountFinite
      <4>3. nn <= Offered(r, d) BY <3>1, <3>4, <3>5, <3>6, <3>8, <4>2
      <4> QED BY <4>3, <3>1 DEF nn
    <3>9. CASE b \notin RR
      <4>1. RR \in SUBSET R BY <3>2, <3>9
      <4>2. nn <= n BY <3>2, <3>3, <3>4, <4>1, CountMonotone
      <4>3. nn <= Offered(r, d) BY <3>1, <3>4, <3>7, <4>2
      <4> QED BY <4>3, <3>1 DEF nn
    <3> QED BY <3>8, <3>9
  <2>2. \A r \in Rooms : r = req.room => RoomFits(r)'
    BY <2>1 DEF RoomFits
  <2>3. \A r \in Rooms : RoomRows(r)'
    BY <1>1, <1>8 DEF RoomRows
  <2> QED BY <1>1, <1>0, <1>9, <2>2, <2>3, CommitStep
<1> QED BY <1>10, <1>11

LEMMA SaveBulkStep ==
  ASSUME TypeOK, TypeOK', RequestsRefer, Engaged, LocksHeld, Promised, [Next]_vars,
         NEW c \in Clients, SaveBulk(c)
  PROVE  Promised'
<1>0. PICK req, r0 : req = request[c] /\ r0 = req.room OBVIOUS
<1>1. /\ req \in BulkRequests /\ req.kind = "bulk" /\ stage[c] = "commit" /\ End(c)
      /\ UNCHANGED <<now, today, quantity, booking>> /\ r0 \in Rooms
      /\ rowUnits' = [rowUnits EXCEPT ![r0] =
           [d \in Days |-> IF d \in req.first..req.last THEN UnitsAfter(req, d) ELSE @[d]]]
  BY <1>0, KindOfRequest DEF SaveBulk, BulkRequests, At, clock, calendar
<1>2. \A b \in Bookings : SameTerms(b) /\ (Reserving(b)' => Reserving(b))
  BY <1>1 DEF SameTerms, Reserving
<1>3. today' >= today BY <1>1 DEF TypeOK
<1>4. \A r \in Rooms : r # r0 => Calm(r)
  <2>1. \A r \in Rooms : r # r0 => rowUnits'[r] = rowUnits[r]
    BY <1>1 DEF TypeOK
  <2> QED BY <1>1, <1>2, <1>3, <2>1 DEF Calm
<1>5. StillGood(req) /\ RoomFits(r0) /\ RoomRows(r0)
  BY <1>0, <1>1 DEF Promised, DecisionsHold, Calendar
<1>6. ASSUME NEW d \in Days, d >= today'
      PROVE  /\ reserved_units(r0, d)' <= Offered(r0, d)'
             /\ rowUnits'[r0][d] # NoRow => rowUnits'[r0][d] <= quantity'[r0]
  <2>1. reserved_units(r0, d)' = reserved_units(r0, d) /\ d >= today
    BY <1>1, <1>6 DEF reserved_units, Total, RoomsTaken, ReservedOn, Reserving, Covers
  <2>2. rowUnits'[r0][d] = IF d \in req.first..req.last THEN UnitsAfter(req, d) ELSE rowUnits[r0][d]
    BY <1>1 DEF TypeOK
  <2>3. CASE d \in req.first..req.last
    <3>1. reserved_units(r0, d) <= UnitsAfter(req, d) /\ UnitsAfter(req, d) <= quantity[r0]
      BY <1>0, <1>1, <1>5, <2>3 DEF StillGood
    <3>2. UnitsAfter(req, d) # NoRow
      BY <1>0, <1>1, OfferedTyped, Bounds, NullsApart DEF UnitsAfter, BulkRequests
    <3> QED BY <1>1, <2>1, <2>2, <2>3, <3>1, <3>2 DEF Offered
  <2>4. CASE d \notin req.first..req.last
    <3>1. reserved_units(r0, d) <= Offered(r0, d) BY <1>5, <2>1 DEF RoomFits
    <3>2. rowUnits[r0][d] # NoRow => rowUnits[r0][d] <= quantity[r0]
      BY <1>5, <2>1 DEF RoomRows
    <3> QED BY <1>1, <2>1, <2>2, <2>4, <3>1, <3>2 DEF Offered
  <2> QED BY <2>3, <2>4
<1>7. \A r \in Rooms : r = r0 => RoomFits(r)' /\ RoomRows(r)'
  BY <1>6 DEF RoomFits, RoomRows
<1> QED BY <1>0, <1>1, <1>4, <1>7, CommitStep

LEMMA SaveUpdateStep ==
  ASSUME TypeOK, TypeOK', RequestsRefer, Engaged, LocksHeld, Promised, [Next]_vars,
         NEW c \in Clients, SaveUpdate(c)
  PROVE  Promised'
<1>0. PICK req, r0 : req = request[c] /\ r0 = req.room OBVIOUS
<1>1. /\ req \in RoomRequests /\ req.kind = "update" /\ stage[c] = "commit" /\ End(c)
      /\ UNCHANGED <<now, today, rowUnits, booking>> /\ r0 \in Rooms
      /\ quantity' = [quantity EXCEPT ![r0] = req.quantity]
  BY <1>0, KindOfRequest DEF SaveUpdate, RoomRequests, At, clock
<1>2. \A b \in Bookings : SameTerms(b) /\ (Reserving(b)' => Reserving(b))
  BY <1>1 DEF SameTerms, Reserving
<1>3. today' >= today BY <1>1 DEF TypeOK
<1>4. \A r \in Rooms : r # r0 => Calm(r)
  <2>1. \A r \in Rooms : r # r0 => quantity'[r] = quantity[r]
    BY <1>1 DEF TypeOK
  <2> QED BY <1>1, <1>2, <1>3, <2>1 DEF Calm
<1>5. StillGood(req) /\ RoomFits(r0) /\ RoomRows(r0)
  BY <1>0, <1>1 DEF Promised, DecisionsHold, Calendar
<1>6. ASSUME NEW d \in Days, d >= today'
      PROVE  /\ reserved_units(r0, d)' <= Offered(r0, d)'
             /\ rowUnits'[r0][d] # NoRow => rowUnits'[r0][d] <= quantity'[r0]
  <2>1. reserved_units(r0, d)' = reserved_units(r0, d) /\ d >= today
    BY <1>1, <1>6 DEF reserved_units, Total, RoomsTaken, ReservedOn, Reserving, Covers
  <2>2. quantity'[r0] = req.quantity /\ rowUnits'[r0][d] = rowUnits[r0][d]
    BY <1>1 DEF TypeOK
  <2>3. IF rowUnits[r0][d] = NoRow THEN reserved_units(r0, d) <= req.quantity
        ELSE rowUnits[r0][d] <= req.quantity
    BY <1>0, <1>1, <1>5, <2>1 DEF StillGood
  <2>4. reserved_units(r0, d) <= Offered(r0, d) BY <1>5, <2>1 DEF RoomFits
  <2> QED BY <2>1, <2>2, <2>3, <2>4 DEF Offered
<1>7. \A r \in Rooms : r = r0 => RoomFits(r)' /\ RoomRows(r)'
  BY <1>6 DEF RoomFits, RoomRows
<1> QED BY <1>0, <1>1, <1>4, <1>7, CommitStep

(***************************************************************************)
(* The inductive invariant and the theorems.                               *)
(***************************************************************************)
IInv == TypeOK /\ RequestsRefer /\ Engaged /\ LocksHeld /\ Promised

LEMMA InitInv == Init => IInv
<1> SUFFICES ASSUME Init PROVE IInv OBVIOUS
<1>1. TypeOK /\ RequestsRefer
  BY Bounds, StayOfRoom DEF Init, TypeOK, RequestsRefer, Stages, StayStatuses, Modes, NoRequest
<1>2. Engaged /\ LocksHeld /\ DecisionsHold
  BY DEF Init, Engaged, LocksHeld, DecisionsHold
<1>3. \A r \in Rooms : RoomRows(r)
  BY DEF Init, RoomRows
<1>4. ASSUME NEW r \in Rooms, NEW d \in Days PROVE reserved_units(r, d) <= Offered(r, d)
  <2>1. ReservedOn(r, d) = {} BY DEF Init, ReservedOn, Reserving, NoBooking
  <2>2. reserved_units(r, d) = 0 BY <2>1, ReservedCounted, CountEmpty
  <2>3. Offered(r, d) \in Nat BY <1>1, OfferedTyped, Bounds
  <2> QED BY <2>2, <2>3
<1> QED BY <1>1, <1>2, <1>3, <1>4 DEF IInv, Promised, Calendar, RoomFits

LEMMA NextInv == IInv /\ [Next]_vars => IInv'
<1> SUFFICES ASSUME IInv, [Next]_vars PROVE IInv' OBVIOUS
<1>1. TypeOK' /\ RequestsRefer' /\ Engaged' /\ LocksHeld'
  BY TypeStep, ReferStep, EngagedStep, LocksStep DEF IInv
<1>2. Promised'
  BY <1>1, QuietOrCommit, QuietStep, InsertStep, SaveChangeStep, SaveBulkStep, SaveUpdateStep DEF IInv
<1> QED BY <1>1, <1>2 DEF IInv

LEMMA InvHolds == Spec => []IInv
  BY InitInv, NextInv, PTL DEF Spec

\* However transactions, clock and rollbacks interleave, no night from today on
\* has more rooms reserved than the host offers on it.
THEOREM NoOversell == Spec => []NeverOversold
<1>1. IInv => NeverOversold BY CalendarMeans DEF IInv, Promised
<1> QED BY <1>1, InvHolds, PTL

\* A calendar row from today on never offers more rooms than the room type has.
THEOREM RowsWithinQuantity == Spec => []CalendarWithinQuantity
<1>1. IInv => CalendarWithinQuantity BY CalendarMeans DEF IInv, Promised
<1> QED BY <1>1, InvHolds, PTL

\* A transaction holds the rows its check and commit rely on.
THEOREM LocksAreHeld == Spec => []LocksHeld
<1>1. IInv => LocksHeld BY DEF IInv
<1> QED BY <1>1, InvHolds, PTL

\* What a transaction's check found still holds when it commits.
THEOREM DecisionsStand == Spec => []DecisionsHold
<1>1. IInv => DecisionsHold BY DEF IInv, Promised
<1> QED BY <1>1, InvHolds, PTL

(***************************************************************************)
(* Statuses.  A transition that has been checked stays legal until it is   *)
(* saved: nobody else changes a booking of a room one has locked.          *)
(***************************************************************************)
ChangesLegal ==
  \A c \in Clients : At(c, "change", "commit") =>
    request[c].target \in Targets(booking[request[c].booking].status)

LEMMA BookingWrites ==
  ASSUME TypeOK, [Next]_vars
  PROVE  (\E c \in Clients : InsertBooking(c) \/ SaveChange(c)) \/ UNCHANGED booking
  BY DEF Next, vars, Tick, WriteStay, Expire, ScanExpired, BeginExpire, Begin, Ask, BeginCreate,
     BeginChange, BeginBulk, BeginUpdate, BeginPause, Work, LockRoom, LockStay, CheckCreate,
     CheckChange, CheckBulk, CheckUpdate, CheckPause, Decide, SaveBulk, SaveUpdate, SavePause,
     Rollback

LEMMA ChangeChecked ==
  ASSUME TypeOK, [Next]_vars, NEW c \in Clients, At(c, "change", "check"), stage'[c] = "commit"
  PROVE  Allowed(booking[request[c].booking], request[c].target) /\ UNCHANGED booking
<1>1. ASSUME NEW d \in Clients, NEW req \in Requests, Begin(d, req) PROVE FALSE
  BY <1>1 DEF Begin, TypeOK, At
<1>2. \A w \in Workers : ~BeginExpire(w)
  <2> SUFFICES ASSUME NEW w \in Workers, BeginExpire(w) PROVE FALSE OBVIOUS
  <2>1. PICK b \in expiring[w] : Begin(w, ChangeOf(b, "EXPIRED")) BY DEF BeginExpire
  <2>2. w \in Clients BY WorkersAreClients
  <2> QED BY <2>1, <2>2 DEF Begin, TypeOK, At
<1>3. ASSUME NEW d \in Clients, Ask(d) PROVE FALSE
  BY <1>3 DEF Ask, BeginCreate, BeginChange, BeginBulk, BeginUpdate, BeginPause, Begin, TypeOK, At
<1>4. ASSUME NEW d \in Clients, d # c, Work(d) \/ Rollback(d) PROVE FALSE
  BY <1>4 DEF TypeOK, At, Work, LockRoom, LockStay, CheckCreate, CheckChange, CheckBulk,
     CheckUpdate, CheckPause, Decide, Goto, InsertBooking, SaveChange, SaveBulk, SaveUpdate,
     SavePause, Rollback, End
<1>5. CASE Work(c) \/ Rollback(c)
  <2>1. CheckChange(c)
    BY <1>5 DEF TypeOK, At, Work, LockRoom, LockStay, CheckCreate, CheckBulk, CheckUpdate,
       CheckPause, InsertBooking, SaveChange, SaveBulk, SaveUpdate, SavePause, Rollback, End
  <2> QED BY <2>1 DEF CheckChange, Decide
<1>6. CASE UNCHANGED session
  BY <1>6 DEF session, At
<1> QED BY <1>2, <1>3, <1>4, <1>5, <1>6 DEF Next, vars, Tick, WriteStay, Expire, ScanExpired

LEMMA LegalStep == IInv /\ ChangesLegal /\ [Next]_vars => ChangesLegal'
<1> SUFFICES ASSUME IInv, ChangesLegal, [Next]_vars, NEW e \in Clients,
                    stage'[e] = "commit", request'[e].kind = "change"
             PROVE  request'[e].target \in Targets(booking'[request'[e].booking].status)
  BY DEF ChangesLegal, At, Targets, TRANSITIONS
<1>0. TypeOK /\ RequestsRefer /\ Engaged /\ LocksHeld BY DEF IInv
<1> DEFINE b == request[e].booking
<1>1. /\ request'[e] = request[e] /\ stage[e] \in {"check", "commit"}
  BY <1>0, SessionSteps DEF LockRoom, LockStay, Goto, AfterRooms, TypeOK
<1>2. b \in Bookings /\ Exists(b) /\ booking[b].room = request[e].room
  BY <1>0, <1>1 DEF RequestsRefer, TypeOK, Requests, NoRequest, CreateRequests, ChangeRequests,
     BulkRequests, RoomRequests, PauseRequests
<1>3. CASE stage[e] = "check"
  <2>1. Allowed(booking[b], request[e].target) /\ UNCHANGED booking
    BY <1>0, <1>1, <1>3, ChangeChecked DEF At
  <2> QED BY <1>1, <2>1 DEF Allowed
<1>4. CASE stage[e] = "commit"
  <2>1. request[e].target \in Targets(booking[b].status)
    BY <1>1, <1>4 DEF ChangesLegal, At
  <2>2. ASSUME NEW c \in Clients, InsertBooking(c) PROVE booking'[b] = booking[b]
    BY <1>0, <1>2, <2>2 DEF InsertBooking, TypeOK
  <2>3. ASSUME NEW c \in Clients, SaveChange(c) PROVE booking'[b] = booking[b]
    <3>1. c # e BY <2>3, <1>0 DEF SaveChange, End, TypeOK
    <3>2. /\ request[c] \in ChangeRequests /\ request[c].kind = "change" /\ stage[c] = "commit"
          /\ booking' = [booking EXCEPT ![request[c].booking].status = request[c].target]
      BY <2>3, <1>0, KindOfRequest DEF SaveChange, At
    <3>3. request[c].room # request[e].room
      BY <1>0, <1>1, <1>4, <3>1, <3>2, RoomsApart
    <3>4. request[c].booking # b
      BY <1>0, <1>2, <3>2, <3>3 DEF RequestsRefer
    <3> QED BY <1>0, <1>2, <3>2, <3>4 DEF TypeOK, ChangeRequests
  <2>4. booking'[b] = booking[b]
    BY <1>0, <2>2, <2>3, BookingWrites
  <2> QED BY <1>1, <2>1, <2>4
<1> QED BY <1>1, <1>3, <1>4

\* A booking never leaves the status graph, whoever moves it: guests, managers and
\* the expiry worker, which chose it from an unlocked read.
THEOREM StatusGraph == Spec => StatusFollowsGraph
<1>1. Init => ChangesLegal
  BY DEF Init, ChangesLegal, At
<1> DEFINE Moves == \A b \in Bookings : Exists(b) /\ booking'[b] # booking[b] =>
                      /\ booking'[b].status \in Targets(booking[b].status)
                      /\ booking'[b] = [booking[b] EXCEPT !.status = booking'[b].status]
<1>2. IInv /\ ChangesLegal /\ [Next]_vars => Moves
  <2> SUFFICES ASSUME IInv, ChangesLegal, [Next]_vars, NEW b \in Bookings, Exists(b),
                      booking'[b] # booking[b]
               PROVE  /\ booking'[b].status \in Targets(booking[b].status)
                      /\ booking'[b] = [booking[b] EXCEPT !.status = booking'[b].status]
    OBVIOUS
  <2>0. TypeOK BY DEF IInv
  <2>1. \A c \in Clients : ~InsertBooking(c)
    BY <2>0 DEF InsertBooking, TypeOK
  <2>2. PICK c \in Clients : SaveChange(c)
    BY <2>0, <2>1, BookingWrites
  <2>3. /\ request[c] \in ChangeRequests /\ At(c, "change", "commit")
        /\ booking' = [booking EXCEPT ![request[c].booking].status = request[c].target]
    BY <2>0, <2>2, KindOfRequest DEF SaveChange
  <2>4. b = request[c].booking
    BY <2>0, <2>3 DEF TypeOK
  <2>5. booking[b] \in BookingRows BY <2>0, RowTyped
  <2>6. booking'[b] = [booking[b] EXCEPT !.status = request[c].target]
    BY <2>0, <2>3, <2>4 DEF TypeOK
  <2>7. booking'[b].status = request[c].target
    BY <2>5, <2>6 DEF BookingRows
  <2>8. request[c].target \in Targets(booking[b].status)
    BY <2>3, <2>4 DEF ChangesLegal
  <2> QED BY <2>6, <2>7, <2>8
<1>3. IInv /\ ChangesLegal /\ [Next]_vars => IInv' /\ ChangesLegal'
  BY NextInv, LegalStep
<1>4. IInv /\ ChangesLegal /\ [Next]_vars => [Moves]_vars
  BY <1>2
<1> QED BY <1>1, <1>3, <1>4, InitInv, PTL DEF Spec, StatusFollowsGraph

(***************************************************************************)
(* Openness.  What create_booking saw of the stay, the room type and the   *)
(* blocked nights lasts until it inserts, under its two locks.             *)
(***************************************************************************)
IsOpen(req) ==
  Bookable(req.room) /\ \A d \in req.from..(req.to - 1) : d \notin blocked[req.room]
OpenWhenDecided == \A c \in Clients : At(c, "create", "commit") => IsOpen(request[c])

\* Who writes what a booking's openness depends on.
LEMMA OpenWrites ==
  ASSUME TypeOK, [Next]_vars
  PROVE  /\ \/ UNCHANGED stayStatus
            \/ \E s \in Stays : WriteStay(s)
            \/ \E c \in Clients : SavePause(c)
         /\ \/ UNCHANGED <<active, blocked>>
            \/ \E c \in Clients : SaveBulk(c) \/ SaveUpdate(c)
  BY DEF Next, vars, stayRow, calendar, Tick, WriteStay, Expire, ScanExpired, BeginExpire, Begin, Ask,
     BeginCreate, BeginChange, BeginBulk, BeginUpdate, BeginPause, Work, LockRoom, LockStay,
     CheckCreate, CheckChange, CheckBulk, CheckUpdate, CheckPause, Decide, InsertBooking, SaveChange,
     SaveBulk, SaveUpdate, SavePause, Rollback

LEMMA CreateChecked ==
  ASSUME TypeOK, [Next]_vars, NEW c \in Clients, At(c, "create", "check"), stage'[c] = "commit"
  PROVE  CheckCreate(c)
<1>1. ASSUME NEW d \in Clients, NEW req \in Requests, Begin(d, req) PROVE FALSE
  BY <1>1 DEF Begin, TypeOK, At
<1>2. \A w \in Workers : ~BeginExpire(w)
  <2> SUFFICES ASSUME NEW w \in Workers, BeginExpire(w) PROVE FALSE OBVIOUS
  <2>1. PICK b \in expiring[w] : Begin(w, ChangeOf(b, "EXPIRED")) BY DEF BeginExpire
  <2>2. w \in Clients BY WorkersAreClients
  <2> QED BY <2>1, <2>2 DEF Begin, TypeOK, At
<1>3. ASSUME NEW d \in Clients, Ask(d) PROVE FALSE
  BY <1>3 DEF Ask, BeginCreate, BeginChange, BeginBulk, BeginUpdate, BeginPause, Begin, TypeOK, At
<1>4. ASSUME NEW d \in Clients, d # c, Work(d) \/ Rollback(d) PROVE FALSE
  BY <1>4 DEF TypeOK, At, Work, LockRoom, LockStay, CheckCreate, CheckChange, CheckBulk,
     CheckUpdate, CheckPause, Decide, Goto, InsertBooking, SaveChange, SaveBulk, SaveUpdate,
     SavePause, Rollback, End
<1>5. ASSUME Work(c) \/ Rollback(c) PROVE CheckCreate(c)
  BY <1>5 DEF TypeOK, At, Work, LockRoom, LockStay, CheckChange, CheckBulk, CheckUpdate,
     CheckPause, InsertBooking, SaveChange, SaveBulk, SaveUpdate, SavePause, Rollback, End
<1>6. CASE UNCHANGED session
  BY <1>6 DEF session, At
<1> QED BY <1>2, <1>3, <1>4, <1>5, <1>6 DEF Next, vars, Tick, WriteStay, Expire, ScanExpired

LEMMA CheckedIsOpen ==
  ASSUME TypeOK, NEW c \in Clients, CheckCreate(c)
  PROVE  IsOpen(request[c])
<1> DEFINE req == request[c]
<1>1. req \in CreateRequests BY KindOfRequest DEF CheckCreate
<1>2. req.room \in Rooms /\ req.rooms \in Nat \ {0} /\ req.from \in Nat /\ req.to \in Nat
  BY <1>1, Bounds DEF CreateRequests, Days
<1>3. ASSUME NEW d \in req.from..(req.to - 1), d \in blocked[req.room] PROVE FALSE
  <2>1. d \in Days BY <1>1, <1>3, Bounds DEF CreateRequests, Days
  <2>2. reserved_units(req.room, d) \in Nat BY ReservedCounted
  <2>3. inventory(req.room, d) = 0 BY <1>3, <2>2 DEF inventory
  <2> QED BY <1>2, <1>3, <2>3 DEF CheckCreate
<1> QED BY <1>3 DEF IsOpen, CheckCreate

LEMMA OpenStep == IInv /\ OpenWhenDecided /\ [Next]_vars => OpenWhenDecided'
<1> SUFFICES ASSUME IInv, OpenWhenDecided, [Next]_vars, NEW e \in Clients,
                    stage'[e] = "commit", request'[e].kind = "create"
             PROVE  IsOpen(request[e])'
  BY DEF OpenWhenDecided, At
<1>0. TypeOK /\ Engaged /\ LocksHeld BY DEF IInv
<1> DEFINE req == request[e]
<1>1. /\ request'[e] = req /\ stage[e] \in {"check", "commit"}
  BY <1>0, SessionSteps DEF LockRoom, LockStay, Goto, AfterRooms, TypeOK
<1>2. /\ req.room \in Rooms /\ StayOf[req.room] \in Stays
      /\ holder[StayOf[req.room]] = e /\ StayWanted(req) = StayOf[req.room]
  BY <1>0, <1>1, StayOfRoom DEF LocksHeld, StayWanted, TypeOK, Requests, NoRequest, CreateRequests,
     ChangeRequests, BulkRequests, RoomRequests, PauseRequests
<1>3. IsOpen(req)
  <2>1. CASE stage[e] = "check"
    BY <2>1, <1>0, <1>1, CreateChecked, CheckedIsOpen DEF At
  <2>2. CASE stage[e] = "commit"
    BY <2>2, <1>1 DEF OpenWhenDecided, At
  <2> QED BY <1>1, <2>1, <2>2
<1>4. stayStatus'[StayOf[req.room]] = stayStatus[StayOf[req.room]]
  <2>1. ASSUME NEW s \in Stays, WriteStay(s)
        PROVE  stayStatus'[StayOf[req.room]] = stayStatus[StayOf[req.room]]
    <3>1. s # StayOf[req.room] BY <2>1, <1>2, NullsApart DEF WriteStay, Free
    <3> QED BY <2>1, <3>1, <1>0, <1>2 DEF WriteStay, TypeOK
  <2>2. ASSUME NEW c \in Clients, SavePause(c)
        PROVE  stayStatus'[StayOf[req.room]] = stayStatus[StayOf[req.room]]
    <3>1. holder[request[c].stay] = c BY <2>2, <1>0 DEF SavePause, At, LocksHeld, StayWanted
    <3>2. c # e BY <2>2, <1>0, <1>1 DEF SavePause, End, TypeOK
    <3>3. request[c].stay # StayOf[req.room] BY <1>2, <3>1, <3>2
    <3> QED BY <2>2, <3>3, <1>0, <1>2 DEF SavePause, TypeOK
  <2> QED BY <1>0, <2>1, <2>2, OpenWrites
<1>5. active'[req.room] = active[req.room] /\ blocked'[req.room] = blocked[req.room]
  <2>1. ASSUME NEW c \in Clients, SaveBulk(c) \/ SaveUpdate(c)
        PROVE  active'[req.room] = active[req.room] /\ blocked'[req.room] = blocked[req.room]
    <3>1. c # e /\ stage[c] = "commit" /\ request[c].kind \in {"bulk", "update"}
      BY <2>1, <1>0, <1>1 DEF SaveBulk, SaveUpdate, At, End, TypeOK
    <3>2. request[c].room # req.room
      BY <3>1, <1>0, <1>1 DEF LocksHeld, Unlocked, RoomsOf
    <3> QED BY <2>1, <3>2, <1>0, <1>2 DEF SaveBulk, SaveUpdate, TypeOK
  <2> QED BY <1>0, <2>1, OpenWrites
<1> QED BY <1>1, <1>3, <1>4, <1>5 DEF IsOpen, Bookable

\* A booking appears only while its stay is published, its room type active and none
\* of its nights blocked, whatever hosts, moderators and the task do meanwhile.
THEOREM OpenAtInsert == Spec => AcceptedOnlyIfOpen
<1>1. Init => OpenWhenDecided
  BY DEF Init, OpenWhenDecided, At
<1> DEFINE Appears == \A b \in Bookings : ~Exists(b) /\ Exists(b)' =>
              /\ stayStatus[StayOf[booking'[b].room]] = "PUBLISHED" /\ active[booking'[b].room]
              /\ \A d \in booking'[b].from..(booking'[b].to - 1) : d \notin blocked[booking'[b].room]
<1>2. IInv /\ OpenWhenDecided /\ [Next]_vars => Appears
  <2> SUFFICES ASSUME IInv, OpenWhenDecided, [Next]_vars, NEW b \in Bookings, ~Exists(b), Exists(b)'
               PROVE  /\ stayStatus[StayOf[booking'[b].room]] = "PUBLISHED" /\ active[booking'[b].room]
                      /\ \A d \in booking'[b].from..(booking'[b].to - 1) :
                           d \notin blocked[booking'[b].room]
    OBVIOUS
  <2>0. TypeOK /\ RequestsRefer BY DEF IInv
  <2>1. ASSUME NEW c \in Clients, SaveChange(c) PROVE FALSE
    <3>1. request[c] \in ChangeRequests /\ request[c].kind = "change"
          /\ booking' = [booking EXCEPT ![request[c].booking].status = request[c].target]
      BY <2>0, <2>1, KindOfRequest DEF SaveChange, At
    <3>2. request[c].booking # b BY <2>0, <3>1 DEF RequestsRefer
    <3> QED BY <2>0, <3>1, <3>2 DEF TypeOK, Exists
  <2>2. PICK c \in Clients : InsertBooking(c)
    BY <2>0, <2>1, BookingWrites DEF Exists
  <2>3. IsOpen(request[c])
    BY <2>2 DEF InsertBooking, OpenWhenDecided
  <2>4. /\ booking'[b].room = request[c].room
        /\ booking'[b].from = request[c].from /\ booking'[b].to = request[c].to
    BY <2>0, <2>2 DEF InsertBooking, TypeOK, Exists
  <2> QED BY <2>3, <2>4 DEF IsOpen, Bookable
<1>3. IInv /\ OpenWhenDecided /\ [Next]_vars => IInv' /\ OpenWhenDecided'
  BY NextInv, OpenStep
<1>4. IInv /\ OpenWhenDecided /\ [Next]_vars => [Appears]_vars
  BY <1>2
<1> QED BY <1>1, <1>3, <1>4, InitInv, PTL DEF Spec, AcceptedOnlyIfOpen

(***************************************************************************)
(* Retries.  Two requests with one key cannot both get past the second     *)
(* idempotency lookup of a stay, whose row they both lock.                 *)
(***************************************************************************)
\* Before an insert two creators of one stay never overlap under its lock.
LEMMA StaysApart ==
  ASSUME LocksHeld, NEW c \in Clients, NEW e \in Clients, c # e,
         At(c, "create", "commit"), At(e, "create", "commit")
  PROVE  StayOf[request[c].room] # StayOf[request[e].room]
  BY DEF LocksHeld, StayWanted, At

LEMMA RetryStep == IInv /\ RetryFindsFirst /\ [Next]_vars => RetryFindsFirst'
<1> SUFFICES ASSUME IInv, RetryFindsFirst, [Next]_vars, NEW e \in Clients,
                    stage'[e] = "commit", request'[e].kind = "create",
                    NEW b \in Bookings, Exists(b)', request'[e].key # NoKey,
                    booking'[b].key = request'[e].key
             PROVE  StayOf[booking'[b].room] # StayOf[request'[e].room]
  BY DEF RetryFindsFirst, At, Existing
<1>0. TypeOK /\ RequestsRefer /\ Engaged /\ LocksHeld BY DEF IInv
<1>1. /\ request'[e] = request[e] /\ stage[e] \in {"check", "commit"}
  BY <1>0, SessionSteps DEF LockRoom, LockStay, Goto, AfterRooms, TypeOK
<1>2. CASE stage[e] = "check"
  <2>1. CheckCreate(e) BY <1>0, <1>1, <1>2, CreateChecked DEF At
  <2>2. UNCHANGED booking /\ Existing(request[e].key) = {}
    BY <2>1 DEF CheckCreate, Decide
  <2> QED BY <1>1, <2>2 DEF Existing, Exists
<1>3. CASE stage[e] = "commit"
  <2>0. At(e, "create", "commit") BY <1>1, <1>3 DEF At
  <2>1. CASE Exists(b)
    <3>1. booking'[b].room = booking[b].room /\ booking'[b].key = booking[b].key
      <4>1. CASE UNCHANGED booking BY <4>1
      <4>2. ASSUME NEW c \in Clients, InsertBooking(c) PROVE booking'[b] = booking[b]
        BY <1>0, <2>1, <4>2 DEF InsertBooking, TypeOK
      <4>3. ASSUME NEW c \in Clients, SaveChange(c)
            PROVE  booking'[b].room = booking[b].room /\ booking'[b].key = booking[b].key
        <5>1. booking[b] \in BookingRows BY <1>0, <2>1, RowTyped
        <5> QED BY <1>0, <4>3, <5>1 DEF SaveChange, TypeOK, BookingRows
      <4> QED BY <1>0, <2>1, <4>1, <4>2, <4>3, BookingWrites
    <3>2. b \in Existing(request[e].key) BY <1>1, <2>1, <3>1 DEF Existing
    <3> QED BY <1>1, <2>0, <3>1, <3>2 DEF RetryFindsFirst
  <2>2. CASE ~Exists(b)
    <3>1. ASSUME NEW c \in Clients, SaveChange(c) PROVE FALSE
      <4>1. request[c].kind = "change" BY <3>1 DEF SaveChange, At
      <4>2. Exists(request[c].booking) BY <1>0, <4>1 DEF RequestsRefer
      <4>3. booking'[b] = booking[b] BY <1>0, <2>2, <3>1, <4>2 DEF SaveChange, TypeOK
      <4> QED BY <2>2, <4>3 DEF Exists
    <3>2. PICK c \in Clients : InsertBooking(c)
      BY <1>0, <2>2, <3>1, BookingWrites DEF Exists
    <3>3. At(c, "create", "commit") /\ c # e
      BY <1>0, <1>1, <3>2 DEF InsertBooking, End, TypeOK
    <3>4. booking'[b].room = request[c].room
      BY <1>0, <2>2, <3>2 DEF InsertBooking, TypeOK, Exists
    <3> QED BY <1>0, <1>1, <2>0, <3>3, <3>4, StaysApart
  <2> QED BY <2>1, <2>2
<1> QED BY <1>1, <1>2, <1>3

\* A retry that could not see its sibling's row at first sees it once it has the
\* locks, or is of another stay: the unique index never answers for create_booking.
THEOREM RetriesFindTheFirst == Spec => []RetryFindsFirst
<1>1. Init => RetryFindsFirst
  BY DEF RetryFindsFirst, Init, At
<1>2. IInv /\ RetryFindsFirst /\ [Next]_vars => IInv' /\ RetryFindsFirst'
  BY NextInv, RetryStep
<1> QED BY <1>1, <1>2, InitInv, PTL DEF Spec

(***************************************************************************)
(* Pauses.  The task decides under the locks of the stay and all its room  *)
(* types, so no obligation can appear before it commits.                   *)
(***************************************************************************)
PausesStand ==
  \A c \in Clients : At(c, "pause", "commit") => Obligations(request[c].stay) = {}

\* A decision to pause is a step of CheckPause.
LEMMA PauseChecked ==
  ASSUME TypeOK, [Next]_vars, NEW c \in Clients, At(c, "pause", "check"), stage'[c] = "commit"
  PROVE  CheckPause(c)
<1>1. ASSUME NEW d \in Clients, NEW req \in Requests, Begin(d, req) PROVE FALSE
  BY <1>1 DEF Begin, TypeOK, At
<1>2. \A w \in Workers : ~BeginExpire(w)
  <2> SUFFICES ASSUME NEW w \in Workers, BeginExpire(w) PROVE FALSE OBVIOUS
  <2>1. PICK b \in expiring[w] : Begin(w, ChangeOf(b, "EXPIRED")) BY DEF BeginExpire
  <2>2. w \in Clients BY WorkersAreClients
  <2> QED BY <2>1, <2>2 DEF Begin, TypeOK, At
<1>3. ASSUME NEW d \in Clients, Ask(d) PROVE FALSE
  BY <1>3 DEF Ask, BeginCreate, BeginChange, BeginBulk, BeginUpdate, BeginPause, Begin, TypeOK, At
<1>4. ASSUME NEW d \in Clients, d # c, Work(d) \/ Rollback(d) PROVE FALSE
  BY <1>4 DEF TypeOK, At, Work, LockRoom, LockStay, CheckCreate, CheckChange, CheckBulk,
     CheckUpdate, CheckPause, Decide, Goto, InsertBooking, SaveChange, SaveBulk, SaveUpdate,
     SavePause, Rollback, End
<1>5. ASSUME Work(c) \/ Rollback(c) PROVE CheckPause(c)
  BY <1>5 DEF TypeOK, At, Work, LockRoom, LockStay, CheckCreate, CheckChange, CheckBulk, CheckUpdate,
     InsertBooking, SaveChange, SaveBulk, SaveUpdate, SavePause, Rollback, End
<1>6. CASE UNCHANGED session
  BY <1>6 DEF session, At
<1> QED BY <1>2, <1>3, <1>4, <1>5, <1>6 DEF Next, vars, Tick, WriteStay, Expire, ScanExpired

\* While a pause is decided nothing comes to reserve a room of its stay.
LEMMA NothingReserves ==
  ASSUME IInv, IInv', [Next]_vars, NEW e \in Clients, At(e, "pause", "commit"),
         At(e, "pause", "commit")', request'[e] = request[e],
         NEW b \in Bookings, Reserving(b)', StayOf[booking'[b].room] = request[e].stay
  PROVE  Reserving(b) /\ booking'[b].room = booking[b].room /\ booking'[b].to = booking[b].to
<1>0. TypeOK /\ TypeOK' /\ RequestsRefer /\ Engaged /\ LocksHeld BY DEF IInv
<1>1. holder[request[e].stay] = e /\ \A r \in Rooms : StayOf[r] = request[e].stay => holder[r] = e
  BY <1>0 DEF LocksHeld, At, StayWanted, Unlocked, RoomsOf
<1>2. CASE Quiet
  <2>1. UNCHANGED booking BY <1>2 DEF Quiet
  <2>2. booking[b] \in BookingRows BY <1>0, <2>1, RowTyped DEF Reserving, Exists
  <2>3. booking[b].room \in Rooms BY <2>2 DEF BookingRows
  <2>4. Calm(booking[b].room) BY <1>0, <1>2, <2>3, QuietIsCalm
  <2> QED BY <2>1, <2>4 DEF Calm
<1>3. ASSUME NEW c \in Clients, InsertBooking(c) PROVE booking'[b] = booking[b] /\ now' = now
  <2> DEFINE instant == bookingMode[StayOf[request[c].room]] = "INSTANT_BOOK"
             row == [status  |-> IF instant THEN "CONFIRMED" ELSE "PENDING",
                     room    |-> request[c].room, from |-> request[c].from, to |-> request[c].to,
                     rooms   |-> request[c].rooms, key |-> request[c].key,
                     expires |-> IF instant THEN 0 ELSE HoldEnds]
  <2>1. /\ \E n \in Bookings : booking' = [booking EXCEPT ![n] = row]
        /\ row.room = request[c].room
    BY <1>3 DEF InsertBooking
  <2> HIDE DEF row
  <2>5. PICK n \in Bookings : booking' = [booking EXCEPT ![n] = row] BY <2>1
  <2>2. At(c, "create", "commit") /\ c # e BY <1>0, <1>3 DEF InsertBooking, End, TypeOK, At
  <2>3. holder[StayOf[request[c].room]] = c BY <1>0, <2>2 DEF LocksHeld, At, StayWanted
  <2>4. n # b BY <1>0, <1>1, <2>1, <2>2, <2>3, <2>5 DEF TypeOK
  <2> QED BY <1>0, <1>3, <2>4, <2>5 DEF InsertBooking, clock, TypeOK
<1>4. ASSUME NEW c \in Clients, SaveChange(c) PROVE booking'[b] = booking[b] /\ now' = now
  <2>1. At(c, "change", "commit") /\ c # e /\ request[c] \in ChangeRequests
    BY <1>0, <1>4, KindOfRequest DEF SaveChange, End, TypeOK, At
  <2> DEFINE n == request[c].booking
  <2>2. n \in Bookings /\ Exists(n) /\ booking[n].room = request[c].room
    BY <1>0, <2>1 DEF RequestsRefer, At, ChangeRequests
  <2>3. holder[request[c].room] = c /\ request[c].room \in Rooms
    BY <1>0, <2>1 DEF LocksHeld, At, Unlocked, RoomsOf, ChangeRequests
  <2>4. booking'[n].room = booking[n].room BY <1>0, <2>2, RowsStay
  <2>5. n # b BY <1>1, <2>1, <2>2, <2>3, <2>4
  <2> QED BY <1>0, <1>4, <2>5 DEF SaveChange, clock, TypeOK
<1>5. ASSUME NEW c \in Clients, SaveBulk(c) \/ SaveUpdate(c)
      PROVE  booking'[b] = booking[b] /\ now' = now
  BY <1>5 DEF SaveBulk, SaveUpdate, clock
<1>6. CASE booking'[b] = booking[b] /\ now' = now
  BY <1>6 DEF Reserving
<1> QED BY <1>0, <1>2, <1>3, <1>4, <1>5, <1>6, QuietOrCommit

LEMMA PauseStep == IInv /\ PausesStand /\ [Next]_vars => PausesStand'
<1> SUFFICES ASSUME IInv, PausesStand, [Next]_vars, NEW e \in Clients,
                    stage'[e] = "commit", request'[e].kind = "pause",
                    NEW b \in Bookings, Reserving(b)', StayOf[booking'[b].room] = request'[e].stay,
                    booking'[b].to >= today'
             PROVE  FALSE
  BY DEF PausesStand, At, Obligations
<1>0. IInv' /\ TypeOK /\ TypeOK' BY NextInv DEF IInv
<1>1. /\ request'[e] = request[e] /\ stage[e] \in {"check", "commit"}
  BY <1>0, SessionSteps DEF LockRoom, LockStay, Goto, AfterRooms, TypeOK
<1>2. CASE stage[e] = "check"
  <2>1. CheckPause(e) BY <1>0, <1>1, <1>2, PauseChecked DEF At
  <2>2. UNCHANGED <<booking, clock>> /\ Obligations(request[e].stay) = {}
    BY <2>1 DEF CheckPause, Decide
  <2> QED BY <1>1, <2>2 DEF Obligations, Reserving, clock
<1>3. CASE stage[e] = "commit"
  <2>1. Reserving(b) /\ booking'[b].room = booking[b].room /\ booking'[b].to = booking[b].to
    BY <1>0, <1>1, <1>3, NothingReserves DEF At
  <2>2. today' >= today /\ today \in Nat /\ today' \in Nat
    <3>1. today \in Nat /\ today' \in Nat BY <1>0 DEF TypeOK
    <3>2. Quiet \/ UNCHANGED today
      BY <1>0, QuietOrCommit DEF InsertBooking, SaveChange, SaveBulk, SaveUpdate, clock
    <3> QED BY <3>1, <3>2 DEF Quiet
  <2>3. booking[b].to \in Nat
    BY <1>0, <2>1, RowTyped, ReservingExists, Bounds DEF BookingRows
  <2>4. b \in Obligations(request[e].stay)
    BY <1>1, <2>1, <2>2, <2>3 DEF Obligations
  <2> QED BY <1>1, <1>3, <2>4 DEF PausesStand, At
<1> QED BY <1>1, <1>2, <1>3

\* The entitlement task pauses no stay that owes a guest something, although
\* bookings and confirmations go on between its look and its write elsewhere.
THEOREM PausesSpareGuests == Spec => PauseSparesObligations
<1> DEFINE Spares == \A s \in Stays, c \in Clients :
       At(c, "pause", "commit") /\ request[c].stay = s /\ stayStatus'[s] # stayStatus[s]
         => Obligations(s) = {}
<1>1. Init => PausesStand BY DEF Init, PausesStand, At
<1>2. IInv /\ PausesStand /\ [Next]_vars => IInv' /\ PausesStand'
  BY NextInv, PauseStep
<1>3. PausesStand => [Spares]_vars BY DEF PausesStand
<1> QED BY <1>1, <1>2, <1>3, InitInv, PTL DEF Spec, PauseSparesObligations

(***************************************************************************)
(* Waiting.  A transaction holds rooms of its own request only, below      *)
(* those it still waits for, and a stay only when it waits for nothing.    *)
(***************************************************************************)
RoomsInOrder ==
  \A c \in Clients, r \in Rooms : holder[r] = c =>
    /\ stage[c] # "idle" /\ r \in RoomsOf(request[c])
    /\ stage[c] = "room" => \A q \in Unlocked(c) : r < q
StaysLast ==
  \A c \in Clients, s \in Stays : holder[s] = c => stage[c] \in {"check", "commit"}
Ordered == RoomsInOrder /\ StaysLast

\* Whoever newly holds a row took it in LockRoom or LockStay.
LEMMA NewHolders ==
  ASSUME TypeOK, [Next]_vars, NEW c \in Clients, NEW x \in Rooms \cup Stays,
         holder'[x] = c, holder[x] # c
  PROVE  \/ LockRoom(c) /\ x \in NextRooms(c)
         \/ LockStay(c) /\ x = StayWanted(request[c])
<1>0. c # Nobody BY NullsApart
<1>1. ASSUME NEW d \in Clients, LockRoom(d)
      PROVE  LockRoom(c) /\ x \in NextRooms(c)
  BY <1>0, <1>1 DEF LockRoom, Lock, TypeOK
<1>2. ASSUME NEW d \in Clients, LockStay(d)
      PROVE  LockStay(c) /\ x = StayWanted(request[c])
  BY <1>0, <1>2 DEF LockStay, Lock, TypeOK
<1>3. ASSUME NEW d \in Clients, End(d) PROVE FALSE
  BY <1>0, <1>3 DEF End, ReleaseAll, TypeOK
<1>4. \/ UNCHANGED holder
      \/ \E d \in Clients : LockRoom(d) \/ LockStay(d) \/ End(d)
  BY DEF Next, vars, Tick, WriteStay, Expire, ScanExpired, BeginExpire, Begin, Ask, BeginCreate,
     BeginChange, BeginBulk, BeginUpdate, BeginPause, Work, CheckCreate, CheckChange, CheckBulk,
     CheckUpdate, CheckPause, Decide, InsertBooking, SaveChange, SaveBulk, SaveUpdate, SavePause,
     Rollback
<1> QED BY <1>1, <1>2, <1>3, <1>4

\* Ending a transaction releases its rows.
LEMMA EndReleases ==
  ASSUME TypeOK, [Next]_vars, NEW c \in Clients, stage[c] # "idle", stage'[c] = "idle",
         NEW x \in Rooms \cup Stays
  PROVE  holder'[x] # c
<1>0. c # Nobody BY NullsApart
<1>1. ASSUME NEW d \in Clients, NEW req, Begin(d, req) PROVE FALSE
  BY <1>1 DEF Begin, TypeOK
<1>2. ASSUME NEW d \in Clients, Ask(d) PROVE FALSE
  BY <1>1, <1>2 DEF Ask, BeginCreate, BeginChange, BeginBulk, BeginUpdate, BeginPause
<1>3. ASSUME NEW w \in Workers, Expire(w) PROVE FALSE
  BY <1>1, <1>3, WorkersAreClients DEF Expire, ScanExpired, BeginExpire, session
<1>4. ASSUME NEW d \in Clients, Work(d) \/ Rollback(d) PROVE holder'[x] # c
  <2>1. CASE End(d)
    <3>1. d = c BY <2>1 DEF End, TypeOK
    <3> QED BY <1>0, <2>1, <3>1 DEF End, ReleaseAll, TypeOK
  <2>2. CASE ~End(d)
    BY <1>4, <2>2 DEF Work, Rollback, LockRoom, LockStay, CheckCreate, CheckChange, CheckBulk,
       CheckUpdate, CheckPause, Decide, Goto, AfterRooms, InsertBooking, SaveChange, SaveBulk,
       SaveUpdate, SavePause, TypeOK
  <2> QED BY <2>1, <2>2
<1> QED BY <1>2, <1>3, <1>4 DEF Next, vars, session, Tick, WriteStay

LEMMA StaysLastStep == IInv /\ StaysLast /\ [Next]_vars => StaysLast'
<1> SUFFICES ASSUME IInv, StaysLast, [Next]_vars, NEW c \in Clients, NEW s \in Stays, holder'[s] = c
             PROVE  stage'[c] \in {"check", "commit"}
  BY DEF StaysLast
<1>0. TypeOK /\ Engaged BY DEF IInv
<1>1. CASE holder[s] # c
  <2>1. s \notin Rooms BY StayOfRoom
  <2>2. LockStay(c)
    BY <1>0, <1>1, <2>1, NewHolders, NeedsTyped DEF LockRoom, NextRooms, Unlocked, Engaged
  <2> QED BY <1>0, <2>2 DEF LockStay, Goto, TypeOK
<1>2. CASE holder[s] = c
  <2>1. stage[c] \in {"check", "commit"} BY <1>2 DEF StaysLast
  <2>2. stage'[c] # "idle" BY <1>0, <2>1, EndReleases
  <2> QED BY <1>0, <2>1, <2>2, SessionSteps DEF LockRoom, LockStay
<1> QED BY <1>1, <1>2

LEMMA RoomsInOrderStep == IInv /\ RoomsInOrder /\ [Next]_vars => RoomsInOrder'
<1> SUFFICES ASSUME IInv, RoomsInOrder, [Next]_vars, NEW c \in Clients, NEW r \in Rooms, holder'[r] = c
             PROVE  /\ stage'[c] # "idle" /\ r \in RoomsOf(request'[c])
                    /\ stage'[c] = "room" => \A q \in Unlocked(c)' : r < q
  BY DEF RoomsInOrder
<1>0. TypeOK /\ Engaged BY DEF IInv
<1>1. stage[c] # "idle" /\ r \in RoomsOf(request[c])
  <2>1. CASE holder[r] = c BY <2>1 DEF RoomsInOrder
  <2>2. CASE holder[r] # c
    <3>1. r \notin Stays BY StayOfRoom
    <3>2. LockRoom(c) /\ r \in NextRooms(c)
      BY <1>0, <2>2, <3>1, NewHolders, NeedsTyped DEF LockStay, Engaged
    <3> QED BY <3>2 DEF LockRoom, NextRooms, Unlocked
  <2> QED BY <2>1, <2>2
<1>2. stage'[c] # "idle" BY <1>0, <1>1, EndReleases
<1>3. request'[c] = request[c]
  BY <1>0, <1>1, <1>2, SessionSteps DEF LockRoom, LockStay, Goto
<1>4. ASSUME stage'[c] = "room", NEW q \in Unlocked(c)' PROVE r < q
  <2>1. stage[c] = "room"
    BY <1>0, <1>1, <1>4, SessionSteps DEF LockRoom, LockStay, Goto, TypeOK
  <2>2. q \in RoomsOf(request[c]) /\ q \in Rooms /\ holder'[q] # c
    BY <1>0, <1>1, <1>3, <1>4, NeedsTyped DEF Unlocked, Engaged
  <2>3. holder[q] # c BY <1>0, <1>2, <2>2, HoldersKeep
  <2>4. q \in Unlocked(c) BY <2>2, <2>3 DEF Unlocked
  <2>5. CASE holder[r] = c BY <2>1, <2>4, <2>5 DEF RoomsInOrder
  <2>6. CASE holder[r] # c
    <3>1. r \notin Stays BY StayOfRoom
    <3>2. r \in NextRooms(c)
      BY <1>0, <1>1, <2>6, <3>1, NewHolders, NeedsTyped DEF LockStay, Engaged
    <3>3. r <= q /\ r # q BY <1>4, <2>2, <2>4, <3>2 DEF NextRooms
    <3> QED BY <2>2, <3>3, RoomsArePks
  <2> QED BY <2>5, <2>6
<1> QED BY <1>1, <1>2, <1>3, <1>4

LEMMA OrderedInvariant == Spec => [](IInv /\ Ordered)
<1>1. Init => Ordered
  BY NullsApart DEF Init, Ordered, RoomsInOrder, StaysLast
<1>2. IInv /\ Ordered /\ [Next]_vars => IInv' /\ Ordered'
  BY NextInv, StaysLastStep, RoomsInOrderStep DEF Ordered
<1> QED BY <1>1, <1>2, InitInv, PTL DEF Spec

\* A transaction that waits while it holds rooms pauses a stay, and whoever else has
\* a room of that stay and waits has the lower ones too: no chain has three links.
LEMMA ChainsAreShort ==
  ASSUME IInv, Ordered, NEW c \in Clients, NEW d \in Clients, NEW e \in Clients,
         stage[d] = "room", stage[e] = "room", NEW x \in NextRooms(c), holder[x] = d,
         NEW y \in NextRooms(d), holder[y] = e, NEW z \in NextRooms(e), stage[c] = "room"
  PROVE  FALSE
<1>0. TypeOK /\ Engaged BY DEF IInv
<1>1. x \in Rooms /\ y \in Rooms /\ x \in Nat /\ y \in Nat
  BY <1>0, NeedsTyped, RoomsArePks DEF NextRooms, Unlocked, Engaged
<1>2. /\ x \in RoomsOf(request[d]) /\ y \in RoomsOf(request[d]) /\ x < y /\ y # x /\ e # d
      /\ y \in RoomsOf(request[e]) /\ z \in RoomsOf(request[e]) /\ z # y
  BY <1>1 DEF Ordered, RoomsInOrder, NextRooms, Unlocked
<1>3. request[d].kind = "pause" /\ StayOf[x] = request[d].stay /\ StayOf[y] = request[d].stay
  BY <1>2 DEF RoomsOf
<1>4. request[e].kind = "pause" /\ StayOf[y] = request[e].stay
  BY <1>2 DEF RoomsOf
<1>5. x \in Unlocked(e)
  BY <1>1, <1>2, <1>3, <1>4 DEF Unlocked, RoomsOf
<1>6. y < x BY <1>1, <1>5 DEF Ordered, RoomsInOrder
<1> QED BY <1>1, <1>2, <1>6

LEMMA NobodyInACircle == IInv /\ Ordered => NoLockCycle
<1> SUFFICES ASSUME IInv, Ordered, NEW C \in SUBSET Clients, NEW c \in C,
                    \A d \in C : \E x \in Wanted(d) : holder[x] \in C
             PROVE  FALSE
  BY DEF NoLockCycle
<1>0. TypeOK /\ Engaged BY DEF IInv
<1>1. \A d \in C : stage[d] = "room" \/ stage[d] = "stay"
  BY DEF Wanted
<1>2. ASSUME NEW d \in C, stage[d] = "stay" PROVE FALSE
  <2>1. StayWanted(request[d]) \in Stays BY <1>0, <1>2, NeedsTyped DEF Engaged
  <2>2. holder[StayWanted(request[d])] \in C BY <1>2 DEF Wanted
  <2> QED BY <1>1, <2>1, <2>2 DEF Ordered, StaysLast
<1>3. \A d \in C : stage[d] = "room" /\ \E x \in NextRooms(d) : holder[x] \in C
  BY <1>1, <1>2 DEF Wanted
<1>4. PICK x \in NextRooms(c) : holder[x] \in C BY <1>3
<1>5. PICK y \in NextRooms(holder[x]) : holder[y] \in C BY <1>3, <1>4
<1>6. PICK z \in NextRooms(holder[y]) : TRUE BY <1>3, <1>5
<1> QED BY <1>3, <1>4, <1>5, <1>6, ChainsAreShort

\* Room types by primary key and then the stay, whatever mixture of bookings, calendar
\* edits and pauses runs: no set of transactions waits for its own members only.
THEOREM NobodyWaitsInACircle == Spec => []NoLockCycle
BY OrderedInvariant, NobodyInACircle, PTL
-----------------------------------------------------------------------------
(***************************************************************************)
(* RoomBooking implements RoomLedger: initial states map to initial        *)
(* states, and every step maps to a step of the ledger or changes nothing  *)
(* of it.  What the ledger asks of a grant and of a new offer is that what *)
(* is granted fits, and a hold between its confirmation's check and commit *)
(* counts, although the clock may have passed it.                          *)
(***************************************************************************)

Claimed == [b \in Bookings |-> ClaimOf(b)]
Offers  == [r \in Rooms |-> [d \in Days |-> Offered(r, d)]]

GrantedOn(r, d) == {b \in Bookings : Ledger!Granted(b, r, d)}

(***************************************************************************)
(* What is granted fits.                                                   *)
(***************************************************************************)
LEMMA GrantedIs ==
  ASSUME TypeOK, NEW b \in Bookings, NEW r, NEW d, Ledger!Granted(b, r, d)
  PROVE  /\ Exists(b) /\ Covers(b, r, d) /\ Claimed[b].rooms = booking[b].rooms
         /\ Reserving(b) \/ BeingConfirmed(b)
<1>0. Claimed[b] = ClaimOf(b) BY DEF Claimed
<1>1. /\ Claimed[b].state \in {"held", "booked"}
      /\ Claimed[b].room = r /\ Claimed[b].from <= d /\ d < Claimed[b].to
  BY DEF Claimed, Ledger!Granted
<1>2. Exists(b)
  <2>1. ~Exists(b) => ClaimOf(b).state = "none" BY DEF ClaimOf
  <2> QED BY <1>0, <1>1, <2>1
<1>3. ClaimOf(b) = [state |-> ClaimState(b), room |-> booking[b].room,
                    from |-> booking[b].from, to |-> booking[b].to, rooms |-> booking[b].rooms]
  BY <1>2 DEF ClaimOf
<1>4. ClaimState(b) \in {"held", "booked"} BY <1>0, <1>1, <1>3
<1> QED BY <1>0, <1>1, <1>2, <1>3, <1>4 DEF ClaimState, Covers, Reserving

\* What a room type has granted for a night is what it has reserved, and the hold
\* that is being confirmed, if any: the room's lock admits one confirmation.
LEMMA GrantedCounted ==
  ASSUME IInv, NEW r \in Rooms, NEW d \in Days, d >= today
  PROVE  Count(booking, GrantedOn(r, d)) <= Offered(r, d)
<1> DEFINE G == GrantedOn(r, d)
           R == ReservedOn(r, d)
<1>0. TypeOK /\ RequestsRefer /\ LocksHeld /\ Calendar /\ DecisionsHold
  BY DEF IInv, Promised
<1>1. G \in SUBSET Bookings /\ R \in SUBSET Bookings
  BY DEF GrantedOn, ReservedOn
<1>2. \A b \in G : Covers(b, r, d) /\ Exists(b) /\ (b \in R \/ BeingConfirmed(b))
  BY <1>0, GrantedIs DEF GrantedOn, ReservedOn
<1>3. reserved_units(r, d) = Count(booking, R) /\ Offered(r, d) \in Nat
  BY <1>0, ReservedCounted, OfferedTyped, Bounds
<1>4. CASE G \subseteq R
  <2>1. Count(booking, G) <= Count(booking, R) BY <1>1, <1>4, CountMonotone
  <2>2. Count(booking, R) <= Offered(r, d) BY <1>0, <1>3 DEF Calendar, RoomFits
  <2>3. Count(booking, G) \in Nat /\ Count(booking, R) \in Nat BY <1>1, CountFinite
  <2>4. Count(booking, G) <= Offered(r, d)
    <3> HIDE DEF G, R
    <3> QED BY <1>3, <2>1, <2>2, <2>3
  <2> QED BY <2>4
<1>5. ASSUME NEW b \in G, b \notin R PROVE Count(booking, G) <= Offered(r, d)
  <2>1. PICK c \in Clients : /\ At(c, "change", "commit")
                             /\ request[c].booking = b /\ request[c].target = "CONFIRMED"
    BY <1>2, <1>5 DEF BeingConfirmed
  <2>2. request[c].room = r /\ b \in Bookings
    BY <1>0, <1>1, <1>2, <2>1 DEF RequestsRefer, At, Covers
  <2>3. Total(R \cup {b}) <= Offered(r, d)
    <3>1. PICK q : q = request[c] OBVIOUS
    <3>2. /\ q.kind = "change" /\ StillGood(q)
          /\ q.target = "CONFIRMED" /\ q.room = r /\ q.booking = b
      BY <1>0, <2>1, <2>2, <3>1 DEF DecisionsHold, At
    <3>3. Covers(b, r, d) => Total(R \cup {b}) <= Offered(r, d)
      BY <3>2 DEF StillGood, FitsWith
    <3> QED BY <1>2, <3>3
  <2>4. ASSUME NEW x \in G, x \notin R PROVE x = b
    <3>1. PICK e \in Clients : /\ At(e, "change", "commit")
                               /\ request[e].booking = x /\ request[e].target = "CONFIRMED"
      BY <1>2, <2>4 DEF BeingConfirmed
    <3>2. request[e].room = r BY <1>0, <1>2, <3>1, <2>4 DEF RequestsRefer, At, Covers
    <3>3. e = c BY <1>0, <2>1, <2>2, <3>1, <3>2, RoomsApart DEF At
    <3> QED BY <2>1, <3>1, <3>3
  <2>5. G \in SUBSET (R \cup {b}) /\ R \cup {b} \in SUBSET Bookings BY <1>1, <2>2, <2>4
  <2>6. Count(booking, G) <= Count(booking, R \cup {b})
    <3> HIDE DEF G, R
    <3> QED BY <2>5, CountMonotone
  <2>7. Total(R \cup {b}) = Count(booking, R \cup {b}) BY DEF Total, RoomsTaken, Count
  <2>8. Count(booking, G) \in Nat /\ Count(booking, R \cup {b}) \in Nat
    <3> HIDE DEF G, R
    <3> QED BY <1>1, <2>5, CountFinite
  <2> HIDE DEF G, R
  <2> QED BY <1>3, <2>3, <2>6, <2>7, <2>8
<1> QED BY <1>4, <1>5

LEMMA Fit == IInv => Ledger!Fits
<1> SUFFICES ASSUME IInv, NEW r \in Rooms, NEW d \in Days, d >= today
             PROVE  Ledger!Taken(r, d) <= Offered(r, d)
  BY DEF Ledger!Fits, Ledger!Days, Days
<1>1. TypeOK BY DEF IInv
<1> DEFINE Units == {u \in GrantedOn(r, d) \X (1..MaxUnits) : u[2] <= booking[u[1]].rooms}
           Same  == {u \in GrantedOn(r, d) \X (1..MaxUnits) : u[2] <= Claimed[u[1]].rooms}
<1>2. Units = Same
  BY <1>1, GrantedIs DEF GrantedOn
<1>3. Ledger!Taken(r, d) = Cardinality(Same)
  BY DEF Ledger!Taken, GrantedOn, Claimed, Ledger!Cardinality, Cardinality
<1> QED BY <1>2, <1>3, GrantedCounted DEF Count

LEMMA FitAfter == IInv' => Ledger!Fits'
BY Fit, PTL

(***************************************************************************)
(* What a step does to the claims.                                         *)
(***************************************************************************)
LEMMA ClaimsTyped ==
  ASSUME TypeOK, NEW b \in Bookings, Exists(b)
  PROVE  /\ ClaimOf(b) = [state |-> ClaimState(b), room |-> booking[b].room,
                          from |-> booking[b].from, to |-> booking[b].to, rooms |-> booking[b].rooms]
         /\ ClaimOf(b) \in Ledger!Claims
<1>1. booking[b] \in BookingRows BY RowTyped
<1>2. ClaimState(b) \in {"held", "booked", "lapsed", "over"} BY DEF ClaimState
<1> QED BY <1>1, <1>2 DEF ClaimOf, Ledger!Claims, Ledger!States, Ledger!Days, BookingRows, Days

\* A transaction that ends leaves the other bookings' confirmations under way.
LEMMA ClaimStays ==
  ASSUME TypeOK, NEW c \in Clients, End(c), now' = now, NEW x \in Bookings, booking'[x] = booking[x],
         ~(At(c, "change", "commit") /\ request[c].booking = x)
  PROVE  ClaimOf(x)' = ClaimOf(x)
<1>1. ASSUME NEW e \in Clients
      PROVE  (At(e, "change", "commit") /\ request[e].booking = x /\ request[e].target = "CONFIRMED")'
                <=> At(e, "change", "commit") /\ request[e].booking = x /\ request[e].target = "CONFIRMED"
  BY DEF At, End, TypeOK
<1>2. BeingConfirmed(x)' <=> BeingConfirmed(x) BY <1>1 DEF BeingConfirmed
<1>3. Reserving(x)' <=> Reserving(x) BY DEF Reserving
<1>4. ClaimState(x)' = ClaimState(x) BY <1>2, <1>3 DEF ClaimState
<1> QED BY <1>4 DEF ClaimOf, Exists

LEMMA ClockSteps ==
  ASSUME TypeOK, [Next]_vars
  PROVE  today' \in {today, today + 1}
  BY DEF Next, vars, clock, Tick, WriteStay, Expire, ScanExpired, BeginExpire, Begin, Ask, BeginCreate,
     BeginChange, BeginBulk, BeginUpdate, BeginPause, Work, LockRoom, LockStay, CheckCreate,
     CheckChange, CheckBulk, CheckUpdate, CheckPause, Decide, InsertBooking, SaveChange, SaveBulk,
     SaveUpdate, SavePause, Rollback

\* While nothing is committed a claim at most lapses, and only a hold does.
LEMMA ClaimAtMostLapses ==
  ASSUME TypeOK, TypeOK', Engaged, [Next]_vars, Quiet, NEW b \in Bookings
  PROVE  \/ ClaimOf(b)' = ClaimOf(b)
         \/ ClaimOf(b).state = "held" /\ ClaimOf(b)' = [ClaimOf(b) EXCEPT !.state = "lapsed"]
<1>1. booking'[b] = booking[b] BY DEF Quiet
<1>2. CASE ~Exists(b)
  BY <1>1, <1>2 DEF ClaimOf, Exists
<1>3. CASE Exists(b) /\ booking[b].status # "PENDING"
  BY <1>1, <1>3 DEF ClaimOf, ClaimState, Exists
<1>4. CASE Exists(b) /\ booking[b].status = "PENDING"
  <2>1. ClaimState(b) = IF Reserving(b) \/ BeingConfirmed(b) THEN "held" ELSE "lapsed"
    BY <1>4 DEF ClaimState
  <2>2. ClaimState(b)' = IF Reserving(b)' \/ BeingConfirmed(b)' THEN "held" ELSE "lapsed"
    BY <1>1, <1>4 DEF ClaimState
  <2>3. Reserving(b)' => Reserving(b)
    <3>1. booking[b].room \in Rooms BY <1>4, RowTyped DEF BookingRows
    <3>2. Calm(booking[b].room) BY <3>1, QuietIsCalm
    <3> QED BY <1>1, <3>2 DEF Calm
  <2>4. BeingConfirmed(b)' => Reserving(b) \/ BeingConfirmed(b)
    <3> SUFFICES ASSUME NEW e \in Clients, At(e, "change", "commit")',
                        request'[e].booking = b, request'[e].target = "CONFIRMED"
                 PROVE  Reserving(b) \/ BeingConfirmed(b)
      BY DEF BeingConfirmed
    <3>1. request'[e] = request[e] /\ stage[e] \in {"check", "commit"} /\ stage'[e] = "commit"
      BY SessionSteps DEF LockRoom, LockStay, Goto, AfterRooms, TypeOK, At
    <3>2. CASE stage[e] = "commit" BY <3>1, <3>2 DEF BeingConfirmed, At
    <3>3. CASE stage[e] = "check"
      <4>1. Allowed(booking[b], "CONFIRMED") BY <3>1, <3>3, ChangeChecked DEF At
      <4> QED BY <1>4, <4>1 DEF Allowed, Reserving
    <3> QED BY <3>1, <3>2, <3>3
  <2>5. \/ ClaimState(b)' = ClaimState(b)
        \/ ClaimState(b) = "held" /\ ClaimState(b)' = "lapsed"
    BY <2>1, <2>2, <2>3, <2>4
  <2>6. ClaimOf(b) = [state |-> ClaimState(b), room |-> booking[b].room,
                      from |-> booking[b].from, to |-> booking[b].to, rooms |-> booking[b].rooms]
    BY <1>4 DEF ClaimOf
  <2>7. ClaimOf(b)' = [state |-> ClaimState(b)', room |-> booking[b].room,
                       from |-> booking[b].from, to |-> booking[b].to, rooms |-> booking[b].rooms]
    BY <1>1, <1>4 DEF ClaimOf, Exists
  <2> QED BY <2>5, <2>6, <2>7
<1> QED BY <1>2, <1>3, <1>4

LEMMA QuietPasses == IInv /\ IInv' /\ [Next]_vars /\ Quiet => Ledger!Pass
<1> SUFFICES ASSUME IInv, IInv', [Next]_vars, Quiet PROVE Ledger!Pass OBVIOUS
<1>0. TypeOK /\ TypeOK' /\ Engaged BY DEF IInv
<1> DEFINE B == {b \in Bookings : ClaimOf(b)' # ClaimOf(b)}
<1>1. \A b \in Bookings :
        ClaimOf(b)' = IF b \in B THEN [ClaimOf(b) EXCEPT !.state = "lapsed"] ELSE ClaimOf(b)
  BY <1>0, ClaimAtMostLapses
<1>2. \A b \in B : ClaimOf(b).state = "held"
  BY <1>0, ClaimAtMostLapses
<1>3. B \in SUBSET {b \in Bookings : Claimed[b].state = "held"} BY <1>2 DEF Claimed
<1>4. Claimed' = [b \in Bookings |-> IF b \in B THEN [Claimed[b] EXCEPT !.state = "lapsed"]
                                     ELSE Claimed[b]]
  BY <1>1 DEF Claimed
<1>5. Offers' = Offers BY DEF Quiet, Offers, Offered
<1>6. today' \in {today, today + 1} BY <1>0, ClockSteps
<1> HIDE DEF B
<1> QED BY <1>3, <1>4, <1>5, <1>6 DEF Ledger!Pass, Claimed, Offers

\* create_booking's insert is a grant.
LEMMA InsertGrants ==
  ASSUME IInv, IInv', NEW c \in Clients, InsertBooking(c)
  PROVE  \E b \in Bookings : Ledger!Grant(b)
<1>0. TypeOK /\ TypeOK' BY DEF IInv
<1> DEFINE instant == bookingMode[StayOf[request[c].room]] = "INSTANT_BOOK"
           row == [status  |-> IF instant THEN "CONFIRMED" ELSE "PENDING",
                   room    |-> request[c].room, from |-> request[c].from, to |-> request[c].to,
                   rooms   |-> request[c].rooms, key |-> request[c].key,
                   expires |-> IF instant THEN 0 ELSE HoldEnds]
<1>1. /\ At(c, "create", "commit") /\ End(c)
      /\ \E b \in Bookings : ~Exists(b) /\ booking' = [booking EXCEPT ![b] = row]
      /\ UNCHANGED <<now, today, quantity, rowUnits>>
  BY DEF InsertBooking, clock, calendar
<1>2. /\ row.status = IF instant THEN "CONFIRMED" ELSE "PENDING"
      /\ row.expires = IF instant THEN 0 ELSE HoldEnds
  OBVIOUS
<1> HIDE DEF row
<1>11. /\ row.status = "CONFIRMED" \/ (row.status = "PENDING" /\ row.expires > now)
       /\ row.status \in {"CONFIRMED", "PENDING"}
  <2>1. HoldEnds > now BY <1>0, Bounds DEF HoldEnds, TypeOK
  <2>2. CASE instant BY <1>2, <2>2
  <2>3. CASE ~instant BY <1>2, <2>1, <2>3
  <2> QED BY <2>2, <2>3
<1>3. PICK b \in Bookings : ~Exists(b) /\ booking' = [booking EXCEPT ![b] = row] BY <1>1
<1>4. booking'[b] = row /\ \A x \in Bookings : x # b => booking'[x] = booking[x]
  BY <1>0, <1>3 DEF TypeOK
<1>5. \A x \in Bookings : x # b => ClaimOf(x)' = ClaimOf(x)
  BY <1>0, <1>1, <1>4, ClaimStays DEF At
<1>6. ClaimOf(b) = Ledger!NoClaim BY <1>3 DEF ClaimOf, Ledger!NoClaim
<1>7. ClaimOf(b)' \in Ledger!Claims /\ ClaimOf(b)'.state \in {"held", "booked"}
  <2>1. Exists(b)' /\ Reserving(b)' BY <1>1, <1>4, <1>11 DEF Exists, Reserving
  <2>2. ClaimState(b)' \in {"held", "booked"} BY <1>4, <1>11, <2>1 DEF ClaimState
  <2>3. /\ ClaimOf(b)' = [state |-> ClaimState(b)', room |-> booking'[b].room,
                          from |-> booking'[b].from, to |-> booking'[b].to, rooms |-> booking'[b].rooms]
        /\ booking'[b] \in BookingRows
    BY <1>0, <2>1 DEF ClaimOf, TypeOK, Exists, NoBooking
  <2> QED BY <2>2, <2>3 DEF Ledger!Claims, Ledger!States, Ledger!Days, BookingRows, Days
<1>8. Claimed' = [Claimed EXCEPT ![b] = ClaimOf(b)'] /\ Claimed[b].state = "none"
  <2>1. Claimed[b] = ClaimOf(b) BY DEF Claimed
  <2>2. Claimed' = [x \in Bookings |-> ClaimOf(x)'] BY DEF Claimed
  <2>3. [Claimed EXCEPT ![b] = ClaimOf(b)'] = [x \in Bookings |-> ClaimOf(x)']
    BY <1>5 DEF Claimed
  <2> QED BY <1>6, <2>1, <2>2, <2>3 DEF Ledger!NoClaim
<1>9. Offers' = Offers BY <1>1 DEF Offers, Offered
<1>10. Ledger!Fits' BY FitAfter
<1> QED BY <1>1, <1>7, <1>8, <1>9, <1>10 DEF Ledger!Grant, Claimed, Offers

\* transition's save accepts a hold or concludes a claim.
LEMMA SaveChangeMoves ==
  ASSUME IInv, IInv', ChangesLegal, NEW c \in Clients, SaveChange(c)
  PROVE  \E b \in Bookings : Ledger!Accept(b) \/ Ledger!Conclude(b)
<1>0. TypeOK /\ RequestsRefer BY DEF IInv
<1>1. PICK b : b = request[c].booking OBVIOUS
<1>2. /\ At(c, "change", "commit") /\ End(c) /\ request[c] \in ChangeRequests
      /\ booking' = [booking EXCEPT ![b].status = request[c].target]
      /\ UNCHANGED <<now, today, quantity, rowUnits>>
  BY <1>0, <1>1, KindOfRequest DEF SaveChange, clock, calendar
<1>3. b \in Bookings /\ Exists(b) /\ booking[b] \in BookingRows
  BY <1>0, <1>1, <1>2, RowTyped DEF RequestsRefer, At, ChangeRequests
<1>4. /\ booking'[b] = [booking[b] EXCEPT !.status = request[c].target]
      /\ \A x \in Bookings : x # b => booking'[x] = booking[x]
  BY <1>0, <1>2, <1>3 DEF TypeOK
<1>5. \A x \in Bookings : x # b => ClaimOf(x)' = ClaimOf(x)
  BY <1>0, <1>1, <1>2, <1>4, ClaimStays
<1>6. request[c].target \in Targets(booking[b].status)
  BY <1>1, <1>2 DEF ChangesLegal
<1>7. ClaimOf(b)' = [ClaimOf(b) EXCEPT !.state = ClaimState(b)']
  <2>1. /\ booking'[b].status = request[c].target /\ booking'[b].room = booking[b].room
        /\ booking'[b].from = booking[b].from /\ booking'[b].to = booking[b].to
        /\ booking'[b].rooms = booking[b].rooms
    BY <1>3, <1>4 DEF BookingRows
  <2>2. Exists(b)' BY <1>2, <2>1 DEF Exists, ChangeRequests, Statuses
  <2> QED BY <1>3, <2>1, <2>2 DEF ClaimOf
<1>8. Claimed' = [Claimed EXCEPT ![b].state = ClaimState(b)'] /\ Claimed[b] = ClaimOf(b)
  BY <1>3, <1>5, <1>7 DEF Claimed
<1>9. Offers' = Offers BY <1>2 DEF Offers, Offered
<1>10. ClaimOf(b).state = ClaimState(b) BY <1>3 DEF ClaimOf
<1>11. booking'[b].status = request[c].target BY <1>3, <1>4 DEF BookingRows
<1>12. CASE request[c].target = "CONFIRMED"
  <2>1. booking[b].status = "PENDING" BY <1>6, <1>12 DEF Targets, TRANSITIONS
  <2>2. ClaimState(b) = "held" BY <1>1, <1>2, <1>12, <2>1 DEF ClaimState, BeingConfirmed
  <2>3. ClaimState(b)' = "booked" BY <1>11, <1>12 DEF ClaimState
  <2>4. Ledger!Accept(b)
    BY <1>2, <1>8, <1>9, <1>10, <2>2, <2>3 DEF Ledger!Accept, Claimed, Offers
  <2> QED BY <1>3, <2>4
<1>13. CASE request[c].target # "CONFIRMED"
  <2>1. ClaimState(b) \in {"held", "booked", "lapsed"}
    BY <1>6 DEF ClaimState, Targets, TRANSITIONS
  <2>2. ClaimState(b)' = "over" BY <1>2, <1>11, <1>13 DEF ClaimState, ChangeRequests
  <2>3. Ledger!Conclude(b)
    BY <1>2, <1>8, <1>9, <1>10, <2>1, <2>2 DEF Ledger!Conclude, Claimed, Offers
  <2> QED BY <1>3, <2>3
<1> QED BY <1>12, <1>13

\* A calendar or room-type edit is a new offer.
LEMMA EditReoffers ==
  ASSUME IInv, IInv', NEW c \in Clients, SaveBulk(c) \/ SaveUpdate(c)
  PROVE  \E r \in Rooms : Ledger!Reoffer(r)
<1>0. TypeOK /\ TypeOK' BY DEF IInv
<1>1. PICK r : r = request[c].room OBVIOUS
<1>2. /\ r \in Rooms /\ End(c) /\ UNCHANGED <<now, today, booking>>
      /\ ~At(c, "change", "commit")
      /\ \A q \in Rooms : q # r => rowUnits'[q] = rowUnits[q] /\ quantity'[q] = quantity[q]
  <2>1. CASE SaveBulk(c)
    BY <1>0, <1>1, <2>1, KindOfRequest DEF SaveBulk, clock, At, BulkRequests, TypeOK
  <2>2. CASE SaveUpdate(c)
    BY <1>0, <1>1, <2>2, KindOfRequest DEF SaveUpdate, clock, At, RoomRequests, TypeOK
  <2> QED BY <2>1, <2>2
<1>3. \A x \in Bookings : ClaimOf(x)' = ClaimOf(x)
  BY <1>0, <1>2, ClaimStays
<1>4. Claimed' = Claimed BY <1>3 DEF Claimed
<1> DEFINE o == [d \in Days |-> Offered(r, d)']
<1>5. o \in [Days -> 0..MaxUnits]
  BY <1>0, <1>2 DEF TypeOK, Offered
<1>6. Offers' = [Offers EXCEPT ![r] = o]
  BY <1>2 DEF Offers, Offered
<1>7. Ledger!Fits' BY FitAfter
<1> HIDE DEF o
<1> QED BY <1>2, <1>4, <1>5, <1>6, <1>7 DEF Ledger!Reoffer, Ledger!Days, Days, Claimed, Offers

LEMMA StepsAreTheLedgers == IInv /\ IInv' /\ ChangesLegal /\ [Next]_vars => [Ledger!Next]_(Ledger!vars)
<1> SUFFICES ASSUME IInv, IInv', ChangesLegal, [Next]_vars PROVE Ledger!Next OBVIOUS
<1>1. TypeOK BY DEF IInv
<1>2. CASE Quiet BY <1>2, QuietPasses DEF Ledger!Next
<1>3. ASSUME NEW c \in Clients, InsertBooking(c) PROVE Ledger!Next
  BY <1>3, InsertGrants DEF Ledger!Next
<1>4. ASSUME NEW c \in Clients, SaveChange(c) PROVE Ledger!Next
  BY <1>4, SaveChangeMoves DEF Ledger!Next
<1>5. ASSUME NEW c \in Clients, SaveBulk(c) \/ SaveUpdate(c) PROVE Ledger!Next
  BY <1>5, EditReoffers DEF Ledger!Next
<1> QED BY <1>1, <1>2, <1>3, <1>4, <1>5, QuietOrCommit

LEMMA StartsEmpty == Init => Ledger!Init
<1> SUFFICES ASSUME Init PROVE Ledger!Init OBVIOUS
<1>1. Claimed = [b \in Bookings |-> Ledger!NoClaim]
  BY DEF Init, Claimed, ClaimOf, Exists, NoBooking, Ledger!NoClaim
<1>2. Offers \in [Rooms -> [Days -> 0..MaxUnits]]
  BY Bounds DEF Init, Offers, Offered
<1> QED BY <1>1, <1>2 DEF Ledger!Init, Ledger!Days, Days, Claimed, Offers, Init

\* Every behaviour of the transactions, the clock and the rollbacks is a behaviour of
\* the ledger, where claims are granted whole and must fit, only a hold becomes a
\* reservation, a lapsed hold never comes back and an offer never drops below what
\* is granted.
THEOREM ImplementsTheLedger == Spec => ImplementsLedger
<1>1. Init => ChangesLegal
  BY DEF Init, ChangesLegal, At
<1>2. IInv /\ ChangesLegal /\ [Next]_vars => IInv' /\ ChangesLegal'
  BY NextInv, LegalStep
<1> QED BY <1>1, <1>2, InitInv, StepsAreTheLedgers, StartsEmpty, PTL DEF Spec, ImplementsLedger, Ledger!Spec
=============================================================================
