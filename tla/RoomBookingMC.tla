--------------------------- MODULE RoomBookingMC ---------------------------
(* Small instances of RoomBooking for TLC.                                 *)
EXTENDS RoomBooking, TLC

CONSTANTS s1, s2

OneStay  == {s1}
TwoStays == {s1, s2}
AllOfOne == [r \in Rooms |-> s1]
TwoOfOne == [r \in Rooms |-> IF r <= 2 THEN s1 ELSE s2]

Interchangeable == Permutations(Bookings) \cup Permutations(Clients \ Workers)

\* The requests are looked at in two groups: those that contend for the nights of one room
\* while the stay stays published and the clock stands (bound), and those that lock rooms
\* and stay while it is paused, a room closes and time passes, over one booking of one
\* night in the room that is locked last (bound).
Asked == {request[c] : c \in Clients} \ {NoRequest}
Booked == {booking[b] : b \in {x \in Bookings : Exists(x)}}

RoomContested ==
  /\ now = 0
  /\ \A s \in Stays : stayStatus[s] = "PUBLISHED" /\ bookingMode[s] = "REQUEST_TO_BOOK"
  /\ \A r \in Rooms : active[r]
  /\ \A row \in Booked : /\ row.room = 1 /\ row.expires = HoldTime
                         /\ row.status \in {"PENDING", "CONFIRMED"}
  /\ \A req \in Asked :
       \/ req.kind \in {"create", "bulk"} /\ req.room = 1
       \/ req.kind = "update" /\ req.room = 1 /\ req.active
       \/ req.kind = "change" /\ req.target = "CONFIRMED"

StayContested ==
  /\ Cardinality({b \in Bookings : Exists(b)}) <= 1
  /\ \A row \in Booked : row.room = 2 /\ row.to = 2 /\ row.key = NoKey
  /\ \A r \in Rooms : /\ quantity[r] = MaxUnits /\ blocked[r] = {}
                      /\ \A d \in Days : rowUnits[r][d] = NoRow
  /\ \A req \in Asked :
       \/ req.kind = "pause"
       \/ req.kind = "create" /\ req.room = 2 /\ req.to = 2 /\ req.key = NoKey
       \/ req.kind = "update" /\ req.room = 2 /\ req.quantity = MaxUnits
       \/ req.kind = "change" /\ req.target \in {"CANCELLED", "COMPLETED"}

Contested == RoomContested \/ StayContested
=============================================================================
