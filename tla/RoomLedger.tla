----------------------------- MODULE RoomLedger -----------------------------
(***************************************************************************)
(* What a host and a guest may rely on, without locks, transactions or a   *)
(* clock: claims on a room type's nights that are granted whole or not at  *)
(* all, and an offer the host may change but never below what is granted.  *)
(* RoomBooking implements it.                                              *)
(***************************************************************************)
EXTENDS Integers, FiniteSets

CONSTANTS Bookings, Rooms, LastDay, MaxUnits

VARIABLES
  today,    \* nights before today no longer matter
  offer,    \* offer[r][d]: rooms the host offers
  claim     \* what has become of each booking

vars == <<today, offer, claim>>

Days   == 1..LastDay
States == {"held", "booked", "lapsed", "over"}
Claims == [state: States, room: Rooms, from: Days, to: 2..(LastDay + 1), rooms: 1..MaxUnits]
NoClaim == [state |-> "none"]

Granted(b, r, d) == /\ claim[b].state \in {"held", "booked"}
                    /\ claim[b].room = r /\ claim[b].from <= d /\ d < claim[b].to
Taken(r, d) ==
  Cardinality({u \in {b \in Bookings : Granted(b, r, d)} \X (1..MaxUnits) :
                 u[2] <= claim[u[1]].rooms})

Fits == \A r \in Rooms, d \in Days : d >= today => Taken(r, d) <= offer[r][d]
-----------------------------------------------------------------------------
Init ==
  /\ today = 1
  /\ offer \in [Rooms -> [Days -> 0..MaxUnits]]
  /\ claim = [b \in Bookings |-> NoClaim]

\* A booking is granted for all its nights or not at all.
Grant(b) ==
  /\ claim[b].state = "none"
  /\ \E c \in Claims : c.state \in {"held", "booked"} /\ claim' = [claim EXCEPT ![b] = c]
  /\ Fits'
  /\ UNCHANGED <<today, offer>>

\* Only a hold that has not lapsed becomes a reservation.
Accept(b) ==
  /\ claim[b].state = "held"
  /\ claim' = [claim EXCEPT ![b].state = "booked"]
  /\ UNCHANGED <<today, offer>>

\* Declined, cancelled, completed or expired: for good.
Conclude(b) ==
  /\ claim[b].state \in {"held", "booked", "lapsed"}
  /\ claim' = [claim EXCEPT ![b].state = "over"]
  /\ UNCHANGED <<today, offer>>

\* Time passes: holds lapse, a reservation never does.
Pass ==
  /\ \E B \in SUBSET {b \in Bookings : claim[b].state = "held"} :
       claim' = [b \in Bookings |-> IF b \in B THEN [claim[b] EXCEPT !.state = "lapsed"]
                                    ELSE claim[b]]
  /\ today' \in {today, today + 1}
  /\ UNCHANGED offer

\* The host changes the offer of one room type, not below what is granted.
Reoffer(r) ==
  /\ \E o \in [Days -> 0..MaxUnits] : offer' = [offer EXCEPT ![r] = o]
  /\ Fits'
  /\ UNCHANGED <<today, claim>>

Next == \/ \E b \in Bookings : Grant(b) \/ Accept(b) \/ Conclude(b)
        \/ \E r \in Rooms : Reoffer(r)
        \/ Pass

Spec == Init /\ [][Next]_vars
=============================================================================
