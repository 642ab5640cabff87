------------------------------- MODULE Quotes -------------------------------
(***************************************************************************)
(* Quotes (stays/services.py, room_availability): what the availability    *)
(* page and the search tell of a room for some nights.  A booking asks     *)
(* again under the room's lock and looks at each night's inventory as well *)
(* (bookings/services.py); this module is about the two computations, over *)
(* one calendar that does not change between them.                         *)
(***************************************************************************)
EXTENDS Integers, FiniteSets, FiniteSetsExt

CONSTANTS
  Nights,     \* the days looked at, 1..n
  Quantity,   \* rooms of this type
  Occupancy,  \* [adults, children, total]: what one room takes
  BasePrice, Minimum,  \* the room's own
  Unset,      \* a night without a row, a row without a price or a minimum
  Prices, Minima, MaxRooms,
  Parties     \* [adults, children]

\* What the constants stand for; whoever instantiates the module assumes it.
Terms == /\ Nights \subseteq Nat /\ IsFiniteSet(Nights)
         /\ {Quantity, BasePrice, Minimum, MaxRooms} \cup Prices \cup Minima \subseteq Nat

VARIABLES
  row,     \* row[d]: the calendar's row of day d, or Unset
  taken,   \* taken[d]: reserved_units of day d
  ask,     \* the question
  answer   \* what room_availability returned

vars == <<row, taken, ask, answer>>

CalendarRows == [units: 0..Quantity, blocked: BOOLEAN, price: Prices \cup {Unset}, minimum: Minima \cup {Unset}]
Asks == [from: Nights, nights: 1..Cardinality(Nights), party: Parties, rooms: 1..MaxRooms]
DaysOf(q) == q.from..(q.from + q.nights - 1)
AsksHere == {q \in Asks : DaysOf(q) \subseteq Nights}
Unclamped(n) == n
AtLeast0(n) == IF n < 0 THEN 0 ELSE n
Larger(a, b) == IF a > b THEN a ELSE b
Smaller(a, b) == IF a < b THEN a ELSE b
Or(value, default) == IF value = Unset THEN default ELSE value

Fits(q) == /\ q.party.adults <= Occupancy.adults * q.rooms
           /\ q.party.children <= Occupancy.children * q.rooms
           /\ q.party.adults + q.party.children <= Occupancy.total * q.rooms
-----------------------------------------------------------------------------
\* One night of the loop: the longest minimum, the fewest rooms, the sum of the prices.
NightOfQuantity(d, sofar) ==
  [minimum |-> IF row[d] = Unset THEN sofar.minimum ELSE Larger(sofar.minimum, Or(row[d].minimum, 1)),
   rooms   |-> Smaller(sofar.rooms, AtLeast0(Quantity - taken[d])),
   total   |-> sofar.total + (IF row[d] = Unset THEN BasePrice ELSE Or(row[d].price, BasePrice))]
Night(d, sofar) ==
  LET units == IF row[d] = Unset THEN Quantity ELSE IF row[d].blocked THEN 0 ELSE row[d].units
  IN  [minimum |-> IF row[d] = Unset THEN sofar.minimum ELSE Larger(sofar.minimum, Or(row[d].minimum, 1)),
       rooms   |-> Smaller(sofar.rooms, AtLeast0(units - taken[d])),
       total   |-> sofar.total + (IF row[d] = Unset THEN BasePrice ELSE Or(row[d].price, BasePrice))]

room_availability(q) ==
  LET all == FoldSet(Night, [minimum |-> Minimum, rooms |-> Quantity, total |-> 0], DaysOf(q))
      enough == all.rooms >= q.rooms
  IN  [available |-> Fits(q) /\ q.nights >= all.minimum /\ enough,
       rooms     |-> all.rooms,
       total     |-> all.total * q.rooms,
       minimum   |-> all.minimum,
       reason    |-> IF ~Fits(q) THEN "occupancy"
                     ELSE IF q.nights < all.minimum THEN "minimum_stay"
                     ELSE IF ~enough THEN "inventory" ELSE "none"]

Init == /\ row \in [Nights -> CalendarRows \cup {Unset}]
        /\ taken \in [Nights -> 0..Quantity]
        /\ ask = Unset /\ answer = Unset
Ask == /\ ask = Unset
       /\ \E q \in AsksHere : ask' = q /\ answer' = room_availability(q)
       /\ UNCHANGED <<row, taken>>
Next == Ask
Spec == Init /\ [][Next]_vars
-----------------------------------------------------------------------------
\* bookings/services.py: inventory, which a booking checks for each of its nights.
inventory(d) ==
  LET base == IF row[d] # Unset /\ row[d].blocked THEN 0 ELSE IF row[d] # Unset THEN row[d].units ELSE Quantity
  IN  AtLeast0(base - taken[d])

TypeOK == /\ row \in [Nights -> CalendarRows \cup {Unset}] /\ taken \in [Nights -> Nat]
          /\ ask # Unset => answer.total \in Nat /\ answer.rooms \in 0..Quantity

\* A quote offers a room exactly when a booking for the same nights would be accepted: the
\* party fits, no night's minimum is longer, and every night's inventory suffices; it shows
\* the rooms of the worst night, the sum of the prices, and a reason for every refusal.
QuoteIsBookable ==
  ask # Unset =>
    LET D == DaysOf(ask)
    IN  /\ answer.available <=>
             /\ Fits(ask)
             /\ ask.nights >= Minimum
             /\ \A d \in D : /\ row[d] # Unset /\ row[d].minimum # Unset => ask.nights >= row[d].minimum
                             /\ inventory(d) >= ask.rooms
        /\ answer.available <=> answer.reason = "none"
        /\ \A n \in 1..MaxRooms : answer.rooms >= n <=> \A d \in D : inventory(d) >= n
        /\ answer.total = ask.rooms * 
             MapThenSumSet(LAMBDA d : IF row[d] = Unset \/ row[d].price = Unset THEN BasePrice ELSE row[d].price, D)
=============================================================================
