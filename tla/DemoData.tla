------------------------------ MODULE DemoData ------------------------------
(***************************************************************************)
(* The demo data of staging servers (seed_demo_data): one transaction that *)
(* may first delete what earlier runs made and then looks every row up by  *)
(* its natural key, to create or to overwrite it.  A row is its key here,  *)
(* and of a listing also who pays for it and whether it takes a place of   *)
(* that owner's plan.  People use the site between two runs.               *)
(***************************************************************************)
EXTENDS Integers, FiniteSets, FiniteSetsExt

CONSTANTS
  Counts,    \* what --count may be
  Horizon,   \* days of a room's calendar, 90 in the code
  FreePlan,  \* active listings of a free plan: an account's properties or stays, an agency's stays
             \* (an agency has more properties, and none of the demo ones is available)
  MaxRunDay, \* the last day looked at (bound)
  MaxUses,   \* what people do, in all (bound)
  None

\* What the constants stand for; whoever instantiates the module assumes it.
Terms == /\ FreePlan \in Nat /\ Counts \subseteq Nat
         /\ \A payer \in {"account", "agency"} \X (0..3), live \in BOOLEAN : None # [payer |-> payer, live |-> live]
         /\ \A last \in {29, 19} :
              None \notin [0..last -> [payer : {"account", "agency"} \X (0..3), live : BOOLEAN] \cup {None}]

VARIABLES
  today,
  db,    \* the demo rows: [keys, property, stay]
  extra, \* what people added since
  uses,  \* how much they did
  told,  \* what the last run printed: [run, ok]
  old    \* the demo rows before it

vars == <<today, db, extra, uses, told, old>>

\* The lists the rows are made from, by their lengths.
PropertyTitles  == 30
StayTitles      == 20
PublishedTitles == 24
PublishedNames  == 16
WantedSearches  == 7
ViewingStatuses == 6
BookingStatuses == 6
NoticeKinds     == 6
Answers         == 2
PropertyIndices(n) == 0..((6 * n + 5) \div 10 - 1)               \* scale_counts: three fifths, rounded ...
StayIndices(n)     == 0..(n - Cardinality(PropertyIndices(n)) - 1) \* ... and the rest
First(k, S) == {i \in S : i < k}
Seekers == 0..2
-----------------------------------------------------------------------------
(* The keys each section looks up.                                         *)

UserRows   == {<<"user", u>> : u \in 1..12}
Agencies   == {<<"agency", a>> : a \in 0..3} \cup {<<"agent", a>> : a \in 1..5}
Amenities  == {<<"amenity", a>> : a \in 1..12}
StayAmenities == {<<"stay_amenity", a>> : a \in 1..10}
PropertyImages(n) == UNION {{<<"property_image", i, k>> : k \in 0..(2 + (i % 4))} : i \in PropertyIndices(n)}
Rooms(n)   == UNION {{<<"room", i, r>> : r \in 0..(i % 4)} : i \in StayIndices(n)}
StayImages(n) == UNION {{<<"stay_image", i, k>> : k \in 0..(2 + (i % 4))} : i \in StayIndices(n)}
RoomImages(n) == UNION {{<<"room_image", r[2], r[3], k>> : k \in 0..(r[3] % 3)} : r \in Rooms(n)}
NightRows(n, d) == UNION {{<<"night", r[2], r[3], d + o>> : o \in 1..Horizon} : r \in Rooms(n)}
FavouriteRows(n) ==
  UNION {{<<"favourite_property", s, i>> : i \in (s..(s + 4)) \cap PropertyIndices(n)}
         \cup {<<"favourite_stay", s, i>> : i \in (s..(s + 2)) \cap StayIndices(n)} : s \in Seekers}
SearchRows == {<<"search", j>> : j \in 0..(WantedSearches - 1)} \cup {<<"event", j>> : j \in 0..4}
\* A conversation's subject counts the properties first: other counts, other subjects.
ConversationKeys(n) ==
  LET p == Cardinality(First(7, PropertyIndices(n)))
  IN  {<<"conversation", "property", i, i>> : i \in First(7, PropertyIndices(n))}
      \cup {<<"conversation", "stay", i, p + i>> : i \in First(5, StayIndices(n))}
Messages(n) == {<<"message", c[2], c[3], c[4], m>> : c \in ConversationKeys(n), m \in 0..Answers}
ViewingRows(n, d) ==
  {<<"viewing", i % Cardinality(First(12, PropertyIndices(n))), i % 3, d + 3 + i>> : i \in 0..(2 * ViewingStatuses - 1)}
Bookings   == {<<"booking", i % 3, i>> : i \in 0..(2 * BookingStatuses - 1)}
Verifications == {<<"verification", j>> : j \in 1..10} \cup {<<"audit", j>> : j \in 1..10}
Notices    == {<<"notification", i % 6, i>> : i \in 0..(2 * NoticeKinds - 1)}
Reports    == {<<"report", 1, "property", 2>>, <<"report", 2, "property", 5>>, <<"report", 0, "stay", 3>>}

Keys(n, d) ==
  UserRows \cup Agencies \cup Amenities \cup StayAmenities \cup PropertyImages(n) \cup Rooms(n) \cup StayImages(n)
  \cup RoomImages(n) \cup NightRows(n, d) \cup FavouriteRows(n) \cup SearchRows \cup ConversationKeys(n) \cup Messages(n)
  \cup ViewingRows(n, d) \cup Bookings \cup Verifications \cup Notices \cup Reports
-----------------------------------------------------------------------------
(* The two tables of listings, written row by row through their save().    *)

Row(payer, live) == [payer |-> payer, live |-> live]
\* Every third property is its owner's alone; just those are marked available.
PropertyRow(i) == Row(IF i % 3 = 0 THEN <<"account", i % 4>> ELSE <<"agency", i % 4>>,
                      i % PropertyTitles < PublishedTitles /\ i % 3 = 0)
StayRow(i) == Row(IF i % 4 = 0 THEN <<"account", i % 4>> ELSE <<"agency", i % 4>>, i % StayTitles < PublishedNames)

Live(table, payer) == {t \in DOMAIN table : table[t] # None /\ table[t].live /\ table[t].payer = payer}
Enters(before, row) == row.live /\ (before = None \/ ~before.live \/ before.payer # row.payer)
\* A listing somebody added by hand takes a place, too.
ByHand(payer) == {x \in extra : x = <<"listing", payer>>}
Saved(table, t, row, others) ==
  IF Enters(table[t], row) /\ Cardinality(Live(table, row.payer)) + Cardinality(others) >= FreePlan THEN None
  ELSE [table EXCEPT ![t] = row]

SeededProperties(table, n) ==
  LET after[i \in 0..Cardinality(PropertyIndices(n))] ==
        IF i = 0 THEN table
        ELSE LET sofar == after[i - 1]
                 row   == PropertyRow(i - 1)
             IN  IF sofar = None THEN None ELSE Saved(sofar, (i - 1) % PropertyTitles, row, ByHand(row.payer))
  IN  after[Cardinality(PropertyIndices(n))]
SeededStays(table, n) ==
  LET after[i \in 0..Cardinality(StayIndices(n))] ==
        IF i = 0 THEN table
        ELSE LET sofar == after[i - 1]
             IN  IF sofar = None THEN None ELSE Saved(sofar, (i - 1) % StayTitles, StayRow(i - 1), {})
  IN  after[Cardinality(StayIndices(n))]
-----------------------------------------------------------------------------
Empty == [keys     |-> {},
          property |-> [t \in 0..(PropertyTitles - 1) |-> None],
          stay     |-> [t \in 0..(StayTitles - 1) |-> None]]

\* What _reset leaves: the amenities, which real listings share.
Swept == [Empty EXCEPT !.keys = db.keys \cap (Amenities \cup StayAmenities)]
\* Bookings and listings of demo users refuse to lose their stay or their owner (PROTECT).
Protected == {x \in extra : x[1] \in {"booking", "listing"}}

Run(n, reset) ==
  LET start      == IF reset THEN Swept ELSE db
      properties == SeededProperties(start.property, n)
      stays      == SeededStays(start.stay, n)
      ok == /\ reset => Protected = {}
            /\ ~reset => <<"twin">> \notin extra     \* two rows match a lookup: an error
            /\ properties # None /\ stays # None
  IN  /\ told' = [count |-> n, ok |-> ok]
      /\ old' = IF reset /\ ok THEN Swept ELSE db
      /\ db' = IF ok THEN [keys |-> start.keys \cup Keys(n, today), property |-> properties, stay |-> stays] ELSE db
      /\ extra' = IF reset /\ ok THEN {} ELSE extra
      /\ UNCHANGED <<today, uses>>
-----------------------------------------------------------------------------
(* What people do with the data: a host or the staff pause a listing, a    *)
(* demo owner publishes another, a real guest books a demo stay, a demo    *)
(* user repeats a saved search or a verification request.                  *)

Used(d, x) == /\ uses < MaxUses /\ uses' = uses + 1
              /\ db' = d /\ extra' = extra \cup x /\ told' = None /\ old' = d /\ UNCHANGED today
Pause == \E t \in DOMAIN db.property :
           db.property[t] # None /\ db.property[t].live /\ Used([db EXCEPT !.property[t].live = FALSE], {})
Publish == \E o \in 0..3 :
             LET payer == <<"account", o>>
             IN  /\ db.keys # {} /\ ByHand(payer) = {}
                 /\ Cardinality(Live(db.property, payer)) < FreePlan
                 /\ Used(db, {<<"listing", payer>>})
Book == \E t \in DOMAIN db.stay : db.stay[t] # None /\ db.stay[t].live /\ Used(db, {<<"booking">>})
Repeat == UserRows \subseteq db.keys /\ Used(db, {<<"twin">>})
NextDay == today < MaxRunDay /\ today' = today + 1 /\ told' = None /\ old' = db /\ UNCHANGED <<db, extra, uses>>

Init == today = 1 /\ db = Empty /\ extra = {} /\ uses = 0 /\ told = None /\ old = Empty
Seed == \E n \in Counts, reset \in BOOLEAN : Run(n, reset)
Next == Seed \/ Pause \/ Publish \/ Book \/ Repeat \/ NextDay
Spec == Init /\ [][Next]_vars
-----------------------------------------------------------------------------
TypeOK == /\ today \in 1..MaxRunDay
          /\ \A table \in {db.property, db.stay} : \A t \in DOMAIN table :
               table[t] # None => table[t].payer \in {"account", "agency"} \X (0..3) /\ table[t].live \in BOOLEAN
          /\ told # None => told.count \in Counts /\ told.ok \in BOOLEAN

Of(section) == {k \in db.keys : k[1] = section}
Listed(table) == {t \in DOMAIN table : table[t] # None}
\* len(...) of what the run made or found, as its summary prints it
Summary(n) ==
  [viewing |-> 12, booking |-> 12, verification |-> 10, notification |-> 12, report |-> 3, search |-> 7,
   conversation |-> Cardinality(First(7, PropertyIndices(n))) + Cardinality(First(5, StayIndices(n)))]

\* A refused run leaves every row as it was, and one that succeeds on an empty database
\* prints what the database now holds: no two rows of a section are one.  It succeeds
\* exactly when no owner is to publish more listings than a free plan has places.
SummaryTrue ==
  told # None =>
    /\ ~told.ok => db = old
    /\ told.ok /\ old.keys \subseteq Amenities \cup StayAmenities =>
         /\ \A section \in DOMAIN Summary(told.count) : Cardinality(Of(section)) = Summary(told.count)[section]
         /\ Cardinality(Listed(db.property)) = Cardinality(PropertyIndices(told.count))
         /\ Cardinality(Listed(db.stay)) = Cardinality(StayIndices(told.count))
    /\ old.keys = {} /\ extra = {} =>
         (told.ok <=> \A payer \in {"account", "agency"} \X (0..3) :
                        /\ Cardinality({i \in PropertyIndices(told.count) : PropertyRow(i) = Row(payer, TRUE)}) <= FreePlan
                        /\ Cardinality({i \in StayIndices(told.count) : StayRow(i) = Row(payer, TRUE)}) <= FreePlan)

\* However runs, pauses and listings added by hand follow each other, no owner has more
\* active listings than places.
WithinPlans ==
  \A payer \in {"account", "agency"} \X (0..3) :
    /\ Cardinality(Live(db.property, payer)) + Cardinality(ByHand(payer)) <= FreePlan
    /\ Cardinality(Live(db.stay, payer)) <= FreePlan
=============================================================================
