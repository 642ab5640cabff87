------------------------ MODULE PropertyListingProofs ------------------------
(* Theorems about PropertyListing for every value of its constants.        *)
EXTENDS PropertyListing, FiniteSetTheorems, WellFoundedInduction, TLAPS

(***************************************************************************)
(* The inductive invariant.  A request's copy of a row is a row the table  *)
(* could hold.  What the hourly task keeps of a unit between its two steps *)
(* stays true, since nobody gives a lapsed unit back its days or moves it. *)
(***************************************************************************)
UnitRows == [status: {"NONE", "UNUSED", "ACTIVE", "EXPIRED"}, scope: Scopes \cup {Nobody},
             listing: Listings \cup {NoListing}, left: Nat]
DatedRows == {row \in Rows : row.status = "PUBLISHED" => row.dated}
ListingOps == HostOps \cup StaffOps \cup LegacyOps
Asking(ops) == [op: ops, listing: Listings, copy: DatedRows, to: Scopes, seen: Scopes,
                scopes: SUBSET Scopes]
Expiring == [op: {"expire"}, listing: Listings, unit: Units]

TablesTyped == /\ listing \in [Listings -> DatedRows]
               /\ unit \in [Units -> UnitRows]
               /\ paid \in [Scopes -> -1..Term]
SessionTyped == /\ holder \in [Scopes \cup Listings -> Processes \cup {Nobody}]
                /\ stage \in [Processes -> Stages] /\ DOMAIN request = Processes
                /\ asked \subseteq Clients
                /\ DOMAIN todo = Tasks /\ todo[Upkeep] \subseteq Listings /\ todo[Expiry] \subseteq Units

\* What a transaction in progress is about.
Asks(p) == stage[p] # "idle" =>
             request[p] \in IF p = Expiry THEN Expiring
                            ELSE Asking(IF p = Upkeep THEN {"upkeep"} ELSE ListingOps)
Sessions == \A p \in Processes : Asks(p)

\* An active unit is some listing's.
ActiveUnitsBound == \A u \in Units : unit[u].status = "ACTIVE" => unit[u].listing \in Listings

\* The unit the hourly task is about to close.
LapseStands ==
  stage[Expiry] # "idle" =>
    LET u == request[Expiry].unit
    IN  unit[u].status \in {"ACTIVE", "EXPIRED"} /\ unit[u].left = 0 /\ unit[u].listing = request[Expiry].listing

IInv == /\ day \in 0..MaxDays /\ TablesTyped /\ SessionTyped /\ Sessions
        /\ ActiveUnitsBound /\ UnitsFollowListing /\ LapseStands

-----------------------------------------------------------------------------
(* What is written is a row.                                               *)

LEMMA LeastNat == ASSUME NEW T, T \subseteq Nat, T # {} PROVE \E x \in T : \A y \in T : x <= y
<1> DEFINE R == {ss \in Nat \X Nat : ss[1] < ss[2]}
<1>1. R = OpToRel(<, Nat)
  BY DEF OpToRel
<1>2. IsWellFoundedOn(R, Nat)
  BY <1>1, NatLessThanWellFounded
<1>3. \E x \in T : \A y \in T : ~(<<y, x>> \in R)
  <2> HIDE DEF R
  <2> QED BY <1>2, WFMin
<1>4. PICK x \in T : \A y \in T : ~(<<y, x>> \in R)
  BY <1>3
<1>5. ASSUME NEW y \in T PROVE x <= y
  <2>1. x \in Nat /\ y \in Nat OBVIOUS
  <2>2. ~(y < x) BY <1>4, <2>1
  <2> QED BY <2>1, <2>2
<1> QED BY <1>5

LEMMA Apart ==
  /\ Upkeep # Expiry /\ Upkeep \notin Clients /\ Expiry \notin Clients
  /\ Upkeep \in Processes /\ Expiry \in Processes /\ Clients \subseteq Processes
  /\ Nobody \notin Processes /\ NoListing \notin Listings
  /\ Units \subseteq Nat /\ Scopes \subseteq Nat /\ Scopes \cap Listings = {}
BY OrderedKeys, NullsApart, WorkersApart DEF Processes, Tasks

LEMMA AgedIs ==
  ASSUME NEW row \in DatedRows
  PROVE  Older(row) \in DatedRows /\ Older(row).owner = row.owner
<1>1. row \in Rows /\ StaleDays \in Nat
  BY Lengths DEF DatedRows
<1>2. (IF row.age < StaleDays THEN row.age + 1 ELSE row.age) \in 0..StaleDays
  BY <1>1 DEF Rows
<1> QED BY <1>1, <1>2 DEF Older, DatedRows, Rows

LEMMA RestartedIs ==
  ASSUME NEW row \in DatedRows PROVE Reset(row) \in 0..StaleDays
BY Lengths DEF Reset, DatedRows, Rows

\* Every operation makes a row of a row; staff's and hosts' publication gives it a date.
LEMMA WrittenIs ==
  ASSUME NEW row \in DatedRows, NEW req \in Asking(ListingOps)
  PROVE  Written(req, row) \in DatedRows
<1>0. row \in Rows /\ StaleDays \in Nat /\ Reset(row) \in 0..StaleDays
  BY Lengths, RestartedIs DEF DatedRows
<1>d. DOMAIN NewStatus = {"submit", "pause", "start_review", "send_back", "suspend",
                          "legacy_suspend", "legacy_pause"}
  BY DEF NewStatus
<1>1. CASE req.op = "confirm"
  <2>1. Written(req, row) = Confirmed(row) BY <1>1, <1>d DEF Written
  <2> DEFINE shown == [row EXCEPT !.available = "AVAILABLE", !.confirmed = TRUE]
  <2>2. shown \in Rows BY <1>0 DEF Rows
  <2>3. Confirmed(row) = [shown EXCEPT !.age = 0, !.reminded = FALSE]
    BY <1>0 DEF Confirmed, Rows
  <2>4. 0 \in 0..StaleDays BY <1>0
  <2>5. Confirmed(row) \in Rows
    <3> HIDE DEF shown
    <3> QED BY <2>2, <2>3, <2>4 DEF Rows
  <2>6. Confirmed(row).status = row.status /\ Confirmed(row).dated = row.dated
    BY <1>0 DEF Confirmed, Rows
  <2> QED BY <2>1, <2>5, <2>6 DEF DatedRows
<1>2. CASE req.op = "withdraw"
  <2>1. Written(req, row) = [row EXCEPT !.available = "UNAVAILABLE"] BY <1>2, <1>d DEF Written
  <2> QED BY <1>0, <2>1 DEF DatedRows, Rows
<1>3. CASE req.op \in {"approve", "restore"}
  <2>1. Written(req, row) = Published(row) BY <1>3, <1>d DEF Written
  <2> QED BY <1>0, <2>1 DEF Published, Statuses, DatedRows, Rows
<1>4. CASE req.op = "legacy_reinstate"
  <2>1. Written(req, row) = Reinstated(row) BY <1>4, <1>d DEF Written
  <2> QED BY <1>0, <2>1 DEF Reinstated, Statuses, DatedRows, Rows
<1>5. CASE req.op = "accept"
  <2>1. Written(req, row) = [row EXCEPT !.owner = req.to] BY <1>5, <1>d DEF Written
  <2> QED BY <1>0, <2>1 DEF Asking, DatedRows, Rows
<1>6. CASE req.op = "edit"
  BY <1>6, <1>d DEF Written
<1>7. CASE req.op = "verify"
  BY <1>7, <1>d DEF Written, Asking
<1>8. CASE req.op \in DOMAIN NewStatus
  <2>1. Written(req, row) = [row EXCEPT !.status = NewStatus[req.op]]
    BY <1>8, <1>d DEF Written
  <2>2. NewStatus[req.op] \in Statuses \ {"PUBLISHED"} BY <1>8, <1>d DEF NewStatus, Statuses
  <2> QED BY <1>0, <2>1, <2>2 DEF DatedRows, Rows
<1> QED BY <1>1, <1>2, <1>3, <1>4, <1>5, <1>6, <1>7, <1>8, <1>d
        DEF Asking, ListingOps, HostOps, StaffOps, LegacyOps

\* The reminder task only withdraws or reminds.
LEMMA ReviewedIs ==
  ASSUME NEW row \in DatedRows
  PROVE  /\ Reviewed(row) \in DatedRows /\ Reviewed(row).owner = row.owner
         /\ ~Entering(Reviewed(row), row)
         /\ ~Stale(row) => (consumes_slot(Reviewed(row)) <=> consumes_slot(row))
BY DEF Reviewed, DatedRows, Rows, Entering, consumes_slot

-----------------------------------------------------------------------------
(* What a save, a grant, the hourly task and a day do to the tables.       *)

\* A unit that is used up stays so, and stays on its listing.
LapsedKept ==
  \A u \in Units : unit[u].status \in {"ACTIVE", "EXPIRED"} /\ unit[u].left = 0 =>
    /\ unit'[u].status \in {"ACTIVE", "EXPIRED"} /\ unit'[u].left = 0
    /\ unit'[u].listing = unit[u].listing
TablesKept == TablesTyped' /\ ActiveUnitsBound' /\ UnitsFollowListing' /\ LapsedKept

LEMMA UnitIs ==
  ASSUME TablesTyped, NEW u \in Units
  PROVE  /\ unit[u] \in UnitRows
         /\ unit[u].status \in {"NONE", "UNUSED", "ACTIVE", "EXPIRED"}
         /\ unit[u].scope \in Scopes \cup {Nobody}
         /\ unit[u].listing \in Listings \cup {NoListing} /\ unit[u].left \in Nat
BY DEF TablesTyped, UnitRows

LEMMA ListingIs ==
  ASSUME TablesTyped, NEW l \in Listings
  PROVE  /\ listing[l] \in DatedRows /\ listing[l].owner \in Scopes
         /\ listing[l].age \in 0..StaleDays
BY DEF TablesTyped, DatedRows, Rows

\* What activate_unit does to the unit it binds and to the others.
LEMMA BindIs ==
  ASSUME TablesTyped, NEW u \in Units, NEW l \in Listings, unit' = Bind(u, l)
  PROVE  /\ unit'[u].status = "ACTIVE" /\ unit'[u].listing = l
         /\ unit'[u].left = Duration /\ unit'[u].scope = unit[u].scope
         /\ \A v \in Units : v # u =>
              /\ unit'[v].listing = unit[v].listing /\ unit'[v].left = unit[v].left
              /\ unit'[v].scope = unit[v].scope
         /\ \A v \in Units : v # u /\ unit'[v].status # unit[v].status =>
              /\ unit'[v].status = "EXPIRED" /\ unit[v].status = "ACTIVE"
              /\ unit[v].listing = l /\ unit[v].left = 0
         /\ \A v \in Units : v # u /\ unit[v].status = "ACTIVE" /\ unit[v].listing = l /\ unit[v].left = 0
              => unit'[v].status = "EXPIRED"
<1>1. unit'[u] = [unit[u] EXCEPT !.status = "ACTIVE", !.listing = l, !.left = Duration]
  BY DEF Bind
<1>2. unit[u] \in UnitRows BY UnitIs
<1>3. /\ unit'[u].status = "ACTIVE" /\ unit'[u].listing = l
      /\ unit'[u].left = Duration /\ unit'[u].scope = unit[u].scope
  BY <1>1, <1>2 DEF UnitRows
<1>4. ASSUME NEW v \in Units, v # u
      PROVE  IF unit[v].status = "ACTIVE" /\ unit[v].listing = l /\ unit[v].left = 0
               THEN /\ unit'[v].status = "EXPIRED" /\ unit'[v].listing = unit[v].listing
                    /\ unit'[v].left = unit[v].left /\ unit'[v].scope = unit[v].scope
               ELSE unit'[v] = unit[v]
  <2>1. unit[v] \in UnitRows BY UnitIs
  <2> QED BY <1>4, <2>1 DEF Bind, UnitRows
<1> QED BY <1>3, <1>4

LEMMA BindTyped ==
  ASSUME TablesTyped, NEW u \in Units, NEW l \in Listings
  PROVE  Bind(u, l) \in [Units -> UnitRows]
<1>1. ASSUME NEW v \in Units PROVE Bind(u, l)[v] \in UnitRows
  <2>1. unit[v] \in UnitRows /\ Duration \in Nat BY Lengths, UnitIs
  <2> QED BY <2>1 DEF Bind, UnitRows
<1> QED BY <1>1 DEF Bind

\* A save either takes no unit or the oldest unused one of the owner, for a listing
\* that no unit covers.
LEMMA SaveIs ==
  ASSUME TablesTyped, NEW p, NEW l \in Listings, NEW new, Save(p, l, new),
         Entering(new, listing[l]) => ~Refused(l, new.owner)
  PROVE  /\ listing' = [listing EXCEPT ![l] = new]
         /\ \/ /\ unit' = unit
               /\ ~(Entering(new, listing[l]) /\ NeedsUnit(l, new.owner))
            \/ \E u \in Unused(new.owner) : unit' = Bind(u, l) /\ ValidOn(l) = {}
<1>1. CASE Entering(new, listing[l]) /\ NeedsUnit(l, new.owner)
  <2>1. Unused(new.owner) # {} /\ ValidOn(l) = {} BY <1>1 DEF Refused, NeedsUnit
  <2>2. Unused(new.owner) \subseteq Nat BY OrderedKeys DEF Unused
  <2>3. \E u \in Unused(new.owner) : u \in Oldest(Unused(new.owner))
    BY <2>1, <2>2, LeastNat DEF Oldest
  <2>4. PICK u : u = CHOOSE v \in Oldest(Unused(new.owner)) : TRUE OBVIOUS
  <2>5. u \in Unused(new.owner) BY <2>3, <2>4 DEF Oldest
  <2> QED BY <1>1, <2>1, <2>4, <2>5 DEF Save
<1> QED BY <1>1 DEF Save

LEMMA SaveKeeps ==
  ASSUME IInv, NEW p, NEW l \in Listings, NEW new \in DatedRows, Save(p, l, new), UNCHANGED paid,
         new.owner # listing[l].owner => ~HasHistory(l),
         Entering(new, listing[l]) => ~Refused(l, new.owner)
  PROVE  TablesKept
<1>0. /\ TablesTyped /\ ActiveUnitsBound /\ UnitsFollowListing
      /\ new.owner \in Scopes
  BY DEF IInv, DatedRows, Rows
<1>1. listing' = [listing EXCEPT ![l] = new] BY <1>0, SaveIs
<1>2. listing' \in [Listings -> DatedRows] BY <1>0, <1>1 DEF TablesTyped
<1>3. ASSUME NEW u \in Units, unit[u].listing \in Listings
      PROVE  unit[u].scope = listing'[unit[u].listing].owner
  <2>1. CASE unit[u].listing = l
    <3>1. new.owner = listing[l].owner BY <2>1 DEF HasHistory
    <3> QED BY <1>0, <1>1, <2>1, <3>1 DEF UnitsFollowListing, TablesTyped
  <2> QED BY <1>0, <1>1, <1>3, <2>1 DEF UnitsFollowListing, TablesTyped
<1>4. CASE unit' = unit
  <2>1. TablesTyped' /\ LapsedKept BY <1>0, <1>2, <1>4 DEF TablesTyped, LapsedKept
  <2>2. ActiveUnitsBound' BY <1>0, <1>4 DEF ActiveUnitsBound
  <2>3. UnitsFollowListing' BY <1>0, <1>3, <1>4 DEF UnitsFollowListing
  <2> QED BY <2>1, <2>2, <2>3 DEF TablesKept
<1>5. ASSUME NEW u \in Unused(new.owner), unit' = Bind(u, l), ValidOn(l) = {} PROVE TablesKept
  <2>1. u \in Units /\ unit[u].status = "UNUSED" /\ unit[u].scope = new.owner BY DEF Unused
  <2>2. TablesTyped' BY <1>0, <1>2, <1>5, <2>1, BindTyped DEF TablesTyped
  <2>3. LapsedKept BY <1>0, <1>5, <2>1, BindIs DEF LapsedKept
  <2>4. ActiveUnitsBound' BY <1>0, <1>5, <2>1, BindIs DEF ActiveUnitsBound
  <2>5. ASSUME NEW v \in Units, unit'[v].listing \in Listings
        PROVE  unit'[v].scope = listing'[unit'[v].listing].owner
    <3>1. CASE v = u BY <1>0, <1>1, <1>5, <2>1, <3>1, BindIs DEF TablesTyped
    <3>2. CASE v # u BY <1>0, <1>3, <1>5, <2>1, <2>5, <3>2, BindIs
    <3> QED BY <3>1, <3>2
  <2>6. ASSUME NEW v \in Units, NEW w \in Units, v # w,
               unit'[v].status = "ACTIVE", unit'[w].status = "ACTIVE"
        PROVE  unit'[v].listing # unit'[w].listing
    <3>1. ASSUME NEW x \in Units, x # u, unit'[x].status = "ACTIVE"
          PROVE  unit'[x].listing = unit[x].listing /\ unit[x].status = "ACTIVE" /\ unit[x].listing # l
      <4>1. /\ unit[x].status = "ACTIVE" /\ ~(unit[x].listing = l /\ unit[x].left = 0)
            /\ unit'[x].listing = unit[x].listing
        BY <1>0, <1>5, <2>1, <3>1, BindIs
      <4>2. unit[x].left \in Nat BY <1>0, UnitIs
      <4>3. unit[x].listing = l => unit[x].left > 0 BY <4>1, <4>2
      <4> QED BY <1>5, <4>1, <4>3 DEF ValidOn
    <3>2. unit'[u].listing = l BY <1>0, <1>5, <2>1, BindIs
    <3>3. CASE v # u /\ w # u BY <1>0, <2>6, <3>1, <3>3 DEF UnitsFollowListing
    <3> QED BY <2>6, <3>1, <3>2, <3>3
  <2>7. UnitsFollowListing' BY <2>5, <2>6 DEF UnitsFollowListing
  <2> QED BY <2>2, <2>3, <2>4, <2>7 DEF TablesKept
<1> QED BY <1>0, <1>4, <1>5, SaveIs

\* Staff give an owner a unit that was nobody's.
LEMMA GrantKeeps ==
  ASSUME IInv, NEW o \in Scopes, NEW u \in Units, unit[u].status = "NONE", unit' = Granted(o, {u}),
         UNCHANGED <<listing, paid>>
  PROVE  TablesKept /\ \A v \in Units : v # u => unit'[v] = unit[v]
<1>0. TablesTyped /\ ActiveUnitsBound /\ UnitsFollowListing BY DEF IInv
<1>1. Validity \in Nat /\ NoListing \notin Listings BY Lengths, Apart
<1>2. /\ unit' \in [Units -> UnitRows] /\ unit'[u].status = "UNUSED" /\ unit'[u].listing = NoListing
      /\ \A v \in Units : v # u => unit'[v] = unit[v]
  <2>1. unit'[u] = [status |-> "UNUSED", scope |-> o, listing |-> NoListing, left |-> Validity]
    BY DEF Granted, NoUnit
  <2>2. \A v \in Units : v # u => unit'[v] = unit[v] BY DEF Granted
  <2>3. unit'[u] \in UnitRows BY <1>1, <2>1 DEF UnitRows
  <2>4. \A v \in Units : unit'[v] \in UnitRows BY <1>0, <2>2, <2>3, UnitIs
  <2> QED BY <2>1, <2>2, <2>4 DEF Granted
<1>3. TablesTyped' BY <1>0, <1>2 DEF TablesTyped
<1>4. ActiveUnitsBound' BY <1>0, <1>2 DEF ActiveUnitsBound
<1>5. UnitsFollowListing'
  <2>1. ASSUME NEW v \in Units, unit'[v].listing \in Listings \/ unit'[v].status = "ACTIVE"
        PROVE  unit'[v] = unit[v]
    BY <1>1, <1>2, <2>1
  <2>2. \A v \in Units : unit'[v].listing \in Listings =>
          unit'[v].scope = listing'[unit'[v].listing].owner
    BY <1>0, <2>1 DEF UnitsFollowListing
  <2>3. \A v, w \in Units : v # w /\ unit'[v].status = "ACTIVE" /\ unit'[w].status = "ACTIVE" =>
          unit'[v].listing # unit'[w].listing
    <3>1. ASSUME NEW v \in Units, NEW w \in Units, v # w,
                 unit'[v].status = "ACTIVE", unit'[w].status = "ACTIVE"
          PROVE  unit'[v].listing # unit'[w].listing
      <4>1. unit'[v] = unit[v] /\ unit'[w] = unit[w] BY <2>1, <3>1
      <4> QED BY <1>0, <3>1, <4>1 DEF UnitsFollowListing
    <3> QED BY <3>1
  <2> QED BY <2>2, <2>3 DEF UnitsFollowListing
<1>6. LapsedKept BY <1>2 DEF LapsedKept
<1> QED BY <1>2, <1>3, <1>4, <1>5, <1>6 DEF TablesKept

\* The hourly task closes a used-up unit and may withdraw a listing.
LEMMA LapseKeeps ==
  ASSUME IInv, NEW u \in Units, unit[u].status \in {"ACTIVE", "EXPIRED"}, unit[u].left = 0,
         unit' = Lapsed(u), UNCHANGED paid,
         listing' = listing \/ \E l \in Listings : listing' = [listing EXCEPT ![l].status = "PAUSED"]
  PROVE  TablesKept
<1>0. TablesTyped /\ ActiveUnitsBound /\ UnitsFollowListing BY DEF IInv
<1>1. /\ listing' \in [Listings -> DatedRows]
      /\ \A l \in Listings : listing'[l].owner = listing[l].owner
  <2>1. CASE listing' = listing BY <1>0, <2>1 DEF TablesTyped
  <2>2. ASSUME NEW l \in Listings, listing' = [listing EXCEPT ![l].status = "PAUSED"]
        PROVE  /\ listing' \in [Listings -> DatedRows]
               /\ \A k \in Listings : listing'[k].owner = listing[k].owner
    <3> DEFINE row == [listing[l] EXCEPT !.status = "PAUSED"]
    <3>1. row \in DatedRows /\ row.owner = listing[l].owner
      BY <1>0, ListingIs DEF DatedRows, Rows, Statuses
    <3>2. listing' = [listing EXCEPT ![l] = row] BY <2>2
    <3> HIDE DEF row
    <3> QED BY <1>0, <3>1, <3>2 DEF TablesTyped
  <2> QED BY <2>1, <2>2
<1>2. /\ unit' \in [Units -> UnitRows]
      /\ \A v \in Units : /\ unit'[v].scope = unit[v].scope /\ unit'[v].listing = unit[v].listing
                          /\ unit'[v].left = unit[v].left
                          /\ unit'[v].status = IF v = u THEN "EXPIRED" ELSE unit[v].status
  <2> DEFINE row == [unit[u] EXCEPT !.status = "EXPIRED"]
  <2>1. /\ row \in UnitRows /\ row.scope = unit[u].scope /\ row.listing = unit[u].listing
        /\ row.left = unit[u].left /\ row.status = "EXPIRED"
    BY <1>0, UnitIs DEF UnitRows
  <2>2. unit' = [unit EXCEPT ![u] = row] BY DEF Lapsed
  <2> HIDE DEF row
  <2> QED BY <1>0, <2>1, <2>2 DEF TablesTyped
<1>3. TablesTyped' BY <1>0, <1>1, <1>2 DEF TablesTyped
<1>4. ActiveUnitsBound' BY <1>0, <1>2 DEF ActiveUnitsBound
<1>5. ASSUME NEW v \in Units, unit'[v].listing \in Listings
      PROVE  unit'[v].scope = listing'[unit'[v].listing].owner
  BY <1>0, <1>1, <1>2, <1>5 DEF UnitsFollowListing
<1>6. ASSUME NEW v \in Units, NEW w \in Units, v # w, unit'[v].status = "ACTIVE", unit'[w].status = "ACTIVE"
      PROVE  unit'[v].listing # unit'[w].listing
  <2>1. unit[v].status = "ACTIVE" /\ unit[w].status = "ACTIVE" BY <1>2, <1>6
  <2> QED BY <1>0, <1>2, <1>6, <2>1 DEF UnitsFollowListing
<1>7. UnitsFollowListing' BY <1>5, <1>6 DEF UnitsFollowListing
<1>8. LapsedKept BY <1>2 DEF LapsedKept
<1> QED BY <1>3, <1>4, <1>7, <1>8 DEF TablesKept

\* A day passes for listings, units and subscriptions.
LEMMA DayKeeps ==
  ASSUME IInv, Tick PROVE TablesKept
<1>0. TablesTyped /\ ActiveUnitsBound /\ UnitsFollowListing BY DEF IInv
<1>1. /\ listing' \in [Listings -> DatedRows]
      /\ \A l \in Listings : listing'[l].owner = listing[l].owner
  BY <1>0, AgedIs, ListingIs DEF Tick
<1>2. ASSUME NEW v \in Units
      PROVE  /\ unit'[v] \in UnitRows
             /\ unit'[v].scope = unit[v].scope /\ unit'[v].listing = unit[v].listing
             /\ unit[v].left = 0 => unit'[v].left = 0
             /\ unit'[v].status = unit[v].status
  <2>1. unit[v] \in UnitRows /\ unit[v].left \in Nat BY <1>0, UnitIs
  <2>2. Less(unit[v].left) \in Nat /\ (unit[v].left = 0 => Less(unit[v].left) = 0) BY <2>1 DEF Less
  <2>3. CASE unit[v].status = "EXPIRED" BY <2>1, <2>3 DEF Tick
  <2>4. CASE unit[v].status # "EXPIRED"
    <3>1. unit'[v] = [unit[v] EXCEPT !.left = Less(unit[v].left)] BY <2>1, <2>4 DEF Tick, UnitRows
    <3> QED BY <2>1, <2>2, <3>1 DEF UnitRows
  <2> QED BY <2>3, <2>4
<1>3. paid' \in [Scopes -> -1..Term]
  <2>1. ASSUME NEW o \in Scopes PROVE Less(paid[o]) \in -1..Term
    BY <1>0, Lengths DEF Less, TablesTyped
  <2> QED BY <2>1 DEF Tick
<1>4. unit' \in [Units -> UnitRows]
  <2>1. unit' = [v \in Units |-> unit'[v]] BY DEF Tick
  <2> QED BY <1>2, <2>1
<1>5. TablesTyped' BY <1>1, <1>3, <1>4 DEF TablesTyped
<1>6. ActiveUnitsBound' BY <1>0, <1>2 DEF ActiveUnitsBound
<1>7. UnitsFollowListing' BY <1>0, <1>1, <1>2 DEF UnitsFollowListing
<1>8. LapsedKept BY <1>2 DEF LapsedKept
<1> QED BY <1>5, <1>6, <1>7, <1>8 DEF TablesKept

LEMMA NothingKeeps ==
  ASSUME IInv, UNCHANGED tables PROVE TablesKept
BY DEF IInv, tables, TablesKept, TablesTyped, ActiveUnitsBound, UnitsFollowListing, LapsedKept

-----------------------------------------------------------------------------
(* Type correctness, and units that follow their listing.                  *)

MovesAlone(p) ==
  \A q \in Processes \ {p} : stage'[q] = stage[q] /\ request'[q] = request[q]

LEMMA StepKeeps ==
  ASSUME IInv, NEW p \in Processes, MovesAlone(p), SessionTyped', TablesKept, UNCHANGED day,
         Asks(p)', p = Expiry => LapseStands'
  PROVE  IInv'
<1>1. Sessions'
  <2>1. ASSUME NEW q \in Processes, q # p PROVE Asks(q)'
    BY <2>1 DEF IInv, Sessions, Asks, MovesAlone
  <2> QED BY <2>1 DEF Sessions
<1>2. LapseStands'
  <2>1. CASE p = Expiry BY <2>1
  <2>2. CASE p # Expiry
    <3>1. stage'[Expiry] = stage[Expiry] /\ request'[Expiry] = request[Expiry]
      BY <2>2, Apart DEF MovesAlone
    <3>2. ASSUME stage[Expiry] # "idle"
          PROVE  /\ request[Expiry].unit \in Units
                 /\ unit[request[Expiry].unit].status \in {"ACTIVE", "EXPIRED"}
                 /\ unit[request[Expiry].unit].left = 0
                 /\ unit[request[Expiry].unit].listing = request[Expiry].listing
      <4>1. request[Expiry] \in Expiring BY <3>2, Apart DEF IInv, Sessions, Asks
      <4> QED BY <3>2, <4>1 DEF IInv, LapseStands, Expiring
    <3> QED BY <3>1, <3>2 DEF TablesKept, LapsedKept, LapseStands
  <2> QED BY <2>1, <2>2
<1> QED BY <1>1, <1>2 DEF IInv, TablesKept

\* A transaction that ends, with its work or without.
LEMMA EndKeeps ==
  ASSUME IInv, NEW p \in Processes, Finish(p), Release(p) \/ UNCHANGED holder, TablesKept,
         UNCHANGED <<day, asked>>, UNCHANGED todo \/ todo' = [todo EXCEPT ![p] = {}]
  PROVE  IInv'
<1>0. SessionTyped BY DEF IInv
<1>1. MovesAlone(p) /\ stage'[p] = "idle" /\ SessionTyped'
  <2>1. MovesAlone(p) /\ stage'[p] = "idle" /\ stage' \in [Processes -> Stages]
        /\ DOMAIN request' = Processes
    BY <1>0 DEF Finish, Goto, MovesAlone, SessionTyped, Stages
  <2>2. holder' \in [Scopes \cup Listings -> Processes \cup {Nobody}]
    BY <1>0 DEF Release, SessionTyped
  <2>3. DOMAIN todo' = Tasks /\ todo'[Upkeep] \subseteq Listings /\ todo'[Expiry] \subseteq Units
    BY <1>0 DEF SessionTyped, Tasks
  <2> QED BY <1>0, <2>1, <2>2, <2>3 DEF SessionTyped
<1>2. Asks(p)' BY <1>1 DEF Asks
<1>3. p = Expiry => LapseStands' BY <1>1 DEF LapseStands
<1> QED BY <1>1, <1>2, <1>3, StepKeeps

\* A client's or the reminder task's transaction that goes on.
LEMMA GoesOn ==
  ASSUME IInv, NEW p \in Processes \ {Expiry}, NEW s \in Stages, Goto(p, s),
         NEW req \in Asking(IF p = Upkeep THEN {"upkeep"} ELSE ListingOps),
         request' = [request EXCEPT ![p] = req] \/ (UNCHANGED request /\ req = request[p]),
         holder' \in [Scopes \cup Listings -> Processes \cup {Nobody}],
         asked' \subseteq Clients,
         UNCHANGED todo \/ \E l \in Listings : todo' = [todo EXCEPT ![Upkeep] = @ \ {l}],
         UNCHANGED <<day, tables>>
  PROVE  IInv'
<1>0. SessionTyped BY DEF IInv
<1>1. MovesAlone(p) /\ request'[p] = req /\ SessionTyped'
  <2>1. MovesAlone(p) /\ stage' \in [Processes -> Stages] /\ DOMAIN request' = Processes
        /\ request'[p] = req
    BY <1>0 DEF Goto, MovesAlone, SessionTyped
  <2>2. DOMAIN todo' = Tasks /\ todo'[Upkeep] \subseteq Listings /\ todo'[Expiry] \subseteq Units
    BY <1>0, Apart DEF SessionTyped, Tasks
  <2> QED BY <1>0, <2>1, <2>2 DEF SessionTyped
<1>2. Asks(p)' BY <1>1 DEF Asks
<1> QED BY <1>1, <1>2, NothingKeeps, StepKeeps

LEMMA LockTyped ==
  ASSUME SessionTyped, NEW p \in Processes, NEW x \in Scopes \cup Listings, Lock(x, p)
  PROVE  holder' \in [Scopes \cup Listings -> Processes \cup {Nobody}]
BY DEF SessionTyped, Lock

\* The request of a transaction in progress, if it is not the hourly task's.
LEMMA RequestIs ==
  ASSUME IInv, NEW p \in Processes \ {Expiry}, stage[p] # "idle"
  PROVE  /\ request[p] \in Asking(IF p = Upkeep THEN {"upkeep"} ELSE ListingOps)
         /\ request[p].listing \in Listings /\ request[p].scopes \in SUBSET Scopes
         /\ request[p].to \in Scopes /\ request[p].seen \in Scopes
         /\ request[p].copy \in DatedRows /\ request[p].copy.owner \in Scopes
<1>1. request[p] \in Asking(IF p = Upkeep THEN {"upkeep"} ELSE ListingOps)
  BY DEF IInv, Sessions, Asks
<1> QED BY <1>1 DEF Asking, DatedRows, Rows

LEMMA AskingIs ==
  ASSUME TablesTyped, NEW op, NEW ops, op \in ops, NEW l \in Listings
  PROVE  Request(op, l) \in Asking(ops)
BY ListingIs DEF Request, Asking

LEMMA LoadKeeps == ASSUME IInv, NEW c \in Clients, Load(c) PROVE IInv'
<1>0. /\ c \in Processes \ {Expiry} /\ c # Upkeep /\ TablesTyped /\ SessionTyped
  BY Apart DEF IInv
<1>1. PICK l \in Listings, op \in Does[c] \ GrantOps :
        LET req == Request(op, l)
        IN  CASE op = "accept" -> \E o \in Scopes \ {req.seen} : Open(c, [req EXCEPT !.to = o], "checked")
              [] op \in {"submit", "approve"} -> Open(c, req, "loaded")
              [] op \in LegacyOps -> Open(c, req, "owners")
              [] OTHER -> Open(c, req, "checked")
  BY DEF Load
<1>2. op \in ListingOps BY Beginnings DEF Operations, ListingOps
<1> DEFINE req == Request(op, l)
<1>3. req \in Asking(ListingOps) BY <1>0, <1>2, AskingIs
<1>4. \A o \in Scopes : [req EXCEPT !.to = o] \in Asking(ListingOps)
  <2> HIDE DEF req
  <2> QED BY <1>3 DEF Asking
<1>5. PICK asks \in Asking(ListingOps), s \in Stages : Open(c, asks, s)
  BY <1>1, <1>3, <1>4 DEF Stages
<1>6. asked' \subseteq Clients BY <1>0, <1>5 DEF Open, SessionTyped
<1>7. holder' \in [Scopes \cup Listings -> Processes \cup {Nobody}] BY <1>0, <1>5 DEF Open, SessionTyped
<1> QED BY <1>0, <1>5, <1>6, <1>7, GoesOn DEF Open

LEMMA CheckSubmissionKeeps ==
  ASSUME IInv, NEW c \in Clients, CheckSubmission(c) PROVE IInv'
<1>0. c \in Processes \ {Expiry} /\ c # Upkeep /\ SessionTyped /\ "checked" \in Stages
  BY Apart DEF IInv, Stages
<1>1. CASE Finish(c) BY <1>0, <1>1, NothingKeeps, EndKeeps DEF CheckSubmission
<1>2. CASE Goto(c, "checked") /\ UNCHANGED request
  <2>1. stage[c] # "idle" BY DEF CheckSubmission, Waiting
  <2>2. request[c] \in Asking(ListingOps) BY <1>0, <2>1, RequestIs
  <2>3. holder' \in [Scopes \cup Listings -> Processes \cup {Nobody}] /\ asked' \subseteq Clients
    BY <1>0 DEF CheckSubmission, SessionTyped
  <2> QED BY <1>0, <1>2, <2>2, <2>3, GoesOn DEF CheckSubmission
<1> QED BY <1>1, <1>2 DEF CheckSubmission

\* Both owners a save reads are accounts or agencies.
LEMMA ReadScopesKeeps ==
  ASSUME IInv, NEW c \in Clients, ReadScopes(c) PROVE IInv'
<1>0. /\ c \in Processes \ {Expiry} /\ c # Upkeep /\ TablesTyped /\ SessionTyped
      /\ "owners" \in Stages /\ stage[c] # "idle"
  BY Apart DEF IInv, Stages, ReadScopes, Waiting
<1> DEFINE o == listing[request[c].listing].owner
           dest == CASE request[c].op = "accept" -> request[c].to
                     [] request[c].op = "verify" -> request[c].copy.owner
                     [] OTHER -> o
           req == [request[c] EXCEPT !.scopes = {o, dest}, !.seen = o]
<1>1. o \in Scopes /\ dest \in Scopes BY <1>0, RequestIs, ListingIs
<1>2. request' = [request EXCEPT ![c] = req] BY DEF ReadScopes
<1> HIDE DEF o, dest
<1>3. req \in Asking(ListingOps) BY <1>0, <1>1, RequestIs DEF Asking
<1> HIDE DEF req
<1>4. holder' \in [Scopes \cup Listings -> Processes \cup {Nobody}] /\ asked' \subseteq Clients
  BY <1>0 DEF ReadScopes, SessionTyped
<1> QED BY <1>0, <1>2, <1>3, <1>4, GoesOn DEF ReadScopes

LEMMA LockOwnerKeeps ==
  ASSUME IInv, NEW p \in Processes \ {Expiry}, LockOwner(p) PROVE IInv'
<1>0. SessionTyped /\ stage[p] # "idle" BY DEF IInv, LockOwner, Waiting
<1>1. PICK o \in NextScope(p), s \in {"owners", "held", "row"} : Lock(o, p) /\ Goto(p, s)
  BY DEF LockOwner
<1>2. o \in Scopes BY <1>0, RequestIs DEF NextScope, Missing
<1>3. holder' \in [Scopes \cup Listings -> Processes \cup {Nobody}]
  BY <1>0, <1>1, <1>2, LockTyped
<1>4. s \in Stages /\ asked' \subseteq Clients BY <1>0 DEF Stages, LockOwner, SessionTyped
<1>5. request[p] \in Asking(IF p = Upkeep THEN {"upkeep"} ELSE ListingOps) BY <1>0, RequestIs
<1> QED BY <1>1, <1>3, <1>4, <1>5, GoesOn DEF LockOwner

LEMMA LockRowKeeps ==
  ASSUME IInv, NEW c \in Clients, LockRow(c) PROVE IInv'
<1>0. /\ c \in Processes \ {Expiry} /\ c # Upkeep /\ TablesTyped /\ SessionTyped
      /\ stage[c] # "idle"
  BY Apart DEF IInv, LockRow, RowFree, Waiting
<1> DEFINE l == request[c].listing
           o == listing[l].owner
           req == [request[c] EXCEPT !.scopes = {o}, !.seen = o]
<1>1. l \in Listings /\ o \in Scopes BY <1>0, RequestIs, ListingIs
<1>2. request' = [request EXCEPT ![c] = req] /\ Lock(l, c) BY DEF LockRow
<1>3. PICK s \in {"held", "owners"} : Goto(c, s) BY DEF LockRow
<1> HIDE DEF o, l
<1>4. req \in Asking(ListingOps) BY <1>0, <1>1, RequestIs DEF Asking
<1> HIDE DEF req
<1>5. holder' \in [Scopes \cup Listings -> Processes \cup {Nobody}] BY <1>0, <1>1, <1>2, LockTyped
<1>6. s \in Stages /\ asked' \subseteq Clients BY <1>0 DEF Stages, LockRow, SessionTyped
<1> QED BY <1>0, <1>2, <1>3, <1>4, <1>5, <1>6, GoesOn DEF LockRow

\* What a client's save writes, if anything: a row, within the plan, and another owner's
\* only if no unit was ever on the listing.
LEMMA ClientSaves ==
  ASSUME IInv, NEW c \in Clients, SaveOrRefuse(c)
  PROVE  \/ Release(c) /\ Finish(c) /\ UNCHANGED tables
         \/ \E l \in Listings, new \in DatedRows :
              /\ Save(c, l, new) /\ UNCHANGED paid
              /\ new.owner # listing[l].owner => ~HasHistory(l)
              /\ Entering(new, listing[l]) => ~Refused(l, new.owner)
<1>0. c \in Processes \ {Expiry} /\ c # Upkeep /\ TablesTyped /\ stage[c] # "idle"
  BY Apart DEF IInv, SaveOrRefuse, RowFree, Waiting
<1> DEFINE req == request[c]
           row == listing[req.listing]
           new == Written(req, row)
<1>1. req \in Asking(ListingOps) /\ req.listing \in Listings /\ row \in DatedRows
  BY <1>0, RequestIs, ListingIs
<1>2. new \in DatedRows BY <1>1, WrittenIs
<1>3. CASE Savable(req, row, new)
  <2>1. Save(c, req.listing, new) /\ UNCHANGED paid BY <1>3 DEF SaveOrRefuse
  <2> QED BY <1>1, <1>2, <1>3, <2>1 DEF Savable
<1>4. CASE ~Savable(req, row, new)
  BY <1>4 DEF SaveOrRefuse, tables
<1> QED BY <1>3, <1>4

LEMMA SaveOrRefuseKeeps ==
  ASSUME IInv, NEW c \in Clients, SaveOrRefuse(c) PROVE IInv'
<1>0. c \in Processes BY Apart
<1>1. Release(c) /\ Finish(c) BY ClientSaves DEF Save
<1>2. TablesKept BY ClientSaves, NothingKeeps, SaveKeeps
<1> QED BY <1>0, <1>1, <1>2, EndKeeps DEF SaveOrRefuse

LEMMA ClientGrantIs ==
  ASSUME IInv, NEW c \in Clients, Grant(c)
  PROVE  \/ \E o \in Scopes, u \in Units :
              unit[u].status = "NONE" /\ unit' = Granted(o, {u}) /\ UNCHANGED <<listing, paid>>
         \/ /\ UNCHANGED <<listing, unit>>
            /\ \E o \in Scopes : paid' = [paid EXCEPT ![o] = Term] \/ paid' = [paid EXCEPT ![o] = -1]
BY DEF Grant, Oldest, GrantOps

LEMMA GrantKeepsAll == ASSUME IInv, NEW c \in Clients, Grant(c) PROVE IInv'
<1>0. c \in Processes /\ c # Expiry /\ TablesTyped /\ SessionTyped BY Apart DEF IInv
<1>1. TablesKept
  <2>1. ASSUME UNCHANGED <<listing, unit>>, NEW o \in Scopes,
               paid' = [paid EXCEPT ![o] = Term] \/ paid' = [paid EXCEPT ![o] = -1]
        PROVE  TablesKept
    <3>1. paid' \in [Scopes -> -1..Term] BY <1>0, <2>1, Lengths DEF TablesTyped
    <3> QED BY <1>0, <2>1, <3>1
            DEF IInv, TablesKept, TablesTyped, ActiveUnitsBound, UnitsFollowListing, LapsedKept
  <2> QED BY <2>1, ClientGrantIs, GrantKeeps
<1>2. MovesAlone(c) /\ Asks(c)' /\ SessionTyped'
  BY <1>0 DEF Grant, session, MovesAlone, IInv, Sessions, Asks, SessionTyped
<1> QED BY <1>0, <1>1, <1>2, StepKeeps DEF Grant

\* The two tasks.
LEMMA StartKeeps == ASSUME IInv, StartUpkeep \/ StartExpiry PROVE IInv'
<1>1. PICK t \in Tasks : /\ UNCHANGED <<day, tables, holder, session, asked>>
                         /\ \E x : todo' = [todo EXCEPT ![t] = x] /\ (t = Upkeep => x \subseteq Listings)
                                   /\ (t = Expiry => x \subseteq Units)
  BY Apart DEF StartUpkeep, StartExpiry, Tasks
<1>2. SessionTyped' BY <1>1, Apart DEF IInv, SessionTyped, session, Tasks
<1>3. MovesAlone(t) /\ Asks(t)' /\ LapseStands' /\ t \in Processes
  BY <1>1 DEF IInv, Sessions, Asks, MovesAlone, LapseStands, session, tables, Processes
<1> QED BY <1>1, <1>2, <1>3, NothingKeeps, StepKeeps

LEMMA VisitListingKeeps == ASSUME IInv, VisitListing PROVE IInv'
<1>0. Upkeep \in Processes \ {Expiry} /\ TablesTyped /\ SessionTyped BY Apart DEF IInv
<1>1. PICK l \in todo[Upkeep] :
        /\ todo' = [todo EXCEPT ![Upkeep] = @ \ {l}]
        /\ \/ /\ Lock(l, Upkeep) /\ Goto(Upkeep, "owners")
              /\ request' = [request EXCEPT ![Upkeep] = Request("upkeep", l)]
           \/ UNCHANGED <<holder, session>>
  BY DEF VisitListing
<1>2. l \in Listings BY <1>0 DEF SessionTyped
<1>3. CASE Lock(l, Upkeep) /\ Goto(Upkeep, "owners")
           /\ request' = [request EXCEPT ![Upkeep] = Request("upkeep", l)]
  <2>1. Request("upkeep", l) \in Asking({"upkeep"}) BY <1>0, <1>2, AskingIs
  <2>2. holder' \in [Scopes \cup Listings -> Processes \cup {Nobody}] BY <1>0, <1>2, <1>3, LockTyped
  <2>3. asked' \subseteq Clients /\ "owners" \in Stages BY <1>0 DEF VisitListing, SessionTyped, Stages
  <2> DEFINE asks == Request("upkeep", l)
  <2> HIDE DEF asks
  <2>4. asks \in Asking(IF Upkeep = Upkeep THEN {"upkeep"} ELSE ListingOps) BY <2>1 DEF asks
  <2>5. request' = [request EXCEPT ![Upkeep] = asks] BY <1>3 DEF asks
  <2>6. UNCHANGED <<day, tables>> BY DEF VisitListing
  <2> QED BY <1>0, <1>1, <1>2, <1>3, <2>2, <2>3, <2>4, <2>5, <2>6, GoesOn
<1>4. CASE UNCHANGED <<holder, session>>
  <2>1. SessionTyped' BY <1>0, <1>1, <1>4, Apart DEF VisitListing, SessionTyped, session, Tasks
  <2>2. MovesAlone(Upkeep) /\ Asks(Upkeep)'
    BY <1>0, <1>4 DEF IInv, Sessions, Asks, MovesAlone, session
  <2>3. TablesKept /\ UNCHANGED day BY NothingKeeps DEF VisitListing
  <2> QED BY <1>0, <2>1, <2>2, <2>3, StepKeeps
<1> QED BY <1>1, <1>3, <1>4

LEMMA ReviewIs ==
  ASSUME IInv, SaveReview
  PROVE  \E l \in Listings :
           /\ Save(Upkeep, l, Reviewed(listing[l])) /\ UNCHANGED paid
           /\ Reviewed(listing[l]) \in DatedRows /\ Reviewed(listing[l]).owner = listing[l].owner
           /\ ~Entering(Reviewed(listing[l]), listing[l])
<1>1. Upkeep \in Processes \ {Expiry} /\ stage[Upkeep] # "idle" BY Apart DEF SaveReview, Waiting
<1>2. PICK l \in Listings : l = request[Upkeep].listing BY <1>1, RequestIs
<1>3. listing[l] \in DatedRows BY ListingIs DEF IInv
<1> QED BY <1>2, <1>3, ReviewedIs DEF SaveReview

LEMMA SaveReviewKeeps == ASSUME IInv, SaveReview PROVE IInv'
<1>1. PICK l \in Listings, new \in DatedRows :
        /\ Save(Upkeep, l, new) /\ UNCHANGED paid
        /\ new.owner = listing[l].owner /\ ~Entering(new, listing[l])
  BY ReviewIs
<1>2. TablesKept BY <1>1, SaveKeeps
<1>3. Release(Upkeep) /\ Finish(Upkeep) BY <1>1 DEF Save
<1> QED BY <1>2, <1>3, EndKeeps, Apart DEF SaveReview

\* The hourly task finds a used-up unit: it closes it, or locks and asks for its listing.
LEMMA VisitUnitIs ==
  ASSUME IInv, VisitUnit
  PROVE  \E u \in Units :
           \/ UNCHANGED <<tables, holder, session>>
           \/ /\ unit[u].status = "ACTIVE" /\ unit[u].left = 0 /\ unit[u].listing \in Listings
              /\ unit[u].scope \in Scopes /\ UNCHANGED <<listing, paid>>
              /\ \/ unit' = Lapsed(u) /\ ~Crowded(unit[u].listing) /\ UNCHANGED <<holder, session>>
                 \/ /\ Lock(unit[u].scope, Expiry) /\ Goto(Expiry, "row") /\ UNCHANGED unit
                    /\ request' = [request EXCEPT ![Expiry] =
                                     [op |-> "expire", listing |-> unit[u].listing, unit |-> u]]
<1>1. PICK u \in todo[Expiry] :
        IF unit[u].status = "ACTIVE" /\ unit[u].left = 0
          THEN IF Crowded(unit[u].listing)
                 THEN /\ Lock(unit[u].scope, Expiry) /\ Goto(Expiry, "row") /\ UNCHANGED unit
                      /\ request' = [request EXCEPT ![Expiry] =
                                       [op |-> "expire", listing |-> unit[u].listing, unit |-> u]]
                 ELSE unit' = Lapsed(u) /\ UNCHANGED <<holder, session>>
          ELSE UNCHANGED <<unit, holder, session>>
  BY DEF VisitUnit
<1>2. u \in Units BY DEF IInv, SessionTyped
<1>3. CASE unit[u].status = "ACTIVE" /\ unit[u].left = 0
  <2>1. unit[u].listing \in Listings BY <1>2, <1>3 DEF IInv, ActiveUnitsBound
  <2>2. unit[u].scope = listing[unit[u].listing].owner BY <1>2, <2>1 DEF IInv, UnitsFollowListing
  <2>3. unit[u].scope \in Scopes BY <2>1, <2>2, ListingIs DEF IInv
  <2> QED BY <1>1, <1>2, <1>3, <2>1, <2>3 DEF VisitUnit
<1> QED BY <1>1, <1>2, <1>3 DEF VisitUnit, tables

LEMMA VisitUnitKeeps == ASSUME IInv, VisitUnit PROVE IInv'
<1>0. Expiry \in Processes /\ SessionTyped BY Apart DEF IInv
<1>1. /\ DOMAIN todo' = Tasks /\ todo'[Upkeep] \subseteq Listings /\ todo'[Expiry] \subseteq Units
      /\ UNCHANGED <<day, asked>>
  BY <1>0, Apart DEF VisitUnit, SessionTyped, Tasks
<1>2. ASSUME UNCHANGED <<holder, session>>, TablesKept PROVE IInv'
  <2>1. SessionTyped' BY <1>0, <1>1, <1>2 DEF SessionTyped, session
  <2>2. MovesAlone(Upkeep) /\ Asks(Upkeep)'
    BY <1>2, Apart DEF IInv, Sessions, Asks, MovesAlone, session
  <2> QED BY <1>1, <1>2, <2>1, <2>2, StepKeeps, Apart
<1>3. PICK u \in Units :
           \/ UNCHANGED <<tables, holder, session>>
           \/ /\ unit[u].status = "ACTIVE" /\ unit[u].left = 0 /\ unit[u].listing \in Listings
              /\ unit[u].scope \in Scopes /\ UNCHANGED <<listing, paid>>
              /\ \/ unit' = Lapsed(u) /\ UNCHANGED <<holder, session>>
                 \/ /\ Lock(unit[u].scope, Expiry) /\ Goto(Expiry, "row") /\ UNCHANGED unit
                    /\ request' = [request EXCEPT ![Expiry] =
                                     [op |-> "expire", listing |-> unit[u].listing, unit |-> u]]
  BY VisitUnitIs
<1>4. CASE UNCHANGED <<tables, holder, session>> BY <1>2, <1>4, NothingKeeps
<1>5. CASE /\ unit[u].status = "ACTIVE" /\ unit[u].left = 0 /\ UNCHANGED <<listing, paid>>
           /\ unit' = Lapsed(u) /\ UNCHANGED <<holder, session>>
  BY <1>2, <1>5, LapseKeeps
<1>6. CASE /\ unit[u].status = "ACTIVE" /\ unit[u].left = 0 /\ unit[u].listing \in Listings
           /\ unit[u].scope \in Scopes /\ UNCHANGED <<listing, paid, unit>>
           /\ Lock(unit[u].scope, Expiry) /\ Goto(Expiry, "row")
           /\ request' = [request EXCEPT ![Expiry] =
                            [op |-> "expire", listing |-> unit[u].listing, unit |-> u]]
  <2> DEFINE req == [op |-> "expire", listing |-> unit[u].listing, unit |-> u]
  <2>1. req \in Expiring /\ req.unit = u /\ req.listing = unit[u].listing BY <1>6 DEF Expiring
  <2> HIDE DEF req
  <2>2. /\ MovesAlone(Expiry) /\ stage'[Expiry] = "row" /\ request'[Expiry] = req
        /\ DOMAIN request' = Processes /\ stage' \in [Processes -> Stages]
    BY <1>0, <1>6 DEF Goto, MovesAlone, SessionTyped, Stages, req
  <2>3. SessionTyped' BY <1>0, <1>1, <1>6, <2>2, LockTyped DEF SessionTyped
  <2>4. Asks(Expiry)' BY <2>1, <2>2 DEF Asks
  <2>5. LapseStands' BY <1>6, <2>1, <2>2 DEF LapseStands
  <2> QED BY <1>0, <1>1, <1>6, <2>2, <2>3, <2>4, <2>5, NothingKeeps, StepKeeps DEF tables
<1> QED BY <1>3, <1>4, <1>5, <1>6

\* The unit that the hourly task locked is still used up and on the same listing.
LEMMA PauseLapsedIs ==
  ASSUME IInv, PauseLapsed
  PROVE  \E u \in Units :
           /\ unit[u].status \in {"ACTIVE", "EXPIRED"} /\ unit[u].left = 0
           /\ unit' = Lapsed(u) /\ UNCHANGED paid /\ unit[u].listing \in Listings
           /\ listing' = [listing EXCEPT ![unit[u].listing].status = "PAUSED"]
<1>1. stage[Expiry] # "idle" BY DEF PauseLapsed, RowFree, Waiting
<1>2. request[Expiry] \in Expiring BY <1>1, Apart DEF IInv, Sessions, Asks
<1>3. PICK u : u = request[Expiry].unit OBVIOUS
<1>4. u \in Units /\ request[Expiry].listing \in Listings BY <1>2, <1>3 DEF Expiring
<1>5. /\ unit[u].status \in {"ACTIVE", "EXPIRED"} /\ unit[u].left = 0
      /\ unit[u].listing = request[Expiry].listing
  BY <1>1, <1>3 DEF IInv, LapseStands
<1> QED BY <1>3, <1>4, <1>5 DEF PauseLapsed

LEMMA PauseLapsedKeeps == ASSUME IInv, PauseLapsed PROVE IInv'
<1>1. TablesKept BY PauseLapsedIs, LapseKeeps
<1> QED BY <1>1, EndKeeps, Apart DEF PauseLapsed

\* A failed transaction, and a day.
LEMMA BreakCircleKeeps == ASSUME IInv, NEW p \in Processes, BreakCircle(p) PROVE IInv'
BY NothingKeeps, EndKeeps DEF BreakCircle

LEMMA TickKeeps == ASSUME IInv, Tick PROVE IInv'
<1>0. TablesKept /\ SessionTyped BY DayKeeps DEF IInv
<1>1. day' \in 0..MaxDays BY Lengths DEF IInv, Tick
<1>2. SessionTyped' BY <1>0 DEF Tick, SessionTyped
<1>3. stage' = stage /\ stage[Upkeep] = "idle" /\ stage[Expiry] = "idle"
  BY DEF Tick, Tasks, Waiting
<1>4. ASSUME NEW p \in Processes, stage[p] # "idle" PROVE Asks(p)'
  <2>1. p # Upkeep /\ p # Expiry BY <1>3, <1>4
  <2>2. request[p] \in Asking(ListingOps) BY <1>4, <2>1, RequestIs
  <2>3. "copy" \in DOMAIN request[p] /\ request[p].copy \in DatedRows BY <2>2 DEF Asking
  <2> DEFINE older == Older(request[p].copy)
  <2>4. request'[p] = [request[p] EXCEPT !.copy = older] BY <2>3 DEF Tick
  <2>5. older \in DatedRows BY <2>3, AgedIs
  <2> HIDE DEF older
  <2>6. request'[p] \in Asking(ListingOps) BY <2>2, <2>4, <2>5 DEF Asking
  <2> QED BY <2>1, <2>6 DEF Asks
<1>5. Sessions' BY <1>3, <1>4 DEF Sessions, Asks
<1>6. LapseStands' BY <1>3 DEF LapseStands
<1> QED BY <1>0, <1>1, <1>2, <1>5, <1>6 DEF IInv, TablesKept

LEMMA NextInv == IInv /\ [Next]_vars => IInv'
<1> SUFFICES ASSUME IInv, [Next]_vars PROVE IInv' OBVIOUS
<1>1. CASE UNCHANGED vars
  <2>1. TablesKept BY <1>1, NothingKeeps DEF vars
  <2>2. SessionTyped' /\ day' \in 0..MaxDays BY <1>1 DEF vars, session, IInv, SessionTyped
  <2>3. Sessions' BY <1>1 DEF vars, session, IInv, Sessions, Asks
  <2>4. LapseStands' BY <1>1 DEF vars, session, tables, IInv, LapseStands
  <2> QED BY <2>1, <2>2, <2>3, <2>4 DEF IInv, TablesKept
<1>2. ASSUME NEW c \in Clients, Load(c) \/ Grant(c) \/ Step(c) PROVE IInv'
  <2>1. c \in Processes \ {Expiry} BY Apart
  <2> QED BY <1>2, <2>1, LoadKeeps, GrantKeepsAll, CheckSubmissionKeeps, ReadScopesKeeps,
             LockOwnerKeeps, LockRowKeeps, SaveOrRefuseKeeps DEF Step
<1>3. CASE StartUpkeep \/ UpkeepStep
  BY <1>3, Apart, StartKeeps, VisitListingKeeps, LockOwnerKeeps, SaveReviewKeeps DEF UpkeepStep
<1>4. CASE StartExpiry \/ ExpiryStep
  BY <1>4, StartKeeps, VisitUnitKeeps, PauseLapsedKeeps DEF ExpiryStep
<1>5. CASE \E p \in Processes : BreakCircle(p) BY <1>5, BreakCircleKeeps
<1>6. CASE Tick BY <1>6, TickKeeps
<1> QED BY <1>1, <1>2, <1>3, <1>4, <1>5, <1>6 DEF Next

LEMMA InitInv == Init => IInv
<1> SUFFICES ASSUME Init PROVE IInv OBVIOUS
<1>1. listing \in [Listings -> DatedRows]
  <2>1. /\ listing \in [Listings -> Rows]
        /\ \A l \in Listings : listing[l].status = "PUBLISHED" => listing[l].dated
    BY Beginnings DEF Init
  <2> QED BY <2>1 DEF DatedRows
<1>2. ASSUME NEW u \in Units
      PROVE  unit[u] \in UnitRows /\ unit[u].listing = NoListing /\ unit[u].status # "ACTIVE"
  <2>1. PICK o : o = CHOOSE m \in Scopes : \A q \in Scopes : m <= q OBVIOUS
  <2>2. \E m \in Scopes : \A q \in Scopes : m <= q BY OrderedKeys, Beginnings, LeastNat
  <2>3. o \in Scopes BY <2>1, <2>2
  <2>4. \/ unit[u] = [status |-> "UNUSED", scope |-> o, listing |-> NoListing, left |-> Validity]
        \/ unit[u] = [status |-> "NONE", scope |-> Nobody, listing |-> NoListing, left |-> 0]
    BY <2>1 DEF Init, NoUnit
  <2> QED BY <2>3, <2>4, Lengths DEF UnitRows
<1>3. unit \in [Units -> UnitRows] BY <1>2 DEF Init
<1>4. paid \in [Scopes -> -1..Term] /\ day \in 0..MaxDays
  <2>1. paid = [o \in Scopes |-> -1] /\ day = 0 BY DEF Init
  <2>2. Term \in Nat /\ MaxDays \in Nat BY Lengths
  <2> QED BY <2>1, <2>2
<1>5. TablesTyped BY <1>1, <1>3, <1>4 DEF TablesTyped
<1>6. SessionTyped BY DEF Init, SessionTyped, Stages, Tasks
<1>7. Sessions /\ LapseStands BY Apart DEF Init, Sessions, Asks, LapseStands
<1>8. ActiveUnitsBound /\ UnitsFollowListing
  BY <1>2, Apart DEF ActiveUnitsBound, UnitsFollowListing
<1> QED BY <1>4, <1>5, <1>6, <1>7, <1>8 DEF IInv

LEMMA Invariant == Spec => []IInv
BY InitInv, NextInv, PTL DEF Spec

\* Rows, units, subscriptions, locks and requests are what the tables and the code can
\* hold, and whatever is on the market has a publication date (PropertyListing.save).
THEOREM TypeCorrect == Spec => []TypeOK
<1>1. IInv => TypeOK
  <2> SUFFICES ASSUME IInv PROVE TypeOK OBVIOUS
  <2>1. listing \in [Listings -> Rows]
        /\ \A l \in Listings : consumes_slot(listing[l]) => listing[l].dated
    BY DEF IInv, TablesTyped, DatedRows, consumes_slot
  <2>2. ASSUME NEW p \in Processes, stage[p] # "idle" PROVE request[p].listing \in Listings
    BY <2>2 DEF IInv, Sessions, Asks, Asking, Expiring
  <2>3. unit \in [Units -> [status: {"NONE", "UNUSED", "ACTIVE", "EXPIRED"}, scope: Scopes \cup {Nobody},
                            listing: Listings \cup {NoListing}, left: Nat]]
    BY DEF IInv, TablesTyped, UnitRows
  <2> QED BY <2>1, <2>2, <2>3 DEF IInv, TablesTyped, SessionTyped, TypeOK
<1> QED BY <1>1, Invariant, PTL

\* A unit that covers or covered a listing is its owner's, and no listing has two active
\* ones, whoever publishes, transfers, verifies or pauses it (save, activate_unit).
THEOREM UnitsFollowOwners == Spec => []UnitsFollowListing
<1>1. IInv => UnitsFollowListing BY DEF IInv
<1> QED BY <1>1, Invariant, PTL

-----------------------------------------------------------------------------
(* What the plan allows.                                                   *)

Uncovered(o) == {l \in Live(o) : ValidOn(l) = {}}

LEMMA Counting ==
  ASSUME IsFiniteSet(Listings), NEW o
  PROVE  /\ Ordinary(o) \in Nat
         /\ Uncovered(o)' \subseteq Uncovered(o) => Ordinary(o)' <= Ordinary(o)
         /\ \A l \in Listings : Uncovered(o)' \subseteq Uncovered(o) \cup {l} =>
              Ordinary(o)' <= Ordinary(o) + 1
<1>1. Uncovered(o) \in SUBSET Listings BY DEF Uncovered, Live
<1>2. IsFiniteSet(Uncovered(o)) /\ Cardinality(Uncovered(o)) \in Nat
  BY <1>1, FS_Subset, FS_CardinalityType
<1>3. ASSUME NEW T, NEW S, T \subseteq S, IsFiniteSet(S) PROVE Cardinality(T) <= Cardinality(S)
  BY <1>3, FS_Subset
<1>4. ASSUME NEW l \in Listings
      PROVE  /\ IsFiniteSet(Uncovered(o) \cup {l})
             /\ Cardinality(Uncovered(o) \cup {l}) <= Cardinality(Uncovered(o)) + 1
  <2>1. ASSUME NEW S, IsFiniteSet(S) PROVE IsFiniteSet(S \cup {l}) /\ Cardinality(S) \in Nat
                   /\ Cardinality(S \cup {l}) \in {Cardinality(S), Cardinality(S) + 1}
    <3>1. Cardinality(S) \in Nat BY <2>1, FS_CardinalityType
    <3>2. /\ IsFiniteSet(S \cup {l})
          /\ Cardinality(S \cup {l}) = IF l \in S THEN Cardinality(S) ELSE Cardinality(S) + 1
      BY <2>1, FS_AddElement
    <3> QED BY <3>1, <3>2
  <2> QED BY <1>2, <2>1
<1>5. Ordinary(o) = Cardinality(Uncovered(o)) BY DEF Ordinary, Uncovered
<1>6. Ordinary(o)' = Cardinality(Uncovered(o)') BY DEF Ordinary, Uncovered
<1>7. Uncovered(o)' \in SUBSET Listings BY DEF Uncovered, Live
<1>8. Cardinality(Uncovered(o)') \in Nat BY <1>7, FS_Subset, FS_CardinalityType
<1> HIDE DEF Uncovered
<1>9. ASSUME Uncovered(o)' \subseteq Uncovered(o) PROVE Ordinary(o)' <= Ordinary(o)
  BY <1>2, <1>3, <1>5, <1>6, <1>9
<1>10. ASSUME NEW l \in Listings, Uncovered(o)' \subseteq Uncovered(o) \cup {l}
       PROVE  Ordinary(o)' <= Ordinary(o) + 1
  <2>1. Cardinality(Uncovered(o)') <= Cardinality(Uncovered(o) \cup {l}) BY <1>3, <1>4, <1>10
  <2>2. Cardinality(Uncovered(o) \cup {l}) \in Nat BY <1>4, FS_CardinalityType
  <2> QED BY <1>2, <1>4, <1>5, <1>6, <1>8, <2>1, <2>2
<1> QED BY <1>2, <1>5, <1>9, <1>10

\* A bound unit covers its listing and changes nothing for the others.
LEMMA BindCovers ==
  ASSUME TablesTyped, NEW u \in Units, unit[u].status = "UNUSED", NEW l \in Listings, unit' = Bind(u, l)
  PROVE  /\ ValidOn(l)' # {}
         /\ \A x \in Listings \ {l} : ValidOn(x)' = ValidOn(x)
<1>1. Duration > 0 BY Lengths
<1>2. u \in ValidOn(l)' BY <1>1, BindIs DEF ValidOn
<1>3. ASSUME NEW x \in Listings \ {l}, NEW v \in Units PROVE v \in ValidOn(x)' <=> v \in ValidOn(x)
  <2>1. CASE v = u BY <2>1, BindIs DEF ValidOn
  <2>2. CASE v # u
    <3>1. unit'[v].listing = unit[v].listing /\ unit'[v].left = unit[v].left BY <2>2, BindIs
    <3>2. unit'[v].status # unit[v].status => unit[v].listing = l BY <2>2, BindIs
    <3> QED BY <3>1, <3>2 DEF ValidOn
  <2> QED BY <2>1, <2>2
<1>4. \A x \in Listings \ {l} : ValidOn(x)' = ValidOn(x)
  <2>1. \A x : ValidOn(x) \subseteq Units /\ ValidOn(x)' \subseteq Units BY DEF ValidOn
  <2> QED BY <1>3, <2>1
<1> QED BY <1>2, <1>4

\* A save takes an owner's uncovered listings up only by its own, and within the plan.
LEMMA SaveWithinPlan ==
  ASSUME IsFiniteSet(Listings), IInv, NEW p, NEW l \in Listings, NEW new \in DatedRows, Save(p, l, new),
         Entering(new, listing[l]) => ~Refused(l, new.owner), NEW o \in Scopes, Ordinary(o)' > Ordinary(o)
  PROVE  Ordinary(o)' <= Limit(o)
<1>0. TablesTyped BY DEF IInv
<1>1. listing' = [listing EXCEPT ![l] = new] /\ listing \in [Listings -> DatedRows]
  BY <1>0, SaveIs DEF TablesTyped
<1>2. \A x \in Listings \ {l} : ValidOn(x)' = ValidOn(x)
  <2>1. CASE unit' = unit BY <2>1 DEF ValidOn
  <2>2. ASSUME NEW u \in Unused(new.owner), unit' = Bind(u, l)
        PROVE  \A x \in Listings \ {l} : ValidOn(x)' = ValidOn(x)
    BY <1>0, <2>2, BindCovers DEF Unused
  <2> QED BY <1>0, <2>1, <2>2, SaveIs
<1>3. Uncovered(o)' \subseteq Uncovered(o) \cup {l} BY <1>1, <1>2 DEF Uncovered, Live
<1>4. Ordinary(o) \in Nat /\ Ordinary(o)' <= Ordinary(o) + 1 BY <1>3, Counting
<1>5. l \in Uncovered(o)' /\ l \notin Uncovered(o)
  <2>1. ~(Uncovered(o)' \subseteq Uncovered(o))
    <3> SUFFICES ASSUME Uncovered(o)' \subseteq Uncovered(o) PROVE FALSE OBVIOUS
    <3>1. Ordinary(o)' <= Ordinary(o) BY Counting
    <3>2. Ordinary(o)' \in Nat
      <4>1. Uncovered(o)' \in SUBSET Listings BY DEF Uncovered, Live
      <4>2. Ordinary(o)' = Cardinality(Uncovered(o)') BY DEF Ordinary, Uncovered
      <4> QED BY <4>1, <4>2, FS_Subset, FS_CardinalityType
    <3> QED BY <1>4, <3>1, <3>2
  <2> QED BY <1>3, <2>1
<1>6. new.owner = o /\ consumes_slot(new) /\ ValidOn(l)' = {} BY <1>1, <1>5 DEF Uncovered, Live, consumes_slot
<1>7. unit' = unit /\ ~(Entering(new, listing[l]) /\ NeedsUnit(l, o))
  <2>1. ASSUME NEW u \in Unused(new.owner), unit' = Bind(u, l) PROVE FALSE
    BY <1>0, <1>6, <2>1, BindCovers DEF Unused
  <2> QED BY <1>0, <1>6, <2>1, SaveIs
<1>8. ValidOn(l) = {} BY <1>6, <1>7 DEF ValidOn
<1>9. ~(consumes_slot(listing[l]) /\ listing[l].owner = o) BY <1>5, <1>8 DEF Uncovered, Live
<1>10. Entering(new, listing[l]) BY <1>6, <1>9 DEF Entering
<1>11. ~(Ordinary(o) >= Limit(o)) BY <1>7, <1>8, <1>10 DEF NeedsUnit
<1>12. Limit(o) \in Nat BY Lengths DEF Limit
<1>13. Ordinary(o)' \in Nat
  <2>1. Uncovered(o)' \in SUBSET Listings BY DEF Uncovered, Live
  <2>2. Ordinary(o)' = Cardinality(Uncovered(o)') BY DEF Ordinary, Uncovered
  <2> QED BY <2>1, <2>2, FS_Subset, FS_CardinalityType
<1> QED BY <1>4, <1>11, <1>12, <1>13

\* Closing a used-up unit uncovers nothing.
LEMMA LapseCoversAsBefore ==
  ASSUME TablesTyped, NEW u \in Units, unit[u].left = 0, unit' = Lapsed(u)
  PROVE  \A x : ValidOn(x)' = ValidOn(x)
<1>1. \A v \in Units \ {u} : unit'[v] = unit[v] BY DEF Lapsed
<1>2. unit'[u].left = 0
  <2>1. unit[u] \in UnitRows /\ unit'[u] = [unit[u] EXCEPT !.status = "EXPIRED"]
    BY UnitIs DEF Lapsed, TablesTyped
  <2> QED BY <2>1 DEF UnitRows
<1>3. ASSUME NEW x, NEW v \in Units PROVE v \in ValidOn(x)' <=> v \in ValidOn(x)
  BY <1>1, <1>2 DEF ValidOn
<1>4. \A x : ValidOn(x) \subseteq Units /\ ValidOn(x)' \subseteq Units BY DEF ValidOn
<1> QED BY <1>3, <1>4

\* Every step but a day and a save leaves the uncovered listings alone or takes one off.
LEMMA OtherStepsAre ==
  ASSUME IInv, [Next]_vars
  PROVE  \/ \E c \in Clients : SaveOrRefuse(c) \/ Grant(c)
         \/ SaveReview \/ VisitUnit \/ PauseLapsed \/ Tick
         \/ UNCHANGED <<day, tables>>
<1>1. ASSUME NEW c \in Clients, Load(c) PROVE UNCHANGED <<day, tables>>
  <2>1. PICK l \in Listings, op \in Does[c] \ GrantOps :
          LET req == Request(op, l)
          IN  CASE op = "accept" -> \E o \in Scopes \ {req.seen} : Open(c, [req EXCEPT !.to = o], "checked")
                [] op \in {"submit", "approve"} -> Open(c, req, "loaded")
                [] op \in LegacyOps -> Open(c, req, "owners")
                [] OTHER -> Open(c, req, "checked")
    BY <1>1 DEF Load
  <2>2. \E req, s : Open(c, req, s) BY <2>1
  <2> QED BY <2>2 DEF Open
<1>2. ASSUME NEW c \in Clients, CheckSubmission(c) \/ ReadScopes(c) \/ LockRow(c) PROVE UNCHANGED <<day, tables>>
  BY <1>2 DEF CheckSubmission, ReadScopes, LockRow
<1>3. ASSUME NEW p, LockOwner(p) \/ BreakCircle(p) PROVE UNCHANGED <<day, tables>>
  BY <1>3 DEF LockOwner, BreakCircle
<1>4. CASE StartUpkeep \/ StartExpiry \/ VisitListing
  BY <1>4 DEF StartUpkeep, StartExpiry, VisitListing
<1>5. CASE UNCHANGED vars BY <1>5 DEF vars
<1> QED BY <1>1, <1>2, <1>3, <1>4, <1>5 DEF Next, Step, UpkeepStep, ExpiryStep

LEMMA SameTablesSameCount ==
  ASSUME UNCHANGED listing, \A x : ValidOn(x)' = ValidOn(x), NEW o PROVE Uncovered(o)' = Uncovered(o)
BY DEF Uncovered, Live

LEMMA StepWithinPlan ==
  ASSUME IsFiniteSet(Listings), IInv, [Next]_vars, NEW o \in Scopes,
         Ordinary(o)' > Ordinary(o), day' = day
  PROVE  Ordinary(o)' <= Limit(o)
<1>0. TablesTyped BY DEF IInv
<1>1. Ordinary(o) \in Nat /\ Ordinary(o)' \in Nat
  <2>1. Uncovered(o)' \in SUBSET Listings BY DEF Uncovered, Live
  <2>2. Ordinary(o)' = Cardinality(Uncovered(o)') BY DEF Ordinary, Uncovered
  <2> QED BY <2>1, <2>2, Counting, FS_Subset, FS_CardinalityType
<1>2. ~(Uncovered(o)' \subseteq Uncovered(o)) BY <1>1, Counting
<1>3. CASE UNCHANGED <<listing, unit>>
  <2>1. \A x : ValidOn(x)' = ValidOn(x) BY <1>3 DEF ValidOn
  <2> QED BY <1>2, <1>3, <2>1, SameTablesSameCount
<1>4. ASSUME NEW c \in Clients, SaveOrRefuse(c) PROVE Ordinary(o)' <= Limit(o)
  <2>1. CASE UNCHANGED tables BY <1>3, <2>1 DEF tables
  <2> QED BY <1>4, <2>1, ClientSaves, SaveWithinPlan
<1>5. ASSUME NEW c \in Clients, Grant(c) PROVE Ordinary(o)' <= Limit(o)
  <2>1. ASSUME NEW q \in Scopes, NEW u \in Units, unit[u].status = "NONE", unit' = Granted(q, {u}),
               UNCHANGED <<listing, paid>>
        PROVE  FALSE
    <3>1. unit'[u].status = "UNUSED" BY <2>1 DEF Granted, NoUnit
    <3>2. \A v \in Units : v # u => unit'[v] = unit[v] BY <2>1, GrantKeeps
    <3>3. \A x : ValidOn(x)' = ValidOn(x) BY <2>1, <3>1, <3>2 DEF ValidOn
    <3> QED BY <1>2, <2>1, <3>3, SameTablesSameCount
  <2> QED BY <1>3, <1>5, <2>1, ClientGrantIs
<1>6. CASE SaveReview
  <2>1. PICK l \in Listings, new \in DatedRows :
          Save(Upkeep, l, new) /\ ~Entering(new, listing[l])
    BY <1>6, ReviewIs
  <2> QED BY <2>1, SaveWithinPlan
<1>7. CASE VisitUnit
  <2>1. ASSUME NEW u \in Units, unit[u].left = 0, unit' = Lapsed(u), UNCHANGED listing PROVE FALSE
    BY <1>0, <1>2, <2>1, LapseCoversAsBefore, SameTablesSameCount
  <2> QED BY <1>3, <1>7, <2>1, VisitUnitIs DEF tables
<1>8. CASE PauseLapsed
  <2>1. PICK u \in Units : /\ unit[u].left = 0 /\ unit' = Lapsed(u) /\ unit[u].listing \in Listings
                           /\ listing' = [listing EXCEPT ![unit[u].listing].status = "PAUSED"]
    BY <1>8, PauseLapsedIs
  <2>2. \A x : ValidOn(x)' = ValidOn(x) BY <1>0, <2>1, LapseCoversAsBefore
  <2>3. \A l \in Listings : listing'[l] = listing[l] \/ ~consumes_slot(listing'[l])
    <3>1. ASSUME NEW l \in Listings, l = unit[u].listing PROVE ~consumes_slot(listing'[l])
      <4>1. listing'[l] = [listing[l] EXCEPT !.status = "PAUSED"] BY <1>0, <2>1, <3>1 DEF TablesTyped
      <4>2. listing[l] \in Rows BY <1>0, ListingIs DEF DatedRows
      <4> QED BY <4>1, <4>2 DEF consumes_slot, Rows
    <3> QED BY <1>0, <2>1, <3>1 DEF TablesTyped
  <2>4. Uncovered(o)' \subseteq Uncovered(o) BY <2>2, <2>3 DEF Uncovered, Live, consumes_slot
  <2> QED BY <1>2, <2>4
<1>9. CASE Tick BY <1>9, Lengths DEF Tick, IInv
<1> QED BY <1>3, <1>4, <1>5, <1>6, <1>7, <1>8, <1>9, OtherStepsAre DEF tables

\* Approvals, confirmations, restorations and transfers decide on what they loaded, yet no
\* save takes an owner's uncovered listings past the plan (ensure_capacity under the locks).
THEOREM PublicationsWithinPlan ==
  ASSUME IsFiniteSet(Listings) PROVE Spec => PublicationWithinPlan
<1>1. IInv /\ [Next]_vars =>
        [\A o \in Scopes : Ordinary(o)' > Ordinary(o) /\ day' = day => Ordinary(o)' <= Limit(o)
          ]_<<day, listing, unit>>
  BY StepWithinPlan
<1> QED BY <1>1, Invariant, PTL DEF Spec, PublicationWithinPlan

-----------------------------------------------------------------------------
(* What the two tasks withdraw.                                            *)

\* The reminder task's transaction is over: by its own save, or failed.
LEMMA ReminderEnds ==
  ASSUME IInv, [Next]_vars, stage[Upkeep] = "held", stage'[Upkeep] # "held"
  PROVE  SaveReview \/ UNCHANGED listing
<1>1. ASSUME NEW c \in Clients, Load(c) \/ Grant(c) \/ Step(c) PROVE UNCHANGED listing
  <2>1. CASE SaveOrRefuse(c)
    <3>1. Finish(c) BY <2>1, ClientSaves DEF Save
    <3>2. stage'[Upkeep] = stage[Upkeep] BY <3>1, Apart DEF Finish, Goto, IInv, SessionTyped
    <3> QED BY <3>2
  <2> QED BY <1>1, <2>1 DEF Step, Load, Open, Grant, CheckSubmission, ReadScopes, LockOwner, LockRow, tables
<1>2. CASE PauseLapsed
  <2>1. stage'[Upkeep] = stage[Upkeep]
    BY <1>2, Apart DEF PauseLapsed, Finish, Goto, IInv, SessionTyped
  <2> QED BY <2>1
<1>3. CASE Tick BY <1>3 DEF Tick
<1>4. CASE UNCHANGED vars BY <1>4 DEF vars, tables
<1>5. CASE \E p \in Processes : BreakCircle(p) BY <1>5 DEF BreakCircle, tables
<1>6. CASE \/ StartUpkeep \/ VisitListing \/ LockOwner(Upkeep) \/ StartExpiry \/ VisitUnit
  BY <1>6 DEF StartUpkeep, VisitListing, LockOwner, StartExpiry, VisitUnit, tables
<1> QED BY <1>1, <1>2, <1>3, <1>4, <1>5, <1>6 DEF Next, UpkeepStep, ExpiryStep

LEMMA StepWithdrawsStale ==
  ASSUME IInv, [Next]_vars, NEW l \in Listings, stage[Upkeep] = "held", stage'[Upkeep] # "held",
         consumes_slot(listing[l]), ~consumes_slot(listing'[l])
  PROVE  listing[l].age = StaleDays
<1>0. listing \in [Listings -> DatedRows] /\ TablesTyped BY DEF IInv, TablesTyped
<1>1. SaveReview BY ReminderEnds
<1>2. PICK k \in Listings : Save(Upkeep, k, Reviewed(listing[k])) BY <1>1, ReviewIs
<1>3. listing' = [listing EXCEPT ![k] = Reviewed(listing[k])] BY <1>2 DEF Save
<1>4. k = l /\ ~consumes_slot(Reviewed(listing[l])) BY <1>0, <1>3
<1>5. Stale(listing[l]) BY <1>0, <1>4, ReviewedIs
<1>6. listing[l].age \in 0..StaleDays /\ StaleDays \in Nat BY <1>0, ListingIs, Lengths
<1> QED BY <1>5, <1>6 DEF Stale

\* What was confirmed or published since the reminder task picked it stays on the market
\* (property_availability_reminders looks again under the lock).
THEOREM FreshListingsStay == Spec => ConfirmedStaysUp
<1>1. IInv /\ [Next]_vars =>
        [\A l \in Listings : /\ stage[Upkeep] = "held" /\ stage'[Upkeep] # "held"
                             /\ consumes_slot(listing[l]) /\ ~consumes_slot(listing[l])'
           => listing[l].age = StaleDays]_<<stage, listing>>
  <2>1. \A l : consumes_slot(listing[l])' <=> consumes_slot(listing'[l]) BY DEF consumes_slot
  <2> QED BY <2>1, StepWithdrawsStale
<1> QED BY <1>1, Invariant, PTL DEF Spec, ConfirmedStaysUp

\* Units on one listing expire when another is bound to it, or when it goes with them
\* or has a place without them.
LEMMA StepLapses ==
  ASSUME IInv, [Next]_vars, NEW u \in Units, unit[u].status = "ACTIVE", unit'[u].status = "EXPIRED"
  PROVE  /\ unit'[u].listing = unit[u].listing
         /\ \/ ~consumes_slot(listing'[unit[u].listing])
            \/ ValidOn(unit[u].listing)' # {}
            \/ UNCHANGED <<listing, paid>> /\ (\A x : ValidOn(x)' = ValidOn(x))
               /\ ~OverLimit(listing[unit[u].listing].owner)
<1>0. TablesTyped /\ unit[u].listing \in Listings BY DEF IInv, ActiveUnitsBound
<1>1. CASE UNCHANGED unit BY <1>1
<1>2. ASSUME NEW p, NEW l \in Listings, NEW new, Save(p, l, new),
             Entering(new, listing[l]) => ~Refused(l, new.owner)
      PROVE  unit'[u].listing = unit[u].listing /\ ValidOn(unit[u].listing)' # {}
  <2>1. PICK v \in Unused(new.owner) : unit' = Bind(v, l) BY <1>0, <1>2, SaveIs
  <2>2. v \in Units /\ unit[v].status = "UNUSED" /\ u # v BY DEF Unused
  <2>3. unit[u].listing = l /\ unit'[u].listing = unit[u].listing BY <1>0, <2>1, <2>2, BindIs
  <2> QED BY <1>0, <2>1, <2>2, <2>3, BindCovers
<1>3. ASSUME NEW c \in Clients, SaveOrRefuse(c)
      PROVE  unit'[u].listing = unit[u].listing /\ ValidOn(unit[u].listing)' # {}
  BY <1>1, <1>2, <1>3, ClientSaves DEF tables
<1>4. ASSUME NEW c \in Clients, Grant(c) PROVE FALSE
  <2>1. ASSUME NEW o \in Scopes, NEW v \in Units, unit[v].status = "NONE", unit' = Granted(o, {v}),
               UNCHANGED <<listing, paid>>
        PROVE  FALSE
    BY <2>1, GrantKeeps
  <2> QED BY <1>4, <2>1, ClientGrantIs
<1>5. CASE SaveReview
  <2>1. PICK l \in Listings : /\ Save(Upkeep, l, Reviewed(listing[l]))
                              /\ ~Entering(Reviewed(listing[l]), listing[l])
    BY <1>5, ReviewIs
  <2> QED BY <1>2, <2>1
<1>6. CASE VisitUnit
  <2>1. PICK v \in Units : /\ unit[v].left = 0 /\ unit' = Lapsed(v) /\ ~Crowded(unit[v].listing)
                           /\ UNCHANGED <<listing, paid>>
    BY <1>6, VisitUnitIs DEF tables
  <2>2. v = u BY <2>1 DEF Lapsed
  <2>3. unit[u] \in UnitRows BY <1>0, UnitIs
  <2>4. unit'[u].listing = unit[u].listing
    <3>1. unit'[u] = [unit[u] EXCEPT !.status = "EXPIRED"] BY <1>0, <2>1, <2>2 DEF Lapsed, TablesTyped
    <3> QED BY <2>3, <3>1 DEF UnitRows
  <2>5. \A x : ValidOn(x)' = ValidOn(x) BY <1>0, <2>1, LapseCoversAsBefore
  <2>6. ~consumes_slot(listing'[unit[u].listing]) \/ ~OverLimit(listing[unit[u].listing].owner)
    BY <2>1, <2>2 DEF Crowded
  <2> QED BY <2>1, <2>4, <2>5, <2>6
<1>7. CASE PauseLapsed
  <2>1. PICK v \in Units : /\ unit' = Lapsed(v) /\ unit[v].listing \in Listings
                           /\ listing' = [listing EXCEPT ![unit[v].listing].status = "PAUSED"]
    BY <1>7, PauseLapsedIs
  <2>2. v = u BY <2>1 DEF Lapsed
  <2>3. unit[u] \in UnitRows /\ listing[unit[u].listing] \in Rows BY <1>0, UnitIs, ListingIs DEF DatedRows
  <2>4. unit'[u] = [unit[u] EXCEPT !.status = "EXPIRED"]
    BY <1>0, <2>1, <2>2 DEF Lapsed, TablesTyped
  <2>5. listing'[unit[u].listing] = [listing[unit[u].listing] EXCEPT !.status = "PAUSED"]
    BY <1>0, <2>1, <2>2 DEF TablesTyped
  <2>6. unit'[u].listing = unit[u].listing BY <2>3, <2>4 DEF UnitRows
  <2>7. ~consumes_slot(listing'[unit[u].listing]) BY <2>3, <2>5 DEF consumes_slot, Rows
  <2> QED BY <2>6, <2>7
<1>8. CASE Tick
  <2>1. unit'[u] = [unit[u] EXCEPT !.left = Less(@)] BY <1>8 DEF Tick
  <2>2. unit[u] \in UnitRows BY <1>0, UnitIs
  <2> QED BY <2>1, <2>2 DEF UnitRows
<1> QED BY <1>1, <1>3, <1>4, <1>5, <1>6, <1>7, <1>8, OtherStepsAre DEF tables

\* A listing does not outlive the unit that covered it on the market, unless another unit
\* or its owner's plan has it (process_property_entitlements, activate_unit).
THEOREM LapsesWithdraw == Spec => LapseWithdraws
<1>1. ASSUME IInv, [Next]_vars, NEW u \in Units, unit[u].status = "ACTIVE", unit'[u].status = "EXPIRED"
      PROVE  \/ ~consumes_slot(listing[unit[u].listing])' \/ ValidOn(unit[u].listing)' # {}
             \/ ~OverLimit(listing[unit[u].listing].owner)'
  <2>1. PICK l : l = unit[u].listing OBVIOUS
  <2>2. unit'[u].listing = l BY <1>1, <2>1, StepLapses
  <2>3. CASE ~consumes_slot(listing'[l]) BY <2>2, <2>3 DEF consumes_slot
  <2>4. CASE ValidOn(l)' # {} BY <2>1, <2>2, <2>4 DEF ValidOn
  <2>5. CASE UNCHANGED <<listing, paid>> /\ (\A x : ValidOn(x)' = ValidOn(x)) /\ ~OverLimit(listing[l].owner)
    <3>1. PICK o : o = listing[l].owner OBVIOUS
    <3>2. OverLimit(o)' <=> OverLimit(o)
      BY <2>5 DEF OverLimit, Ordinary, Limit, Live, ValidOn
    <3> QED BY <2>2, <2>5, <3>1, <3>2 DEF OverLimit, Ordinary, Limit, Live
  <2> QED BY <1>1, <2>1, <2>3, <2>4, <2>5, StepLapses
<1>2. IInv /\ [Next]_vars =>
        [\A u \in Units : unit[u].status = "ACTIVE" /\ unit'[u].status = "EXPIRED" =>
           LET l == unit[u].listing
           IN  \/ ~consumes_slot(listing[l])' \/ ValidOn(l)' # {}
               \/ ~OverLimit(listing[l].owner)']_<<listing, unit>>
  BY <1>1
<1> QED BY <1>2, Invariant, PTL DEF Spec, LapseWithdraws
=============================================================================
