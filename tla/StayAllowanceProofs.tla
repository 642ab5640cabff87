------------------------- MODULE StayAllowanceProofs -------------------------
(***************************************************************************)
(* Theorems about StayAllowance for every value of its constants.  What    *)
(* they rest on is that whoever changes a stay, a unit or a subscription   *)
(* of an owner holds that owner's row (Guarded): the check of a            *)
(* publication then stands until its write, and each write is one step of  *)
(* PlaceLedger.                                                            *)
(***************************************************************************)
EXTENDS StayAllowance, FiniteSetTheorems, SequenceTheorems, WellFoundedInduction, TLAPS

(***************************************************************************)
(* What requests and runs hold.                                            *)
(***************************************************************************)
SubRecords == [status: {"ACTIVE", "GRACE", "EXPIRED", "CANCELLED"}, starts: Nat, expires: Nat]
UnitRecords == [status: {"NONE", "UNUSED", "ACTIVE", "EXPIRED"}, scope: Scopes \cup {Nobody},
                stay: Stays \cup {NoStay}, activated: Nat, expires: Nat, before: Nat]
ReviewRecords == [status: {"RESOLVED", "PROTECTED_BOOKINGS", "OVER_LIMIT"}, reason: Reasons]
OnStay  == [kind: StayKinds, stay: Stays, seen: Scopes, scopes: SUBSET Scopes, to: Scopes,
            chosen: SUBSET Units, at: Nat]
OnScope == [kind: {"grant", "subscribe", "cancel"}, scopes: SUBSET Scopes]
VisitsSub   == [kind: {"expire_sub"}, row: SubRows, scopes: SUBSET Scopes]
VisitsUnit  == [kind: {"expire_unit"}, row: Units, scopes: SUBSET Scopes]
VisitsScope == [kind: {"review"}, row: Scopes, scopes: SUBSET Scopes]
Requests == OnStay \cup OnScope \cup VisitsSub \cup VisitsUnit \cup VisitsScope \cup {NoRequest}
Runs == [phase: {"off", "subs", "units", "scopes"}, at: Nat,
         todo: SUBSET (SubRows \cup Units \cup Scopes), scopes: SUBSET Scopes]

Bound(u) == unit[u].stay # NoStay

UnitsTyped == unit \in [Units -> UnitRecords]
UnitsWhole ==
  \A u \in Units : /\ unit[u].status \in {"ACTIVE", "EXPIRED"} <=> Bound(u)
                   /\ unit[u].status # "NONE" => unit[u].scope \in Scopes
                   /\ Bound(u) => unit[u].expires > unit[u].activated
SubsTyped == subs \in [Scopes -> Seq(SubRecords)]
SubsWhole ==
  \A o \in Scopes : /\ Len(subs[o]) <= MaxSubs
                    /\ \A i, j \in Current(o) : i = j
StaysTyped == /\ status \in [Stays -> Statuses] /\ owner \in [Stays -> Scopes]
              /\ review \in [Stays -> ReviewRecords] /\ obliged \in [Stays -> BOOLEAN]
TablesOK == now \in 0..MaxTime /\ StaysTyped /\ UnitsTyped /\ UnitsWhole /\ SubsTyped /\ SubsWhole

SessionTyped == /\ holder \in [Scopes \cup Stays -> Processes \cup {Nobody}]
                /\ stage \in [Processes -> Stages] /\ request \in [Processes -> Requests]
                /\ run \in [Beats -> Runs]

\* What is left of a run's current table is rows that are there.
RunWhole(b) ==
  /\ run[b].phase = "subs" => \A p \in run[b].todo : p \in SubRows /\ p[2] \in DOMAIN subs[p[1]]
  /\ run[b].phase = "units" => \A u \in run[b].todo : u \in Units /\ Bound(u)
  /\ run[b].phase = "scopes" => run[b].todo \subseteq Scopes

\* Which request is at which stage, and which rows it holds there.
Asks(c) ==
  \/ stage[c] = "idle"
  \/ /\ c \in Clients /\ request[c] \in OnStay
     /\ stage[c] = "read" => request[c].kind = "pause"
     /\ stage[c] = "check" => request[c].kind \in Checked
     /\ stage[c] = "commit" => request[c].kind # "renew"
  \/ c \in Clients /\ request[c] \in OnScope /\ stage[c] \in {"scope", "commit"}
  \/ /\ c \in Beats /\ request[c] \in VisitsSub /\ stage[c] \in {"scope", "commit"}
     /\ request[c].row[2] \in DOMAIN subs[request[c].row[1]]
     /\ request[c].scopes = {request[c].row[1]}
  \/ /\ c \in Beats /\ request[c] \in VisitsUnit /\ stage[c] \in {"scope", "check", "commit"}
     /\ Bound(request[c].row) /\ request[c].scopes = {unit[request[c].row].scope}
     /\ stage[c] = "check" => holder[unit[request[c].row].stay] = c
  \/ c \in Beats /\ request[c] \in VisitsScope /\ stage[c] \in {"scope", "commit"}

Holds(c) ==
  /\ stage[c] \in {"stay", "check", "commit"} => \A o \in request[c].scopes : holder[o] = c
  /\ stage[c] # "idle" /\ request[c].kind \in StayKinds =>
       LET req == request[c]
       IN  /\ stage[c] \in {"check", "commit"} => holder[req.stay] = c
           /\ holder[req.stay] = c =>
                owner[req.stay] = IF req.kind \in Legacy THEN req.to ELSE req.seen
           /\ req.to \in req.scopes
           /\ stage[c] # "read" => req.seen \in req.scopes \/ req.kind \in Legacy
           /\ req.kind \notin Legacy \cup {"accept", "pause"} => req.to = req.seen

\* What the check of a publication saw stands until its write.
StillRoom(s, o, t, chosen) ==
  IF chosen = {} THEN Covered(s, o, t) \/ Ordinary(o, t) < Limit(o, t)
  ELSE /\ \E u \in Units : chosen = {u} /\ unit[u].status = "UNUSED" /\ unit[u].scope = o
       /\ \A v \in ActiveOn(s) : unit[v].expires <= t
Stands(c) ==
  stage[c] = "commit" /\ request[c].kind \in Checked =>
    /\ request[c].at <= now
    /\ request[c].kind = "accept" => ~HasHistory(request[c].stay)
    /\ StillRoom(request[c].stay, request[c].to, request[c].at, request[c].chosen)

Sessions == \A c \in Processes : Asks(c) /\ Holds(c) /\ Stands(c)
RunsWhole == \A b \in Beats : RunWhole(b)
UnitsStayInScope == \A u \in Units : Bound(u) => owner[unit[u].stay] = unit[u].scope
OneActive == \A s \in Stays : \A u, v \in ActiveOn(s) : u = v

IInv == TablesOK /\ SessionTyped /\ RunsWhole /\ Sessions /\ UnitsStayInScope /\ OneActive

-----------------------------------------------------------------------------
\* What a request asks for, by its kind.
LEMMA KindDecides ==
  ASSUME NEW c \in Processes, Asks(c), stage[c] # "idle"
  PROVE  /\ request[c].kind \in StayKinds =>
              /\ c \in Clients /\ request[c] \in OnStay
              /\ stage[c] = "read" => request[c].kind = "pause"
              /\ stage[c] = "check" => request[c].kind \in Checked
              /\ stage[c] = "commit" => request[c].kind # "renew"
         /\ request[c].kind \in {"grant", "subscribe", "cancel"} =>
              c \in Clients /\ request[c] \in OnScope /\ stage[c] \in {"scope", "commit"}
         /\ request[c].kind = "expire_sub" =>
              /\ c \in Beats /\ request[c] \in VisitsSub /\ stage[c] \in {"scope", "commit"}
              /\ request[c].row[2] \in DOMAIN subs[request[c].row[1]]
              /\ request[c].scopes = {request[c].row[1]}
         /\ request[c].kind = "expire_unit" =>
              /\ c \in Beats /\ request[c] \in VisitsUnit
              /\ stage[c] \in {"scope", "check", "commit"}
              /\ Bound(request[c].row) /\ request[c].scopes = {unit[request[c].row].scope}
              /\ stage[c] = "check" => holder[unit[request[c].row].stay] = c
         /\ request[c].kind = "review" =>
              c \in Beats /\ request[c] \in VisitsScope /\ stage[c] \in {"scope", "commit"}
         /\ request[c].scopes \in SUBSET Scopes
         /\ request[c].kind \in StayKinds \cup {"grant", "subscribe", "cancel", "expire_sub",
                                                "expire_unit", "review"}
<1>1. CASE request[c] \in OnStay
  BY <1>1 DEF Asks, OnStay, OnScope, VisitsSub, VisitsUnit, VisitsScope, StayKinds
<1>2. CASE request[c] \in OnScope
  BY <1>2 DEF Asks, OnStay, OnScope, VisitsSub, VisitsUnit, VisitsScope, StayKinds
<1>3. CASE request[c] \in VisitsSub
  BY <1>3 DEF Asks, OnStay, OnScope, VisitsSub, VisitsUnit, VisitsScope, StayKinds
<1>4. CASE request[c] \in VisitsUnit
  BY <1>4 DEF Asks, OnStay, OnScope, VisitsSub, VisitsUnit, VisitsScope, StayKinds
<1>5. CASE request[c] \in VisitsScope
  BY <1>5 DEF Asks, OnStay, OnScope, VisitsSub, VisitsUnit, VisitsScope, StayKinds
<1> QED BY <1>1, <1>2, <1>3, <1>4, <1>5 DEF Asks

LEMMA StayRequestIs ==
  ASSUME NEW r \in OnStay
  PROVE  /\ r.kind \in StayKinds /\ r.stay \in Stays /\ r.seen \in Scopes
         /\ r.scopes \in SUBSET Scopes /\ r.to \in Scopes /\ r.chosen \in SUBSET Units
         /\ r.at \in Nat
BY DEF OnStay

LEMMA Apart ==
  /\ Nobody \notin Processes
  /\ \A s \in Stays : s # NoStay /\ s \notin Scopes
  /\ Scopes \subseteq Nat /\ Units \subseteq Nat
BY OrderedKeys, NullsApart DEF Processes

LEMMA UnitIs ==
  ASSUME TablesOK, NEW u \in Units
  PROVE  /\ unit[u] \in UnitRecords
         /\ unit[u].status \in {"ACTIVE", "EXPIRED"} <=> Bound(u)
         /\ Bound(u) => /\ unit[u].stay \in Stays /\ unit[u].scope \in Scopes
                        /\ unit[u].expires \in Nat /\ unit[u].expires > unit[u].activated
BY DEF TablesOK, UnitsTyped, UnitsWhole, UnitRecords, Bound

\* A least element: well-foundedness of the naturals stands in for induction.
LEMMA LeastNat == ASSUME NEW T, T \subseteq Nat, T # {} PROVE \E x \in T : \A y \in T : x <= y
<1> DEFINE R == {ss \in Nat \X Nat : ss[1] < ss[2]}
<1>1. R = OpToRel(<, Nat)
  BY DEF OpToRel
<1>2. IsWellFoundedOn(R, Nat)
  BY <1>1, NatLessThanWellFounded
<1>3. \E x \in T : \A y \in T : ~(<<y, x>> \in R)
  <2> HIDE DEF R
  <2> QED BY <1>2, WFMin
<1>4. PICK x \in T : \A y \in T : ~(<<y, x>> \in R)
  BY <1>3
<1>5. ASSUME NEW y \in T PROVE x <= y
  <2>1. x \in Nat /\ y \in Nat OBVIOUS
  <2>2. ~(y < x) BY <1>4, <2>1
  <2> QED BY <2>1, <2>2
<1> QED BY <1>5

(***************************************************************************)
(* Guarded steps.                                                          *)
(***************************************************************************)
\* Nothing that counts towards the owner's allowance changes.
SameOwner(o) ==
  /\ \A u \in Units : unit[u].scope = o \/ unit'[u].scope = o => unit'[u] = unit[u]
  /\ subs'[o] = subs[o]
  /\ Live(o)' = Live(o)

\* The stay keeps its owner and its history.
SameStay(s) == /\ owner'[s] = owner[s]
               /\ \A u \in Units : unit'[u].stay = s => unit[u].stay = s

\* A bound unit stays where it is and can only end.
BoundStay == \A u \in Units : Bound(u) =>
  /\ unit'[u].stay = unit[u].stay /\ unit'[u].scope = unit[u].scope
  /\ unit'[u].activated = unit[u].activated /\ unit'[u].expires = unit[u].expires
  /\ unit'[u].status = "ACTIVE" => unit[u].status = "ACTIVE"
SubsGrow == \A o \in Scopes : DOMAIN subs[o] \subseteq DOMAIN subs'[o]

Guarded(d) == /\ \A o \in Scopes : holder[o] # d => SameOwner(o)
              /\ \A s \in Stays : holder[s] # d => SameStay(s)
              /\ BoundStay /\ SubsGrow

\* The allowance of an owner of whom nothing changes.
LEMMA SameAllowance ==
  ASSUME TablesOK, NEW o \in Scopes, SameOwner(o), NEW t
  PROVE  /\ ValidUnits(o, t)' = ValidUnits(o, t)
         /\ \A u \in ValidUnits(o, t) : unit'[u] = unit[u]
         /\ Ordinary(o, t)' = Ordinary(o, t) /\ Limit(o, t)' = Limit(o, t)
         /\ \A s \in Stays : Covered(s, o, t)' <=> Covered(s, o, t)
<1>1. ValidUnits(o, t)' = ValidUnits(o, t)
  BY DEF SameOwner, ValidUnits
<1>2. \A u \in ValidUnits(o, t) : unit'[u] = unit[u]
  BY DEF SameOwner, ValidUnits
<1>3. {unit[u].stay : u \in ValidUnits(o, t)}' = {unit[u].stay : u \in ValidUnits(o, t)}
  BY <1>1, <1>2
<1>4. Ordinary(o, t)' = Ordinary(o, t)
  BY <1>3 DEF Ordinary, SameOwner
<1>5. Started(o, t)' = Started(o, t)
  BY DEF SameOwner, Started
<1>6. Latest(o, t)' = Latest(o, t)
  BY <1>5 DEF Latest
<1>7. Limit(o, t)' = Limit(o, t)
  BY <1>5, <1>6 DEF Limit, Subscribed, SameOwner
<1>8. \A s \in Stays : Covered(s, o, t)' <=> Covered(s, o, t)
  BY <1>1, <1>2 DEF Covered
<1> QED BY <1>1, <1>2, <1>4, <1>7, <1>8

\* What a check saw stands while nobody touches the owner and the stay.
LEMMA RoomStands ==
  ASSUME TablesOK, NEW s \in Stays, NEW o \in Scopes, NEW t \in Nat, NEW ch \in SUBSET Units,
         SameOwner(o), SameStay(s), BoundStay, StillRoom(s, o, t, ch)
  PROVE  StillRoom(s, o, t, ch)'
<1>1. CASE ch = {}
  BY <1>1, SameAllowance DEF StillRoom
<1>2. CASE ch # {}
  <2>1. \A v \in ActiveOn(s)' : v \in ActiveOn(s) /\ unit'[v].expires = unit[v].expires
    BY Apart DEF ActiveOn, SameStay, BoundStay, Bound
  <2>2. PICK u \in Units : ch = {u} /\ unit[u].status = "UNUSED" /\ unit[u].scope = o
    BY <1>2 DEF StillRoom
  <2>3. unit'[u] = unit[u] BY <2>2 DEF SameOwner
  <2>4. \A v \in ActiveOn(s) : unit[v].expires <= t BY <1>2 DEF StillRoom
  <2> QED BY <1>2, <2>1, <2>2, <2>3, <2>4 DEF StillRoom
<1> QED BY <1>1, <1>2

\* A transaction that does not move keeps what it knows, whoever moves, as long as
\* the rows it holds are guarded.
LEMMA SessionKept ==
  ASSUME IInv, NEW c \in Processes, stage'[c] = stage[c], request'[c] = request[c],
         \A x \in Scopes \cup Stays : holder'[x] = c <=> holder[x] = c,
         \A o \in Scopes : holder[o] = c => SameOwner(o),
         \A s \in Stays : holder[s] = c => SameStay(s),
         BoundStay, SubsGrow, now' \in Nat, now' >= now
  PROVE  Asks(c)' /\ Holds(c)' /\ Stands(c)'
<1>0. TablesOK /\ SessionTyped /\ Asks(c) /\ Holds(c) /\ Stands(c) /\ now \in Nat
  BY DEF IInv, Sessions, TablesOK
<1>1. CASE stage[c] = "idle"
  BY <1>1 DEF Asks, Holds, Stands
<1> SUFFICES ASSUME stage[c] # "idle" PROVE Asks(c)' /\ Holds(c)' /\ Stands(c)'
  BY <1>1
<1>2. Asks(c)'
  <2>1. ASSUME request[c] \in VisitsUnit, Bound(request[c].row)
        PROVE  /\ Bound(request[c].row)' /\ unit'[request[c].row].scope = unit[request[c].row].scope
               /\ unit'[request[c].row].stay = unit[request[c].row].stay
               /\ unit[request[c].row].stay \in Stays
    <3>1. request[c].row \in Units BY <2>1 DEF VisitsUnit
    <3> QED BY <1>0, <2>1, <3>1, UnitIs DEF BoundStay, Bound
  <2>2. ASSUME request[c] \in VisitsSub PROVE request[c].row[1] \in Scopes
    BY <2>2 DEF VisitsSub, SubRows
  <2> QED BY <1>0, <2>1, <2>2 DEF Asks, SubsGrow
<1>3. Holds(c)'
  <2>1. ASSUME request[c].kind \in StayKinds
        PROVE  /\ request[c].stay \in Stays
               /\ holder[request[c].stay] = c => owner'[request[c].stay] = owner[request[c].stay]
    BY <1>0, <2>1, KindDecides, StayRequestIs DEF SameStay
  <2>2. request[c].scopes \in SUBSET Scopes BY <1>0, KindDecides
  <2> QED BY <1>0, <2>1, <2>2 DEF Holds
<1>4. Stands(c)'
  <2> SUFFICES ASSUME stage[c] = "commit", request[c].kind \in Checked
               PROVE  /\ request[c].at <= now'
                      /\ request[c].kind = "accept" => ~HasHistory(request[c].stay)'
                      /\ StillRoom(request[c].stay, request[c].to, request[c].at, request[c].chosen)'
    BY DEF Stands, HasHistory, StillRoom
  <2>0. request[c].kind \in StayKinds BY DEF Checked, StayKinds
  <2>1. PICK s \in Stays, o \in Scopes, t \in Nat, ch \in SUBSET Units :
          s = request[c].stay /\ o = request[c].to /\ t = request[c].at /\ ch = request[c].chosen
    BY <1>0, <2>0, KindDecides, StayRequestIs
  <2>2. holder[s] = c /\ holder[o] = c
    BY <1>0, <2>0, <2>1 DEF Holds
  <2>3. SameOwner(o) /\ SameStay(s) BY <2>2
  <2>4. /\ t <= now /\ StillRoom(s, o, t, ch)
        /\ request[c].kind = "accept" => ~HasHistory(s)
    BY <1>0, <2>1 DEF Stands
  <2>5. HasHistory(s)' => HasHistory(s)
    BY <2>3 DEF SameStay, HasHistory
  <2>6. StillRoom(s, o, t, ch)' BY <1>0, <2>3, <2>4, RoomStands
  <2>7. t <= now' BY <1>0, <2>4
  <2> QED BY <2>1, <2>4, <2>5, <2>6, <2>7
<1> QED BY <1>2, <1>3, <1>4

\* Nobody else's transaction moves, and nobody else gains or loses a row.
MovesAlone(d) ==
  \A c \in Processes \ {d} :
    /\ stage'[c] = stage[c] /\ request'[c] = request[c]
    /\ \A x \in Scopes \cup Stays : holder'[x] = c <=> holder[x] = c

\* What every step of a transaction does.
Moved(d) == IInv' /\ Guarded(d) /\ MovesAlone(d)

LEMMA StepKeeps ==
  ASSUME IInv, NEW d \in Processes, MovesAlone(d), Guarded(d), SessionTyped', TablesOK',
         RunsWhole', UnitsStayInScope', OneActive', now' >= now, Asks(d)', Holds(d)', Stands(d)'
  PROVE  Moved(d)
<1>1. ASSUME NEW c \in Processes, c # d PROVE Asks(c)' /\ Holds(c)' /\ Stands(c)'
  <2>1. now' \in Nat BY DEF TablesOK
  <2>2. \A o \in Scopes : holder[o] = c => SameOwner(o) BY <1>1 DEF Guarded
  <2>3. \A s \in Stays : holder[s] = c => SameStay(s) BY <1>1 DEF Guarded
  <2> QED BY <1>1, <2>1, <2>2, <2>3, SessionKept DEF MovesAlone, Guarded
<1>2. Sessions' BY <1>1 DEF Sessions
<1> QED BY <1>2 DEF IInv, Moved

\* A step that leaves the tables alone.
LEMMA QuietStep ==
  ASSUME IInv, UNCHANGED <<now, tables>>, NEW d \in Processes
  PROVE  /\ Guarded(d) /\ TablesOK' /\ UnitsStayInScope' /\ OneActive' /\ now' >= now
         /\ \A b \in Beats : run'[b] = run[b] /\ RunWhole(b) => RunWhole(b)'
<1>0. TablesOK /\ UnitsStayInScope /\ OneActive BY DEF IInv
<1>1. \A o \in Scopes : SameOwner(o) BY DEF tables, SameOwner, Live
<1>2. \A s \in Stays : SameStay(s) BY DEF tables, SameStay
<1>3. BoundStay /\ SubsGrow BY DEF tables, BoundStay, SubsGrow
<1>4. TablesOK' 
  BY <1>0 DEF tables, TablesOK, StaysTyped, UnitsTyped, UnitsWhole, Bound, SubsTyped, SubsWhole, Current
<1>5. UnitsStayInScope' /\ OneActive'
  BY <1>0 DEF tables, UnitsStayInScope, Bound, OneActive, ActiveOn
<1>6. now' >= now BY <1>0 DEF TablesOK
<1>7. \A b \in Beats : run'[b] = run[b] /\ RunWhole(b) => RunWhole(b)'
  BY DEF tables, RunWhole, Bound
<1> QED BY <1>1, <1>2, <1>3, <1>4, <1>5, <1>6, <1>7 DEF Guarded

LEMMA RunsKept ==
  ASSUME IInv, UNCHANGED run, BoundStay, SubsGrow
  PROVE  RunsWhole' /\ run' \in [Beats -> Runs]
<1>0. TablesOK /\ SessionTyped /\ RunsWhole BY DEF IInv
<1>1. ASSUME NEW b \in Beats, NEW u \in run[b].todo, u \in Units, Bound(u) PROVE Bound(u)'
  BY <1>1 DEF BoundStay, Bound
<1>2. ASSUME NEW b \in Beats, NEW p \in run[b].todo, p \in SubRows, p[2] \in DOMAIN subs[p[1]]
      PROVE  p[2] \in DOMAIN subs'[p[1]]
  BY <1>2 DEF SubsGrow, SubRows
<1>3. RunsWhole'
  BY <1>0, <1>1, <1>2 DEF RunsWhole, RunWhole
<1> QED BY <1>0, <1>3 DEF SessionTyped

\* The end of a transaction, whatever it wrote under the rows it holds.
LEMMA EndKeeps ==
  ASSUME IInv, NEW d \in Processes, End(d), UNCHANGED run, Guarded(d), TablesOK',
         UnitsStayInScope', OneActive', now' >= now
  PROVE  Moved(d)
<1>0. SessionTyped BY DEF IInv
<1>1. RunsWhole' /\ run' \in [Beats -> Runs] BY RunsKept DEF Guarded
<1>2. MovesAlone(d)
  BY <1>0, Apart DEF End, MovesAlone, SessionTyped
<1>3. SessionTyped'
  <2>1. NoRequest \in Requests /\ "idle" \in Stages BY DEF Requests, Stages
  <2> QED BY <1>0, <1>1, <2>1 DEF End, SessionTyped
<1>4. stage'[d] = "idle" BY <1>0 DEF End, SessionTyped
<1>5. Asks(d)' /\ Holds(d)' /\ Stands(d)' BY <1>4 DEF Asks, Holds, Stands
<1> QED BY <1>1, <1>2, <1>3, <1>5, StepKeeps

(***************************************************************************)
(* Beginning and locking.                                                  *)
(***************************************************************************)
LEMMA BeginKeeps ==
  ASSUME IInv, NEW d \in Processes, NEW req \in Requests, Begin(d, req),
         run' \in [Beats -> Runs], RunsWhole',
         stage'[d] = FirstStage(req.kind) /\ request'[d] = req => Asks(d)' /\ Holds(d)'
  PROVE  Moved(d)
<1>0. SessionTyped BY DEF IInv
<1>1. UNCHANGED <<now, tables>> /\ UNCHANGED holder BY DEF Begin
<1>2. MovesAlone(d) BY <1>0, <1>1 DEF Begin, MovesAlone, SessionTyped
<1>3. FirstStage(req.kind) \in {"read", "scope"} BY DEF FirstStage
<1>4. SessionTyped' BY <1>0, <1>1, <1>3 DEF Begin, SessionTyped, Stages
<1>5. stage'[d] = FirstStage(req.kind) /\ request'[d] = req BY <1>0 DEF Begin, SessionTyped
<1>6. Stands(d)' BY <1>3, <1>5 DEF Stands
<1> QED BY <1>1, <1>2, <1>4, <1>5, <1>6, QuietStep, StepKeeps

LEMMA StayRequestsTyped ==
  ASSUME TablesOK, NEW s \in Stays, NEW kind \in StayKinds
  PROVE  /\ StayRequest(kind, s) \in OnStay
         /\ StayRequest(kind, s).kind = kind /\ StayRequest(kind, s).stay = s
         /\ StayRequest(kind, s).seen = owner[s] /\ StayRequest(kind, s).to = owner[s]
         /\ StayRequest(kind, s).scopes = {owner[s]}
         /\ owner[s] \in Scopes
BY DEF StayRequest, OnStay, TablesOK, StaysTyped

LEMMA BeginAnyKeeps == ASSUME IInv, NEW d \in Clients, BeginAny(d) PROVE Moved(d)
<1>0. TablesOK /\ SessionTyped /\ d \in Processes BY DEF IInv, Processes
<1>1. UNCHANGED run BY DEF BeginAny, BeginOnStay, BeginPause, BeginAccept, BeginOnScope
<1>2. UNCHANGED <<now, tables, holder>>
  BY DEF BeginAny, BeginOnStay, BeginPause, BeginAccept, BeginOnScope, Begin
<1>3. BoundStay /\ SubsGrow BY <1>0, <1>2, QuietStep DEF Guarded
<1>4. run' \in [Beats -> Runs] /\ RunsWhole' BY <1>1, <1>3, RunsKept
<1>5. ASSUME NEW req \in OnStay, Begin(d, req), req.seen = owner[req.stay], req.seen \in req.scopes,
             req.to \in req.scopes, req.kind # "accept" => req.to = owner[req.stay]
      PROVE  Moved(d)
  <2>1. req \in Requests BY <1>5 DEF Requests
  <2>2. req.kind \in StayKinds /\ req.stay \in Stays BY <1>5, StayRequestIs
  <2>3. ASSUME stage'[d] = FirstStage(req.kind), request'[d] = req PROVE Asks(d)' /\ Holds(d)'
    <3>1. stage'[d] = "scope" \/ (stage'[d] = "read" /\ req.kind = "pause") BY <2>3 DEF FirstStage
    <3>2. Asks(d)' BY <1>5, <2>3, <3>1 DEF Asks
    <3>3. owner' = owner BY <1>2 DEF tables
    <3>4. Holds(d)' BY <1>5, <2>3, <3>1, <3>3 DEF Holds, Legacy
    <3> QED BY <3>2, <3>4
  <2> QED BY <1>0, <1>4, <1>5, <2>1, <2>3, BeginKeeps
<1>6. CASE BeginOnStay(d)
  <2>1. PICK s \in Stays, kind \in Workload \cap {"submit", "approve", "restore", "refuse", "suspend",
                                     "reinstate", "renew"} : Begin(d, StayRequest(kind, s))
    BY <1>6 DEF BeginOnStay
  <2>2. kind \in StayKinds BY DEF StayKinds
  <2> QED BY <1>0, <1>5, <2>1, <2>2, StayRequestsTyped
<1>7. CASE BeginPause(d)
  <2>1. PICK s \in Stays : Begin(d, StayRequest("pause", s)) BY <1>7 DEF BeginPause
  <2>2. "pause" \in StayKinds BY DEF StayKinds
  <2> QED BY <1>0, <1>5, <2>1, <2>2, StayRequestsTyped
<1>8. CASE BeginAccept(d)
  <2>1. PICK s \in Stays, o \in Scopes :
          Begin(d, [StayRequest("accept", s) EXCEPT !.scopes = {owner[s], o}, !.to = o])
    BY <1>8 DEF BeginAccept
  <2> DEFINE req == [StayRequest("accept", s) EXCEPT !.scopes = {owner[s], o}, !.to = o]
  <2>2. "accept" \in StayKinds BY DEF StayKinds
  <2>3. /\ req \in OnStay /\ req.stay = s /\ req.seen = owner[s] /\ req.to = o
        /\ req.scopes = {owner[s], o} /\ req.kind = "accept"
    <3>1. owner[s] \in Scopes BY <1>0 DEF TablesOK, StaysTyped
    <3> QED BY <2>2, <3>1 DEF StayRequest, OnStay
  <2> HIDE DEF req
  <2>4. Begin(d, req) BY <2>1 DEF req
  <2> QED BY <1>5, <2>3, <2>4
<1>9. CASE BeginOnScope(d)
  <2>1. PICK o \in Scopes, kind \in {"grant", "subscribe", "cancel"} :
          Begin(d, [kind |-> kind, scopes |-> {o}])
    BY <1>9 DEF BeginOnScope
  <2> DEFINE req == [kind |-> kind, scopes |-> {o}]
  <2>2. req \in OnScope /\ req \in Requests /\ req.kind = kind BY DEF OnScope, Requests
  <2> HIDE DEF req
  <2>3. Begin(d, req) BY <2>1 DEF req
  <2>4. ASSUME stage'[d] = FirstStage(req.kind), request'[d] = req PROVE Asks(d)' /\ Holds(d)'
    BY <2>2, <2>4 DEF Asks, Holds, FirstStage, StayKinds
  <2> QED BY <1>0, <1>4, <2>2, <2>3, <2>4, BeginKeeps
<1> QED BY <1>6, <1>7, <1>8, <1>9 DEF BeginAny

\* Taking one more row.
LEMMA LockTyped ==
  ASSUME SessionTyped, NEW d \in Processes, NEW x \in Scopes \cup Stays, Lock(x, d)
  PROVE  /\ holder' \in [Scopes \cup Stays -> Processes \cup {Nobody}]
         /\ \A y \in Scopes \cup Stays : holder'[y] = IF y = x THEN d ELSE holder[y]
         /\ \A c \in Processes \ {d} : \A y \in Scopes \cup Stays : holder'[y] = c <=> holder[y] = c
BY Apart DEF SessionTyped, Lock, Free

\* The owners in their order, and after the last the stay or the work.
LEMMA LockScopeKeeps == ASSUME IInv, NEW d \in Processes, LockScope(d) PROVE Moved(d)
<1>0. TablesOK /\ SessionTyped /\ Asks(d) /\ Holds(d) BY DEF IInv, Sessions
<1>1. UNCHANGED <<now, tables>> /\ UNCHANGED <<request, run>> /\ stage[d] = "scope"
  BY DEF LockScope
<1>2. PICK o \in NextScopes(d) :
        /\ Lock(o, d)
        /\ stage' = [stage EXCEPT ![d] =
             IF Unlocked(d) # {o} THEN "scope"
             ELSE IF request[d].kind \notin StayKinds THEN "commit"
             ELSE IF holder[request[d].stay] = d THEN AfterStay(request[d].kind) ELSE "stay"]
  BY DEF LockScope
<1>3. o \in Unlocked(d) /\ o \in request[d].scopes /\ o \in Scopes
  BY <1>0, <1>1, KindDecides DEF NextScopes, Unlocked
<1>4. /\ holder' \in [Scopes \cup Stays -> Processes \cup {Nobody}]
      /\ \A y \in Scopes \cup Stays : holder'[y] = IF y = o THEN d ELSE holder[y]
      /\ \A c \in Processes \ {d} : \A y \in Scopes \cup Stays : holder'[y] = c <=> holder[y] = c
  BY <1>0, <1>2, <1>3, LockTyped
<1>5. /\ stage' \in [Processes -> Stages]
      /\ stage'[d] \in {"scope", "stay", "check", "commit"}
      /\ \A c \in Processes \ {d} : stage'[c] = stage[c]
      /\ stage'[d] # "scope" => Unlocked(d) = {o}
      /\ stage'[d] = "check" => request[d].kind \in Checked
      /\ stage'[d] = "stay" => request[d].kind \in StayKinds
      /\ stage'[d] = "commit" => request[d].kind \notin Checked
      /\ stage'[d] \in {"check", "commit"} /\ request[d].kind \in StayKinds =>
           holder[request[d].stay] = d
  BY <1>0, <1>2 DEF SessionTyped, AfterStay, Stages, Checked, StayKinds
<1>6. MovesAlone(d)
  <2> SUFFICES ASSUME NEW c \in Processes \ {d}
               PROVE  /\ stage'[c] = stage[c] /\ request'[c] = request[c]
                      /\ \A x \in Scopes \cup Stays : holder'[x] = c <=> holder[x] = c
    BY DEF MovesAlone
  <2>1. request' = request BY <1>1
  <2> QED BY <1>4, <1>5, <2>1
<1>7. SessionTyped' BY <1>0, <1>1, <1>4, <1>5 DEF SessionTyped
<1>8. Guarded(d) /\ TablesOK' /\ UnitsStayInScope' /\ OneActive' /\ now' >= now
  BY <1>1, QuietStep
<1>9. RunsWhole' BY <1>1, <1>8, RunsKept DEF Guarded
<1>10. request[d].kind \in StayKinds => request[d].stay \in Stays /\ request[d].stay # o
  BY <1>0, <1>1, <1>3, KindDecides, StayRequestIs, Apart
<1>11. Asks(d)'
  <2>1. CASE request[d].kind \in StayKinds
    BY <1>0, <1>1, <1>5, <2>1, KindDecides DEF Asks, Checked
  <2>2. CASE request[d].kind \notin StayKinds
    <3>1. stage'[d] \in {"scope", "commit"} BY <1>5, <2>2 DEF Checked, StayKinds
    <3>2. request'[d] = request[d] /\ unit' = unit /\ subs' = subs BY <1>1 DEF tables
    <3> QED BY <1>0, <1>1, <2>2, <3>1, <3>2, KindDecides DEF Asks, Bound
  <2> QED BY <2>1, <2>2
<1>12. Holds(d)'
  <2>1. stage'[d] \in {"stay", "check", "commit"} => \A p \in request[d].scopes : holder'[p] = d
    <3> SUFFICES ASSUME stage'[d] # "scope", NEW p \in request[d].scopes PROVE holder'[p] = d
      OBVIOUS
    <3>1. p \in Scopes BY <1>0, <1>1, KindDecides
    <3>2. p = o \/ holder[p] = d BY <1>5 DEF Unlocked
    <3> QED BY <1>4, <3>1, <3>2
  <2>2. request[d].kind \in StayKinds => holder'[request[d].stay] = holder[request[d].stay]
    BY <1>4, <1>10
  <2>3. request' = request /\ owner' = owner BY <1>1 DEF tables
  <2> QED BY <1>0, <1>1, <1>5, <2>1, <2>2, <2>3 DEF Holds
<1>13. Stands(d)' BY <1>1, <1>5 DEF Stands
<1> QED BY <1>6, <1>7, <1>8, <1>9, <1>11, <1>12, <1>13, StepKeeps

LEMMA LockStayKeeps == ASSUME IInv, NEW d \in Clients, LockStay(d) PROVE Moved(d)
<1>0. TablesOK /\ SessionTyped /\ Asks(d) /\ Holds(d) /\ d \in Processes
  BY DEF IInv, Sessions, Processes
<1>1. /\ UNCHANGED <<now, tables>> /\ UNCHANGED <<request, run>> /\ stage[d] = "stay"
      /\ request[d].kind \in StayKinds \ Legacy /\ owner[request[d].stay] = request[d].seen
      /\ Lock(request[d].stay, d)
      /\ stage' = [stage EXCEPT ![d] = AfterStay(request[d].kind)]
  BY DEF LockStay, OwnerUnchanged
<1>2. PICK s \in Stays : s = request[d].stay BY <1>0, <1>1, KindDecides, StayRequestIs
<1>3. /\ holder' \in [Scopes \cup Stays -> Processes \cup {Nobody}]
      /\ \A y \in Scopes \cup Stays : holder'[y] = IF y = s THEN d ELSE holder[y]
      /\ \A c \in Processes \ {d} : \A y \in Scopes \cup Stays : holder'[y] = c <=> holder[y] = c
  BY <1>0, <1>1, <1>2, LockTyped
<1>4. /\ stage' \in [Processes -> Stages] /\ stage'[d] \in {"check", "commit"}
      /\ \A c \in Processes \ {d} : stage'[c] = stage[c]
      /\ stage'[d] = "check" <=> request[d].kind \in Checked
  BY <1>0, <1>1 DEF SessionTyped, AfterStay, Stages
<1>5. MovesAlone(d)
  <2> SUFFICES ASSUME NEW c \in Processes \ {d}
               PROVE  /\ stage'[c] = stage[c] /\ request'[c] = request[c]
                      /\ \A x \in Scopes \cup Stays : holder'[x] = c <=> holder[x] = c
    BY DEF MovesAlone
  <2>1. request' = request BY <1>1
  <2> QED BY <1>3, <1>4, <2>1
<1>6. SessionTyped' BY <1>0, <1>1, <1>3, <1>4 DEF SessionTyped
<1>7. Guarded(d) /\ TablesOK' /\ UnitsStayInScope' /\ OneActive' /\ now' >= now
  BY <1>0, <1>1, QuietStep
<1>8. RunsWhole' BY <1>1, <1>7, RunsKept DEF Guarded
<1>9. Asks(d)'
  BY <1>0, <1>1, <1>4, KindDecides DEF Asks, Checked
<1>10. Holds(d)'
  <2>1. \A o \in request[d].scopes : o \in Scopes /\ holder[o] = d
    BY <1>0, <1>1, KindDecides DEF Holds
  <2>2. \A o \in request[d].scopes : holder'[o] = d BY <1>3, <2>1
  <2>3. request' = request /\ owner' = owner /\ holder'[s] = d BY <1>1, <1>3 DEF tables
  <2> QED BY <1>0, <1>1, <1>2, <1>4, <2>2, <2>3 DEF Holds
<1>11. Stands(d)' BY <1>1, <1>4 DEF Stands
<1> QED BY <1>0, <1>5, <1>6, <1>7, <1>8, <1>9, <1>10, <1>11, StepKeeps

\* listing_action: the stay first, then whoever owns it by then.
LEMMA LockStayAnywayKeeps == ASSUME IInv, NEW d \in Clients, LockStayAnyway(d) PROVE Moved(d)
<1>0. TablesOK /\ SessionTyped /\ Asks(d) /\ Holds(d) /\ d \in Processes
  BY DEF IInv, Sessions, Processes
<1>1. /\ UNCHANGED <<now, tables>> /\ UNCHANGED run /\ stage[d] = "stay"
      /\ request[d].kind \in Legacy
  BY DEF LockStayAnyway, At
<1>2. request[d] \in OnStay /\ request[d].kind \in StayKinds
  BY <1>0, <1>1, KindDecides DEF Legacy, StayKinds
<1>3. PICK s \in Stays : s = request[d].stay BY <1>2, StayRequestIs
<1>4. PICK o \in Scopes : o = owner[s] BY <1>0 DEF TablesOK, StaysTyped
<1>5. /\ Lock(s, d)
      /\ request' = [request EXCEPT ![d].scopes = {o}, ![d].to = o]
      /\ stage' = [stage EXCEPT ![d] = IF holder[o] = d THEN AfterStay(request[d].kind) ELSE "scope"]
  BY <1>3, <1>4 DEF LockStayAnyway
<1>6. /\ holder' \in [Scopes \cup Stays -> Processes \cup {Nobody}]
      /\ \A y \in Scopes \cup Stays : holder'[y] = IF y = s THEN d ELSE holder[y]
      /\ \A c \in Processes \ {d} : \A y \in Scopes \cup Stays : holder'[y] = c <=> holder[y] = c
  BY <1>0, <1>5, LockTyped
<1>7. /\ stage' \in [Processes -> Stages] /\ stage'[d] \in {"scope", "check", "commit"}
      /\ \A c \in Processes \ {d} : stage'[c] = stage[c]
      /\ stage'[d] = "check" => request[d].kind \in Checked
      /\ stage'[d] = "commit" => request[d].kind \notin Checked
      /\ stage'[d] # "scope" => holder[o] = d
  BY <1>0, <1>5 DEF SessionTyped, AfterStay, Stages
<1>8. /\ request'[d] \in OnStay /\ request'[d].kind = request[d].kind /\ request'[d].stay = s
      /\ request'[d].scopes = {o} /\ request'[d].to = o
      /\ \A c \in Processes \ {d} : request'[c] = request[c]
  BY <1>0, <1>2, <1>3, <1>5 DEF SessionTyped, OnStay
<1>9. request' \in [Processes -> Requests]
  <2>1. DOMAIN request' = Processes /\ request' = [c \in Processes |-> request'[c]]
    BY <1>0, <1>5 DEF SessionTyped
  <2>2. \A c \in Processes : request'[c] \in Requests
    BY <1>0, <1>8 DEF SessionTyped, Requests
  <2> QED BY <2>1, <2>2
<1>10. MovesAlone(d)
  BY <1>6, <1>7, <1>8 DEF MovesAlone
<1>11. SessionTyped' BY <1>0, <1>1, <1>6, <1>7, <1>9 DEF SessionTyped
<1>12. Guarded(d) /\ TablesOK' /\ UnitsStayInScope' /\ OneActive' /\ now' >= now
  BY <1>0, <1>1, QuietStep
<1>13. RunsWhole' BY <1>1, <1>12, RunsKept DEF Guarded
<1>14. Asks(d)' BY <1>1, <1>7, <1>8 DEF Asks, Checked, Legacy
<1>15. Holds(d)'
  <2>1. holder'[o] = holder[o] BY <1>6, Apart
  <2>2. owner'[s] = o BY <1>1, <1>4 DEF tables
  <2>3. holder'[s] = d BY <1>6
  <2> QED BY <1>1, <1>7, <1>8, <2>1, <2>2, <2>3 DEF Holds
<1>16. Stands(d)' BY <1>7, <1>8 DEF Stands
<1> QED BY <1>0, <1>10, <1>11, <1>12, <1>13, <1>14, <1>15, <1>16, StepKeeps

LEMMA ReadForSaveKeeps == ASSUME IInv, NEW d \in Clients, ReadForSave(d) PROVE Moved(d)
<1>0. TablesOK /\ SessionTyped /\ Asks(d) /\ Holds(d) /\ d \in Processes
  BY DEF IInv, Sessions, Processes
<1>1. /\ UNCHANGED <<now, tables>> /\ UNCHANGED run /\ UNCHANGED holder /\ stage[d] = "read"
      /\ request[d].kind = "pause"
  BY DEF ReadForSave, At
<1>2. request[d] \in OnStay /\ request[d].kind \in StayKinds
  BY <1>0, <1>1, KindDecides DEF StayKinds
<1>3. PICK s \in Stays : s = request[d].stay BY <1>2, StayRequestIs
<1>4. PICK o \in Scopes : o = owner[s] BY <1>0 DEF TablesOK, StaysTyped
<1>5. /\ request' = [request EXCEPT ![d].seen = o, ![d].scopes = @ \cup {o}]
      /\ stage' = [stage EXCEPT ![d] = "scope"]
  BY <1>3, <1>4 DEF ReadForSave
<1>6. /\ request'[d] \in OnStay /\ request'[d].kind = "pause" /\ request'[d].stay = s
      /\ request'[d].scopes = request[d].scopes \cup {o} /\ request'[d].to = request[d].to
      /\ request'[d].seen = o
      /\ \A c \in Processes \ {d} : request'[c] = request[c]
  BY <1>0, <1>1, <1>2, <1>3, <1>5 DEF SessionTyped, OnStay
<1>7. request' \in [Processes -> Requests]
  <2>1. DOMAIN request' = Processes /\ request' = [c \in Processes |-> request'[c]]
    BY <1>0, <1>5 DEF SessionTyped
  <2>2. \A c \in Processes : request'[c] \in Requests
    BY <1>0, <1>6 DEF SessionTyped, Requests
  <2> QED BY <2>1, <2>2
<1>8. /\ stage' \in [Processes -> Stages] /\ stage'[d] = "scope"
      /\ \A c \in Processes \ {d} : stage'[c] = stage[c]
  BY <1>0, <1>5 DEF SessionTyped, Stages
<1>9. MovesAlone(d) BY <1>1, <1>6, <1>8 DEF MovesAlone
<1>10. SessionTyped' BY <1>0, <1>1, <1>7, <1>8 DEF SessionTyped
<1>11. Guarded(d) /\ TablesOK' /\ UnitsStayInScope' /\ OneActive' /\ now' >= now
  BY <1>0, <1>1, QuietStep
<1>12. RunsWhole' BY <1>1, <1>11, RunsKept DEF Guarded
<1>13. Asks(d)' BY <1>6, <1>8 DEF Asks
<1>14. Holds(d)'
  <2>1. owner'[s] = o BY <1>1, <1>4 DEF tables
  <2>2. request[d].to \in request[d].scopes BY <1>0, <1>1, <1>2 DEF Holds
  <2> QED BY <1>6, <1>8, <2>1, <2>2 DEF Holds, Legacy
<1>15. Stands(d)' BY <1>8 DEF Stands
<1> QED BY <1>0, <1>9, <1>10, <1>11, <1>12, <1>13, <1>14, <1>15, StepKeeps

\* Transactions that end without a write, and runs that move on.
LEMMA QuietEndKeeps ==
  ASSUME IInv, NEW d \in Processes, End(d), UNCHANGED <<now, tables>>, UNCHANGED run
  PROVE  Moved(d)
BY QuietStep, EndKeeps

LEMMA LockExpiredStayKeeps == ASSUME IInv, NEW d \in Beats, LockExpiredStay(d) PROVE Moved(d)
<1>0. TablesOK /\ SessionTyped /\ Asks(d) /\ Holds(d) /\ d \in Processes
  BY DEF IInv, Sessions, Processes
<1>1. /\ UNCHANGED <<now, tables>> /\ UNCHANGED <<request, run>> /\ stage[d] = "commit"
      /\ request[d].kind = "expire_unit"
      /\ Lock(unit[request[d].row].stay, d) /\ stage' = [stage EXCEPT ![d] = "check"]
  BY DEF LockExpiredStay, At
<1>2. request[d] \in VisitsUnit /\ Bound(request[d].row) /\ request[d].row \in Units
      /\ request[d].scopes = {unit[request[d].row].scope}
  BY <1>0, <1>1, KindDecides DEF VisitsUnit
<1>3. PICK s \in Stays : s = unit[request[d].row].stay BY <1>0, <1>2, UnitIs
<1>4. /\ holder' \in [Scopes \cup Stays -> Processes \cup {Nobody}]
      /\ \A y \in Scopes \cup Stays : holder'[y] = IF y = s THEN d ELSE holder[y]
      /\ \A c \in Processes \ {d} : \A y \in Scopes \cup Stays : holder'[y] = c <=> holder[y] = c
  BY <1>0, <1>1, <1>3, LockTyped, SMTT(30)
<1>5. /\ stage' \in [Processes -> Stages] /\ stage'[d] = "check"
      /\ \A c \in Processes \ {d} : stage'[c] = stage[c]
  BY <1>0, <1>1 DEF SessionTyped, Stages
<1>6. MovesAlone(d)
  <2> SUFFICES ASSUME NEW c \in Processes \ {d}
               PROVE  /\ stage'[c] = stage[c] /\ request'[c] = request[c]
                      /\ \A x \in Scopes \cup Stays : holder'[x] = c <=> holder[x] = c
    BY DEF MovesAlone
  <2>1. request' = request BY <1>1
  <2> QED BY <1>4, <1>5, <2>1
<1>7. SessionTyped' BY <1>0, <1>1, <1>4, <1>5 DEF SessionTyped
<1>8. Guarded(d) /\ TablesOK' /\ UnitsStayInScope' /\ OneActive' /\ now' >= now
  BY <1>0, <1>1, QuietStep
<1>9. RunsWhole' BY <1>1, <1>8, RunsKept DEF Guarded
<1>10. request' = request /\ unit' = unit /\ owner' = owner BY <1>1 DEF tables
<1>11. Asks(d)'
  <2>1. holder'[unit[request[d].row].stay] = d BY <1>3, <1>4
  <2> QED BY <1>2, <1>5, <1>10, <2>1 DEF Asks, Bound
<1>12. Holds(d)'
  <2>1. unit[request[d].row].scope \in Scopes BY <1>0, <1>2, UnitIs
  <2>2. holder[unit[request[d].row].scope] = d BY <1>0, <1>1, <1>2 DEF Holds
  <2>3. \A o \in request[d].scopes : holder'[o] = d BY <1>2, <1>4, <2>1, <2>2, Apart
  <2> QED BY <1>1, <1>10, <2>3 DEF Holds, StayKinds
<1>13. Stands(d)' BY <1>5 DEF Stands
<1> QED BY <1>0, <1>6, <1>7, <1>8, <1>9, <1>11, <1>12, <1>13, StepKeeps

\* ensure_capacity finds room, or an unused unit of the owner.
LEMMA OldestUnit ==
  ASSUME NEW o, NEW t, UnusedUnits(o, t) # {}
  PROVE  \E u \in UnusedUnits(o, t) : AvailableUnit(o, t) = {u}
<1>1. UnusedUnits(o, t) \subseteq Nat BY Apart DEF UnusedUnits
<1>2. PICK u \in UnusedUnits(o, t) : \A v \in UnusedUnits(o, t) : u <= v
  BY <1>1, LeastNat
<1>3. \A w \in UnusedUnits(o, t) : w <= u /\ u <= w => w = u BY <1>1
<1>4. AvailableUnit(o, t) = {u} BY <1>2, <1>3 DEF AvailableUnit
<1> QED BY <1>4

LEMMA CapacityEnsured ==
  ASSUME TablesOK, IsFiniteSet(Stays), NEW s \in Stays, NEW o \in Scopes, NEW t \in Nat,
         ~Refused(s, o, t), UnitsStayInScope, HasHistory(s) => owner[s] = o
  PROVE  StillRoom(s, o, t, EnsureCapacity(s, o, t)) /\ EnsureCapacity(s, o, t) \in SUBSET Units
<1>1. CASE NeedsUnit(s, o, t)
  <2>1. UnusedUnits(o, t) # {} BY <1>1 DEF NeedsUnit, Refused
  <2>2. PICK u \in UnusedUnits(o, t) : AvailableUnit(o, t) = {u} BY <2>1, OldestUnit
  <2>3. EnsureCapacity(s, o, t) = {u} BY <1>1, <2>2 DEF EnsureCapacity
  <2>4. u \in Units /\ unit[u].status = "UNUSED" /\ unit[u].scope = o BY DEF UnusedUnits
  <2>5. ASSUME NEW v \in ActiveOn(s) PROVE unit[v].expires <= t
    <3>1. v \in Units /\ unit[v].status = "ACTIVE" /\ unit[v].stay = s BY DEF ActiveOn
    <3>2. unit[v].scope = o /\ unit[v].expires \in Nat
      BY <3>1, UnitIs, Apart DEF UnitsStayInScope, HasHistory
    <3>3. v \notin ValidUnits(o, t) BY <1>1, <3>1 DEF NeedsUnit, Covered
    <3> QED BY <3>1, <3>2, <3>3 DEF ValidUnits
  <2> QED BY <2>3, <2>4, <2>5 DEF StillRoom
<1>2. CASE ~NeedsUnit(s, o, t)
  <2>1. EnsureCapacity(s, o, t) = {} BY <1>2 DEF EnsureCapacity
  <2>2. ASSUME ~Covered(s, o, t) PROVE Ordinary(o, t) < Limit(o, t)
    <3>1. Ordinary(o, t) # Limit(o, t) /\ ~OverLimit(o, t)
      BY <1>2, <2>2 DEF NeedsUnit, Refused
    <3>2. Ordinary(o, t) \in Nat
      BY FS_Subset, FS_CardinalityType DEF Ordinary, Live
    <3>3. Limit(o, t) \in Nat BY Lengths DEF Limit
    <3> QED BY <3>1, <3>2, <3>3 DEF OverLimit
  <2> QED BY <2>1, <2>2 DEF StillRoom
<1> QED BY <1>1, <1>2

\* The owner a stay will have, between the check of a publication and its write.
LEMMA TakerIs ==
  ASSUME IInv, NEW c \in Processes, stage[c] \in {"check", "commit"}, request[c].kind \in StayKinds
  PROVE  /\ request[c] \in OnStay /\ request[c].stay \in Stays /\ request[c].to \in Scopes
         /\ holder[request[c].stay] = c /\ holder[request[c].to] = c
         /\ owner[request[c].stay] \in Scopes /\ holder[owner[request[c].stay]] = c
         /\ request[c].kind \notin {"accept", "pause"} => owner[request[c].stay] = request[c].to
         /\ stage[c] = "check" => request[c].kind \in Checked
<1>1. Asks(c) /\ Holds(c) /\ SessionTyped BY DEF IInv, Sessions
<1>2. stage[c] # "idle" /\ stage[c] # "read" OBVIOUS
<1>3. request[c] \in OnStay /\ request[c].stay \in Stays /\ request[c].to \in Scopes
      /\ request[c].seen \in Scopes
  BY <1>1, <1>2, KindDecides, StayRequestIs
<1>4. \A o \in request[c].scopes : holder[o] = c BY <1>1 DEF Holds
<1>5. /\ holder[request[c].stay] = c /\ request[c].to \in request[c].scopes
      /\ owner[request[c].stay] = IF request[c].kind \in Legacy THEN request[c].to ELSE request[c].seen
      /\ request[c].seen \in request[c].scopes \/ request[c].kind \in Legacy
      /\ request[c].kind \notin Legacy \cup {"accept", "pause"} => request[c].to = request[c].seen
  BY <1>1, <1>2 DEF Holds
<1>6. stage[c] = "check" => request[c].kind \in Checked BY <1>1, <1>2, KindDecides
<1> QED BY <1>3, <1>4, <1>5, <1>6

LEMMA CheckPublicationKeeps ==
  ASSUME IsFiniteSet(Stays), IInv, NEW d \in Clients, CheckPublication(d) PROVE Moved(d)
<1>0. TablesOK /\ SessionTyped /\ Asks(d) /\ Holds(d) /\ d \in Processes /\ UnitsStayInScope
      /\ now \in Nat
  BY DEF IInv, Sessions, Processes, TablesOK
<1>1. /\ UNCHANGED <<now, tables>> /\ UNCHANGED run /\ UNCHANGED holder /\ stage[d] = "check"
      /\ request[d].kind \in Checked \ {"renew"} /\ request[d].kind \in StayKinds
  BY DEF CheckPublication, At, Checked, StayKinds
<1>2. PICK s \in Stays, o \in Scopes : s = request[d].stay /\ o = request[d].to
  BY <1>0, <1>1, TakerIs
<1>3. /\ request[d].kind = "accept" => ~HasHistory(s)
      /\ ~Refused(s, o, now)
      /\ request' = [request EXCEPT ![d].chosen = EnsureCapacity(s, o, now), ![d].at = now]
      /\ stage' = [stage EXCEPT ![d] = "commit"]
  BY <1>2 DEF CheckPublication, Taker
<1>4. HasHistory(s) => owner[s] = o
  BY <1>0, <1>1, <1>2, <1>3, TakerIs DEF Checked
<1>5. PICK t \in Nat, ch \in SUBSET Units :
        t = now /\ ch = EnsureCapacity(s, o, t) /\ StillRoom(s, o, t, ch)
  BY <1>0, <1>3, <1>4, CapacityEnsured
<1>6. /\ request'[d] \in OnStay /\ request'[d].kind = request[d].kind /\ request'[d].stay = s
      /\ request'[d].scopes = request[d].scopes /\ request'[d].to = o
      /\ request'[d].seen = request[d].seen /\ request'[d].chosen = ch /\ request'[d].at = t
      /\ \A c \in Processes \ {d} : request'[c] = request[c]
  <2>1. request[d] \in OnStay BY <1>0, <1>1, TakerIs
  <2>2. request' = [request EXCEPT ![d].chosen = ch, ![d].at = t] BY <1>3, <1>5
  <2> QED BY <1>0, <1>2, <2>1, <2>2 DEF SessionTyped, OnStay
<1>7. request' \in [Processes -> Requests]
  <2>1. DOMAIN request' = Processes /\ request' = [c \in Processes |-> request'[c]]
    BY <1>0, <1>3 DEF SessionTyped
  <2>2. \A c \in Processes : request'[c] \in Requests
    BY <1>0, <1>6 DEF SessionTyped, Requests
  <2> QED BY <2>1, <2>2
<1>8. /\ stage' \in [Processes -> Stages] /\ stage'[d] = "commit"
      /\ \A c \in Processes \ {d} : stage'[c] = stage[c]
  BY <1>0, <1>3 DEF SessionTyped, Stages
<1>9. MovesAlone(d) BY <1>1, <1>6, <1>8 DEF MovesAlone
<1>10. SessionTyped' BY <1>0, <1>1, <1>7, <1>8 DEF SessionTyped
<1>11. Guarded(d) /\ TablesOK' /\ UnitsStayInScope' /\ OneActive' /\ now' >= now
  BY <1>0, <1>1, QuietStep
<1>12. RunsWhole' BY <1>1, <1>11, RunsKept DEF Guarded
<1>13. Asks(d)' BY <1>1, <1>6, <1>8 DEF Asks
<1>14. Holds(d)'
  <2>1. owner' = owner BY <1>1 DEF tables
  <2> QED BY <1>0, <1>1, <1>2, <1>6, <1>8, <2>1 DEF Holds
<1>15. Stands(d)'
  <2>1. HasHistory(s)' <=> HasHistory(s) BY <1>1 DEF HasHistory, tables
  <2>2. SameOwner(o) /\ SameStay(s) /\ BoundStay
    BY <1>1 DEF tables, SameOwner, Live, SameStay, BoundStay
  <2>3. StillRoom(s, o, t, ch)' BY <1>0, <1>5, <2>2, RoomStands
  <2>4. t <= now' BY <1>0, <1>1, <1>5
  <2> QED BY <1>1, <1>3, <1>6, <1>8, <2>1, <2>3, <2>4 DEF Stands
<1> QED BY <1>0, <1>9, <1>10, <1>11, <1>12, <1>13, <1>14, <1>15, StepKeeps

\* A worker's run moves on to rows that are there.
LEMMA RunMoves ==
  ASSUME IInv, UNCHANGED <<now, tables>>, NEW b \in Beats, NEW r \in Runs, run' = [run EXCEPT ![b] = r],
         r.phase = "subs" => \A p \in r.todo : p \in SubRows /\ p[2] \in DOMAIN subs[p[1]],
         r.phase = "units" => \A u \in r.todo : u \in Units /\ Bound(u),
         r.phase = "scopes" => r.todo \subseteq Scopes
  PROVE  run' \in [Beats -> Runs] /\ RunsWhole'
<1>0. SessionTyped /\ RunsWhole BY DEF IInv
<1>1. /\ run' \in [Beats -> Runs] /\ run'[b] = r
      /\ \A e \in Beats \ {b} : run'[e] = run[e]
  BY <1>0 DEF SessionTyped
<1>2. subs' = subs /\ unit' = unit BY DEF tables
<1>3. ASSUME NEW e \in Beats PROVE RunWhole(e)'
  <2>1. CASE e = b BY <1>1, <1>2, <2>1 DEF RunWhole, Bound
  <2>2. CASE e # b BY <1>0, <1>1, <1>2, <2>2 DEF RunsWhole, RunWhole, Bound
  <2> QED BY <2>1, <2>2
<1> QED BY <1>1, <1>3 DEF RunsWhole

\* Only the worker's run changes, or its transaction ends with it.
LEMMA RunStepKeeps ==
  ASSUME IInv, NEW b \in Beats, UNCHANGED <<now, tables>>, run' \in [Beats -> Runs], RunsWhole',
         UNCHANGED <<holder, session>> \/ End(b)
  PROVE  Moved(b)
<1>0. SessionTyped /\ b \in Processes /\ Asks(b) /\ Holds(b) /\ Stands(b) /\ TablesOK
  BY DEF IInv, Sessions, Processes
<1>1. Guarded(b) /\ TablesOK' /\ UnitsStayInScope' /\ OneActive' /\ now' >= now
  BY <1>0, QuietStep
<1>2. CASE UNCHANGED <<holder, session>>
  <2>1. holder' = holder /\ stage' = stage /\ request' = request BY <1>2 DEF session
  <2>2. MovesAlone(b) /\ SessionTyped' BY <1>0, <2>1 DEF MovesAlone, SessionTyped
  <2>3. \A o \in Scopes : SameOwner(o) BY DEF SameOwner, Live, tables
  <2>4. \A s \in Stays : SameStay(s) BY DEF SameStay, tables
  <2>5. now' \in Nat BY <1>1 DEF TablesOK
  <2>6. Asks(b)' /\ Holds(b)' /\ Stands(b)'
    BY <1>0, <1>1, <2>1, <2>3, <2>4, <2>5, SessionKept DEF Guarded
  <2> QED BY <1>0, <1>1, <2>2, <2>6, StepKeeps
<1>3. CASE End(b)
  <2>1. MovesAlone(b) BY <1>0, <1>3, Apart DEF End, MovesAlone, SessionTyped
  <2>2. NoRequest \in Requests /\ "idle" \in Stages BY DEF Requests, Stages
  <2>3. SessionTyped' /\ stage'[b] = "idle" BY <1>0, <1>3, <2>2 DEF End, SessionTyped
  <2>4. Asks(b)' /\ Holds(b)' /\ Stands(b)' BY <2>3 DEF Asks, Holds, Stands
  <2> QED BY <1>0, <1>1, <2>1, <2>3, <2>4, StepKeeps
<1> QED BY <1>2, <1>3

LEMMA RunIs ==
  ASSUME IInv, NEW b \in Beats
  PROVE  /\ run[b] \in Runs /\ RunWhole(b) /\ run[b].at \in Nat
         /\ run[b].phase \in {"off", "subs", "units", "scopes"} /\ run[b].scopes \in SUBSET Scopes
<1>1. run[b] \in Runs /\ RunWhole(b) BY DEF IInv, SessionTyped, RunsWhole
<1> QED BY <1>1 DEF Runs

LEMMA StartRunKeeps == ASSUME IInv, NEW b \in Beats, StartRun(b) PROVE Moved(b)
<1>0. TablesOK /\ now \in Nat BY DEF IInv, TablesOK
<1>1. UNCHANGED <<now, tables>> /\ UNCHANGED <<holder, session>> BY DEF StartRun
<1> DEFINE r == [phase |-> "subs", at |-> now, todo |-> Rows("subs"), scopes |-> {}]
<1>2. Rows("subs") = {p \in SubRows : p[2] \in DOMAIN subs[p[1]]} BY DEF Rows
<1>3. r \in Runs /\ r.phase = "subs" /\ r.todo = Rows("subs") BY <1>0, <1>2 DEF Runs
<1>4. run' = [run EXCEPT ![b] = r] BY DEF StartRun
<1> HIDE DEF r
<1>5. \A p \in r.todo : p \in SubRows /\ p[2] \in DOMAIN subs[p[1]] BY <1>2, <1>3
<1>6. PICK r0 \in Runs : r0 = r BY <1>3
<1>7. run' \in [Beats -> Runs] /\ RunsWhole' BY <1>1, <1>3, <1>4, <1>5, <1>6, RunMoves
<1> QED BY <1>1, <1>7, RunStepKeeps

LEMMA NextPhaseKeeps == ASSUME IInv, NEW b \in Beats, NextPhase(b) PROVE Moved(b)
<1>0. TablesOK /\ run[b] \in Runs /\ run[b].phase \in {"subs", "units", "scopes"}
      /\ run[b].scopes \in SUBSET Scopes
  BY RunIs DEF IInv, NextPhase
<1>1. UNCHANGED <<now, tables>> /\ UNCHANGED <<holder, session>> BY DEF NextPhase
<1>2. ASSUME NEW r \in Runs, run' = [run EXCEPT ![b] = r],
             r.phase = "subs" => \A p \in r.todo : p \in SubRows /\ p[2] \in DOMAIN subs[p[1]],
             r.phase = "units" => \A u \in r.todo : u \in Units /\ Bound(u),
             r.phase = "scopes" => r.todo \subseteq Scopes
      PROVE  Moved(b)
  <2>1. run' \in [Beats -> Runs] /\ RunsWhole' BY <1>1, <1>2, RunMoves
  <2> QED BY <1>1, <2>1, RunStepKeeps
<1>3. CASE run[b].phase = "subs"
  <2>1. PICK T \in SUBSET Units : T = Rows("units") BY DEF Rows
  <2>2. \A u \in T : u \in Units /\ Bound(u) BY <1>0, <2>1, UnitIs DEF Rows
  <2>3. PICK r \in Runs : r = [run[b] EXCEPT !.phase = "units", !.todo = T] BY <1>0 DEF Runs
  <2>4. run' = [run EXCEPT ![b] = r] BY <1>3, <2>1, <2>3 DEF NextPhase
  <2>5. r.phase = "units" /\ r.todo = T BY <1>0, <2>3 DEF Runs
  <2> QED BY <1>2, <2>2, <2>4, <2>5
<1>4. CASE run[b].phase = "units"
  <2>1. run[b].scopes \cup {owner[s] : s \in {x \in Stays : status[x] = "PUBLISHED"}} \subseteq Scopes
    BY <1>0 DEF TablesOK, StaysTyped
  <2>2. PICK T \in SUBSET Scopes :
          T = run[b].scopes \cup {owner[s] : s \in {x \in Stays : status[x] = "PUBLISHED"}}
    BY <2>1
  <2>3. PICK r \in Runs : r = [run[b] EXCEPT !.phase = "scopes", !.todo = T] BY <1>0 DEF Runs
  <2>4. run' = [run EXCEPT ![b] = r] BY <1>4, <2>2, <2>3 DEF NextPhase
  <2>5. r.phase = "scopes" /\ r.todo = T BY <1>0, <2>3 DEF Runs
  <2> QED BY <1>2, <2>4, <2>5
<1>5. CASE run[b].phase = "scopes"
  <2>1. NoRun \in Runs /\ NoRun.phase = "off" BY DEF NoRun, Runs
  <2>2. run' = [run EXCEPT ![b] = NoRun] BY <1>5 DEF NextPhase
  <2>3. PICK r \in Runs : r = NoRun BY <2>1
  <2> QED BY <1>2, <2>1, <2>2, <2>3
<1> QED BY <1>0, <1>3, <1>4, <1>5

LEMMA LostRunKeeps ==
  ASSUME IInv, NEW b \in Beats, UNCHANGED <<now, tables>>, End(b), run' = [run EXCEPT ![b] = NoRun]
  PROVE  Moved(b)
<1>1. NoRun \in Runs /\ NoRun.phase = "off" BY DEF NoRun, Runs
<1>2. PICK r \in Runs : r = NoRun BY <1>1
<1>3. run' \in [Beats -> Runs] /\ RunsWhole' BY <1>1, <1>2, RunMoves
<1> QED BY <1>3, RunStepKeeps

LEMMA AbortRunKeeps == ASSUME IInv, NEW b \in Beats, AbortRun(b) PROVE Moved(b)
BY LostRunKeeps DEF AbortRun

\* A transaction that is failed to break a circle ends, and a worker's run with it.
LEMMA BrokenIs ==
  ASSUME NEW d \in Processes, BreakCircle(d)
  PROVE  /\ End(d) /\ UNCHANGED <<now, tables>>
         /\ d \in Clients => UNCHANGED run
         /\ d \in Beats => run' = [run EXCEPT ![d] = NoRun]
BY NullsApart DEF BreakCircle

LEMMA BreakCircleKeeps == ASSUME IInv, NEW d \in Processes, BreakCircle(d) PROVE Moved(d)
<1>1. CASE d \in Clients BY <1>1, BrokenIs, QuietEndKeeps
<1>2. CASE d \in Beats BY <1>2, BrokenIs, LostRunKeeps
<1> QED BY <1>1, <1>2 DEF Processes

LEMMA VisitKeeps == ASSUME IInv, NEW b \in Beats, Visit(b) PROVE Moved(b)
<1>0. TablesOK /\ SessionTyped /\ run[b] \in Runs /\ RunWhole(b) /\ b \in Processes
      /\ run[b].phase \in {"subs", "units", "scopes"} /\ run[b].scopes \in SUBSET Scopes
  BY RunIs DEF IInv, Visit, Processes
<1>1. PICK x \in run[b].todo :
        /\ Begin(b, [kind |-> VisitKind[run[b].phase], row |-> x, scopes |-> {ScopeOf(run[b].phase, x)}])
        /\ run' = [run EXCEPT ![b].todo = @ \ {x}, ![b].scopes = @ \cup {ScopeOf(run[b].phase, x)}]
  BY DEF Visit
<1>2. UNCHANGED <<now, tables>> /\ UNCHANGED holder BY <1>1 DEF Begin
<1>3. /\ run[b].phase = "subs" => x \in SubRows /\ x[2] \in DOMAIN subs[x[1]] /\ x[1] \in Scopes
                                  /\ ScopeOf(run[b].phase, x) = x[1]
      /\ run[b].phase = "units" => x \in Units /\ Bound(x) /\ unit[x].scope \in Scopes
                                   /\ ScopeOf(run[b].phase, x) = unit[x].scope
      /\ run[b].phase = "scopes" => x \in Scopes /\ ScopeOf(run[b].phase, x) = x
  BY <1>0, UnitIs DEF RunWhole, ScopeOf, SubRows
<1>4. PICK o \in Scopes : o = ScopeOf(run[b].phase, x) BY <1>0, <1>3
<1>5. PICK r \in Runs : r = [run[b] EXCEPT !.todo = @ \ {x}, !.scopes = @ \cup {o}]
  BY <1>0 DEF Runs
<1>6. r.phase = run[b].phase /\ r.todo = run[b].todo \ {x} BY <1>0, <1>5 DEF Runs
<1>7. run' = [run EXCEPT ![b] = r] BY <1>0, <1>1, <1>4, <1>5 DEF SessionTyped
<1>8. run' \in [Beats -> Runs] /\ RunsWhole'
  <2>1. /\ r.phase = "subs" => \A p \in r.todo : p \in SubRows /\ p[2] \in DOMAIN subs[p[1]]
        /\ r.phase = "units" => \A u \in r.todo : u \in Units /\ Bound(u)
        /\ r.phase = "scopes" => r.todo \subseteq Scopes
    BY <1>0, <1>6 DEF RunWhole
  <2> QED BY <1>2, <1>7, <2>1, RunMoves
<1>9. PICK k : k = VisitKind[run[b].phase] OBVIOUS
<1>10. /\ run[b].phase = "subs" => k = "expire_sub"
       /\ run[b].phase = "units" => k = "expire_unit"
       /\ run[b].phase = "scopes" => k = "review"
  BY <1>9 DEF VisitKind
<1> DEFINE req == [kind |-> k, row |-> x, scopes |-> {o}]
<1>11. req.kind = k /\ req.row = x /\ req.scopes = {o} OBVIOUS
<1>12. /\ run[b].phase = "subs" => req \in VisitsSub
       /\ run[b].phase = "units" => req \in VisitsUnit
       /\ run[b].phase = "scopes" => req \in VisitsScope
  BY <1>3, <1>10 DEF VisitsSub, VisitsUnit, VisitsScope
<1>13. Begin(b, req) BY <1>1, <1>4, <1>9
<1> HIDE DEF req
<1>14. req \in Requests BY <1>0, <1>12 DEF Requests
<1>15. ASSUME stage'[b] = FirstStage(req.kind), request'[b] = req PROVE Asks(b)' /\ Holds(b)'
  <2>1. stage'[b] = "scope" BY <1>0, <1>10, <1>11, <1>15 DEF FirstStage
  <2>2. subs' = subs /\ unit' = unit BY <1>2 DEF tables
  <2>3. Asks(b)' BY <1>0, <1>3, <1>4, <1>11, <1>12, <1>15, <2>1, <2>2 DEF Asks, Bound
  <2>4. k \notin StayKinds BY <1>0, <1>10 DEF StayKinds
  <2>5. Holds(b)' BY <1>11, <1>15, <2>1, <2>4 DEF Holds
  <2> QED BY <2>3, <2>5
<1> QED BY <1>0, <1>8, <1>13, <1>14, <1>15, BeginKeeps

(***************************************************************************)
(* Writing.                                                                *)
(***************************************************************************)
\* A stay changes hands or comes and goes, a unit is granted, bound or ends, and a
\* subscription changes only under the rows of the owners and the stay concerned.
StaysOwned(d) ==
  \A x \in Stays :
    /\ owner'[x] # owner[x] => holder[x] = d /\ ~HasHistory(x)
    /\ owner'[x] # owner[x] \/ status'[x] # status[x] =>
         holder[owner[x]] = d /\ holder[owner'[x]] = d
UnitsOwned(d) ==
  \A u \in Units : unit'[u] # unit[u] =>
    /\ unit'[u].scope \in Scopes /\ holder[unit'[u].scope] = d
    /\ unit[u].scope \in {unit'[u].scope, Nobody}
    /\ Bound(u) => unit'[u] = [unit[u] EXCEPT !.status = "EXPIRED"]
    /\ ~Bound(u) /\ unit'[u].stay # NoStay =>
         holder[unit'[u].stay] = d /\ unit'[u].scope = owner'[unit'[u].stay]
SubsOwned(d) == \A o \in Scopes : subs'[o] # subs[o] => holder[o] = d

LEMMA OwnedIsGuarded ==
  ASSUME IInv, NEW d \in Processes, StaysOwned(d), UnitsOwned(d), SubsOwned(d), SubsGrow,
         owner' \in [Stays -> Scopes], UnitsTyped'
  PROVE  Guarded(d) /\ UnitsStayInScope'
<1>0. TablesOK /\ UnitsStayInScope BY DEF IInv
<1>1. ASSUME NEW o \in Scopes, holder[o] # d PROVE SameOwner(o)
  <2>1. ASSUME NEW u \in Units, unit[u].scope = o \/ unit'[u].scope = o PROVE unit'[u] = unit[u]
    BY <1>1, <2>1, NullsApart DEF UnitsOwned
  <2>2. subs'[o] = subs[o] BY <1>1 DEF SubsOwned
  <2>3. \A s \in Stays : (owner'[s] = o /\ status'[s] = "PUBLISHED") <=>
                         (owner[s] = o /\ status[s] = "PUBLISHED")
    BY <1>1 DEF StaysOwned
  <2>4. Live(o)' = Live(o) BY <2>3 DEF Live
  <2> QED BY <2>1, <2>2, <2>4 DEF SameOwner
<1>2. BoundStay
  <2> SUFFICES ASSUME NEW u \in Units, Bound(u)
               PROVE  /\ unit'[u].stay = unit[u].stay /\ unit'[u].scope = unit[u].scope
                      /\ unit'[u].activated = unit[u].activated /\ unit'[u].expires = unit[u].expires
                      /\ unit'[u].status = "ACTIVE" => unit[u].status = "ACTIVE"
    BY DEF BoundStay
  <2>1. unit[u] \in UnitRecords BY <1>0, UnitIs
  <2>2. CASE unit'[u] = unit[u] BY <2>2
  <2>3. CASE unit'[u] # unit[u]
    <3>1. unit'[u] = [unit[u] EXCEPT !.status = "EXPIRED"] BY <2>3 DEF UnitsOwned
    <3> QED BY <2>1, <3>1 DEF UnitRecords
  <2> QED BY <2>2, <2>3
<1>3. ASSUME NEW s \in Stays, holder[s] # d PROVE SameStay(s)
  <2>1. ASSUME NEW u \in Units, unit'[u].stay = s PROVE unit[u].stay = s
    <3>1. CASE Bound(u) BY <1>2, <2>1, <3>1 DEF BoundStay
    <3>2. CASE ~Bound(u) BY <1>3, <2>1, <3>2, Apart DEF UnitsOwned, Bound
    <3> QED BY <3>1, <3>2
  <2> QED BY <1>3, <2>1 DEF SameStay, StaysOwned
<1>4. ASSUME NEW u \in Units, unit'[u].stay # NoStay PROVE owner'[unit'[u].stay] = unit'[u].scope
  <2>1. CASE Bound(u)
    <3>1. unit'[u].stay = unit[u].stay /\ unit'[u].scope = unit[u].scope
      BY <1>2, <2>1 DEF BoundStay
    <3>2. unit[u].stay \in Stays /\ HasHistory(unit[u].stay)
      BY <1>0, <2>1, UnitIs DEF HasHistory
    <3>3. owner'[unit[u].stay] = owner[unit[u].stay] BY <3>2 DEF StaysOwned
    <3> QED BY <1>0, <2>1, <3>1, <3>3 DEF UnitsStayInScope, Bound
  <2>2. CASE ~Bound(u) BY <1>4, <2>2 DEF UnitsOwned, Bound
  <2> QED BY <2>1, <2>2
<1> QED BY <1>1, <1>2, <1>3, <1>4 DEF Guarded, UnitsStayInScope, Bound

LEMMA WriteKeeps ==
  ASSUME IInv, NEW d \in Processes, End(d), UNCHANGED run, now' = now,
         StaysOwned(d), UnitsOwned(d), SubsOwned(d), SubsGrow,
         StaysTyped', UnitsTyped', UnitsWhole', SubsTyped', SubsWhole', OneActive'
  PROVE  Moved(d)
<1>1. owner' \in [Stays -> Scopes] BY DEF StaysTyped
<1>2. now \in 0..MaxTime /\ now' >= now BY Lengths DEF IInv, TablesOK
<1>3. TablesOK' BY <1>2 DEF TablesOK
<1> QED BY <1>1, <1>2, <1>3, OwnedIsGuarded, EndKeeps

\* What a write that does not concern units or subscriptions leaves alone.
LEMMA UnitsAlone ==
  ASSUME IInv, UNCHANGED unit, NEW d
  PROVE  UnitsOwned(d) /\ UnitsTyped' /\ UnitsWhole' /\ OneActive'
<1>1. UnitsTyped /\ UnitsWhole /\ OneActive BY DEF IInv, TablesOK
<1> QED BY <1>1 DEF UnitsOwned, UnitsTyped, UnitsWhole, OneActive, ActiveOn, Bound

LEMMA SubsAlone ==
  ASSUME IInv, UNCHANGED subs, NEW d
  PROVE  SubsOwned(d) /\ SubsGrow /\ SubsTyped' /\ SubsWhole'
<1>1. SubsTyped /\ SubsWhole BY DEF IInv, TablesOK
<1> QED BY <1>1 DEF SubsOwned, SubsGrow, SubsTyped, SubsWhole, Current

LEMMA StaysAlone ==
  ASSUME IInv, UNCHANGED <<status, owner>>, NEW d, review' \in [Stays -> ReviewRecords],
         obliged' = obliged
  PROVE  StaysOwned(d) /\ StaysTyped'
<1>1. StaysTyped BY DEF IInv, TablesOK
<1> QED BY <1>1 DEF StaysOwned, StaysTyped

\* Closing a review, or leaving it.
LEMMA ReviewsTyped ==
  ASSUME IInv, NEW s \in Stays, Resolve(s) \/ UNCHANGED review
  PROVE  review' \in [Stays -> ReviewRecords]
<1>1. review \in [Stays -> ReviewRecords] BY DEF IInv, TablesOK, StaysTyped
<1>2. NoReview \in ReviewRecords BY DEF NoReview, ReviewRecords, Reasons
<1> QED BY <1>1, <1>2 DEF Resolve

\* One stay is written, with the rows of its owner and of the one it will have.
LEMMA StayWritten ==
  ASSUME IInv, NEW d \in Processes, NEW s \in Stays, NEW n \in Scopes, NEW new \in Statuses,
         status' = [status EXCEPT ![s] = new], owner' = [owner EXCEPT ![s] = n],
         holder[s] = d, holder[n] = d, holder[owner[s]] = d, n # owner[s] => ~HasHistory(s),
         review' \in [Stays -> ReviewRecords], obliged' = obliged
  PROVE  StaysOwned(d) /\ StaysTyped'
<1>1. StaysTyped BY DEF IInv, TablesOK
<1> QED BY <1>1 DEF StaysOwned, StaysTyped

LEMMA SameOwnerWritten ==
  ASSUME IInv, NEW s \in Stays, owner' = owner
  PROVE  owner' = [owner EXCEPT ![s] = owner[s]]
<1>1. owner \in [Stays -> Scopes] BY DEF IInv, TablesOK, StaysTyped
<1> QED BY <1>1

LEMMA SubmissionKeeps == ASSUME IInv, NEW d \in Clients, SaveSubmission(d) PROVE Moved(d)
<1>0. d \in Processes /\ stage[d] = "commit" /\ request[d].kind = "submit"
      /\ request[d].kind \in StayKinds
  BY DEF SaveSubmission, At, Processes, StayKinds
<1>1. PICK s \in Stays : s = request[d].stay BY <1>0, TakerIs
<1>2. owner[s] \in Scopes /\ holder[s] = d /\ holder[owner[s]] = d BY <1>0, <1>1, TakerIs
<1>3. "SUBMITTED" \in Statuses BY DEF Statuses
<1>4. /\ status' = [status EXCEPT ![s] = "SUBMITTED"] /\ owner' = owner /\ now' = now
      /\ UNCHANGED unit /\ UNCHANGED subs /\ UNCHANGED review /\ obliged' = obliged
      /\ UNCHANGED run /\ End(d)
  BY <1>1 DEF SaveSubmission
<1>5. review' \in [Stays -> ReviewRecords] BY <1>4, ReviewsTyped
<1>6. StaysOwned(d) /\ StaysTyped'
  BY <1>0, <1>2, <1>3, <1>4, <1>5, SameOwnerWritten, StayWritten
<1> QED BY <1>0, <1>4, <1>6, UnitsAlone, SubsAlone, WriteKeeps

LEMMA RefusalKeeps == ASSUME IInv, NEW d \in Clients, SaveRefusal(d) PROVE Moved(d)
<1>0. d \in Processes /\ stage[d] = "commit" /\ request[d].kind \in {"refuse", "suspend"}
      /\ request[d].kind \in StayKinds
  BY DEF SaveRefusal, At, Processes, StayKinds
<1>1. PICK s \in Stays : s = request[d].stay BY <1>0, TakerIs
<1>2. owner[s] \in Scopes /\ holder[s] = d /\ holder[owner[s]] = d BY <1>0, <1>1, TakerIs
<1>3. PICK new \in Statuses : status' = [status EXCEPT ![s] = new]
  BY <1>1 DEF SaveRefusal, Statuses
<1>4. /\ owner' = owner /\ now' = now
      /\ UNCHANGED unit /\ UNCHANGED subs /\ UNCHANGED review /\ obliged' = obliged
      /\ UNCHANGED run /\ End(d)
  BY DEF SaveRefusal
<1>5. review' \in [Stays -> ReviewRecords] BY <1>1, <1>4, ReviewsTyped
<1>6. StaysOwned(d) /\ StaysTyped'
  BY <1>0, <1>2, <1>3, <1>4, <1>5, SameOwnerWritten, StayWritten
<1> QED BY <1>0, <1>4, <1>6, UnitsAlone, SubsAlone, WriteKeeps

LEMMA PauseKeeps == ASSUME IInv, NEW d \in Clients, SavePause(d) PROVE Moved(d)
<1>0. d \in Processes /\ stage[d] = "commit" /\ request[d].kind = "pause"
      /\ request[d].kind \in StayKinds
  BY DEF SavePause, At, Processes, StayKinds
<1>1. PICK s \in Stays, n \in Scopes : s = request[d].stay /\ n = request[d].to
  BY <1>0, TakerIs
<1>2. /\ owner[s] \in Scopes /\ holder[s] = d /\ holder[owner[s]] = d /\ holder[n] = d
  BY <1>0, <1>1, TakerIs
<1>3. "PAUSED" \in Statuses BY DEF Statuses
<1>4. /\ status' = [status EXCEPT ![s] = "PAUSED"] /\ owner' = [owner EXCEPT ![s] = n]
      /\ n # owner[s] => ~HasHistory(s)
      /\ now' = now /\ UNCHANGED unit /\ UNCHANGED subs /\ UNCHANGED review /\ obliged' = obliged
      /\ UNCHANGED run /\ End(d)
  BY <1>1 DEF SavePause
<1>5. review' \in [Stays -> ReviewRecords] BY <1>4, ReviewsTyped
<1>6. StaysOwned(d) /\ StaysTyped'
  BY <1>0, <1>2, <1>3, <1>4, <1>5, StayWritten
<1> QED BY <1>0, <1>4, <1>6, UnitsAlone, SubsAlone, WriteKeeps

LEMMA QuietTransferKeeps == ASSUME IInv, NEW d \in Clients, SaveQuietTransfer(d) PROVE Moved(d)
<1>0. d \in Processes /\ stage[d] = "check" /\ request[d].kind \in StayKinds
  BY DEF SaveQuietTransfer, At, Processes, StayKinds
<1>1. PICK s \in Stays, n \in Scopes : s = request[d].stay /\ n = request[d].to
  BY <1>0, TakerIs
<1>2. /\ owner[s] \in Scopes /\ holder[s] = d /\ holder[owner[s]] = d /\ holder[n] = d
  BY <1>0, <1>1, TakerIs
<1>3. /\ status' = status /\ owner' = [owner EXCEPT ![s] = n]
      /\ ~HasHistory(s)
      /\ now' = now /\ UNCHANGED unit /\ UNCHANGED subs /\ UNCHANGED review /\ obliged' = obliged
      /\ UNCHANGED run /\ End(d)
  BY <1>1 DEF SaveQuietTransfer
<1>4. StaysTyped BY DEF IInv, TablesOK
<1>5. status[s] \in Statuses /\ status' = [status EXCEPT ![s] = status[s]]
  BY <1>3, <1>4 DEF StaysTyped
<1>6. review' \in [Stays -> ReviewRecords] BY <1>3, ReviewsTyped
<1>7. StaysOwned(d) /\ StaysTyped'
  BY <1>0, <1>2, <1>3, <1>5, <1>6, StayWritten
<1> QED BY <1>0, <1>3, <1>7, UnitsAlone, SubsAlone, WriteKeeps

\* activate_unit on a stay whose units have all run out: one unit more is bound, and
\* no other stays active on the stay.
LEMMA BindWrites ==
  ASSUME IInv, NEW d, NEW s \in Stays, NEW n \in Scopes, NEW u \in Units,
         unit[u].status = "UNUSED", unit[u].scope = n, holder[n] = d, holder[s] = d,
         \A v \in ActiveOn(s) : unit[v].expires <= now /\ unit[v].scope = n,
         unit' = Bind(u, s), owner'[s] = n
  PROVE  UnitsOwned(d) /\ UnitsTyped' /\ UnitsWhole' /\ OneActive'
<1>0. TablesOK /\ UnitsTyped /\ UnitsWhole /\ OneActive /\ now \in Nat /\ s # NoStay
  BY NullsApart DEF IInv, TablesOK
<1>1. ~Bound(u) /\ unit[u] \in UnitRecords /\ unit[u].stay = NoStay
  BY <1>0, UnitIs DEF Bound
<1>2. PICK e \in Nat : e = now + Duration /\ e > now BY <1>0, Lengths
<1>3. PICK t \in Nat : t = now BY <1>0
<1>4. unit' = [v \in Units |->
         IF v = u THEN [unit[v] EXCEPT !.status = "ACTIVE", !.stay = s, !.activated = t, !.expires = e]
         ELSE IF v \in ActiveOn(s) THEN [unit[v] EXCEPT !.status = "EXPIRED"] ELSE unit[v]]
  BY <1>2, <1>3 DEF Bind
<1>5. u \notin ActiveOn(s) BY DEF ActiveOn
<1>6. /\ unit'[u] \in UnitRecords /\ unit'[u].status = "ACTIVE" /\ unit'[u].stay = s
      /\ unit'[u].scope = n /\ unit'[u].expires > unit'[u].activated
  <2>1. unit'[u] = [unit[u] EXCEPT !.status = "ACTIVE", !.stay = s, !.activated = t, !.expires = e]
    BY <1>4
  <2>2. e > t BY <1>2, <1>3
  <2>3. /\ unit'[u] \in UnitRecords /\ unit'[u].status = "ACTIVE" /\ unit'[u].stay = s
        /\ unit'[u].scope = n /\ unit'[u].expires = e /\ unit'[u].activated = t
    BY <1>1, <2>1 DEF UnitRecords
  <2> QED BY <2>2, <2>3
<1>7. ASSUME NEW v \in ActiveOn(s)
      PROVE  /\ v \in Units /\ v # u /\ Bound(v) /\ unit'[v] = [unit[v] EXCEPT !.status = "EXPIRED"]
             /\ unit'[v] \in UnitRecords /\ unit'[v].status = "EXPIRED"
             /\ unit'[v].stay = s /\ unit'[v].scope = n
             /\ unit'[v].expires = unit[v].expires /\ unit'[v].activated = unit[v].activated
  <2>1. v \in Units /\ v # u /\ unit[v].stay = s /\ unit[v].scope = n
    BY <1>5 DEF ActiveOn
  <2>2. unit[v] \in UnitRecords BY <1>0, <2>1, UnitIs
  <2>3. unit'[v] = [unit[v] EXCEPT !.status = "EXPIRED"] BY <1>4, <2>1
  <2> QED BY <1>0, <2>1, <2>2, <2>3 DEF UnitRecords, Bound
<1>8. ASSUME NEW v \in Units, v # u, v \notin ActiveOn(s) PROVE unit'[v] = unit[v]
  BY <1>4, <1>8
<1>9. UnitsTyped'
  <2>1. \A v \in Units : unit'[v] \in UnitRecords
    BY <1>0, <1>6, <1>7, <1>8 DEF UnitsTyped
  <2> QED BY <1>4, <2>1 DEF UnitsTyped
<1>10. UnitsWhole'
  <2> SUFFICES ASSUME NEW v \in Units
               PROVE  /\ unit'[v].status \in {"ACTIVE", "EXPIRED"} <=> unit'[v].stay # NoStay
                      /\ unit'[v].status # "NONE" => unit'[v].scope \in Scopes
                      /\ unit'[v].stay # NoStay => unit'[v].expires > unit'[v].activated
    BY DEF UnitsWhole, Bound
  <2>1. CASE v = u BY <1>0, <1>6, <2>1
  <2>2. CASE v \in ActiveOn(s)
    BY <1>0, <1>7, <2>2, UnitIs
  <2>3. CASE v # u /\ v \notin ActiveOn(s) BY <1>0, <1>8, <2>3 DEF UnitsWhole, Bound
  <2> QED BY <2>1, <2>2, <2>3
<1>11. OneActive'
  <2>1. ASSUME NEW x \in Stays, NEW v \in ActiveOn(x)' PROVE v \in Units /\ (v = u \/ (v \in ActiveOn(x) /\ x # s))
    <3>1. v \in Units /\ unit'[v].status = "ACTIVE" /\ unit'[v].stay = x BY DEF ActiveOn
    <3>2. v = u \/ v \notin ActiveOn(s) BY <1>7, <3>1
    <3>3. v = u \/ v \in ActiveOn(x) BY <1>8, <3>1, <3>2 DEF ActiveOn
    <3> QED BY <3>1, <3>2, <3>3
  <2>2. ASSUME NEW x \in Stays, u \in ActiveOn(x)' PROVE x = s
    BY <1>6, <2>2 DEF ActiveOn
  <2> QED BY <1>0, <2>1, <2>2 DEF OneActive
<1>12. UnitsOwned(d)
  <2> SUFFICES ASSUME NEW v \in Units, unit'[v] # unit[v]
               PROVE  /\ unit'[v].scope \in Scopes /\ holder[unit'[v].scope] = d
                      /\ unit[v].scope \in {unit'[v].scope, Nobody}
                      /\ Bound(v) => unit'[v] = [unit[v] EXCEPT !.status = "EXPIRED"]
                      /\ ~Bound(v) /\ unit'[v].stay # NoStay =>
                           holder[unit'[v].stay] = d /\ unit'[v].scope = owner'[unit'[v].stay]
    BY DEF UnitsOwned
  <2>1. CASE v = u BY <1>1, <1>6, <2>1
  <2>2. CASE v # u
    <3>1. v \in ActiveOn(s) BY <1>8, <2>2
    <3>2. Bound(v) /\ unit'[v].scope = n /\ unit'[v] = [unit[v] EXCEPT !.status = "EXPIRED"]
      BY <1>7, <3>1
    <3>3. unit[v].scope = n BY <3>1
    <3> QED BY <3>2, <3>3
  <2> QED BY <2>1, <2>2
<1> QED BY <1>9, <1>10, <1>11, <1>12

LEMMA PublicationKeeps == ASSUME IInv, NEW d \in Clients, SavePublication(d) PROVE Moved(d)
<1>0. d \in Processes /\ stage[d] = "commit" /\ request[d].kind \in Checked \ {"renew"}
      /\ request[d].kind \in StayKinds /\ request[d].kind # "pause" /\ now \in Nat
  BY DEF SavePublication, At, Processes, StayKinds, Checked, IInv, TablesOK
<1>1. PICK s \in Stays, n \in Scopes, ch \in SUBSET Units, t \in Nat :
        s = request[d].stay /\ n = request[d].to /\ ch = request[d].chosen /\ t = request[d].at
  BY <1>0, TakerIs, StayRequestIs
<1>2. /\ owner[s] \in Scopes /\ holder[s] = d /\ holder[owner[s]] = d /\ holder[n] = d
      /\ request[d].kind # "accept" => owner[s] = n
  BY <1>0, <1>1, TakerIs
<1>3. "PUBLISHED" \in Statuses BY DEF Statuses
<1>4. /\ status' = [status EXCEPT ![s] = "PUBLISHED"] /\ owner' = [owner EXCEPT ![s] = n]
      /\ BindChosen(s, ch) /\ now' = now /\ UNCHANGED subs /\ obliged' = obliged /\ UNCHANGED run /\ End(d)
  BY <1>1 DEF SavePublication
<1>5. StillRoom(s, n, t, ch) /\ t <= now /\ (request[d].kind = "accept" => ~HasHistory(s))
  BY <1>0, <1>1 DEF IInv, Sessions, Stands
<1>6. n # owner[s] => ~HasHistory(s) BY <1>2, <1>5
<1>7. review' \in [Stays -> ReviewRecords] BY <1>4, ReviewsTyped DEF BindChosen
<1>8. StaysOwned(d) /\ StaysTyped' BY <1>0, <1>2, <1>3, <1>4, <1>6, <1>7, StayWritten
<1>9. UnitsOwned(d) /\ UnitsTyped' /\ UnitsWhole' /\ OneActive'
  <2>1. CASE ch = {} BY <1>4, <2>1, UnitsAlone DEF BindChosen
  <2>2. CASE ch # {}
    <3>1. PICK u \in Units : ch = {u} /\ unit[u].status = "UNUSED" /\ unit[u].scope = n
      BY <1>5, <2>2 DEF StillRoom
    <3>2. unit' = Bind(u, s) BY <1>4, <3>1 DEF BindChosen
    <3>3. ASSUME NEW v \in ActiveOn(s) PROVE unit[v].expires <= now /\ unit[v].scope = n
      <4>1. v \in Units /\ unit[v].stay = s /\ HasHistory(s) BY DEF ActiveOn, HasHistory
      <4>2. unit[v].scope = n BY <1>6, <4>1, NullsApart DEF IInv, UnitsStayInScope, Bound
      <4>3. unit[v].expires <= t BY <1>5, <2>2 DEF StillRoom
      <4>4. unit[v].expires \in Nat BY <4>1, Apart, UnitIs DEF IInv, Bound
      <4> QED BY <1>0, <1>5, <4>2, <4>3, <4>4
    <3>4. owner'[s] = n BY <1>4 DEF IInv, TablesOK, StaysTyped
    <3> QED BY <1>2, <3>1, <3>2, <3>3, <3>4, BindWrites
  <2> QED BY <2>1, <2>2
<1> QED BY <1>0, <1>4, <1>8, <1>9, SubsAlone, WriteKeeps

LEMMA RenewalKeeps == ASSUME IInv, NEW d \in Clients, SaveRenewal(d) PROVE Moved(d)
<1>0. d \in Processes /\ stage[d] = "check" /\ request[d].kind = "renew"
      /\ request[d].kind \in StayKinds /\ now \in Nat
  BY DEF SaveRenewal, At, Processes, StayKinds, IInv, TablesOK
<1>1. PICK s \in Stays : s = request[d].stay BY <1>0, TakerIs
<1>2. PICK n \in Scopes : n = owner[s] /\ holder[s] = d /\ holder[n] = d BY <1>0, <1>1, TakerIs
<1>3. /\ status' = status /\ owner' = owner /\ ~Covered(s, n, now) /\ UnusedUnits(n, now) # {}
      /\ BindChosen(s, AvailableUnit(n, now))
      /\ now' = now /\ UNCHANGED subs /\ obliged' = obliged /\ UNCHANGED run /\ End(d)
  BY <1>1, <1>2 DEF SaveRenewal, Renewable
<1>4. review' \in [Stays -> ReviewRecords] BY <1>3, ReviewsTyped DEF BindChosen
<1>5. StaysOwned(d) /\ StaysTyped' BY <1>3, <1>4, StaysAlone
<1>6. PICK u \in UnusedUnits(n, now) : AvailableUnit(n, now) = {u} BY <1>3, OldestUnit
<1>7. u \in Units /\ unit[u].status = "UNUSED" /\ unit[u].scope = n BY DEF UnusedUnits
<1>8. unit' = Bind(u, s) BY <1>3, <1>6 DEF BindChosen
<1>9. ASSUME NEW v \in ActiveOn(s) PROVE unit[v].expires <= now /\ unit[v].scope = n
  <2>1. v \in Units /\ unit[v].stay = s /\ unit[v].status = "ACTIVE" BY DEF ActiveOn
  <2>2. unit[v].scope = n BY <1>2, <2>1, NullsApart DEF IInv, UnitsStayInScope, Bound
  <2>3. v \notin ValidUnits(n, now) BY <1>3, <2>1 DEF Covered
  <2>4. unit[v].expires \in Nat BY <2>1, Apart, UnitIs DEF IInv, Bound
  <2> QED BY <1>0, <2>1, <2>2, <2>3, <2>4 DEF ValidUnits
<1>10. UnitsOwned(d) /\ UnitsTyped' /\ UnitsWhole' /\ OneActive'
  BY <1>2, <1>3, <1>7, <1>8, <1>9, BindWrites
<1> QED BY <1>0, <1>3, <1>5, <1>10, SubsAlone, WriteKeeps

\* A scope's row is held when its grants and subscriptions are written.
LEMMA ScopeHeld ==
  ASSUME IInv, NEW d \in Processes, stage[d] \in {"check", "commit"}, NEW o \in request[d].scopes
  PROVE  o \in Scopes /\ holder[o] = d
<1>1. Asks(d) /\ Holds(d) BY DEF IInv, Sessions
<1>2. stage[d] # "idle" OBVIOUS
<1>3. request[d].scopes \in SUBSET Scopes BY <1>1, <1>2, KindDecides
<1> QED BY <1>1, <1>3 DEF Holds

LEMMA GrantKeeps == ASSUME IInv, NEW d \in Clients, SaveGrant(d) PROVE Moved(d)
<1>0. d \in Processes /\ stage[d] = "commit" /\ now \in Nat
      /\ UnitsTyped /\ UnitsWhole /\ OneActive /\ TablesOK
  BY DEF SaveGrant, At, Processes, IInv, TablesOK
<1>1. PICK o \in Scopes, u \in Units :
        /\ holder[o] = d /\ unit[u] = NoUnit
        /\ unit' = [unit EXCEPT ![u] = [NoUnit EXCEPT !.status = "UNUSED", !.scope = o,
                                                     !.before = now + Validity]]
  BY <1>0, ScopeHeld DEF SaveGrant
<1>2. now + Validity \in Nat BY <1>0, Lengths
<1> DEFINE new == [NoUnit EXCEPT !.status = "UNUSED", !.scope = o, !.before = now + Validity]
<1>3. /\ new \in UnitRecords /\ new.status = "UNUSED" /\ new.scope = o /\ new.stay = NoStay
  BY <1>2 DEF NoUnit, UnitRecords
<1>4. unit' = [unit EXCEPT ![u] = new] BY <1>1
<1> HIDE DEF new
<1>5. unit'[u] = new /\ \A v \in Units \ {u} : unit'[v] = unit[v]
  BY <1>0, <1>4 DEF UnitsTyped
<1>6. UnitsTyped' BY <1>0, <1>3, <1>4 DEF UnitsTyped
<1>7. UnitsWhole'
  BY <1>0, <1>3, <1>5 DEF UnitsWhole, Bound
<1>8. \A x \in Stays : ActiveOn(x)' \subseteq ActiveOn(x)
  BY <1>3, <1>5 DEF ActiveOn
<1>9. OneActive' BY <1>0, <1>8 DEF OneActive
<1>10. ~Bound(u) /\ unit[u].scope = Nobody BY <1>1 DEF Bound, NoUnit
<1>11. UnitsOwned(d)
  BY <1>1, <1>3, <1>5, <1>10 DEF UnitsOwned
<1>12. /\ status' = status /\ owner' = owner /\ now' = now /\ UNCHANGED subs /\ UNCHANGED review
       /\ obliged' = obliged /\ UNCHANGED run /\ End(d)
  BY DEF SaveGrant
<1>13. review' \in [Stays -> ReviewRecords] BY <1>12 DEF IInv, TablesOK, StaysTyped
<1>14. StaysOwned(d) /\ StaysTyped' BY <1>12, <1>13, StaysAlone
<1> QED BY <1>0, <1>6, <1>7, <1>9, <1>11, <1>12, <1>14, SubsAlone, WriteKeeps

\* One current subscription at most (the unique constraint of StaySubscription).
OneCurrent(q) ==
  \A i, j \in DOMAIN q : {q[i].status, q[j].status} \subseteq {"ACTIVE", "GRACE"} => i = j

LEMMA SubsWritten ==
  ASSUME IInv, NEW d, NEW o \in Scopes, NEW q \in Seq(SubRecords), subs' = [subs EXCEPT ![o] = q],
         holder[o] = d, Len(q) <= MaxSubs, Len(subs[o]) <= Len(q),
         OneCurrent(q)
  PROVE  SubsOwned(d) /\ SubsGrow /\ SubsTyped' /\ SubsWhole'
<1>0. subs \in [Scopes -> Seq(SubRecords)] /\ SubsWhole BY DEF IInv, TablesOK, SubsTyped
<1>1. subs'[o] = q /\ \A p \in Scopes \ {o} : subs'[p] = subs[p] BY <1>0
<1>2. SubsTyped' BY <1>0 DEF SubsTyped
<1>3. SubsOwned(d) BY <1>1 DEF SubsOwned
<1>4. SubsGrow
  <2>1. DOMAIN subs[o] \subseteq DOMAIN q BY <1>0
  <2> QED BY <1>1, <2>1 DEF SubsGrow
<1>5. SubsWhole'
  <2> SUFFICES ASSUME NEW p \in Scopes
               PROVE  Len(subs'[p]) <= MaxSubs /\ \A i, j \in Current(p)' : i = j
    BY DEF SubsWhole
  <2>1. CASE p = o BY <1>1, <2>1 DEF Current, OneCurrent
  <2>2. CASE p # o
    <3>1. subs'[p] = subs[p] BY <1>1, <2>2
    <3>2. Current(p)' = Current(p) BY <3>1 DEF Current
    <3> QED BY <1>0, <3>1, <3>2 DEF SubsWhole
  <2> QED BY <2>1, <2>2
<1> QED BY <1>2, <1>3, <1>4, <1>5

LEMMA OnlySubsWritten ==
  ASSUME IInv, NEW d \in Processes, SubsOwned(d), SubsGrow, SubsTyped', SubsWhole', End(d),
         UNCHANGED <<now, status, owner, unit, review, obliged, run>>
  PROVE  Moved(d)
<1>1. review' \in [Stays -> ReviewRecords] BY DEF IInv, TablesOK, StaysTyped
<1>2. StaysOwned(d) /\ StaysTyped' BY <1>1, StaysAlone
<1> QED BY <1>2, UnitsAlone, WriteKeeps

LEMMA SubscriptionKeeps == ASSUME IInv, NEW d \in Clients, SaveSubscription(d) PROVE Moved(d)
<1>0. d \in Processes /\ stage[d] = "commit" /\ now \in Nat
      /\ subs \in [Scopes -> Seq(SubRecords)]
  BY DEF SaveSubscription, At, Processes, IInv, TablesOK, SubsTyped
<1>1. PICK r : r = [status |-> "ACTIVE", starts |-> now, expires |-> now + Term] OBVIOUS
<1>2. PICK o \in Scopes :
        /\ holder[o] = d /\ Current(o) = {} /\ Len(subs[o]) < MaxSubs
        /\ subs' = [subs EXCEPT ![o] = Append(@, r)]
  BY <1>0, <1>1, ScopeHeld DEF SaveSubscription
<1>3. r \in SubRecords BY <1>0, <1>1, Lengths DEF SubRecords
<1>4. PICK p \in Seq(SubRecords) : p = subs[o] BY <1>0
<1>5. PICK q \in Seq(SubRecords) : q = Append(p, r)
  <2>1. Append(p, r) \in Seq(SubRecords) BY <1>3
  <2> QED BY <2>1
<1>6. /\ Len(q) = Len(p) + 1 /\ DOMAIN q = 1..(Len(p) + 1) /\ Len(p) \in Nat
      /\ \A i \in 1..Len(p) : q[i] = p[i]
  BY <1>5
<1>7. \A i \in 1..Len(p) : p[i].status \notin {"ACTIVE", "GRACE"}
  BY <1>2, <1>4 DEF Current
<1>8. OneCurrent(q)
  <2> SUFFICES ASSUME NEW i \in DOMAIN q, NEW j \in DOMAIN q,
                      {q[i].status, q[j].status} \subseteq {"ACTIVE", "GRACE"}
               PROVE  i = j
    BY DEF OneCurrent
  <2>1. q[i].status \in {"ACTIVE", "GRACE"} /\ q[j].status \in {"ACTIVE", "GRACE"} OBVIOUS
  <2>2. i \notin 1..Len(p) /\ j \notin 1..Len(p) BY <1>6, <1>7, <2>1
  <2> QED BY <1>6, <2>2
<1>9. subs' = [subs EXCEPT ![o] = q] BY <1>0, <1>2, <1>4, <1>5
<1>10. Len(q) <= MaxSubs /\ Len(subs[o]) <= Len(q) BY <1>2, <1>4, <1>6, Lengths
<1>11. SubsOwned(d) /\ SubsGrow /\ SubsTyped' /\ SubsWhole'
  BY <1>2, <1>8, <1>9, <1>10, SubsWritten
<1>12. End(d) /\ UNCHANGED <<now, status, owner, unit, review, obliged, run>>
  BY DEF SaveSubscription
<1> QED BY <1>0, <1>11, <1>12, OnlySubsWritten

\* One current subscription at most stays so when its status changes.
LEMMA StatusWritten ==
  ASSUME IInv, NEW d \in Processes, NEW o \in Scopes, holder[o] = d, NEW i \in DOMAIN subs[o],
         NEW x \in {"ACTIVE", "GRACE", "EXPIRED", "CANCELLED"}, i \in Current(o),
         subs' = [subs EXCEPT ![o][i].status = x]
  PROVE  SubsOwned(d) /\ SubsGrow /\ SubsTyped' /\ SubsWhole'
<1>0. subs \in [Scopes -> Seq(SubRecords)] /\ SubsWhole BY DEF IInv, TablesOK, SubsTyped
<1>1. PICK p \in Seq(SubRecords) : p = subs[o] BY <1>0
<1>2. i \in 1..Len(p) /\ p[i] \in SubRecords BY <1>1
<1>3. PICK r \in SubRecords : r = [p[i] EXCEPT !.status = x] BY <1>2 DEF SubRecords
<1>4. PICK q \in Seq(SubRecords) : q = [p EXCEPT ![i] = r]
  <2>1. [p EXCEPT ![i] = r] \in Seq(SubRecords) BY <1>2, ExceptSeq
  <2> QED BY <2>1
<1>5. /\ Len(q) = Len(p) /\ DOMAIN q = DOMAIN p /\ q[i] = r
      /\ \A j \in DOMAIN p : j # i => q[j] = p[j]
  BY <1>2, <1>4
<1>6. ASSUME NEW j \in DOMAIN q, q[j].status \in {"ACTIVE", "GRACE"} PROVE j = i
  <2>1. CASE j # i
    <3>1. j \in DOMAIN p /\ p[j].status \in {"ACTIVE", "GRACE"} BY <1>5, <1>6, <2>1
    <3>2. j \in Current(o) BY <1>1, <3>1 DEF Current
    <3> QED BY <1>0, <3>2 DEF SubsWhole
  <2> QED BY <2>1
<1>6a. OneCurrent(q)
  <2> SUFFICES ASSUME NEW j \in DOMAIN q, NEW k \in DOMAIN q,
                      {q[j].status, q[k].status} \subseteq {"ACTIVE", "GRACE"}
               PROVE  j = k
    BY DEF OneCurrent
  <2>1. q[j].status \in {"ACTIVE", "GRACE"} /\ q[k].status \in {"ACTIVE", "GRACE"} OBVIOUS
  <2> QED BY <1>6, <2>1
<1>7. subs' = [subs EXCEPT ![o] = q] BY <1>0, <1>1, <1>3, <1>4
<1>8. Len(q) <= MaxSubs /\ Len(subs[o]) <= Len(q) BY <1>0, <1>1, <1>5 DEF SubsWhole
<1> QED BY <1>6a, <1>7, <1>8, SubsWritten

LEMMA CancellationKeeps == ASSUME IInv, NEW d \in Clients, SaveCancellation(d) PROVE Moved(d)
<1>0. d \in Processes /\ stage[d] = "commit" BY DEF SaveCancellation, At, Processes
<1>1. PICK o \in Scopes : holder[o] = d /\ \E i \in Current(o) :
        subs' = [subs EXCEPT ![o][i].status = "CANCELLED"]
  BY <1>0, ScopeHeld DEF SaveCancellation
<1>1a. PICK i \in DOMAIN subs[o] :
        i \in Current(o) /\ subs' = [subs EXCEPT ![o][i].status = "CANCELLED"]
  BY <1>1 DEF Current
<1>2. SubsOwned(d) /\ SubsGrow /\ SubsTyped' /\ SubsWhole' BY <1>0, <1>1, <1>1a, StatusWritten
<1>3. End(d) /\ UNCHANGED <<now, status, owner, unit, review, obliged, run>>
  BY DEF SaveCancellation
<1> QED BY <1>0, <1>2, <1>3, OnlySubsWritten

LEMMA ExpireSubscriptionKeeps == ASSUME IInv, NEW d \in Beats, ExpireSubscription(d) PROVE Moved(d)
<1>0. d \in Processes /\ stage[d] = "commit" /\ request[d].kind = "expire_sub" /\ Asks(d)
  BY DEF ExpireSubscription, At, Processes, IInv, Sessions
<1>1. /\ request[d] \in VisitsSub /\ request[d].scopes = {request[d].row[1]}
      /\ request[d].row[2] \in DOMAIN subs[request[d].row[1]]
  BY <1>0, KindDecides
<1>2. PICK o \in Scopes : o = request[d].row[1] /\ holder[o] = d
  BY <1>0, <1>1, ScopeHeld DEF VisitsSub, SubRows
<1>2a. PICK i \in DOMAIN subs[o] : i = request[d].row[2] BY <1>1, <1>2
<1>3. PICK x \in {"GRACE", "EXPIRED"} :
        i \in Current(o) /\ subs' = [subs EXCEPT ![o][i].status = x]
  BY <1>2, <1>2a DEF ExpireSubscription, Current
<1>4. SubsOwned(d) /\ SubsGrow /\ SubsTyped' /\ SubsWhole' BY <1>0, <1>2, <1>2a, <1>3, StatusWritten
<1>5. End(d) /\ UNCHANGED <<now, status, owner, unit, review, obliged, run>>
  BY DEF ExpireSubscription
<1> QED BY <1>0, <1>4, <1>5, OnlySubsWritten

\* A unit ends.
LEMMA UnitEnds ==
  ASSUME IInv, NEW d, NEW u \in Units, Bound(u), holder[unit[u].scope] = d, unit' = Expired(u)
  PROVE  UnitsOwned(d) /\ UnitsTyped' /\ UnitsWhole' /\ OneActive'
<1>0. TablesOK /\ UnitsTyped /\ UnitsWhole /\ OneActive BY DEF IInv, TablesOK
<1>1. unit[u] \in UnitRecords /\ unit[u].stay \in Stays /\ unit[u].scope \in Scopes
  BY <1>0, UnitIs
<1>2. /\ unit'[u] = [unit[u] EXCEPT !.status = "EXPIRED"] /\ DOMAIN unit' = Units
      /\ \A v \in Units \ {u} : unit'[v] = unit[v]
      /\ unit' = [v \in Units |-> unit'[v]]
  BY <1>0 DEF Expired, UnitsTyped
<1>3. /\ unit'[u] \in UnitRecords /\ unit'[u].status = "EXPIRED" /\ unit'[u].stay = unit[u].stay
      /\ unit'[u].scope = unit[u].scope /\ unit'[u].expires = unit[u].expires
      /\ unit'[u].activated = unit[u].activated
  BY <1>1, <1>2 DEF UnitRecords
<1>4. UnitsTyped'
  <2>1. \A v \in Units : unit'[v] \in UnitRecords BY <1>0, <1>2, <1>3 DEF UnitsTyped
  <2> QED BY <1>2, <2>1 DEF UnitsTyped
<1>5. UnitsWhole'
  <2> SUFFICES ASSUME NEW v \in Units
               PROVE  /\ unit'[v].status \in {"ACTIVE", "EXPIRED"} <=> unit'[v].stay # NoStay
                      /\ unit'[v].status # "NONE" => unit'[v].scope \in Scopes
                      /\ unit'[v].stay # NoStay => unit'[v].expires > unit'[v].activated
    BY DEF UnitsWhole, Bound
  <2>1. CASE v = u BY <1>0, <1>1, <1>3, <2>1, UnitIs DEF Bound
  <2>2. CASE v # u BY <1>0, <1>2, <2>2 DEF UnitsWhole, Bound
  <2> QED BY <2>1, <2>2
<1>6. \A x \in Stays : ActiveOn(x)' \subseteq ActiveOn(x)
  <2>1. \A v \in Units : unit'[v].status = "ACTIVE" => unit'[v] = unit[v]
    <3> SUFFICES ASSUME NEW v \in Units, unit'[v].status = "ACTIVE" PROVE unit'[v] = unit[v]
      OBVIOUS
    <3>1. v # u BY <1>3
    <3> QED BY <1>2, <3>1
  <2> QED BY <2>1 DEF ActiveOn
<1>7. OneActive' BY <1>0, <1>6 DEF OneActive
<1>8. UnitsOwned(d) BY <1>1, <1>2, <1>3 DEF UnitsOwned
<1> QED BY <1>4, <1>5, <1>7, <1>8

\* The row a worker visits in the unit table.
LEMMA VisitedUnit ==
  ASSUME IInv, NEW d \in Processes, stage[d] \in {"check", "commit"}, request[d].kind = "expire_unit"
  PROVE  /\ request[d].row \in Units /\ Bound(request[d].row)
         /\ unit[request[d].row].stay \in Stays /\ holder[unit[request[d].row].scope] = d
         /\ unit[request[d].row].scope = owner[unit[request[d].row].stay]
         /\ stage[d] = "check" => holder[unit[request[d].row].stay] = d
<1>0. Asks(d) /\ TablesOK /\ UnitsStayInScope /\ stage[d] # "idle" BY DEF IInv, Sessions
<1>1. /\ request[d] \in VisitsUnit /\ Bound(request[d].row)
      /\ request[d].scopes = {unit[request[d].row].scope}
      /\ stage[d] = "check" => holder[unit[request[d].row].stay] = d
  BY <1>0, KindDecides
<1>2. request[d].row \in Units BY <1>1 DEF VisitsUnit
<1>3. unit[request[d].row].stay \in Stays BY <1>0, <1>1, <1>2, UnitIs
<1>4. holder[unit[request[d].row].scope] = d BY <1>1, ScopeHeld
<1> QED BY <1>0, <1>1, <1>2, <1>3, <1>4 DEF UnitsStayInScope, Bound

LEMMA ExpireRenewedKeeps == ASSUME IInv, NEW d \in Beats, ExpireRenewedUnit(d) PROVE Moved(d)
<1>0. d \in Processes /\ stage[d] = "commit" /\ request[d].kind = "expire_unit"
  BY DEF ExpireRenewedUnit, At, Processes
<1>1. PICK u \in Units : u = request[d].row /\ Bound(u) /\ holder[unit[u].scope] = d
  BY <1>0, VisitedUnit
<1>2. unit' = Expired(u) BY <1>1 DEF ExpireRenewedUnit
<1>3. UnitsOwned(d) /\ UnitsTyped' /\ UnitsWhole' /\ OneActive' BY <1>1, <1>2, UnitEnds
<1>4. /\ End(d) /\ now' = now /\ UNCHANGED <<status, owner>> /\ UNCHANGED review /\ UNCHANGED subs
      /\ obliged' = obliged /\ UNCHANGED run
  BY DEF ExpireRenewedUnit
<1>5. review' \in [Stays -> ReviewRecords] BY <1>4 DEF IInv, TablesOK, StaysTyped
<1>6. StaysOwned(d) /\ StaysTyped' BY <1>4, <1>5, StaysAlone
<1> QED BY <1>0, <1>3, <1>4, <1>6, SubsAlone, WriteKeeps

LEMMA ResolveExpiredKeeps == ASSUME IInv, NEW d \in Beats, ResolveExpired(d) PROVE Moved(d)
<1>0. d \in Processes /\ stage[d] = "check" /\ request[d].kind = "expire_unit" /\ StaysTyped
  BY DEF ResolveExpired, At, Processes, IInv, TablesOK
<1>1. PICK u \in Units, s \in Stays :
        /\ u = request[d].row /\ Bound(u) /\ holder[unit[u].scope] = d /\ s = unit[u].stay
        /\ holder[owner[s]] = d /\ holder[s] = d
  BY <1>0, VisitedUnit
<1>2. unit' = Expired(u) BY <1>1 DEF ResolveExpired
<1>3. UnitsOwned(d) /\ UnitsTyped' /\ UnitsWhole' /\ OneActive' BY <1>1, <1>2, UnitEnds
<1>4. /\ End(d) /\ now' = now /\ owner' = owner /\ UNCHANGED subs
      /\ obliged' = obliged /\ UNCHANGED run
  BY DEF ResolveExpired
<1>5. review' \in [Stays -> ReviewRecords]
  <2>1. CASE Resolve(s) BY <2>1, ReviewsTyped
  <2>2. CASE ~Resolve(s)
    <3>1. review' = [review EXCEPT ![s] = [status |-> "PROTECTED_BOOKINGS", reason |-> "ADDON_EXPIRED"]]
      BY <1>1, <2>2 DEF ResolveExpired
    <3> QED BY <1>0, <3>1 DEF StaysTyped, ReviewRecords, Reasons
  <2> QED BY <2>1, <2>2
<1>6. PICK new \in Statuses : status' = [status EXCEPT ![s] = new]
  <2>1. CASE UNCHANGED status BY <1>0, <2>1 DEF StaysTyped
  <2>2. CASE ~UNCHANGED status
    <3>1. status' = [status EXCEPT ![s] = "PAUSED"] BY <1>1, <2>2 DEF ResolveExpired
    <3> QED BY <3>1 DEF Statuses
  <2> QED BY <2>1, <2>2
<1>7. owner[s] \in Scopes BY <1>0 DEF StaysTyped
<1>8. StaysOwned(d) /\ StaysTyped'
  <2>1. owner' = [owner EXCEPT ![s] = owner[s]] BY <1>4, SameOwnerWritten
  <2>2. holder[s] = d /\ holder[owner[s]] = d /\ obliged' = obliged BY <1>1, <1>4
  <2> QED BY <1>0, <1>5, <1>6, <1>7, <2>1, <2>2, StayWritten
<1> QED BY <1>0, <1>3, <1>4, <1>8, SubsAlone, WriteKeeps

LEMMA ReviewScopeKeeps == ASSUME IInv, NEW d \in Beats, ReviewScope(d) PROVE Moved(d)
<1>0. d \in Processes /\ StaysTyped BY DEF Processes, IInv, TablesOK
<1>1. /\ End(d) /\ now' = now /\ UNCHANGED <<status, owner>> /\ UNCHANGED unit /\ UNCHANGED subs
      /\ obliged' = obliged /\ UNCHANGED run
  BY DEF ReviewScope
<1>2. PICK reason \in Reasons :
        reason = IF Started(request[d].row, run[d].at) # {} THEN "SUBSCRIPTION_EXPIRED"
                 ELSE "LEGACY_OVER_LIMIT"
  BY DEF Reasons
<1>3. review' = [s \in Stays |->
           IF OverLimit(request[d].row, run[d].at)
             THEN IF s \in Marked(request[d].row, run[d].at)
                    THEN [status |-> IF obliged[s] THEN "PROTECTED_BOOKINGS" ELSE "OVER_LIMIT",
                          reason |-> reason]
                    ELSE review[s]
           ELSE IF s \in Closing(request[d].row) THEN NoReview ELSE review[s]]
  BY <1>2 DEF ReviewScope
<1>4. \A s \in Stays : review[s] \in ReviewRecords BY <1>0 DEF StaysTyped
<1>5. NoReview \in ReviewRecords BY DEF NoReview, ReviewRecords, Reasons
<1>6. \A s \in Stays : [status |-> IF obliged[s] THEN "PROTECTED_BOOKINGS" ELSE "OVER_LIMIT",
                        reason |-> reason] \in ReviewRecords
  BY DEF ReviewRecords
<1>7. review' \in [Stays -> ReviewRecords] BY <1>3, <1>4, <1>5, <1>6
<1>8. StaysOwned(d) /\ StaysTyped' BY <1>1, <1>7, StaysAlone
<1> QED BY <1>0, <1>1, <1>8, UnitsAlone, SubsAlone, WriteKeeps

(***************************************************************************)
(* Every step.                                                             *)
(***************************************************************************)
\* Steps of nobody's transaction: the clock, and guests.
LEMMA OutsideKeeps ==
  ASSUME IInv, UNCHANGED <<status, owner, unit, subs, review, holder, stage, request, run>>,
         obliged' \in [Stays -> BOOLEAN], now' \in 0..MaxTime, now' >= now
  PROVE  IInv'
<1>0. TablesOK /\ SessionTyped /\ RunsWhole /\ Sessions /\ UnitsStayInScope /\ OneActive
  BY DEF IInv
<1>1. TablesOK'
  BY <1>0 DEF TablesOK, StaysTyped, UnitsTyped, UnitsWhole, Bound, SubsTyped, SubsWhole, Current
<1>2. SessionTyped' /\ RunsWhole' /\ UnitsStayInScope' /\ OneActive'
  BY <1>0 DEF SessionTyped, RunsWhole, RunWhole, Bound, UnitsStayInScope, OneActive, ActiveOn
<1>3. (\A o \in Scopes : SameOwner(o)) /\ (\A s \in Stays : SameStay(s)) /\ BoundStay /\ SubsGrow
  BY DEF SameOwner, Live, SameStay, BoundStay, SubsGrow
<1>4. now' \in Nat BY Lengths
<1>5. \A c \in Processes : Asks(c)' /\ Holds(c)' /\ Stands(c)'
  BY <1>3, <1>4, SessionKept
<1> QED BY <1>1, <1>2, <1>5 DEF IInv, Sessions

LEMMA CommitMoves ==
  ASSUME IsFiniteSet(Stays), IInv, NEW d \in Clients, Commit(d) PROVE Moved(d)
BY CheckPublicationKeeps, PublicationKeeps, QuietTransferKeeps, SubmissionKeeps, RefusalKeeps,
   PauseKeeps, RenewalKeeps, GrantKeeps, SubscriptionKeeps, CancellationKeeps DEF Commit

LEMMA LockingMoves == ASSUME IInv, NEW d \in Clients, Locking(d) PROVE Moved(d)
<1>1. d \in Processes BY DEF Processes
<1> QED BY <1>1, LockScopeKeeps, LockStayKeeps, LockStayAnywayKeeps, ReadForSaveKeeps DEF Locking

LEMMA RollbackMoves == ASSUME IInv, NEW d \in Clients, Rollback(d) PROVE Moved(d)
<1>1. d \in Processes BY DEF Processes
<1> QED BY <1>1, QuietEndKeeps DEF Rollback

LEMMA ProcessMoves == ASSUME IInv, NEW d \in Beats, Process(d) PROVE Moved(d)
<1>1. d \in Processes BY DEF Processes
<1>2. NotDue(d) => Moved(d) BY <1>1, QuietEndKeeps DEF NotDue
<1> QED BY <1>2, ExpireSubscriptionKeeps, ExpireRenewedKeeps, LockExpiredStayKeeps,
        ResolveExpiredKeeps, ReviewScopeKeeps DEF Process

\* Who steps: a client, a worker, or nobody.
Outside == /\ UNCHANGED <<status, owner, unit, subs, review, holder, stage, request, run>>
           /\ obliged' \in [Stays -> BOOLEAN] /\ now' \in 0..MaxTime /\ now' >= now
ClientStep(c) == BeginAny(c) \/ Locking(c) \/ Commit(c) \/ Rollback(c) \/ BreakCircle(c)
BeatStep(b) == \/ StartRun(b) \/ NextPhase(b) \/ Visit(b)
               \/ LockScope(b) \/ Process(b) \/ AbortRun(b) \/ BreakCircle(b)

LEMMA StepsAre ==
  ASSUME IInv, [Next]_vars
  PROVE  \/ Outside
         \/ \E c \in Clients : ClientStep(c)
         \/ \E b \in Beats : BeatStep(b)
<1>0. now \in 0..MaxTime /\ now <= now /\ obliged \in [Stays -> BOOLEAN]
  BY Lengths DEF IInv, TablesOK, StaysTyped
<1>1. Tick => Outside
  BY <1>0, Lengths DEF Tick, Outside, tables, session
<1>2. \A s \in Stays : Oblige(s) \/ Discharge(s) => Outside
  BY <1>0 DEF Oblige, Discharge, Outside, session
<1>3. UNCHANGED vars => Outside
  BY <1>0 DEF vars, tables, session, Outside
<1> QED BY <1>1, <1>2, <1>3 DEF Next, ClientStep, BeatStep, Processes

LEMMA ClientMoves ==
  ASSUME IsFiniteSet(Stays), IInv, NEW c \in Clients, ClientStep(c) PROVE Moved(c)
<1>1. c \in Processes BY DEF Processes
<1> QED BY <1>1, BeginAnyKeeps, LockingMoves, CommitMoves, RollbackMoves, BreakCircleKeeps
        DEF ClientStep

LEMMA BeatMoves == ASSUME IInv, NEW b \in Beats, BeatStep(b) PROVE Moved(b)
<1>1. b \in Processes BY DEF Processes
<1> QED BY <1>1, StartRunKeeps, NextPhaseKeeps, VisitKeeps, LockScopeKeeps, ProcessMoves,
        AbortRunKeeps, BreakCircleKeeps DEF BeatStep

LEMMA NextInv == ASSUME IsFiniteSet(Stays), IInv, [Next]_vars PROVE IInv'
<1>1. Outside => IInv' BY OutsideKeeps DEF Outside
<1> QED BY <1>1, StepsAre, ClientMoves, BeatMoves DEF Moved

LEMMA InitInv == Init => IInv
<1> SUFFICES ASSUME Init PROVE IInv OBVIOUS
<1>1. NoUnit \in UnitRecords BY DEF NoUnit, UnitRecords
<1>2. PICK o \in Scopes :
        unit = [u \in Units |-> IF u \in Stock THEN [NoUnit EXCEPT !.status = "UNUSED", !.scope = o,
                                                                   !.before = Validity] ELSE NoUnit]
  BY DEF Init
<1>3. PICK r \in UnitRecords :
        r = [NoUnit EXCEPT !.status = "UNUSED", !.scope = o, !.before = Validity]
  BY <1>1, Lengths DEF NoUnit, UnitRecords
<1>4. r.status = "UNUSED" /\ r.scope = o /\ r.stay = NoStay BY <1>3 DEF NoUnit
<1>5. UnitsTyped /\ (\A u \in Units : ~Bound(u) /\ (unit[u] = NoUnit \/ unit[u] = r))
  BY <1>1, <1>2, <1>3, <1>4 DEF UnitsTyped, Bound, NoUnit
<1>6. UnitsWhole BY <1>4, <1>5 DEF UnitsWhole, NoUnit
<1>7. NoReview \in ReviewRecords BY DEF NoReview, ReviewRecords, Reasons
<1>8. StaysTyped BY <1>7, Bounds DEF Init, StaysTyped
<1>9. SubsTyped /\ SubsWhole
  BY Lengths DEF Init, SubsTyped, SubsWhole, Current
<1>10. now \in 0..MaxTime BY Lengths DEF Init
<1>11. NoRun \in Runs /\ NoRun.phase = "off" BY DEF NoRun, Runs
<1>12. SessionTyped BY <1>11 DEF Init, SessionTyped, Requests, Stages
<1>13. RunsWhole BY <1>11 DEF Init, RunsWhole, RunWhole
<1>14. Sessions BY DEF Init, Sessions, Asks, Holds, Stands
<1>15. UnitsStayInScope BY <1>5 DEF UnitsStayInScope, Bound
<1>16. OneActive BY <1>4, <1>5 DEF OneActive, ActiveOn, NoUnit
<1> QED BY <1>5, <1>6, <1>8, <1>9, <1>10, <1>12, <1>13, <1>14, <1>15, <1>16 DEF IInv, TablesOK

LEMMA Invariance == ASSUME IsFiniteSet(Stays) PROVE Spec => []IInv
<1>1. IInv /\ [Next]_vars => IInv' BY NextInv
<1> QED BY <1>1, InitInv, PTL DEF Spec

(***************************************************************************)
(* The promises.                                                           *)
(***************************************************************************)
LEMMA Typed == IInv => TypeOK
<1> SUFFICES ASSUME IInv PROVE TypeOK OBVIOUS
<1>0. TablesOK /\ SessionTyped BY DEF IInv
<1>1. \A u \in Units : IF unit[u].status \in {"ACTIVE", "EXPIRED"}
                         THEN unit[u].stay \in Stays /\ unit[u].expires > unit[u].activated
                         ELSE unit[u].stay = NoStay
  BY <1>0, UnitIs DEF Bound
<1>2. \A o \in Scopes : /\ Len(subs[o]) <= MaxSubs
                        /\ \A i, j \in DOMAIN subs[o] :
                             {subs[o][i].status, subs[o][j].status} \subseteq {"ACTIVE", "GRACE"} => i = j
  BY <1>0 DEF TablesOK, SubsWhole, Current
<1>3. \A b \in Beats : run[b].phase \in {"off", "subs", "units", "scopes"}
  BY <1>0 DEF SessionTyped, Runs
<1> QED BY <1>0, <1>1, <1>2, <1>3 DEF TypeOK, TablesOK, StaysTyped, UnitsTyped, UnitRecords,
        ReviewRecords, SessionTyped

\* Init and every action keep every variable in its type, and the rows of the tables
\* whole: a unit that is or was bound names its stay, and an owner has one current
\* subscription.
THEOREM TypeCorrect == ASSUME IsFiniteSet(Stays) PROVE Spec => []TypeOK
BY Invariance, Typed, PTL

\* A unit that is or was bound belongs to the owner of its stay, and two renewals at
\* once, or a publication beside a renewal, never leave two running units on one stay.
THEOREM UnitsFollowOwners == ASSUME IsFiniteSet(Stays) PROVE Spec => []UnitsFollowStays
<1>1. IInv => UnitsFollowStays
  <2> SUFFICES ASSUME IInv PROVE UnitsFollowStays OBVIOUS
  <2>1. ASSUME NEW s \in Stays PROVE Cardinality(ActiveOn(s)) <= 1
    <3>1. \A u, v \in ActiveOn(s) : u = v BY DEF IInv, OneActive
    <3>2. CASE ActiveOn(s) = {} BY <3>2, FS_EmptySet
    <3>3. CASE ActiveOn(s) # {}
      <4>1. PICK u \in ActiveOn(s) : ActiveOn(s) = {u} BY <3>1, <3>3
      <4> QED BY <4>1, FS_Singleton
    <3> QED BY <3>2, <3>3
  <2>2. \A u \in Units : unit[u].stay # NoStay => owner[unit[u].stay] = unit[u].scope
    BY DEF IInv, UnitsStayInScope, Bound
  <2> QED BY <2>1, <2>2 DEF UnitsFollowStays
<1> QED BY <1>1, Invariance, PTL

\* A grant is spent once: a bound unit stays on its stay, and with its owner, for the
\* time it was bound for, and once it has ended it does not run again.
THEOREM GrantsSpentOnce == ASSUME IsFiniteSet(Stays) PROVE Spec => [][BoundStay]_vars
<1>1. IInv /\ [Next]_vars => BoundStay
  <2> SUFFICES ASSUME IInv, [Next]_vars PROVE BoundStay OBVIOUS
  <2>1. Outside => BoundStay BY DEF Outside, BoundStay
  <2> QED BY <2>1, StepsAre, ClientMoves, BeatMoves DEF Moved, Guarded
<1> QED BY <1>1, Invariance, PTL DEF Spec

\* The published stays the plan has to cover.
Counted(o, t) == Live(o) \ {unit[u].stay : u \in ValidUnits(o, t)}

LEMMA CountedFinite ==
  ASSUME IsFiniteSet(Stays), NEW o, NEW t
  PROVE  /\ IsFiniteSet(Counted(o, t)) /\ IsFiniteSet(Counted(o, t)')
         /\ Ordinary(o, t) = Cardinality(Counted(o, t)) /\ Ordinary(o, t) \in Nat
         /\ Ordinary(o, t)' = Cardinality(Counted(o, t)') /\ Ordinary(o, t)' \in Nat
<1>1. Counted(o, t) \subseteq Stays /\ Counted(o, t)' \subseteq Stays BY DEF Counted, Live
<1>2. IsFiniteSet(Counted(o, t)) /\ IsFiniteSet(Counted(o, t)') BY <1>1, FS_Subset
<1>3. Ordinary(o, t) = Cardinality(Counted(o, t)) /\ Ordinary(o, t)' = Cardinality(Counted(o, t)')
  BY DEF Ordinary, Counted
<1> QED BY <1>2, <1>3, FS_CardinalityType

LEMMA FewerCounted ==
  ASSUME IsFiniteSet(Stays), NEW o, NEW t, Counted(o, t)' \subseteq Counted(o, t)
  PROVE  Ordinary(o, t)' <= Ordinary(o, t)
BY CountedFinite, FS_Subset

\* A publication counts once more against the owner the stay will have, if no unit
\* covers it, and never against another owner.
LEMMA PublicationFits ==
  ASSUME IsFiniteSet(Stays), IInv, NEW c \in Clients, SavePublication(c), NEW o \in Scopes,
         NEW t \in 0..MaxTime, t = request[c].at, Ordinary(o, t)' > Ordinary(o, t)
  PROVE  Ordinary(o, t)' <= Limit(o, t)
<1>0. c \in Processes /\ stage[c] = "commit" /\ request[c].kind \in Checked \ {"renew"}
      /\ request[c].kind \in StayKinds /\ request[c].kind # "pause" /\ now \in Nat /\ t \in Nat
  BY Lengths DEF SavePublication, At, Processes, StayKinds, Checked, IInv, TablesOK
<1>1. PICK s \in Stays, n \in Scopes, ch \in SUBSET Units :
        s = request[c].stay /\ n = request[c].to /\ ch = request[c].chosen
  BY <1>0, TakerIs, StayRequestIs
<1>2. request[c].kind # "accept" => owner[s] = n BY <1>0, <1>1, TakerIs
<1>3. /\ status' = [status EXCEPT ![s] = "PUBLISHED"] /\ owner' = [owner EXCEPT ![s] = n]
      /\ BindChosen(s, ch) /\ UNCHANGED subs
  BY <1>1 DEF SavePublication
<1>4. StillRoom(s, n, t, ch) /\ t <= now /\ (request[c].kind = "accept" => ~HasHistory(s))
  BY <1>0, <1>1 DEF IInv, Sessions, Stands
<1>5. \A x \in Stays \ {s} : status'[x] = status[x] /\ owner'[x] = owner[x]
  BY <1>3 DEF IInv, TablesOK, StaysTyped
<1>6. owner'[s] = n BY <1>3 DEF IInv, TablesOK, StaysTyped
<1>7. Counted(o, t)' \subseteq Counted(o, t) => FALSE BY FewerCounted, CountedFinite
<1>8. CASE ch = {}
  <2>1. unit' = unit BY <1>3, <1>8 DEF BindChosen
  <2>2. \A u : u \in ValidUnits(o, t)' <=> u \in ValidUnits(o, t) BY <2>1 DEF ValidUnits
  <2>3. ASSUME NEW x \in Counted(o, t)', x # s PROVE x \in Counted(o, t)
    <3>1. x \in Live(o) BY <1>5, <2>3 DEF Counted, Live
    <3> QED BY <2>1, <2>2, <3>1 DEF Counted
  <2>4. s \in Counted(o, t)' BY <1>7, <2>3
  <2>5. o = n BY <1>6, <2>4 DEF Counted, Live
  <2>6. ~Covered(s, n, t) BY <2>1, <2>2, <2>4, <2>5 DEF Counted, Covered
  <2>7. Ordinary(o, t) < Limit(o, t) BY <1>4, <1>8, <2>5, <2>6 DEF StillRoom
  <2>8. Counted(o, t)' \subseteq Counted(o, t) \cup {s} BY <2>3
  <2>9. /\ IsFiniteSet(Counted(o, t) \cup {s})
        /\ Cardinality(Counted(o, t) \cup {s}) <= Ordinary(o, t) + 1
    <3>1. IsFiniteSet(Counted(o, t)) /\ Ordinary(o, t) = Cardinality(Counted(o, t))
          /\ Ordinary(o, t) \in Nat
      BY CountedFinite
    <3>2. /\ IsFiniteSet(Counted(o, t) \cup {s})
          /\ \/ Cardinality(Counted(o, t) \cup {s}) = Cardinality(Counted(o, t))
             \/ Cardinality(Counted(o, t) \cup {s}) = Cardinality(Counted(o, t)) + 1
      BY <3>1, FS_AddElement
    <3> QED BY <3>1, <3>2
  <2>10. Ordinary(o, t)' <= Ordinary(o, t) + 1
    <3>1. Cardinality(Counted(o, t)') <= Cardinality(Counted(o, t) \cup {s})
      BY <2>8, <2>9, FS_Subset
    <3>2. Cardinality(Counted(o, t) \cup {s}) \in Nat BY <2>9, FS_CardinalityType
    <3> QED BY <2>9, <3>1, <3>2, CountedFinite
  <2>11. Limit(o, t) \in Nat BY Lengths DEF Limit
  <2> QED BY <2>7, <2>10, <2>11, CountedFinite
<1>9. CASE ch # {}
  <2>1. PICK u \in Units : ch = {u} /\ unit[u].status = "UNUSED" /\ unit[u].scope = n
    BY <1>4, <1>9 DEF StillRoom
  <2>2. unit' = Bind(u, s) BY <1>3, <2>1 DEF BindChosen
  <2>3. u \in Units /\ unit[u] \in UnitRecords /\ unit \in [Units -> UnitRecords] /\ UnitsStayInScope
    BY UnitIs DEF IInv, TablesOK, UnitsTyped
  <2>4. /\ unit'[u].status = "ACTIVE" /\ unit'[u].stay = s /\ unit'[u].scope = n
        /\ unit'[u].expires = now + Duration
    <3>1. PICK e : e = now + Duration OBVIOUS
    <3>2. unit'[u] = [unit[u] EXCEPT !.status = "ACTIVE", !.stay = s, !.activated = now,
                                     !.expires = e]
      BY <2>2, <2>3, <3>1 DEF Bind
    <3>3. unit[u] \in UnitRecords BY <2>3
    <3> QED BY <2>1, <3>1, <3>2, <3>3 DEF UnitRecords
  <2>5. now + Duration > t BY <1>0, <1>4, Lengths
  <2>6. u \in ValidUnits(n, t)' BY <2>3, <2>4, <2>5 DEF ValidUnits
  <2>7. ASSUME NEW v \in Units, v # u, v \notin ActiveOn(s) PROVE unit'[v] = unit[v]
    BY <2>2, <2>7 DEF Bind
  <2>8. ASSUME NEW v \in ActiveOn(s) PROVE unit[v].scope = n /\ unit[v].stay = s /\ v \in Units
    <3>1. v \in Units /\ unit[v].stay = s /\ HasHistory(s) BY DEF ActiveOn, HasHistory
    <3> QED BY <1>2, <1>4, <2>3, <3>1, NullsApart DEF UnitsStayInScope, Bound
  <2>9. s \notin Counted(o, t)'
    <3>1. CASE o = n BY <2>4, <2>6, <3>1 DEF Counted
    <3>2. CASE o # n BY <1>6, <3>2 DEF Counted, Live
    <3> QED BY <3>1, <3>2
  <2>10. ASSUME NEW x \in Counted(o, t)' PROVE x \in Counted(o, t)
    <3>1. x # s /\ x \in Live(o)' BY <2>9 DEF Counted
    <3>2. x \in Live(o) BY <1>5, <3>1 DEF Live
    <3>3. ASSUME NEW v \in ValidUnits(o, t), unit[v].stay = x PROVE FALSE
      <4>1. v \in Units /\ v # u BY <2>1, <3>3 DEF ValidUnits
      <4>2. v \notin ActiveOn(s) BY <2>8, <3>1, <3>3
      <4>3. unit'[v] = unit[v] BY <2>7, <4>1, <4>2
      <4>4. v \in ValidUnits(o, t)' /\ unit'[v].stay = x BY <3>3, <4>1, <4>3 DEF ValidUnits
      <4> QED BY <4>4 DEF Counted
    <3> QED BY <3>2, <3>3 DEF Counted
  <2> QED BY <1>7, <2>10
<1> QED BY <1>8, <1>9

\* A publication, restoration or transfer never takes its owner's ordinary stays past
\* the plan, judged at the instant of its own check: what it saw cannot have changed.
THEOREM PublicationsWithinPlan == ASSUME IsFiniteSet(Stays) PROVE Spec => PublicationWithinPlan
<1> DEFINE Fits == \A c \in Clients, o \in Scopes, t \in 0..MaxTime :
       /\ stage[c] = "commit" /\ stage'[c] = "idle"
       /\ request[c].kind \in Checked /\ t = request[c].at
       /\ Ordinary(o, t)' > Ordinary(o, t)
       => Ordinary(o, t)' <= Limit(o, t)
<1>1. IInv /\ [Next]_vars => Fits
  <2> SUFFICES ASSUME IInv, [Next]_vars, NEW c \in Clients, NEW o \in Scopes, NEW t \in 0..MaxTime,
                      stage[c] = "commit", stage'[c] = "idle", request[c].kind \in Checked,
                      t = request[c].at, Ordinary(o, t)' > Ordinary(o, t)
               PROVE  Ordinary(o, t)' <= Limit(o, t)
    OBVIOUS
  <2>0. c \in Processes /\ request[c].kind # "renew"
    <3>1. c \in Processes /\ Asks(c) BY DEF IInv, Sessions, Processes
    <3> QED BY <3>1, KindDecides DEF Checked, StayKinds
  <2>1. CASE Outside BY <2>1 DEF Outside
  <2>2. ASSUME NEW d \in Clients, ClientStep(d), d # c PROVE FALSE
    BY <2>0, <2>2, ClientMoves DEF Moved, MovesAlone
  <2>3. ASSUME NEW d \in Beats, BeatStep(d) PROVE FALSE
    <3>1. c # d BY NullsApart
    <3> QED BY <2>0, <2>3, <3>1, BeatMoves DEF Moved, MovesAlone
  <2>4. CASE ClientStep(c)
    <3>1. CASE SavePublication(c) BY <3>1, PublicationFits
    <3>2. CASE UNCHANGED <<now, tables>>
      <4>1. Ordinary(o, t)' = Ordinary(o, t) BY <3>2 DEF Ordinary, Live, ValidUnits, tables
      <4>2. Ordinary(o, t) \in Nat BY CountedFinite
      <4> QED BY <4>1, <4>2
    <3>3. BeginAny(c) \/ Locking(c) \/ Rollback(c) \/ BreakCircle(c) => UNCHANGED <<now, tables>>
      BY DEF BeginAny, BeginOnStay, BeginPause, BeginAccept, BeginOnScope, Begin, Locking,
         LockScope, LockStay, LockStayAnyway, ReadForSave, Rollback, BreakCircle
    <3>4. Commit(c) => SavePublication(c)
      BY <2>0 DEF Commit, CheckPublication, SaveQuietTransfer, SaveSubmission, SaveRefusal,
         SavePause, SaveRenewal, SaveGrant, SaveSubscription, SaveCancellation, At, Checked
    <3> QED BY <2>4, <3>1, <3>2, <3>3, <3>4 DEF ClientStep
  <2> QED BY <2>1, <2>2, <2>3, <2>4, StepsAre
<1>2. Fits <=> (\A c \in Clients, o \in Scopes, t \in 0..MaxTime :
       /\ stage[c] = "commit" /\ stage'[c] = "idle"
       /\ request[c].kind \in Checked /\ t = request[c].at
       /\ Ordinary(o, t)' > Ordinary(o, t)
       => Ordinary(o, t)' <= Limit(o, t))
  OBVIOUS
<1> QED BY <1>1, Invariance, PTL DEF Spec, PublicationWithinPlan

(***************************************************************************)
(* Every request and every visit is one step of PlaceLedger.  Beyond IInv  *)
(* this takes that what a publication was judged by, and that a visited    *)
(* unit is due, is still so when they write.                               *)
(***************************************************************************)
FreshUnits == \A u \in Units : unit[u].status = "NONE" => unit[u] = NoUnit

Judged(c) ==
  LET s == request[c].stay
      o == request[c].to
      t == request[c].at
  IN  /\ stage[c] # "idle" /\ request[c].kind = "accept" => o # request[c].seen
      /\ stage[c] = "commit" /\ request[c].kind \in Checked =>
           /\ status[s] = "PUBLISHED" => owner[s] # o
           /\ request[c].chosen # {} => /\ Ordinary(o, t) = Limit(o, t)
                                        /\ request[c].chosen = AvailableUnit(o, t)

DueRow(u, t) == unit[u].expires <= t /\ ~Renewed(u)
Due(b) ==
  /\ run[b].at <= now
  /\ stage[b] # "idle" => run[b].phase # "off"
  /\ stage[b] = "check" => DueRow(request[b].row, run[b].at)

LInv == IInv /\ FreshUnits /\ (\A c \in Clients : Judged(c)) /\ (\A b \in Beats : Due(b))

-----------------------------------------------------------------------------
\* A judgement stands while nobody touches the owner and the stay.
LEMMA JudgementStands ==
  ASSUME IInv, NEW c \in Processes, Judged(c), stage'[c] = stage[c], request'[c] = request[c],
         \A o \in Scopes : holder[o] = c => SameOwner(o),
         \A s \in Stays : holder[s] = c => SameStay(s)
  PROVE  Judged(c)'
<1>0. TablesOK BY DEF IInv
<1> SUFFICES ASSUME stage[c] = "commit", request[c].kind \in Checked
             PROVE  /\ status'[request[c].stay] = "PUBLISHED" => owner'[request[c].stay] # request[c].to
                    /\ request[c].chosen # {} =>
                         /\ Ordinary(request[c].to, request[c].at)' = Limit(request[c].to, request[c].at)'
                         /\ request[c].chosen = AvailableUnit(request[c].to, request[c].at)'
  BY DEF Judged, Ordinary, Limit, AvailableUnit, UnusedUnits, Live, ValidUnits, Subscribed, Started, Latest
<1>1. request[c].kind \in StayKinds BY DEF Checked, StayKinds
<1>2. PICK s \in Stays, o \in Scopes, t \in Nat :
        s = request[c].stay /\ o = request[c].to /\ t = request[c].at
  BY <1>1, TakerIs, StayRequestIs
<1>3. PICK p \in Scopes : p = owner[s] /\ holder[p] = c /\ holder[o] = c /\ holder[s] = c
  BY <1>1, <1>2, TakerIs
<1>4. SameOwner(o) /\ SameOwner(p) /\ SameStay(s) BY <1>3
<1>5. status'[s] = "PUBLISHED" => status[s] = "PUBLISHED"
  <2>1. owner'[s] = p BY <1>3, <1>4 DEF SameStay
  <2>2. s \in Live(p)' <=> s \in Live(p) BY <1>4 DEF SameOwner
  <2> QED BY <1>3, <2>1, <2>2 DEF Live
<1>6. owner'[s] = owner[s] BY <1>4 DEF SameStay
<1>7. Ordinary(o, t)' = Ordinary(o, t) /\ Limit(o, t)' = Limit(o, t) BY <1>0, <1>4, SameAllowance
<1>8. AvailableUnit(o, t)' = AvailableUnit(o, t)
  <2>1. UnusedUnits(o, t)' = UnusedUnits(o, t) BY <1>4 DEF SameOwner, UnusedUnits
  <2> QED BY <2>1 DEF AvailableUnit
<1> QED BY <1>2, <1>5, <1>6, <1>7, <1>8 DEF Judged

\* A unit stays due for who holds its stay.
LEMMA DueStands ==
  ASSUME IInv, BoundStay, NEW u \in Units, Bound(u), SameStay(unit[u].stay), NEW t, DueRow(u, t)
  PROVE  DueRow(u, t)'
<1>1. unit[u].stay \in Stays BY UnitIs DEF IInv
<1>2. unit'[u].stay = unit[u].stay /\ unit'[u].activated = unit[u].activated
      /\ unit'[u].expires = unit[u].expires
  BY DEF BoundStay
<1>3. ASSUME NEW v \in Units, unit'[v].stay = unit[u].stay, unit'[v].activated > unit[u].activated
      PROVE  FALSE
  <2>1. unit[v].stay = unit[u].stay BY <1>3 DEF SameStay
  <2>2. unit'[v].activated = unit[v].activated BY <2>1 DEF BoundStay, Bound
  <2> QED BY <1>3, <2>1, <2>2 DEF DueRow, Renewed
<1> QED BY <1>2, <1>3 DEF DueRow, Renewed

\* A transaction that does not move keeps its judgement, whoever moves.
LEMMA OthersJudged ==
  ASSUME LInv, NEW d, Guarded(d), MovesAlone(d), NEW c \in Clients, c # d PROVE Judged(c)'
<1>1. c \in Processes /\ IInv /\ Judged(c) BY DEF Processes, LInv
<1>2. stage'[c] = stage[c] /\ request'[c] = request[c] BY <1>1 DEF MovesAlone
<1>3. \A o \in Scopes : holder[o] = c => SameOwner(o) BY DEF Guarded
<1>4. \A s \in Stays : holder[s] = c => SameStay(s) BY DEF Guarded
<1> QED BY <1>1, <1>2, <1>3, <1>4, JudgementStands

LEMMA DueKept ==
  ASSUME LInv, NEW b \in Beats, BoundStay, \A s \in Stays : holder[s] = b => SameStay(s),
         stage'[b] = stage[b], request'[b] = request[b], run'[b] = run[b], now' \in Nat, now' >= now
  PROVE  Due(b)'
<1>1. b \in Processes /\ IInv /\ Due(b) /\ Asks(b) /\ now \in Nat /\ run[b].at \in Nat
  BY RunIs, Lengths DEF Processes, LInv, IInv, Sessions, TablesOK
<1>2. ASSUME stage[b] = "check" PROVE DueRow(request[b].row, run[b].at)'
  <2>1. request[b].kind = "expire_unit"
    <3>1. request[b].kind \notin StayKinds
      BY <1>1, <1>2, KindDecides, NullsApart
    <3> QED BY <1>1, <1>2, <3>1, KindDecides
  <2>2. PICK u \in Units : /\ u = request[b].row /\ Bound(u) /\ unit[u].stay \in Stays
                           /\ holder[unit[u].stay] = b
    BY <1>1, <1>2, <2>1, VisitedUnit
  <2>3. SameStay(unit[u].stay) BY <2>2
  <2>4. PICK t : t = run[b].at OBVIOUS
  <2>5. DueRow(u, t) BY <1>1, <1>2, <2>2, <2>4 DEF Due
  <2>6. DueRow(u, t)' BY <1>1, <2>2, <2>3, <2>5, DueStands
  <2> QED BY <2>2, <2>4, <2>6 DEF DueRow, Renewed
<1>3. run[b].at <= now' BY <1>1 DEF Due
<1> QED BY <1>1, <1>2, <1>3 DEF Due, DueRow, Renewed

LEMMA OthersDue ==
  ASSUME LInv, NEW d, Guarded(d), MovesAlone(d), NEW b \in Beats, b # d, run'[b] = run[b],
         now' \in Nat, now' >= now
  PROVE  Due(b)'
<1>1. b \in Processes BY DEF Processes
<1>2. stage'[b] = stage[b] /\ request'[b] = request[b] BY <1>1 DEF MovesAlone
<1>3. \A s \in Stays : holder[s] = b => SameStay(s) BY DEF Guarded
<1> QED BY <1>2, <1>3, DueKept DEF Guarded

\* Units are granted whole, and a unit once granted is never a blank row again.
LEMMA BindFresh ==
  ASSUME IInv, FreshUnits, NEW u \in Units, NEW s, unit' = Bind(u, s) PROVE FreshUnits'
<1>1. \A v \in Units : unit[v] \in UnitRecords BY UnitIs DEF IInv
<1>2. ASSUME NEW v \in Units, unit'[v].status = "NONE" PROVE unit'[v] = NoUnit
  <2>1. unit'[v] = Bind(u, s)[v] BY <1>2
  <2>2. v # u /\ ~(v \in ActiveOn(s) /\ unit[v].expires <= now)
    BY <1>1, <1>2, <2>1 DEF Bind, UnitRecords
  <2>3. unit'[v] = unit[v] BY <2>1, <2>2 DEF Bind
  <2> QED BY <1>2, <2>3 DEF FreshUnits
<1> QED BY <1>2 DEF FreshUnits

LEMMA ChosenFresh ==
  ASSUME IInv, FreshUnits, NEW s, NEW ch \in SUBSET Units, BindChosen(s, ch) PROVE FreshUnits'
<1>1. CASE ch = {} BY <1>1 DEF BindChosen, FreshUnits
<1>2. CASE ch # {} BY <1>2, BindFresh DEF BindChosen
<1> QED BY <1>1, <1>2

LEMMA EndedFresh ==
  ASSUME IInv, FreshUnits, NEW u \in Units, unit' = Expired(u) PROVE FreshUnits'
<1>1. unit \in [Units -> UnitRecords] BY DEF IInv, TablesOK, UnitsTyped
<1>2. unit'[u].status = "EXPIRED" /\ \A v \in Units \ {u} : unit'[v] = unit[v]
  BY <1>1 DEF Expired, UnitRecords
<1> QED BY <1>2 DEF FreshUnits

LEMMA GrantFresh ==
  ASSUME IInv, FreshUnits, NEW c, SaveGrant(c) PROVE FreshUnits'
<1>1. unit \in [Units -> UnitRecords] BY DEF IInv, TablesOK, UnitsTyped
<1>2. PICK u \in Units : \E o \in request[c].scopes :
        unit' = [unit EXCEPT ![u] = [NoUnit EXCEPT !.status = "UNUSED", !.scope = o,
                                                     !.before = now + Validity]]
  BY DEF SaveGrant
<1>3. unit'[u].status = "UNUSED" /\ \A v \in Units \ {u} : unit'[v] = unit[v]
  BY <1>1, <1>2 DEF NoUnit
<1> QED BY <1>3 DEF FreshUnits

LEMMA ClientFresh ==
  ASSUME LInv, NEW c \in Clients, ClientStep(c) PROVE FreshUnits'
<1>0. IInv /\ FreshUnits /\ c \in Processes BY DEF LInv, Processes
<1>1. CASE UNCHANGED unit BY <1>0, <1>1 DEF FreshUnits
<1>2. CASE SavePublication(c)
  <2>1. stage[c] = "commit" /\ request[c].kind \in StayKinds
    BY <1>2 DEF SavePublication, At, Checked, StayKinds
  <2>2. request[c].chosen \in SUBSET Units BY <1>0, <2>1, TakerIs, StayRequestIs
  <2>3. BindChosen(request[c].stay, request[c].chosen) BY <1>2 DEF SavePublication
  <2> QED BY <1>0, <2>2, <2>3, ChosenFresh
<1>3. CASE SaveRenewal(c)
  <2>1. PICK s, ch : /\ s = request[c].stay /\ ch = AvailableUnit(owner[s], now)
                     /\ BindChosen(s, ch)
    BY <1>3 DEF SaveRenewal
  <2>2. ch \in SUBSET Units BY <2>1 DEF AvailableUnit, UnusedUnits
  <2> QED BY <1>0, <2>1, <2>2, ChosenFresh
<1>4. CASE SaveGrant(c) BY <1>0, <1>4, GrantFresh
<1>5. BeginAny(c) \/ Locking(c) \/ Rollback(c) \/ BreakCircle(c) => UNCHANGED unit
  BY DEF BeginAny, BeginOnStay, BeginPause, BeginAccept, BeginOnScope, Begin, Locking,
     LockScope, LockStay, LockStayAnyway, ReadForSave, Rollback, BreakCircle, tables
<1>6. Commit(c) => \/ UNCHANGED unit \/ SavePublication(c) \/ SaveRenewal(c) \/ SaveGrant(c)
  BY DEF Commit, CheckPublication, SaveQuietTransfer, SaveSubmission, SaveRefusal, SavePause,
     SaveSubscription, SaveCancellation, tables
<1> QED BY <1>1, <1>2, <1>3, <1>4, <1>5, <1>6 DEF ClientStep

LEMMA BeatFresh ==
  ASSUME LInv, NEW b \in Beats, BeatStep(b) PROVE FreshUnits'
<1>0. IInv /\ FreshUnits /\ b \in Processes BY DEF LInv, Processes
<1>1. CASE UNCHANGED unit BY <1>0, <1>1 DEF FreshUnits
<1>2. CASE ExpireRenewedUnit(b) \/ ResolveExpired(b)
  <2>1. /\ stage[b] \in {"check", "commit"} /\ request[b].kind = "expire_unit"
        /\ unit' = Expired(request[b].row)
    BY <1>2 DEF ExpireRenewedUnit, ResolveExpired, At
  <2>2. request[b].row \in Units BY <1>0, <2>1, VisitedUnit
  <2> QED BY <1>0, <2>1, <2>2, EndedFresh
<1>3. \/ UNCHANGED unit \/ ExpireRenewedUnit(b) \/ ResolveExpired(b)
  BY DEF BeatStep, StartRun, NextPhase, Visit, Begin, LockScope, AbortRun, BreakCircle, Process,
     ExpireSubscription, LockExpiredStay, ReviewScope, NotDue, tables
<1> QED BY <1>1, <1>2, <1>3

\* A transaction that ends, or has no publication to write, has nothing judged.
LEMMA ClientQuiet ==
  ASSUME IInv, NEW c \in Clients, ClientStep(c)
  PROVE  now' = now /\ run' = run
<1>1. c \in Processes BY DEF Processes
<1>2. BreakCircle(c) => now' = now /\ run' = run BY <1>1, BrokenIs
<1> QED BY <1>2 DEF ClientStep, BeginAny, BeginOnStay, BeginPause, BeginAccept, BeginOnScope, Begin, Locking,
   LockScope, LockStay, LockStayAnyway, ReadForSave, Rollback, Commit, CheckPublication,
   SavePublication, SaveQuietTransfer, SaveSubmission, SaveRefusal, SavePause, SaveRenewal,
   SaveGrant, SaveSubscription, SaveCancellation

LEMMA BeginJudged ==
  ASSUME IInv, NEW c \in Clients, BeginAny(c) PROVE Judged(c)'
<1>0. stage \in [Processes -> Stages] /\ request \in [Processes -> Requests] /\ c \in Processes
  BY DEF IInv, SessionTyped, Processes
<1>1. ASSUME NEW req, Begin(c, req), req.kind = "accept" => req.to # req.seen
      PROVE  Judged(c)'
  <2>1. stage'[c] # "commit" /\ request'[c] = req BY <1>0, <1>1 DEF Begin, FirstStage
  <2> QED BY <1>1, <2>1 DEF Judged
<1>2. CASE BeginOnStay(c)
  <2>1. PICK req : /\ Begin(c, req)
                   /\ \E s \in Stays, kind \in Operations \ {"accept"} : req = StayRequest(kind, s)
    BY <1>2 DEF BeginOnStay, Operations
  <2>2. req.kind # "accept" BY <2>1 DEF StayRequest
  <2> QED BY <1>1, <2>1, <2>2
<1>3. CASE BeginPause(c)
  <2>1. PICK req : Begin(c, req) /\ \E s \in Stays : req = StayRequest("pause", s)
    BY <1>3 DEF BeginPause
  <2>2. req.kind # "accept" BY <2>1 DEF StayRequest
  <2> QED BY <1>1, <2>1, <2>2
<1>4. CASE BeginAccept(c)
  <2>1. PICK req :
          /\ Begin(c, req)
          /\ \E s \in Stays, o \in Scopes :
               /\ req = [StayRequest("accept", s) EXCEPT !.scopes = {owner[s], o}, !.to = o]
               /\ o # owner[s]
    BY <1>4 DEF BeginAccept
  <2>2. req.to # req.seen BY <2>1 DEF StayRequest
  <2> QED BY <1>1, <2>1, <2>2
<1>5. CASE BeginOnScope(c)
  <2>1. PICK req : /\ Begin(c, req)
                   /\ \E o \in Scopes, kind \in {"grant", "subscribe", "cancel"} :
                        req = [kind |-> kind, scopes |-> {o}]
    BY <1>5 DEF BeginOnScope
  <2> QED BY <1>1, <2>1
<1> QED BY <1>2, <1>3, <1>4, <1>5 DEF BeginAny

LEMMA LockingJudged ==
  ASSUME IInv, NEW c \in Clients, Locking(c), Judged(c) PROVE Judged(c)'
<1>0. stage \in [Processes -> Stages] /\ request \in [Processes -> Requests] /\ c \in Processes
      /\ Asks(c)
  BY DEF IInv, SessionTyped, Processes, Sessions
<1>1. ASSUME request'[c].kind = request[c].kind,
             request[c].kind = "accept" => /\ request'[c].to = request[c].to
                                           /\ request'[c].seen = request[c].seen,
             stage[c] # "idle", stage'[c] = "commit" => request[c].kind \notin Checked
      PROVE  Judged(c)'
  BY <1>1 DEF Judged
<1>2. \A kind : AfterStay(kind) = "commit" => kind \notin Checked BY DEF AfterStay
<1>3. CASE LockScope(c) \/ LockStay(c)
  <2>1. request' = request /\ stage[c] # "idle"
        /\ (stage'[c] = "commit" => request[c].kind \notin Checked)
    BY <1>0, <1>2, <1>3 DEF LockScope, LockStay, Checked, StayKinds
  <2> QED BY <1>1, <2>1
<1>4. CASE LockStayAnyway(c)
  <2>1. stage[c] = "stay" /\ request[c].kind \in Legacy BY <1>4 DEF LockStayAnyway, At
  <2>2. request[c] \in OnStay BY <1>0, <2>1, KindDecides DEF Legacy, StayKinds
  <2>3. request'[c].kind = request[c].kind
    BY <1>0, <1>4, <2>2 DEF LockStayAnyway, OnStay
  <2>4. stage'[c] = "commit" => request[c].kind \notin Checked BY <1>0, <1>2, <1>4 DEF LockStayAnyway
  <2>5. request[c].kind # "accept" BY <2>1 DEF Legacy
  <2> QED BY <1>1, <2>1, <2>3, <2>4, <2>5
<1>5. CASE ReadForSave(c)
  <2>1. stage[c] = "read" /\ request[c].kind = "pause" /\ stage'[c] = "scope"
    BY <1>0, <1>5 DEF ReadForSave, At
  <2>2. request[c] \in OnStay BY <1>0, <2>1, KindDecides DEF StayKinds
  <2>3. request'[c].kind = request[c].kind BY <1>0, <1>5, <2>2 DEF ReadForSave, OnStay
  <2> QED BY <1>1, <2>1, <2>3
<1> QED BY <1>3, <1>4, <1>5 DEF Locking

LEMMA CheckJudged ==
  ASSUME IInv, NEW c \in Clients, CheckPublication(c), Judged(c) PROVE Judged(c)'
<1>0. stage \in [Processes -> Stages] /\ request \in [Processes -> Requests] /\ c \in Processes
      /\ Asks(c) /\ Holds(c) /\ now \in Nat
  BY DEF IInv, SessionTyped, Processes, Sessions, TablesOK
<1>1. /\ stage[c] = "check" /\ request[c].kind \in Checked \ {"renew"} /\ request[c].kind \in StayKinds
      /\ UNCHANGED <<now, status, owner, unit, subs>>
  BY DEF CheckPublication, At, Checked, StayKinds, tables
<1>2. PICK s \in Stays, o \in Scopes :
        s = request[c].stay /\ o = request[c].to /\ holder[s] = c /\ request[c] \in OnStay
  BY <1>0, <1>1, TakerIs
<1>3. PICK t, ch : t \in Nat /\ t = now /\ ch = EnsureCapacity(s, o, t) BY <1>0
<1>4. /\ Entering(c)
      /\ request' = [request EXCEPT ![c].chosen = ch, ![c].at = t]
  BY <1>2, <1>3 DEF CheckPublication, Taker
<1>5. /\ request'[c].kind = request[c].kind /\ request'[c].stay = s /\ request'[c].to = o
      /\ request'[c].seen = request[c].seen /\ request'[c].chosen = ch /\ request'[c].at = t
  BY <1>0, <1>2, <1>4 DEF OnStay
<1>6. request[c].kind = "accept" => o # request[c].seen BY <1>1, <1>2 DEF Judged
<1>7. status[s] = "PUBLISHED" => owner[s] # o
  <2>1. request[c].kind # "accept" => status[s] # "PUBLISHED"
    BY <1>1, <1>2, <1>4 DEF Entering, Checked
  <2>2. request[c].kind = "accept" => owner[s] = request[c].seen
    BY <1>0, <1>1, <1>2 DEF Holds, Legacy
  <2> QED BY <1>6, <2>1, <2>2
<1>8. ch # {} => Ordinary(o, t) = Limit(o, t) /\ ch = AvailableUnit(o, t)
  BY <1>3 DEF EnsureCapacity, NeedsUnit
<1>9. /\ Ordinary(request[c].to, request[c].at)' = Ordinary(o, t)
      /\ Limit(request[c].to, request[c].at)' = Limit(o, t)
      /\ AvailableUnit(request[c].to, request[c].at)' = AvailableUnit(o, t)
  BY <1>1, <1>5 DEF Ordinary, Live, ValidUnits, Limit, Subscribed, Started, Latest, AvailableUnit,
                    UnusedUnits
<1>10. status' = status /\ owner' = owner BY <1>1
<1> QED BY <1>5, <1>6, <1>7, <1>8, <1>9, <1>10 DEF Judged

LEMMA ClientJudged ==
  ASSUME IInv, NEW c \in Clients, ClientStep(c), Judged(c) PROVE Judged(c)'
<1>1. CASE End(c)
  <2>1. stage'[c] = "idle" BY <1>1 DEF End, IInv, SessionTyped, Processes
  <2> QED BY <2>1 DEF Judged
<1>2. Rollback(c) \/ BreakCircle(c) \/ (Commit(c) /\ ~CheckPublication(c)) => End(c)
  BY DEF Rollback, BreakCircle, Commit, SavePublication, SaveQuietTransfer, SaveSubmission, SaveRefusal,
     SavePause, SaveRenewal, SaveGrant, SaveSubscription, SaveCancellation
<1> QED BY <1>1, <1>2, BeginJudged, LockingJudged, CheckJudged DEF ClientStep

\* A visit looks at a unit with the clock of its run, and finds it due before it locks
\* the stay.
LEMMA BeatQuiet ==
  ASSUME IInv, NEW b \in Beats, BeatStep(b)
  PROVE  now' = now /\ \A e \in Beats \ {b} : run'[e] = run[e]
<1>1. run \in [Beats -> Runs] BY DEF IInv, SessionTyped
<1>2. \/ run' = run \/ \E r : run' = [run EXCEPT ![b] = r]
  BY DEF BeatStep, StartRun, NextPhase, Visit, LockScope, AbortRun, BreakCircle, Process,
     ExpireSubscription, ExpireRenewedUnit, LockExpiredStay, ResolveExpired, ReviewScope, NotDue
<1>3. now' = now
  BY DEF BeatStep, StartRun, NextPhase, Visit, Begin, LockScope, AbortRun, BreakCircle, Process,
     ExpireSubscription, ExpireRenewedUnit, LockExpiredStay, ResolveExpired, ReviewScope, NotDue
<1> QED BY <1>1, <1>2, <1>3

LEMMA BeatDue ==
  ASSUME IInv, NEW b \in Beats, BeatStep(b), Due(b) PROVE Due(b)'
<1>0. /\ stage \in [Processes -> Stages] /\ request \in [Processes -> Requests] /\ b \in Processes
      /\ run \in [Beats -> Runs] /\ run[b].at \in Nat /\ run[b].at <= now /\ now \in Nat
      /\ Asks(b) /\ run[b].todo \in SUBSET (SubRows \cup Units \cup Scopes) /\ run[b] \in Runs
  BY RunIs DEF IInv, SessionTyped, Processes, Sessions, TablesOK, Due, Runs
<1>00. now' = now BY BeatQuiet
<1>1. CASE StartRun(b)
  <2>1. stage[b] = "idle" BY <1>1 DEF StartRun, Due
  <2>2. stage'[b] = "idle" /\ run'[b].at = now BY <1>0, <1>1, <2>1 DEF StartRun, session
  <2> QED BY <1>0, <1>00, <2>2 DEF Due
<1>2. CASE NextPhase(b)
  <2>1. stage[b] = "idle" /\ stage' = stage BY <1>2 DEF NextPhase, session
  <2>2. PICK T1, T2 : run' = [run EXCEPT ![b] =
       CASE run[b].phase = "subs"  -> [run[b] EXCEPT !.phase = "units", !.todo = T1]
         [] run[b].phase = "units" -> [run[b] EXCEPT !.phase = "scopes", !.todo = T2]
         [] OTHER -> NoRun]
    BY <1>2 DEF NextPhase
  <2>3. run'[b].at = run[b].at \/ run'[b].at = 0
    <3>1. CASE run[b].phase = "subs" BY <1>0, <2>2, <3>1 DEF Runs
    <3>2. CASE run[b].phase = "units" BY <1>0, <2>2, <3>2 DEF Runs
    <3>3. CASE run[b].phase \notin {"subs", "units"} BY <1>0, <2>2, <3>3 DEF NoRun
    <3> QED BY <3>1, <3>2, <3>3
  <2> QED BY <1>0, <1>00, <2>1, <2>3 DEF Due
<1>3. CASE Visit(b)
  <2>1. PICK x, o, k : /\ Begin(b, [kind |-> k, row |-> x, scopes |-> {o}])
                       /\ k = VisitKind[run[b].phase]
                       /\ run' = [run EXCEPT ![b].todo = @ \ {x}, ![b].scopes = @ \cup {o}]
    BY <1>3 DEF Visit
  <2>2. run'[b].phase = run[b].phase /\ run'[b].at = run[b].at BY <1>0, <2>1 DEF Runs
  <2>3. run[b].phase # "off" BY <1>3 DEF Visit
  <2>4. stage'[b] # "check"
    <3>1. PICK req : Begin(b, req) BY <2>1
    <3> QED BY <1>0, <3>1 DEF Begin, FirstStage
  <2> QED BY <1>0, <1>00, <2>2, <2>3, <2>4 DEF Due
<1>4. CASE LockScope(b)
  <2>1. stage[b] = "scope" /\ request' = request /\ run' = run BY <1>4 DEF LockScope
  <2>2. request[b].kind \notin StayKinds
    <3>1. b \notin Clients BY NullsApart
    <3> QED BY <1>0, <2>1, <3>1, KindDecides
  <2>3. stage'[b] \in {"scope", "commit"} BY <1>0, <1>4, <2>2 DEF LockScope
  <2> QED BY <1>0, <1>00, <2>1, <2>3 DEF Due
<1>5. CASE LockExpiredStay(b)
  <2>1. /\ stage[b] = "commit" /\ request' = request /\ run' = run /\ unit' = unit
        /\ unit[request[b].row].expires <= run[b].at /\ ~Renewed(request[b].row)
    BY <1>5 DEF LockExpiredStay, At, tables
  <2> QED BY <1>0, <1>00, <2>1 DEF Due, DueRow, Renewed
<1>6. CASE End(b) /\ run' = run
  <2>1. stage'[b] = "idle" BY <1>0, <1>6 DEF End
  <2> QED BY <1>0, <1>00, <1>6, <2>1 DEF Due
<1>7. CASE AbortRun(b) \/ BreakCircle(b)
  <2>0. End(b) /\ run' = [run EXCEPT ![b] = NoRun] BY <1>0, <1>7, BrokenIs DEF AbortRun
  <2>1. stage'[b] = "idle" BY <1>0, <2>0 DEF End
  <2>2. run'[b].at = 0 BY <1>0, <2>0 DEF NoRun
  <2> QED BY <1>0, <1>00, <2>1, <2>2 DEF Due
<1>8. Process(b) /\ ~LockExpiredStay(b) => End(b) /\ run' = run
  BY DEF Process, ExpireSubscription, ExpireRenewedUnit, ResolveExpired, ReviewScope, NotDue
<1> QED BY <1>1, <1>2, <1>3, <1>4, <1>5, <1>6, <1>7, <1>8 DEF BeatStep

LEMMA NextLInv == ASSUME IsFiniteSet(Stays), LInv, [Next]_vars PROVE LInv'
<1>0. IInv /\ IInv' /\ FreshUnits BY NextInv DEF LInv
<1>00. now \in Nat /\ now' \in Nat BY <1>0, Lengths DEF IInv, TablesOK
<1>1. CASE Outside
  <2>1. /\ (\A o \in Scopes : SameOwner(o)) /\ (\A s \in Stays : SameStay(s)) /\ BoundStay
        /\ stage' = stage /\ request' = request /\ run' = run /\ now' >= now
    BY <1>1 DEF Outside, SameOwner, Live, SameStay, BoundStay
  <2>2. ASSUME NEW c \in Clients PROVE Judged(c)'
    <3>1. c \in Processes BY DEF Processes
    <3> QED BY <2>1, <3>1, JudgementStands DEF LInv
  <2>3. ASSUME NEW b \in Beats PROVE Due(b)' BY <1>00, <2>1, DueKept
  <2>4. FreshUnits' BY <1>0, <1>1 DEF Outside, FreshUnits
  <2> QED BY <1>0, <2>2, <2>3, <2>4 DEF LInv
<1>2. ASSUME NEW d \in Clients, ClientStep(d) PROVE LInv'
  <2>1. d \in Processes /\ Guarded(d) /\ MovesAlone(d) BY <1>0, <1>2, ClientMoves DEF Moved, Processes
  <2>2. now' >= now /\ run' = run BY <1>0, <1>00, <1>2, ClientQuiet
  <2>3. ASSUME NEW c \in Clients PROVE Judged(c)'
    <3>1. CASE c = d BY <1>0, <1>2, <3>1, ClientJudged DEF LInv
    <3>2. CASE c # d BY <2>1, <3>2, OthersJudged
    <3> QED BY <3>1, <3>2
  <2>4. ASSUME NEW b \in Beats PROVE Due(b)'
    <3>1. b # d BY NullsApart
    <3> QED BY <1>00, <2>1, <2>2, <3>1, OthersDue
  <2>5. FreshUnits' BY <1>2, ClientFresh
  <2> QED BY <1>0, <2>3, <2>4, <2>5 DEF LInv
<1>3. ASSUME NEW d \in Beats, BeatStep(d) PROVE LInv'
  <2>1. d \in Processes /\ Guarded(d) /\ MovesAlone(d) BY <1>0, <1>3, BeatMoves DEF Moved, Processes
  <2>2. now' >= now /\ \A e \in Beats \ {d} : run'[e] = run[e] BY <1>0, <1>00, <1>3, BeatQuiet
  <2>3. ASSUME NEW c \in Clients PROVE Judged(c)'
    <3>1. c # d BY NullsApart
    <3> QED BY <2>1, <3>1, OthersJudged
  <2>4. ASSUME NEW b \in Beats PROVE Due(b)'
    <3>1. CASE b = d BY <1>0, <1>3, <3>1, BeatDue DEF LInv
    <3>2. CASE b # d BY <1>00, <2>1, <2>2, <3>2, OthersDue
    <3> QED BY <3>1, <3>2
  <2>5. FreshUnits' BY <1>3, BeatFresh
  <2> QED BY <1>0, <2>3, <2>4, <2>5 DEF LInv
<1> QED BY <1>0, <1>1, <1>2, <1>3, StepsAre

LEMMA InitLInv == Init => LInv
<1> SUFFICES ASSUME Init PROVE LInv OBVIOUS
<1>1. FreshUnits
  <2>1. PICK o, r :
        /\ o \in Scopes
        /\ r = [NoUnit EXCEPT !.status = "UNUSED", !.scope = o, !.before = Validity]
        /\ unit = [u \in Units |-> IF u \in Stock THEN r ELSE NoUnit]
    BY ZenonT(60) DEF Init
  <2>2. r.status = "UNUSED" BY <2>1 DEF NoUnit
  <2> QED BY <2>1, <2>2 DEF FreshUnits
<1>2. ASSUME NEW c \in Clients PROVE Judged(c)
  <2>1. stage[c] = "idle" BY DEF Init, Processes
  <2> QED BY <2>1 DEF Judged
<1>3. ASSUME NEW b \in Beats PROVE Due(b)
  <2>1. stage[b] = "idle" /\ run[b].at = 0 /\ now = 0 BY DEF Init, Processes, NoRun
  <2> QED BY <2>1 DEF Due
<1> QED BY <1>1, <1>2, <1>3, InitInv DEF LInv

-----------------------------------------------------------------------------
\* What the ledger counts is what the code counts.
LEMMA GrantIs ==
  ASSUME NEW u \in Units
  PROVE  /\ GrantRows[u].status = unit[u].status /\ GrantRows[u].owner = unit[u].scope
         /\ GrantRows[u].stay = unit[u].stay /\ GrantRows[u].since = unit[u].activated
         /\ GrantRows[u].until = IF unit[u].status = "UNUSED" THEN unit[u].before ELSE unit[u].expires
BY DEF GrantRows, GrantOf

LEMMA CoverIs ==
  ASSUME IInv, NEW s \in Stays, NEW o \in Scopes, HasHistory(s) => owner[s] = o, NEW t
  PROVE  Ledger!Covered(s, t) <=> Covered(s, o, t)
<1>1. ASSUME NEW u \in Units, unit[u].stay = s PROVE unit[u].scope = o
  BY <1>1, NullsApart DEF IInv, UnitsStayInScope, Bound, HasHistory
<1> QED BY <1>1, GrantIs DEF Ledger!Covered, Covered, ValidUnits

LEMMA UncoveredIs ==
  ASSUME IInv, NEW o \in Scopes, NEW t
  PROVE  Ledger!Uncovered(o, t) = Ordinary(o, t)
<1>1. ASSUME NEW s \in Stays, owner[s] = o PROVE Ledger!Covered(s, t) <=> Covered(s, o, t)
  BY <1>1, CoverIs
<1>2. {s \in OnMarket : owner[s] = o /\ ~Ledger!Covered(s, t)} =
        Live(o) \ {unit[u].stay : u \in ValidUnits(o, t)}
  BY <1>1 DEF OnMarket, Live, Covered
<1> QED BY <1>2 DEF Ledger!Uncovered, Ordinary, Ledger!Cardinality, Cardinality

LEMMA OldestIs ==
  ASSUME NEW o, NEW t
  PROVE  Ledger!Oldest(Ledger!Unspent(o, t)) = AvailableUnit(o, t)
<1>1. Ledger!Unspent(o, t) = UnusedUnits(o, t) BY GrantIs DEF Ledger!Unspent, UnusedUnits
<1> QED BY <1>1 DEF Ledger!Oldest, AvailableUnit

LEMMA GrantedIs == ASSUME NEW s PROVE Ledger!Granted(s) <=> HasHistory(s)
BY GrantIs DEF Ledger!Granted, HasHistory

LEMMA PlanIs == ASSUME NEW o \in Scopes, NEW t \in 0..MaxTime PROVE Plans[o][t] = Limit(o, t)
BY DEF Plans

\* Binding a unit spends a grant.
LEMMA SpentIs ==
  ASSUME IInv, NEW u \in Units, NEW s, unit' = Bind(u, s)
  PROVE  GrantRows' = Ledger!Spent(u, s)
<1>1. \A v \in Units : unit[v] \in UnitRecords BY UnitIs DEF IInv
<1>2. PICK e : e = now + Duration OBVIOUS
<1>3. ASSUME NEW v \in Units
      PROVE  [status |-> unit'[v].status, owner |-> unit'[v].scope, stay |-> unit'[v].stay,
              since |-> unit'[v].activated,
              until |-> IF unit'[v].status = "UNUSED" THEN unit'[v].before ELSE unit'[v].expires]
             = IF v = u THEN [GrantRows[v] EXCEPT !.status = "ACTIVE", !.stay = s, !.since = now, !.until = e]
               ELSE IF GrantRows[v].status = "ACTIVE" /\ GrantRows[v].stay = s /\ GrantRows[v].until <= now
                 THEN [GrantRows[v] EXCEPT !.status = "EXPIRED"]
               ELSE GrantRows[v]
  <2>1. CASE v = u
    <3>1. unit'[v] = [unit[v] EXCEPT !.status = "ACTIVE", !.stay = s, !.activated = now, !.expires = e]
      BY <1>2, <2>1 DEF Bind
    <3> QED BY <1>1, <2>1, <3>1, ZenonT(60) DEF UnitRecords, GrantRows, GrantOf
  <2>2. CASE v # u /\ v \in ActiveOn(s) /\ unit[v].expires <= now
    <3>1. unit'[v] = [unit[v] EXCEPT !.status = "EXPIRED"] BY <2>2 DEF Bind
    <3> QED BY <1>1, <2>2, <3>1 DEF UnitRecords, GrantRows, GrantOf, ActiveOn
  <2>3. CASE v # u /\ ~(v \in ActiveOn(s) /\ unit[v].expires <= now)
    <3>1. unit'[v] = unit[v] BY <2>3 DEF Bind
    <3> QED BY <2>3, <3>1 DEF GrantRows, GrantOf, ActiveOn
  <2> QED BY <2>1, <2>2, <2>3
<1>4. GrantRows' = [v \in Units |->
        IF v = u THEN [GrantRows[v] EXCEPT !.status = "ACTIVE", !.stay = s, !.since = now, !.until = e]
        ELSE IF GrantRows[v].status = "ACTIVE" /\ GrantRows[v].stay = s /\ GrantRows[v].until <= now
          THEN [GrantRows[v] EXCEPT !.status = "EXPIRED"]
        ELSE GrantRows[v]]
  <2>1. GrantRows' = [v \in Units |->
          [status |-> unit'[v].status, owner |-> unit'[v].scope, stay |-> unit'[v].stay,
           since |-> unit'[v].activated,
           until |-> IF unit'[v].status = "UNUSED" THEN unit'[v].before ELSE unit'[v].expires]]
    BY DEF GrantRows, GrantOf
  <2> QED BY <1>3, <2>1
<1> QED BY <1>2, <1>4 DEF Ledger!Spent

\* A unit that ends closes its grant.
LEMMA ClosedIs ==
  ASSUME IInv, NEW u \in Units, Bound(u), unit' = Expired(u)
  PROVE  GrantRows' = [GrantRows EXCEPT ![u].status = "EXPIRED"]
<1>1. unit \in [Units -> UnitRecords] /\ unit[u].status \in {"ACTIVE", "EXPIRED"}
  BY UnitIs DEF IInv, TablesOK, UnitsTyped
<1>2. ASSUME NEW v \in Units
      PROVE  [status |-> unit'[v].status, owner |-> unit'[v].scope, stay |-> unit'[v].stay,
              since |-> unit'[v].activated,
              until |-> IF unit'[v].status = "UNUSED" THEN unit'[v].before ELSE unit'[v].expires]
             = IF v = u THEN [GrantRows[v] EXCEPT !.status = "EXPIRED"] ELSE GrantRows[v]
  <2>1. CASE v = u
    <3>1. unit'[v] = [unit[v] EXCEPT !.status = "EXPIRED"] BY <1>1, <2>1 DEF Expired
    <3> QED BY <1>1, <2>1, <3>1 DEF UnitRecords, GrantRows, GrantOf
  <2>2. CASE v # u
    <3>1. unit'[v] = unit[v] BY <1>1, <2>2 DEF Expired
    <3> QED BY <2>2, <3>1 DEF GrantRows, GrantOf
  <2> QED BY <2>1, <2>2
<1>3. GrantRows' = [v \in Units |->
          [status |-> unit'[v].status, owner |-> unit'[v].scope, stay |-> unit'[v].stay,
           since |-> unit'[v].activated,
           until |-> IF unit'[v].status = "UNUSED" THEN unit'[v].before ELSE unit'[v].expires]]
  BY DEF GrantRows, GrantOf
<1>4. [GrantRows EXCEPT ![u].status = "EXPIRED"] =
        [v \in Units |-> IF v = u THEN [GrantRows[v] EXCEPT !.status = "EXPIRED"] ELSE GrantRows[v]]
  BY DEF GrantRows
<1> QED BY <1>2, <1>3, <1>4, ZenonT(60)

\* What the ledger sees does not change with what a step leaves alone.
LEMMA SameView ==
  /\ unit' = unit => GrantRows' = GrantRows
  /\ subs' = subs => Plans' = Plans
  /\ status' = status => OnMarket' = OnMarket
  /\ obliged' = obliged => Owing' = Owing
<1>1. unit' = unit => GrantRows' = GrantRows BY DEF GrantRows, GrantOf
<1>2. subs' = subs => Plans' = Plans
  <2> SUFFICES ASSUME subs' = subs PROVE Plans' = Plans OBVIOUS
  <2>1. ASSUME NEW o, NEW t PROVE Limit(o, t)' = Limit(o, t)
    BY DEF Limit, Subscribed, Started, Latest
  <2> QED BY <2>1 DEF Plans
<1>3. status' = status => OnMarket' = OnMarket BY DEF OnMarket
<1>4. obliged' = obliged => Owing' = Owing BY DEF Owing
<1> QED BY <1>1, <1>2, <1>3, <1>4

\* Only one owner's plan changes.
LEMMA PlanWritten ==
  ASSUME IInv, NEW o \in Scopes, \A p \in Scopes \ {o} : subs'[p] = subs[p],
         UNCHANGED <<now, status, owner, unit, obliged>>
  PROVE  Ledger!Replan(o)
<1>1. ASSUME NEW p \in Scopes \ {o}, NEW t PROVE Limit(p, t)' = Limit(p, t)
  BY DEF Limit, Subscribed, Started, Latest
<1> DEFINE f == [t \in 0..MaxTime |-> Limit(o, t)']
<1>2. f \in [0..MaxTime -> {FreeLimit, PaidLimit}] BY DEF Limit
<1>3. Plans' = [Plans EXCEPT ![o] = f]
  <2>1. Plans' = [p \in Scopes |-> [t \in 0..MaxTime |-> Limit(p, t)']] BY DEF Plans
  <2>2. ASSUME NEW p \in Scopes
        PROVE  [t \in 0..MaxTime |-> Limit(p, t)'] = IF p = o THEN f ELSE Plans[p]
    <3>1. CASE p = o BY <3>1
    <3>2. CASE p # o BY <1>1, <3>2 DEF Plans
    <3> QED BY <3>1, <3>2
  <2> HIDE DEF f
  <2>3. [Plans EXCEPT ![o] = f] = [p \in Scopes |-> IF p = o THEN f ELSE Plans[p]] BY DEF Plans
  <2> QED BY <2>1, <2>2, <2>3
<1> HIDE DEF f
<1> QED BY <1>2, <1>3, SameView DEF Ledger!Replan, Ledger!Times

-----------------------------------------------------------------------------
\* Each write is a step of the ledger.
LEMMA PublicationIs ==
  ASSUME LInv, NEW c \in Clients, SavePublication(c)
  PROVE  Ledger!Next
<1>0. /\ IInv /\ Judged(c) /\ c \in Processes /\ stage[c] = "commit" /\ now \in 0..MaxTime
      /\ request[c].kind \in Checked \ {"renew"} /\ request[c].kind \in StayKinds
      /\ request[c].kind # "pause"
  BY DEF LInv, SavePublication, At, Processes, StayKinds, Checked, IInv, TablesOK
<1>1. PICK s \in Stays, o \in Scopes, ch \in SUBSET Units, t \in Nat :
        s = request[c].stay /\ o = request[c].to /\ ch = request[c].chosen /\ t = request[c].at
  BY <1>0, TakerIs, StayRequestIs
<1>2. /\ status' = [status EXCEPT ![s] = "PUBLISHED"] /\ owner' = [owner EXCEPT ![s] = o]
      /\ BindChosen(s, ch) /\ now' = now /\ UNCHANGED subs /\ obliged' = obliged
  BY <1>1 DEF SavePublication
<1>3. StillRoom(s, o, t, ch) /\ t <= now /\ (request[c].kind = "accept" => ~HasHistory(s))
  BY <1>0, <1>1 DEF IInv, Sessions, Stands
<1>4. owner[s] # o => ~HasHistory(s)
  BY <1>0, <1>1, <1>3, TakerIs
<1>5. t \in 0..now /\ t \in 0..MaxTime BY <1>0, <1>3, Lengths
<1>6. /\ status[s] = "PUBLISHED" => owner[s] # o
      /\ ch # {} => Ordinary(o, t) = Limit(o, t) /\ ch = AvailableUnit(o, t)
  BY <1>0, <1>1 DEF Judged
<1>7. OnMarket' = OnMarket \cup {s}
  BY <1>2 DEF OnMarket, IInv, TablesOK, StaysTyped, LInv
<1>8. /\ Ledger!Covered(s, t) <=> Covered(s, o, t)
      /\ Ledger!Uncovered(o, t) = Ordinary(o, t) /\ Plans[o][t] = Limit(o, t)
  BY <1>0, <1>4, <1>5, CoverIs, UncoveredIs, PlanIs
<1>9. \/ Ledger!Covered(s, t) /\ UNCHANGED GrantRows
      \/ Ledger!Uncovered(o, t) < Plans[o][t] /\ UNCHANGED GrantRows
      \/ /\ ~Ledger!Covered(s, t) /\ Ledger!Uncovered(o, t) = Plans[o][t]
         /\ \E g \in Ledger!Oldest(Ledger!Unspent(o, t)) : GrantRows' = Ledger!Spent(g, s)
  <2>1. CASE ch = {}
    <3>1. GrantRows' = GrantRows BY <1>2, <2>1, SameView DEF BindChosen
    <3>2. Covered(s, o, t) \/ Ordinary(o, t) < Limit(o, t) BY <1>3, <2>1 DEF StillRoom
    <3> QED BY <1>8, <3>1, <3>2
  <2>2. CASE ch # {}
    <3>1. PICK u \in ch : unit' = Bind(u, s) BY <1>2, <2>2 DEF BindChosen
    <3>2. u \in Units /\ u \in Ledger!Oldest(Ledger!Unspent(o, t)) BY <1>6, <2>2, OldestIs
    <3>3. GrantRows' = Ledger!Spent(u, s) BY <1>0, <3>1, <3>2, SpentIs
    <3>4. ~Covered(s, o, t)
      <4>1. ASSUME NEW v \in ValidUnits(o, t), unit[v].stay = s PROVE FALSE
        <5>1. v \in ActiveOn(s) /\ unit[v].expires > t /\ v \in Units BY <4>1 DEF ValidUnits, ActiveOn
        <5>2. unit[v].expires <= t BY <1>3, <2>2, <5>1 DEF StillRoom
        <5>3. unit[v].expires \in Nat BY <1>0, <4>1, <5>1, UnitIs, NullsApart DEF Bound, IInv
        <5> QED BY <5>1, <5>2, <5>3
      <4> QED BY <4>1 DEF Covered
    <3> QED BY <1>6, <1>8, <2>2, <3>2, <3>3, <3>4
  <2> QED BY <2>1, <2>2
<1>10. s \notin OnMarket \/ owner[s] # o BY <1>6 DEF OnMarket
<1>11. Plans' = Plans /\ Owing' = Owing BY <1>2, SameView
<1>12. owner[s] # o => ~Ledger!Granted(s) BY <1>4, GrantedIs
<1>13. Ledger!Publish(s, o)
  BY <1>2, <1>5, <1>7, <1>9, <1>10, <1>11, <1>12 DEF Ledger!Publish
<1> QED BY <1>13 DEF Ledger!Next

\* A stay leaves the market, is kept off it, or changes hands off it.
LEMMA HandOverIs ==
  ASSUME IInv, NEW s \in Stays, NEW o \in Scopes, o # owner[s], ~HasHistory(s),
         owner' = [owner EXCEPT ![s] = o], NEW new \in Statuses \ {"PUBLISHED"},
         status' = [status EXCEPT ![s] = new],
         UNCHANGED <<now, unit, subs, obliged>>
  PROVE  Ledger!Next
<1>1. OnMarket' = OnMarket \ {s} BY DEF OnMarket, IInv, TablesOK, StaysTyped
<1>2. ~Ledger!Granted(s) BY GrantedIs
<1>3. Ledger!HandOver(s, o) BY <1>1, <1>2, SameView DEF Ledger!HandOver
<1> QED BY <1>3 DEF Ledger!Next

LEMMA WithdrawalIs ==
  ASSUME IInv, NEW s \in Stays, NEW new \in Statuses \ {"PUBLISHED"},
         status' = [status EXCEPT ![s] = new],
         UNCHANGED <<now, owner, unit, subs, obliged>>
  PROVE  [Ledger!Next]_(Ledger!vars)
<1>1. OnMarket' = OnMarket \ {s} BY DEF OnMarket, IInv, TablesOK, StaysTyped
<1>2. CASE s \in OnMarket
  <2>1. Ledger!Withdraw(s) BY <1>1, <1>2, SameView DEF Ledger!Withdraw
  <2> QED BY <2>1 DEF Ledger!Next
<1>3. CASE s \notin OnMarket
  <2>1. OnMarket' = OnMarket BY <1>1, <1>3
  <2> QED BY <2>1, SameView DEF Ledger!vars
<1> QED BY <1>2, <1>3

LEMMA StayWriteIs ==
  ASSUME LInv, NEW c \in Clients,
         SaveQuietTransfer(c) \/ SaveSubmission(c) \/ SaveRefusal(c) \/ SavePause(c)
  PROVE  [Ledger!Next]_(Ledger!vars)
<1>0. /\ IInv /\ Judged(c) /\ c \in Processes /\ stage[c] \in {"check", "commit"}
      /\ request[c].kind \in StayKinds /\ Holds(c)
  BY DEF LInv, IInv, Sessions, SaveQuietTransfer, SaveSubmission, SaveRefusal, SavePause, At,
     Processes, StayKinds
<1>1. PICK s \in Stays, o \in Scopes : s = request[c].stay /\ o = request[c].to /\ holder[s] = c
  BY <1>0, TakerIs
<1>2. UNCHANGED <<now, unit, subs, obliged>>
  BY DEF SaveQuietTransfer, SaveSubmission, SaveRefusal, SavePause
<1>3. status \in [Stays -> Statuses] /\ owner \in [Stays -> Scopes]
  BY <1>0 DEF IInv, TablesOK, StaysTyped
<1>4. CASE SaveQuietTransfer(c)
  <2>1. /\ request[c].kind = "accept" /\ ~HasHistory(s) /\ status[s] # "PUBLISHED"
        /\ owner' = [owner EXCEPT ![s] = o] /\ status' = status
    BY <1>1, <1>4 DEF SaveQuietTransfer, At
  <2>2. o # owner[s] BY <1>0, <1>1, <2>1 DEF Judged, Holds, Legacy
  <2>3. PICK new \in Statuses \ {"PUBLISHED"} : new = status[s] BY <1>3, <2>1
  <2>4. status' = [status EXCEPT ![s] = new] BY <1>3, <2>1, <2>3
  <2> QED BY <1>0, <1>2, <2>1, <2>2, <2>4, HandOverIs
<1>5. CASE SaveSubmission(c) \/ SaveRefusal(c)
  <2>1. owner' = owner BY <1>5 DEF SaveSubmission, SaveRefusal
  <2>2. PICK new \in Statuses \ {"PUBLISHED"} : status' = [status EXCEPT ![s] = new]
    BY <1>1, <1>5 DEF SaveSubmission, SaveRefusal, Statuses
  <2> QED BY <1>0, <1>2, <2>1, <2>2, WithdrawalIs
<1>6. CASE SavePause(c)
  <2>1. /\ o # owner[s] => ~HasHistory(s)
        /\ status' = [status EXCEPT ![s] = "PAUSED"] /\ owner' = [owner EXCEPT ![s] = o]
    BY <1>1, <1>6 DEF SavePause
  <2>2. "PAUSED" \in Statuses \ {"PUBLISHED"} BY DEF Statuses
  <2>3. CASE o = owner[s]
    <3>1. owner' = owner BY <1>3, <2>1, <2>3
    <3> QED BY <1>0, <1>2, <2>1, <2>2, <3>1, WithdrawalIs
  <2>4. CASE o # owner[s] BY <1>0, <1>2, <2>1, <2>2, <2>4, HandOverIs
  <2> QED BY <2>3, <2>4
<1> QED BY <1>4, <1>5, <1>6

LEMMA RenewalIs ==
  ASSUME IInv, NEW c \in Clients, SaveRenewal(c)
  PROVE  Ledger!Next
<1>0. c \in Processes /\ stage[c] = "check" /\ request[c].kind \in StayKinds /\ now \in 0..MaxTime
  BY DEF SaveRenewal, At, Processes, StayKinds, IInv, TablesOK
<1>1. PICK s \in Stays, o \in Scopes : s = request[c].stay /\ o = owner[s] BY <1>0, TakerIs
<1>2. /\ ~Covered(s, o, now) /\ UnusedUnits(o, now) # {} /\ BindChosen(s, AvailableUnit(o, now))
      /\ UNCHANGED <<now, status, owner, subs, obliged>>
  BY <1>1 DEF SaveRenewal, Renewable
<1>3. PICK u \in UnusedUnits(o, now) : AvailableUnit(o, now) = {u} BY <1>2, OldestUnit
<1>4. u \in Units /\ unit' = Bind(u, s) BY <1>2, <1>3 DEF BindChosen, UnusedUnits
<1>5. GrantRows' = Ledger!Spent(u, s) BY <1>4, SpentIs
<1>6. u \in Ledger!Oldest(Ledger!Unspent(owner[s], now)) BY <1>1, <1>3, OldestIs
<1>7. ~Ledger!Covered(s, now) BY <1>1, <1>2, CoverIs
<1>8. Ledger!Renew(s) BY <1>2, <1>5, <1>6, <1>7, SameView DEF Ledger!Renew
<1> QED BY <1>8 DEF Ledger!Next

LEMMA GiveIs ==
  ASSUME LInv, NEW c \in Clients, SaveGrant(c)
  PROVE  Ledger!Next
<1>0. /\ IInv /\ FreshUnits /\ c \in Processes /\ stage[c] = "commit"
      /\ unit \in [Units -> UnitRecords] /\ now \in Nat
  BY Lengths DEF LInv, SaveGrant, At, Processes, IInv, TablesOK, UnitsTyped
<1>1. PICK o, u, before :
        /\ o \in Scopes /\ u \in Units
        /\ unit[u] = NoUnit /\ \A v \in Units : v < u => unit[v] # NoUnit
        /\ before = now + Validity
        /\ unit' = [unit EXCEPT ![u] = [NoUnit EXCEPT !.status = "UNUSED", !.scope = o,
                                                     !.before = before]]
  BY <1>0, ScopeHeld DEF SaveGrant
<1>2. \A v \in Units : v < u => GrantRows[v].status # "NONE"
  BY <1>0, <1>1, GrantIs DEF FreshUnits
<1>3. GrantRows[u].status = "NONE" BY <1>1, GrantIs DEF NoUnit
<1>4. GrantRows' = [GrantRows EXCEPT ![u].status = "UNUSED", ![u].owner = o, ![u].until = before]
  <2>1. GrantRows' = [v \in Units |->
          [status |-> unit'[v].status, owner |-> unit'[v].scope, stay |-> unit'[v].stay,
           since |-> unit'[v].activated,
           until |-> IF unit'[v].status = "UNUSED" THEN unit'[v].before ELSE unit'[v].expires]]
    BY DEF GrantRows, GrantOf
  <2>2. ASSUME NEW v \in Units
        PROVE  [status |-> unit'[v].status, owner |-> unit'[v].scope, stay |-> unit'[v].stay,
                since |-> unit'[v].activated,
                until |-> IF unit'[v].status = "UNUSED" THEN unit'[v].before ELSE unit'[v].expires]
               = IF v = u THEN [GrantRows[v] EXCEPT !.status = "UNUSED", !.owner = o, !.until = before]
                 ELSE GrantRows[v]
    <3>1. CASE v = u
      <4>1. unit'[v] = [NoUnit EXCEPT !.status = "UNUSED", !.scope = o, !.before = before]
        BY <1>0, <1>1, <3>1
      <4>2. /\ unit'[v].status = "UNUSED" /\ unit'[v].scope = o /\ unit'[v].stay = NoStay
            /\ unit'[v].activated = 0 /\ unit'[v].before = before
        BY <4>1 DEF NoUnit
      <4>3. unit[v].stay = NoStay /\ unit[v].activated = 0 BY <1>1, <3>1 DEF NoUnit
      <4> QED BY <3>1, <4>2, <4>3 DEF GrantRows, GrantOf
    <3>2. CASE v # u
      <4>1. unit'[v] = unit[v] BY <1>0, <1>1, <3>2
      <4> QED BY <3>2, <4>1 DEF GrantRows, GrantOf
    <3> QED BY <3>1, <3>2
  <2>3. [GrantRows EXCEPT ![u].status = "UNUSED", ![u].owner = o, ![u].until = before] =
          [v \in Units |-> IF v = u THEN [GrantRows[v] EXCEPT !.status = "UNUSED", !.owner = o, !.until = before]
                           ELSE GrantRows[v]]
    BY DEF GrantRows
  <2> QED BY <2>1, <2>2, <2>3, ZenonT(60)
<1>5. UNCHANGED <<now, status, owner, subs, obliged>> BY DEF SaveGrant
<1>6. Ledger!Give(u, o) BY <1>1, <1>2, <1>3, <1>4, <1>5, SameView DEF Ledger!Give
<1> QED BY <1>1, <1>6 DEF Ledger!Next

LEMMA ReplanIs ==
  ASSUME IInv, NEW d \in Processes,
         SaveSubscription(d) \/ SaveCancellation(d) \/ ExpireSubscription(d)
  PROVE  Ledger!Next
<1>0. stage[d] = "commit" /\ subs \in [Scopes -> Seq(SubRecords)] /\ Asks(d)
  BY DEF SaveSubscription, SaveCancellation, ExpireSubscription, At, IInv, TablesOK, SubsTyped, Sessions
<1>1. UNCHANGED <<now, status, owner, unit, obliged>>
  BY DEF SaveSubscription, SaveCancellation, ExpireSubscription
<1>2. PICK o \in Scopes : \E q : subs' = [subs EXCEPT ![o] = q]
  <2>1. CASE SaveSubscription(d) \/ SaveCancellation(d)
    BY <1>0, <2>1, ScopeHeld, ZenonT(60) DEF SaveSubscription, SaveCancellation
  <2>2. CASE ExpireSubscription(d)
    <3>1. request[d].kind = "expire_sub" BY <2>2 DEF ExpireSubscription, At
    <3>2. request[d].row[1] \in Scopes
      BY <1>0, <3>1, KindDecides DEF VisitsSub, SubRows
    <3> QED BY <2>2, <3>2 DEF ExpireSubscription
  <2> QED BY <2>1, <2>2
<1>3. \A p \in Scopes \ {o} : subs'[p] = subs[p] BY <1>0, <1>2
<1>4. Ledger!Replan(o) BY <1>1, <1>3, PlanWritten
<1> QED BY <1>4 DEF Ledger!Next

\* A unit that has run out is closed, and its stay leaves the market as the ledger says.
LEMMA LapseIs ==
  ASSUME IsFiniteSet(Stays), LInv, NEW b \in Beats, ExpireRenewedUnit(b) \/ ResolveExpired(b)
  PROVE  Ledger!Next
<1>0. /\ IInv /\ Due(b) /\ b \in Processes /\ stage[b] \in {"check", "commit"}
      /\ request[b].kind = "expire_unit" /\ now \in 0..MaxTime /\ run[b].at \in Nat
  BY RunIs DEF LInv, ExpireRenewedUnit, ResolveExpired, At, Processes, IInv, TablesOK
<1>1. PICK u \in Units, s \in Stays, o \in Scopes, t \in Nat :
        /\ u = request[b].row /\ s = unit[u].stay /\ o = unit[u].scope /\ o = owner[s]
        /\ t = run[b].at /\ Bound(u)
  BY <1>0, VisitedUnit, UnitIs DEF IInv
<1>2. t \in 0..now /\ t \in 0..MaxTime BY <1>0, <1>1, Lengths DEF Due
<1>3. unit' = Expired(u) /\ UNCHANGED <<now, owner, subs, obliged>>
  BY <1>1 DEF ExpireRenewedUnit, ResolveExpired
<1>4. unit[u].expires <= t
  BY <1>0, <1>1 DEF ExpireRenewedUnit, ResolveExpired, At, Due, DueRow
<1>5. GrantRows' = [GrantRows EXCEPT ![u].status = "EXPIRED"] BY <1>0, <1>1, <1>3, ClosedIs
<1>6. GrantRows[u].until <= t /\ GrantRows[u].stay = s
  <2>1. unit[u].status # "UNUSED" BY <1>0, <1>1, UnitIs DEF IInv
  <2> QED BY <1>1, <1>4, <2>1, GrantIs
<1>7. (\E h \in Units : GrantRows[h].stay = s /\ GrantRows[h].since > GrantRows[u].since) <=> Renewed(u)
  BY <1>1, GrantIs DEF Renewed
<1>8. /\ Ledger!Covered(s, t) <=> Covered(s, o, t)
      /\ Ledger!Uncovered(owner[s], t) = Ordinary(o, t) /\ Plans[owner[s]][t] = Limit(o, t)
  BY <1>0, <1>1, <1>2, CoverIs, UncoveredIs, PlanIs
<1> DEFINE Keeps == \/ Renewed(u) \/ Covered(s, o, t) \/ Ordinary(o, t) <= Limit(o, t) \/ obliged[s]
<1>9. ~(Ordinary(o, t) > Limit(o, t)) <=> Ordinary(o, t) <= Limit(o, t)
  <2>1. Ordinary(o, t) \in Nat BY CountedFinite
  <2>2. Limit(o, t) \in Nat BY Lengths DEF Limit
  <2> QED BY <2>1, <2>2
<1>10. OnMarket' = IF Keeps THEN OnMarket ELSE OnMarket \ {s}
  <2>1. CASE ExpireRenewedUnit(b)
    <3>1. Renewed(u) /\ status' = status BY <1>1, <2>1 DEF ExpireRenewedUnit
    <3> QED BY <3>1, SameView
  <2>2. CASE ResolveExpired(b)
    <3>1. ~Renewed(u) BY <1>0, <1>1, <2>2 DEF ResolveExpired, At, Due, DueRow
    <3>2. \/ status' = status /\ (KeepsPlace(s, o, t) \/ obliged[s])
          \/ status' = [status EXCEPT ![s] = "PAUSED"] /\ ~KeepsPlace(s, o, t) /\ ~obliged[s]
      BY <1>1, <2>2 DEF ResolveExpired
    <3>3. KeepsPlace(s, o, t) <=> status[s] # "PUBLISHED" \/ Covered(s, o, t) \/ ~(Ordinary(o, t) > Limit(o, t))
      BY DEF KeepsPlace, OverLimit
    <3>4. CASE status' = status /\ (KeepsPlace(s, o, t) \/ obliged[s])
      <4>1. OnMarket' = OnMarket BY <3>4, SameView
      <4>2. Keeps \/ s \notin OnMarket BY <1>9, <3>3, <3>4 DEF OnMarket
      <4> QED BY <4>1, <4>2
    <3>5. CASE status' = [status EXCEPT ![s] = "PAUSED"] /\ ~KeepsPlace(s, o, t) /\ ~obliged[s]
      <4>1. OnMarket' = OnMarket \ {s} BY <1>0, <3>5 DEF OnMarket, IInv, TablesOK, StaysTyped
      <4>2. ~Keeps BY <1>9, <3>1, <3>3, <3>5
      <4> QED BY <4>1, <4>2
    <3> QED BY <3>2, <3>4, <3>5
  <2> QED BY <2>1, <2>2
<1>11. Ledger!Lapse(u)
  <2>1. s \in Owing <=> obliged[s] BY DEF Owing
  <2>2. Plans' = Plans /\ Owing' = Owing BY <1>3, SameView
  <2> QED BY <1>2, <1>3, <1>5, <1>6, <1>7, <1>8, <1>10, <2>1, <2>2 DEF Ledger!Lapse
<1> QED BY <1>11 DEF Ledger!Next

\* Whatever a request or a visit does before it writes is no step of the ledger.
LEMMA Unseen ==
  ASSUME UNCHANGED <<now, status, owner, unit, subs, obliged>>
  PROVE  UNCHANGED Ledger!vars
BY SameView DEF Ledger!vars

LEMMA ClientIs ==
  ASSUME IsFiniteSet(Stays), LInv, NEW c \in Clients, ClientStep(c)
  PROVE  [Ledger!Next]_(Ledger!vars)
<1>0. IInv /\ c \in Processes BY DEF LInv, Processes
<1>1. CASE UNCHANGED <<now, status, owner, unit, subs, obliged>> BY <1>1, Unseen
<1>2. BeginAny(c) \/ Locking(c) \/ Rollback(c) \/ BreakCircle(c) \/ CheckPublication(c) =>
        UNCHANGED <<now, status, owner, unit, subs, obliged>>
  BY DEF BeginAny, BeginOnStay, BeginPause, BeginAccept, BeginOnScope, Begin, Locking,
     LockScope, LockStay, LockStayAnyway, ReadForSave, Rollback, BreakCircle, CheckPublication,
     tables
<1>3. CASE Commit(c) /\ ~CheckPublication(c)
  BY <1>0, <1>3, PublicationIs, StayWriteIs, RenewalIs, GiveIs, ReplanIs DEF Commit
<1> QED BY <1>1, <1>2, <1>3 DEF ClientStep

LEMMA BeatIs ==
  ASSUME IsFiniteSet(Stays), LInv, NEW b \in Beats, BeatStep(b)
  PROVE  [Ledger!Next]_(Ledger!vars)
<1>0. IInv /\ b \in Processes BY DEF LInv, Processes
<1>1. CASE UNCHANGED <<now, status, owner, unit, subs, obliged>> BY <1>1, Unseen
<1>2. StartRun(b) \/ NextPhase(b) \/ Visit(b) \/ LockScope(b) \/ AbortRun(b) \/ BreakCircle(b)
        \/ LockExpiredStay(b) \/ ReviewScope(b) \/ NotDue(b) =>
        UNCHANGED <<now, status, owner, unit, subs, obliged>>
  BY DEF StartRun, NextPhase, Visit, Begin, LockScope, AbortRun, BreakCircle, LockExpiredStay,
     ReviewScope, NotDue, tables
<1>3. CASE ExpireSubscription(b) BY <1>0, <1>3, ReplanIs
<1>4. CASE ExpireRenewedUnit(b) \/ ResolveExpired(b) BY <1>4, LapseIs
<1> QED BY <1>1, <1>2, <1>3, <1>4 DEF BeatStep, Process

LEMMA OutsideIs ==
  ASSUME LInv, Tick \/ (\E s \in Stays : Oblige(s) \/ Discharge(s))
  PROVE  Ledger!Next
<1>0. obliged \in [Stays -> BOOLEAN] BY DEF LInv, IInv, TablesOK, StaysTyped
<1>1. CASE Tick
  <2>1. /\ now < MaxTime /\ now' = now + 1 /\ now \in 0..MaxTime
        /\ UNCHANGED <<status, owner, unit, subs, obliged>>
    BY <1>1 DEF Tick, tables, LInv, IInv, TablesOK
  <2>2. now' \in 0..MaxTime BY <2>1, Lengths
  <2>3. Ledger!Pass BY <2>1, <2>2, SameView DEF Ledger!Pass, Ledger!Times
  <2> QED BY <2>3 DEF Ledger!Next
<1>2. ASSUME NEW s \in Stays, Oblige(s) PROVE Ledger!Next
  <2>1. Owing' = Owing \cup {s} BY <1>0, <1>2 DEF Oblige, Owing
  <2>2. Ledger!Owe(s) BY <1>2, <2>1, SameView DEF Oblige, Ledger!Owe, OnMarket
  <2> QED BY <2>2 DEF Ledger!Next
<1>3. ASSUME NEW s \in Stays, Discharge(s) PROVE Ledger!Next
  <2>1. Owing' = Owing \ {s} BY <1>0, <1>3 DEF Discharge, Owing
  <2>2. Ledger!Discharge(s) BY <1>3, <2>1, SameView DEF Discharge, Ledger!Discharge
  <2> QED BY <2>2 DEF Ledger!Next
<1> QED BY <1>1, <1>2, <1>3

LEMMA StepIs ==
  ASSUME IsFiniteSet(Stays), LInv, [Next]_vars
  PROVE  [Ledger!Next]_(Ledger!vars)
<1>1. CASE UNCHANGED vars BY <1>1, Unseen DEF vars, tables
<1>2. CASE Tick \/ (\E s \in Stays : Oblige(s) \/ Discharge(s)) BY <1>2, OutsideIs
<1>3. ASSUME NEW c \in Clients, ClientStep(c) PROVE [Ledger!Next]_(Ledger!vars)
  BY <1>3, ClientIs
<1>4. ASSUME NEW b \in Beats, BeatStep(b) PROVE [Ledger!Next]_(Ledger!vars)
  BY <1>4, BeatIs
<1> QED BY <1>1, <1>2, <1>3, <1>4 DEF Next, ClientStep, BeatStep, Processes

LEMMA InitIs == Init => Ledger!Init
<1> SUFFICES ASSUME Init PROVE Ledger!Init OBVIOUS
<1>0. /\ now = 0 /\ owner \in [Stays -> Scopes] /\ obliged = [s \in Stays |-> FALSE]
  BY DEF Init
<1>1. OnMarket \subseteq Stays /\ Owing = {} BY <1>0 DEF OnMarket, Owing
<1>2. PICK o, r :
        /\ o \in Scopes
        /\ r = [NoUnit EXCEPT !.status = "UNUSED", !.scope = o, !.before = Validity]
        /\ unit = [u \in Units |-> IF u \in Stock THEN r ELSE NoUnit]
  BY DEF Init
<1>3. r.status = "UNUSED" /\ r.scope = o /\ r.stay = NoStay BY <1>2 DEF NoUnit
<1>4. NoUnit.status = "NONE" /\ NoUnit.stay = NoStay BY DEF NoUnit
<1>5. \A g \in Units : /\ GrantRows[g].status \in {"NONE", "UNUSED"} /\ GrantRows[g].stay \notin Stays
                       /\ GrantRows[g].status = "UNUSED" => GrantRows[g].owner \in Scopes
  BY <1>2, <1>3, <1>4, GrantIs, NullsApart
<1>6. Plans \in [Scopes -> [0..MaxTime -> {FreeLimit, PaidLimit}]] BY DEF Plans, Limit
<1> QED BY <1>0, <1>1, <1>5, <1>6 DEF Ledger!Init, Ledger!Times

\* Each request and each visit of the hourly task, with its locks, its check and the
\* clock it was judged by, is one step of the ledger or none.
THEOREM ImplementsTheLedger == ASSUME IsFiniteSet(Stays) PROVE Spec => ImplementsPlaceLedger
<1>1. LInv /\ [Next]_vars => LInv' BY NextLInv
<1>2. LInv /\ [Next]_vars => [Ledger!Next]_(Ledger!vars) BY StepIs
<1> QED BY <1>1, <1>2, InitLInv, InitIs, PTL DEF Spec, ImplementsPlaceLedger, Ledger!Spec

(***************************************************************************)
(* Who waits for whom.  Everybody locks owners in the order of their keys  *)
(* and then the stay, except a listing_action that has found another owner *)
(* than it locked (Turned): it holds the stay and waits for that owner.    *)
(***************************************************************************)
Turned(c) == At(c, Legacy, "scope") /\ holder[request[c].stay] = c

OrderedAt(c) ==
  /\ \A o \in Scopes : holder[o] = c =>
       /\ stage[c] \notin {"idle", "read"}
       /\ stage[c] = "scope" /\ ~Turned(c) => \A p \in Unlocked(c) : o < p
  /\ \A s \in Stays : holder[s] = c =>
       \/ stage[c] = "check" \/ (stage[c] = "commit" /\ request[c].kind # "expire_unit")
       \/ Turned(c)
Ordered == \A c \in Processes : OrderedAt(c)

LEMMA OrderKept ==
  ASSUME IInv, NEW c \in Processes, OrderedAt(c), stage'[c] = stage[c], request'[c] = request[c],
         \A x \in Scopes \cup Stays : holder'[x] = c <=> holder[x] = c
  PROVE  OrderedAt(c)'
<1>1. ASSUME stage[c] # "idle" PROVE Unlocked(c)' = Unlocked(c)
  <2>1. Asks(c) BY DEF IInv, Sessions
  <2>2. request[c].scopes \in SUBSET Scopes BY <1>1, <2>1, KindDecides
  <2> QED BY <2>2 DEF Unlocked
<1>2. Turned(c)' <=> Turned(c)
  <2> SUFFICES ASSUME At(c, Legacy, "scope")
               PROVE  holder'[request[c].stay] = c <=> holder[request[c].stay] = c
    BY DEF Turned, At
  <2>1. Asks(c) /\ stage[c] # "idle" /\ request[c].kind \in StayKinds
    BY DEF IInv, Sessions, At, Legacy, StayKinds
  <2>2. request[c].stay \in Stays BY <2>1, KindDecides, StayRequestIs
  <2> QED BY <2>2
<1> QED BY <1>1, <1>2 DEF OrderedAt

LEMMA EndOrdered ==
  ASSUME IInv, NEW d \in Processes, End(d)
  PROVE  OrderedAt(d)'
<1>1. stage'[d] = "idle" BY DEF IInv, SessionTyped, End
<1>2. \A x \in Scopes \cup Stays : holder'[x] # d BY Apart DEF IInv, SessionTyped, End
<1> QED BY <1>1, <1>2 DEF OrderedAt

\* Nothing is held yet.
LEMMA BeginOrdered ==
  ASSUME NEW d \in Processes, OrderedAt(d), stage[d] = "idle", holder' = holder
  PROVE  OrderedAt(d)'
<1>1. \A x \in Scopes \cup Stays : holder'[x] # d BY DEF OrderedAt, Turned, At
<1> QED BY <1>1 DEF OrderedAt

LEMMA LockScopeOrdered ==
  ASSUME IInv, NEW d \in Processes, OrderedAt(d), LockScope(d)
  PROVE  OrderedAt(d)'
<1>0. SessionTyped /\ Asks(d) BY DEF IInv, Sessions
<1>1. stage[d] = "scope" /\ request' = request BY DEF LockScope
<1>2. PICK o \in NextScopes(d) :
        /\ Lock(o, d)
        /\ stage' = [stage EXCEPT ![d] =
             IF Unlocked(d) # {o} THEN "scope"
             ELSE IF request[d].kind \notin StayKinds THEN "commit"
             ELSE IF holder[request[d].stay] = d THEN AfterStay(request[d].kind) ELSE "stay"]
  BY DEF LockScope
<1>3. request[d].scopes \in SUBSET Scopes BY <1>0, <1>1, KindDecides
<1>4. /\ o \in Unlocked(d) /\ o \in request[d].scopes /\ o \in Scopes
      /\ \A p \in Unlocked(d) : o <= p
  BY <1>3 DEF NextScopes, Unlocked
<1>5. \A y \in Scopes \cup Stays : holder'[y] = IF y = o THEN d ELSE holder[y]
  BY <1>0, <1>2, <1>4, LockTyped
<1>6. stage'[d] \in {"scope", "stay", "check", "commit"}
  BY <1>0, <1>2 DEF SessionTyped, AfterStay
<1>7. ASSUME NEW p \in Unlocked(d)' PROVE p \in Unlocked(d) /\ p # o /\ p \in Scopes
  BY <1>1, <1>3, <1>4, <1>5 DEF Unlocked
<1>8. ASSUME NEW q \in Scopes, holder'[q] = d, ~Turned(d)
      PROVE  \A p \in Unlocked(d)' : q < p
  <2>1. CASE q = o
    <3>1. ASSUME NEW p \in Unlocked(d)' PROVE o < p
      <4>1. p \in Unlocked(d) /\ p # o /\ p \in Scopes BY <1>7, <3>1
      <4>2. o <= p BY <1>4, <4>1
      <4>3. o \in Nat /\ p \in Nat BY <1>4, <4>1, Apart
      <4> QED BY <4>1, <4>2, <4>3
    <3> QED BY <1>4, <2>1, <3>1
  <2>2. CASE q # o
    <3>1. holder[q] = d BY <1>5, <1>8, <2>2
    <3> QED BY <1>1, <1>7, <1>8, <3>1 DEF OrderedAt
  <2> QED BY <2>1, <2>2
<1>9. ASSUME Turned(d) PROVE Turned(d)' \/ stage'[d] \in {"check", "commit"}
  <2>1. request[d].kind \in Legacy /\ request[d].kind \in StayKinds /\ holder[request[d].stay] = d
    BY <1>9 DEF Turned, At, Legacy, StayKinds
  <2>2. request[d].stay \in Stays BY <1>0, <1>1, <2>1, KindDecides, StayRequestIs
  <2>3. holder'[request[d].stay] = d BY <1>4, <1>5, <2>1, <2>2, Apart
  <2>4. stage'[d] \in {"scope", "check", "commit"}
    BY <1>0, <1>2, <2>1 DEF SessionTyped, AfterStay
  <2> QED BY <1>1, <2>1, <2>3, <2>4 DEF Turned, At
<1>10. ASSUME Turned(d) PROVE OrderedAt(d)'
  <2>1. request[d].kind # "expire_unit" BY <1>10 DEF Turned, At, Legacy
  <2> QED BY <1>1, <1>6, <1>9, <1>10, <2>1 DEF OrderedAt
<1>11. ASSUME ~Turned(d) PROVE OrderedAt(d)'
  <2>1. \A s \in Stays : holder'[s] # d BY <1>1, <1>4, <1>5, <1>11, Apart DEF OrderedAt
  <2> QED BY <1>1, <1>6, <1>8, <1>11, <2>1 DEF OrderedAt
<1> QED BY <1>10, <1>11

\* A stay is the last row taken.
LEMMA StayOrdered ==
  ASSUME IInv, NEW d \in Processes, OrderedAt(d), NEW s \in Stays, Lock(s, d), request' = request,
         stage[d] \notin {"idle", "read"}, stage'[d] = "check" \/ (stage'[d] = "commit" /\ request[d].kind # "expire_unit")
  PROVE  OrderedAt(d)'
<1>1. \A y \in Scopes \cup Stays : holder'[y] = IF y = s THEN d ELSE holder[y]
  BY LockTyped DEF IInv
<1>2. \A o \in Scopes : holder'[o] = d => holder[o] = d BY <1>1, Apart
<1> QED BY <1>1, <1>2 DEF OrderedAt

LEMMA ClientOrdered ==
  ASSUME IInv, NEW d \in Clients, OrderedAt(d), ClientStep(d)
  PROVE  OrderedAt(d)'
<1>0. d \in Processes BY DEF Processes
<1>00. SessionTyped /\ Asks(d) BY <1>0 DEF IInv, Sessions
<1>1. CASE BeginAny(d)
  <2>1. stage[d] = "idle" /\ holder' = holder
    BY <1>1, ZenonT(30) DEF BeginAny, BeginOnStay, BeginPause, BeginAccept, BeginOnScope, Begin
  <2> QED BY <1>0, <2>1, BeginOrdered
<1>2. CASE LockScope(d) BY <1>0, <1>2, LockScopeOrdered
<1>3. CASE LockStay(d)
  <2>1. /\ stage[d] = "stay" /\ request[d].kind \in StayKinds /\ Lock(request[d].stay, d)
        /\ request' = request
    BY <1>3 DEF LockStay
  <2>2. request[d].stay \in Stays BY <1>0, <1>00, <2>1, KindDecides, StayRequestIs
  <2>3. stage'[d] \in {"check", "commit"} BY <1>0, <1>00, <1>3 DEF LockStay, AfterStay, SessionTyped
  <2>4. request[d].kind # "expire_unit" BY <2>1 DEF StayKinds
  <2> QED BY <1>0, <2>1, <2>2, <2>3, <2>4, StayOrdered
<1>4. CASE LockStayAnyway(d)
  <2>1. /\ stage[d] = "stay" /\ request[d].kind \in Legacy /\ request[d].kind \in StayKinds
        /\ Lock(request[d].stay, d)
    BY <1>4 DEF LockStayAnyway, At, Legacy, StayKinds
  <2>2. request[d] \in OnStay BY <1>0, <1>00, <2>1, KindDecides
  <2>3. PICK s \in Stays : s = request[d].stay BY <2>2, StayRequestIs
  <2>4. \A y \in Scopes \cup Stays : holder'[y] = IF y = s THEN d ELSE holder[y]
    BY <1>0, <1>00, <2>1, <2>3, LockTyped
  <2>5. request'[d].kind = request[d].kind /\ request'[d].stay = s
    BY <1>0, <1>00, <1>4, <2>2, <2>3 DEF LockStayAnyway, SessionTyped, OnStay
  <2>6. stage'[d] \in {"scope", "check", "commit"}
    BY <1>0, <1>00, <1>4 DEF LockStayAnyway, SessionTyped, AfterStay
  <2>7. stage'[d] = "scope" => Turned(d)' BY <2>1, <2>4, <2>5 DEF Turned, At
  <2>8. \A t \in Stays : holder'[t] = d => t = s BY <2>1, <2>4 DEF OrderedAt, Turned, At
  <2>9. request'[d].kind # "expire_unit" BY <2>1, <2>5 DEF Legacy
  <2> QED BY <2>6, <2>7, <2>8, <2>9 DEF OrderedAt
<1>5. CASE ReadForSave(d)
  <2>1. /\ stage[d] = "read" /\ stage'[d] = "scope" /\ holder' = holder
        /\ request'[d].kind = request[d].kind
    <3>1. stage[d] = "read" /\ request[d].kind = "pause" BY <1>5 DEF ReadForSave, At
    <3>2. request[d] \in OnStay BY <1>0, <1>00, <3>1, KindDecides DEF StayKinds
    <3> QED BY <1>0, <1>00, <1>5, <3>1, <3>2 DEF ReadForSave, SessionTyped, OnStay
  <2>2. \A x \in Scopes \cup Stays : holder'[x] # d BY <2>1 DEF OrderedAt, Turned, At
  <2> QED BY <2>1, <2>2 DEF OrderedAt
<1>6. CASE CheckPublication(d)
  <2>1. /\ stage[d] = "check" /\ stage'[d] = "commit" /\ holder' = holder
        /\ request[d].kind \in Checked /\ request[d].kind \in StayKinds
    BY <1>0, <1>00, <1>6 DEF CheckPublication, At, SessionTyped, Checked, StayKinds
  <2>2. request[d] \in OnStay BY <1>0, <1>00, <2>1, KindDecides
  <2>3. request'[d].kind = request[d].kind /\ request'[d].scopes = request[d].scopes
    BY <1>0, <1>00, <1>6, <2>2 DEF CheckPublication, SessionTyped, OnStay
  <2> QED BY <2>1, <2>3 DEF OrderedAt, Checked
<1>7. CASE End(d) BY <1>0, <1>7, EndOrdered
<1>8. Rollback(d) \/ BreakCircle(d) \/ (Commit(d) /\ ~CheckPublication(d)) => End(d)
  BY DEF Rollback, BreakCircle, Commit, SavePublication, SaveQuietTransfer, SaveSubmission, SaveRefusal,
     SavePause, SaveRenewal, SaveGrant, SaveSubscription, SaveCancellation
<1> QED BY <1>1, <1>2, <1>3, <1>4, <1>5, <1>6, <1>7, <1>8 DEF ClientStep, Locking

LEMMA BeatOrdered ==
  ASSUME IInv, NEW d \in Beats, OrderedAt(d), BeatStep(d)
  PROVE  OrderedAt(d)'
<1>0. d \in Processes BY DEF Processes
<1>00. SessionTyped /\ Asks(d) BY <1>0 DEF IInv, Sessions
<1>1. CASE StartRun(d) \/ NextPhase(d)
  <2>1. holder' = holder /\ stage' = stage /\ request' = request
    BY <1>1 DEF StartRun, NextPhase, session
  <2> QED BY <1>0, <2>1, OrderKept
<1>2. CASE Visit(d)
  <2>1. stage[d] = "idle" /\ holder' = holder BY <1>2 DEF Visit, Begin
  <2> QED BY <1>0, <2>1, BeginOrdered
<1>3. CASE LockScope(d) BY <1>0, <1>3, LockScopeOrdered
<1>4. CASE LockExpiredStay(d)
  <2>1. /\ stage[d] = "commit" /\ request[d].kind = "expire_unit" /\ request' = request
        /\ Lock(unit[request[d].row].stay, d) /\ stage'[d] = "check"
    BY <1>0, <1>00, <1>4 DEF LockExpiredStay, At, SessionTyped
  <2>2. unit[request[d].row].stay \in Stays BY <1>0, <2>1, VisitedUnit
  <2> QED BY <1>0, <2>1, <2>2, StayOrdered
<1>5. CASE End(d) BY <1>0, <1>5, EndOrdered
<1>6. AbortRun(d) \/ BreakCircle(d) \/ (Process(d) /\ ~LockExpiredStay(d)) => End(d)
  BY DEF AbortRun, BreakCircle, Process, ExpireSubscription, ExpireRenewedUnit, ResolveExpired, ReviewScope, NotDue
<1> QED BY <1>1, <1>2, <1>3, <1>4, <1>5, <1>6 DEF BeatStep

LEMMA NextOrdered ==
  ASSUME IsFiniteSet(Stays), IInv, Ordered, [Next]_vars PROVE Ordered'
<1>1. CASE Outside
  <2>1. holder' = holder /\ stage' = stage /\ request' = request BY <1>1 DEF Outside
  <2>2. ASSUME NEW c \in Processes PROVE OrderedAt(c)' BY <2>1, OrderKept DEF Ordered
  <2> QED BY <2>2 DEF Ordered
<1>2. ASSUME NEW d \in Processes, Moved(d), OrderedAt(d)' PROVE Ordered'
  <2>1. ASSUME NEW c \in Processes, c # d PROVE OrderedAt(c)'
    BY <1>2, <2>1, OrderKept DEF Ordered, Moved, MovesAlone
  <2> QED BY <1>2, <2>1 DEF Ordered
<1>3. ASSUME NEW c \in Clients, ClientStep(c) PROVE Ordered'
  <2>1. c \in Processes BY DEF Processes
  <2> QED BY <1>2, <1>3, <2>1, ClientMoves, ClientOrdered DEF Ordered
<1>4. ASSUME NEW b \in Beats, BeatStep(b) PROVE Ordered'
  <2>1. b \in Processes BY DEF Processes
  <2> QED BY <1>2, <1>4, <2>1, BeatMoves, BeatOrdered DEF Ordered
<1> QED BY <1>1, <1>3, <1>4, StepsAre

\* The owner whose row is the last anyone waits for does not wait himself.
LEMMA LastWanted ==
  ASSUME NEW n \in Nat, NEW W, W \subseteq 0..n, W # {}
  PROVE  \E x \in W : \A y \in W : y <= x
<1> DEFINE T == {n - x : x \in W}
<1>1. T \subseteq Nat /\ T # {}
  <2>1. ASSUME NEW x \in W PROVE n - x \in Nat
    <3>1. x \in 0..n OBVIOUS
    <3> QED BY <3>1
  <2>2. PICK x \in W : TRUE OBVIOUS
  <2>3. n - x \in T OBVIOUS
  <2>4. T \subseteq Nat BY <2>1
  <2> QED BY <2>3, <2>4
<1> HIDE DEF T
<1>2. PICK m \in T : \A k \in T : m <= k BY <1>1, LeastNat
<1>3. PICK x \in W : m = n - x BY DEF T
<1>4. ASSUME NEW y \in W PROVE y <= x
  <2>1. n - y \in T BY DEF T
  <2>2. m <= n - y BY <1>2, <2>1
  <2> QED BY <1>3, <2>2
<1> QED BY <1>4

LEMMA OnlyTheTurned ==
  ASSUME NEW n \in Nat, Scopes \subseteq 0..n, IInv, Ordered
  PROVE  CirclesAreListingActions
<1> SUFFICES ASSUME NEW C \in SUBSET Processes, NEW c0 \in C,
                    \A c \in C : \E x \in Wanted(c) : holder[x] \in C,
                    \A c \in C : ~Turned(c)
             PROVE  FALSE
  BY DEF CirclesAreListingActions, Circles, Turned
<1>1. ASSUME NEW c \in C, NEW x \in Wanted(c), holder[x] \in C
      PROVE  stage[c] = "scope" /\ x \in Scopes /\ x \in Unlocked(c)
  <2>0. c \in Processes /\ Asks(c) /\ holder[x] \in Processes
    <3>1. c \in Processes /\ holder[x] \in Processes BY <1>1
    <3> QED BY <3>1 DEF IInv, Sessions
  <2>1. CASE x \in Stays
    <3>1. \/ stage[holder[x]] = "check"
          \/ (stage[holder[x]] = "commit" /\ request[holder[x]].kind # "expire_unit")
      BY <1>1, <2>0, <2>1 DEF Ordered, OrderedAt
    <3>2. Wanted(holder[x]) = {} BY <3>1 DEF Wanted
    <3> QED BY <1>1, <3>2
  <2>2. CASE x \notin Stays
    <3>1. CASE stage[c] = "scope"
      <4>1. x \in NextScopes(c) BY <1>1, <3>1 DEF Wanted
      <4>2. request[c].scopes \in SUBSET Scopes BY <2>0, <3>1, KindDecides
      <4> QED BY <3>1, <4>1, <4>2 DEF NextScopes, Unlocked
    <3>2. CASE stage[c] = "stay"
      <4>1. x = request[c].stay BY <1>1, <3>2 DEF Wanted
      <4>2. request[c] \in OnStay
        BY <2>0, <3>2 DEF Asks
      <4> QED BY <2>2, <4>1, <4>2, StayRequestIs
    <3>3. CASE stage[c] \notin {"scope", "stay"}
      BY <1>1, <2>2, <3>3 DEF Wanted
    <3> QED BY <3>1, <3>2, <3>3
  <2> QED BY <2>1, <2>2
<1> DEFINE W == {x \in Scopes : \E c \in C : x \in Wanted(c) /\ holder[x] \in C}
<1>2. W \subseteq 0..n OBVIOUS
<1>3. W # {}
  <2>1. PICK x \in Wanted(c0) : holder[x] \in C OBVIOUS
  <2> QED BY <1>1, <2>1
<1>4. PICK x \in W : \A y \in W : y <= x
  <2> HIDE DEF W
  <2> QED BY <1>2, <1>3, LastWanted
<1>5. x \in Scopes /\ holder[x] \in C OBVIOUS
<1>6. PICK y \in Wanted(holder[x]) : holder[y] \in C BY <1>5
<1>7. stage[holder[x]] = "scope" /\ y \in Scopes /\ y \in Unlocked(holder[x]) BY <1>1, <1>5, <1>6
<1>8. y \in W BY <1>5, <1>6, <1>7
<1>9. x < y BY <1>5, <1>7 DEF Ordered, OrderedAt
<1>10. x \in Nat /\ y \in Nat /\ y <= x BY <1>4, <1>5, <1>7, <1>8, Apart
<1> QED BY <1>9, <1>10

\* The rows of owners in the order of their keys and then the stay, for requests of
\* the host, the review console and the hourly task alike: whatever transactions wait
\* for each other, one of them is a listing_action that holds a stay which has changed
\* hands, and waits for its new owner.
THEOREM OnlyListingActionsClose ==
  ASSUME IsFiniteSet(Stays), NEW n \in Nat, Scopes \subseteq 0..n
  PROVE  Spec => []CirclesAreListingActions
<1>1. Init => Ordered
  BY Apart DEF Init, Ordered, OrderedAt
<1>2. IInv /\ Ordered /\ [Next]_vars => IInv' /\ Ordered' BY NextInv, NextOrdered
<1>3. IInv /\ Ordered => CirclesAreListingActions BY OnlyTheTurned
<1> QED BY <1>1, <1>2, <1>3, InitInv, PTL DEF Spec
=============================================================================
