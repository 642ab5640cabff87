--------------------------- MODULE DeskFactsProofs ----------------------------
(***************************************************************************)
(* One fact told in two places of a scene of Desk is told alike: counts,   *)
(* quotes, checklists, pages, an edit form and its listing, roles, reports *)
(* and their trail, notifications, their links and letters.                *)
(***************************************************************************)
EXTENDS DeskOnceProofs, Sequences

-----------------------------------------------------------------------------
(* Sums over the elements of a set: adding up the sizes of parts that do   *)
(* not overlap counts their union.                                         *)

Picked(s) == CHOOSE x \in s : TRUE
Adds(g, keys, f) == g = [s \in SUBSET keys |-> IF s = {} THEN 0 ELSE f[Picked(s)] + g[s \ {Picked(s)}]]
Within(part, whole, s) == {x \in whole : \E i \in s : x \in part[i]}
Parts(keys, part, whole, f) ==
  /\ IsFiniteSet(keys) /\ IsFiniteSet(whole)
  /\ \A i \in keys : part[i] \subseteq whole /\ f[i] = Cardinality(part[i])
  /\ \A i, j \in keys : i # j => part[i] \cap part[j] = {}

LEMMA OnePartMore ==
  ASSUME NEW keys, NEW part, NEW whole, NEW f, Parts(keys, part, whole, f),
         NEW s \in SUBSET keys, NEW i \in s
  PROVE  /\ Cardinality(Within(part, whole, s)) = f[i] + Cardinality(Within(part, whole, s \ {i}))
         /\ Cardinality(Within(part, whole, s)) \in Nat
<1> DEFINE rest == Within(part, whole, s \ {i})
<1>1. IsFiniteSet(part[i]) /\ IsFiniteSet(rest)
  BY FS_Subset DEF Parts, Within
<1>2. Within(part, whole, s) = part[i] \cup rest /\ part[i] \cap rest = {}
  BY DEF Parts, Within
<1>3. Cardinality(part[i]) \in Nat /\ Cardinality(rest) \in Nat
  BY <1>1, FS_CardinalityType
<1>4. f[i] = Cardinality(part[i])
  BY DEF Parts
<1> HIDE DEF rest
<1>5. Cardinality(part[i] \cap rest) = 0
  BY <1>2, FS_EmptySet
<1>6. Cardinality(part[i] \cup rest) = Cardinality(part[i]) + Cardinality(rest) - Cardinality(part[i] \cap rest)
  BY <1>1, FS_Union
<1> QED BY <1>2, <1>3, <1>4, <1>5, <1>6 DEF rest

LEMMA SumExists ==
  ASSUME NEW keys, NEW part, NEW whole, NEW f, Parts(keys, part, whole, f)
  PROVE  \E g : Adds(g, keys, f)
<1> DEFINE g == [s \in SUBSET keys |-> Cardinality(Within(part, whole, s))]
<1>1. ASSUME NEW s \in SUBSET keys
      PROVE  g[s] = IF s = {} THEN 0 ELSE f[Picked(s)] + g[s \ {Picked(s)}]
  <2>1. CASE s = {}
    <3>1. Within(part, whole, s) = {}
      BY <2>1 DEF Within
    <3> QED BY <2>1, <3>1, FS_EmptySet
  <2>2. CASE s # {}
    <3>1. Picked(s) \in s
      BY <2>2 DEF Picked
    <3>2. g[s \ {Picked(s)}] = Cardinality(Within(part, whole, s \ {Picked(s)}))
      OBVIOUS
    <3> QED BY <2>2, <3>1, <3>2, OnePartMore
  <2> QED BY <2>1, <2>2
<1>2. Adds(g, keys, f)
  <2> DEFINE gathered == [s \in SUBSET keys |-> IF s = {} THEN 0 ELSE f[Picked(s)] + g[s \ {Picked(s)}]]
  <2>1. \A s \in SUBSET keys : g[s] = gathered[s]
    BY <1>1
  <2>2. g = gathered
    BY <2>1
  <2> QED BY <2>2 DEF Adds
<1> QED BY <1>2

LEMMA SumCounts ==
  ASSUME NEW keys, NEW part, NEW whole, NEW f, Parts(keys, part, whole, f), NEW g, Adds(g, keys, f)
  PROVE  g[keys] = Cardinality(Within(part, whole, keys))
<1> DEFINE reached == {n \in Nat : \A s \in SUBSET keys :
                                     Cardinality(s) = n => g[s] = Cardinality(Within(part, whole, s))}
<1>0. ASSUME NEW s \in SUBSET keys
      PROVE  /\ g[s] = IF s = {} THEN 0 ELSE f[Picked(s)] + g[s \ {Picked(s)}]
             /\ IsFiniteSet(s) /\ Cardinality(s) \in Nat
  BY FS_Subset, FS_CardinalityType DEF Adds, Parts
<1>1. 0 \in reached
  <2> SUFFICES ASSUME NEW s \in SUBSET keys, Cardinality(s) = 0
               PROVE  g[s] = Cardinality(Within(part, whole, s))
    OBVIOUS
  <2>1. s = {}
    BY <1>0, FS_EmptySet
  <2>2. Within(part, whole, s) = {}
    BY <2>1 DEF Within
  <2> QED BY <1>0, <2>1, <2>2, FS_EmptySet
<1>2. ASSUME NEW n \in Nat, n >= 1, n - 1 \in reached PROVE n \in reached
  <2> SUFFICES ASSUME NEW s \in SUBSET keys, Cardinality(s) = n
               PROVE  g[s] = Cardinality(Within(part, whole, s))
    OBVIOUS
  <2>1. s # {}
    BY <1>2, FS_EmptySet
  <2>2. Picked(s) \in s
    BY <2>1 DEF Picked
  <2>3. s \ {Picked(s)} \in SUBSET keys /\ Cardinality(s \ {Picked(s)}) = n - 1
    BY <1>0, <2>2, FS_RemoveElement
  <2>4. g[s \ {Picked(s)}] = Cardinality(Within(part, whole, s \ {Picked(s)}))
    BY <1>2, <2>3
  <2>5. g[s] = f[Picked(s)] + g[s \ {Picked(s)}]
    BY <1>0, <2>1
  <2> QED BY <2>2, <2>4, <2>5, OnePartMore
<1> DEFINE size == Cardinality(keys)
<1>3. keys \in SUBSET keys /\ size \in Nat
  BY <1>0
<1> HIDE DEF reached, size
<1>4. \A n \in 1..size : n - 1 \in reached => n \in reached
  BY <1>2, <1>3
<1>5. size \in reached
  BY <1>1, <1>3, <1>4, Climb
<1> QED BY <1>3, <1>5 DEF reached, size

-----------------------------------------------------------------------------
(* Messages.  Each is in one conversation or, after its deletion, in none. *)

Sent == [conv : Conversations \cup {None}, sender : Users \cup {None}, deleted : BOOLEAN]
MessagesPlaced ==
  /\ log \in Seq(Sent)
  /\ DOMAIN job = Clients
  /\ \A c \in Clients : /\ job[c].conv \in Conversations \cup {None}
                        /\ job[c].op = "talk" => job[c].user \in Users

LEMMA MessageCounts == ASSUME NEW some PROVE M!Cardinality(some) = Cardinality(some)
  BY DEF M!Cardinality, Cardinality

LEMMA SendKeeps ==
  ASSUME log \in Seq(Sent), NEW k \in Conversations, NEW u \in Users \cup {None}, M!Send(k, u)
  PROVE  log' \in Seq(Sent)
  BY DEF M!Send, Sent

LEMMA MessageJobs ==
  ASSUME MessagesPlaced, NEW c \in Clients, NEW j, M!Go(c, j), j.conv \in Conversations \cup {None},
         j.op = "talk" => j.user \in Users, log' \in Seq(Sent)
  PROVE  MessagesPlaced'
  BY DEF MessagesPlaced, M!Go

LEMMA MessagesKeep == ASSUME MessagesPlaced, [M!Next]_(M!vars) PROVE MessagesPlaced'
<1>1. CASE UNCHANGED M!vars
  BY <1>1 DEF M!vars, MessagesPlaced
<1>2. /\ M!Idle.conv = None /\ M!Idle.op = "none" /\ log \in Seq(Sent)
  BY DEF M!Idle, MessagesPlaced
<1>3. ASSUME NEW c \in Clients, M!Load(c) PROVE MessagesPlaced'
  <2>1. UNCHANGED log
    BY <1>3 DEF M!Load
  <2>2. CASE M!LoadEnquiry(c)
    <3>1. PICK u \in Users, l \in published, k \in Conversations \cup {None} :
            M!Go(c, [M!Idle EXCEPT !.op = "talk", !.user = u, !.conv = k, !.row = [guest |-> u, listing |-> l]])
      BY Zenon, <2>2 DEF M!LoadEnquiry
    <3> QED BY <1>2, <2>1, <3>1, MessageJobs DEF M!Idle
  <2>3. CASE M!LoadRead(c)
    <3>1. PICK k \in Conversations, u \in Users :
            M!Go(c, [M!Idle EXCEPT !.op = "read", !.user = u, !.conv = k, !.at = Len(log)])
      BY Zenon, <2>3 DEF M!LoadRead
    <3> QED BY <1>2, <2>1, <3>1, MessageJobs DEF M!Idle
  <2>4. CASE M!LoadUpdate(c)
    <3>1. PICK k \in Conversations, l \in Listings :
            M!Go(c, [M!Idle EXCEPT !.op = "save", !.conv = k, !.row = [conv[k] EXCEPT !.listing = l]])
      BY Zenon, <2>4 DEF M!LoadUpdate
    <3> QED BY <1>2, <2>1, <3>1, MessageJobs DEF M!Idle
  <2> QED BY <1>3, <2>2, <2>3, <2>4 DEF M!Load
<1>4. ASSUME NEW c \in Clients, M!Talk(c) PROVE MessagesPlaced'
  <2>1. /\ job[c].op = "talk" /\ M!Go(c, M!Idle) /\ job[c].user \in Users
        /\ job[c].conv \in Conversations \cup {None}
    BY <1>4 DEF M!Talk, M!Done, MessagesPlaced
  <2>2. PICK k \in Conversations : M!Send(k, job[c].user)
    BY <1>4, <2>1 DEF M!Talk
  <2>3. log' \in Seq(Sent)
    BY <1>2, <2>1, <2>2, SendKeeps
  <2> QED BY <1>2, <2>1, <2>3, MessageJobs
<1>5. ASSUME NEW c \in Clients, M!Post(c) PROVE MessagesPlaced'
  <2>1. PICK k \in Conversations, u \in Users :
          M!Send(k, u) /\ M!Go(c, [M!Idle EXCEPT !.op = "save", !.conv = k, !.row = conv[k]])
    BY Zenon, <1>5 DEF M!Post
  <2>2. log' \in Seq(Sent)
    BY <1>2, <2>1, SendKeeps
  <2> QED BY <1>2, <2>1, <2>2, MessageJobs DEF M!Idle
<1>6. ASSUME NEW c \in Clients, M!Save(c) \/ M!MarkRead(c) \/ M!GiveUp(c) PROVE MessagesPlaced'
  BY <1>2, <1>6, MessageJobs DEF M!Save, M!MarkRead, M!GiveUp, M!Done
<1>7. ASSUME NEW k \in Conversations, M!Destroy(k) PROVE MessagesPlaced'
  <2>1. /\ log' = [i \in DOMAIN log |-> IF log[i].conv = k THEN [log[i] EXCEPT !.conv = None] ELSE log[i]]
        /\ UNCHANGED job
    BY <1>7 DEF M!Destroy
  <2>2. \A i \in DOMAIN log : log[i] \in Sent
    BY <1>2
  <2>3. \A m \in Sent : [m EXCEPT !.conv = None] \in Sent
    BY DEF Sent
  <2>4. \A i \in DOMAIN log : log'[i] \in Sent
    BY <2>1, <2>2, <2>3
  <2>5. log' \in Seq(Sent)
    BY <1>2, <2>1, <2>4
  <2> QED BY <2>1, <2>5 DEF MessagesPlaced
<1>8. ASSUME M!Announce \/ M!Remove \/ M!Market PROVE MessagesPlaced'
  <2>1. CASE M!Announce
    <3>1. PICK k \in Conversations : M!Send(k, None)
      BY <2>1 DEF M!Announce
    <3> QED BY <1>2, <2>1, <3>1, SendKeeps DEF M!Announce, MessagesPlaced
  <2>2. CASE M!Remove
    <3>1. PICK i \in DOMAIN log : log' = [log EXCEPT ![i].deleted = TRUE]
      BY <2>2 DEF M!Remove
    <3>2. log[i] \in Sent
      BY <1>2, <3>1
    <3>3. [log[i] EXCEPT !.deleted = TRUE] \in Sent
      BY <3>2 DEF Sent
    <3>4. log' \in Seq(Sent)
      BY <1>2, <3>1, <3>3
    <3> QED BY <2>2, <3>4 DEF M!Remove, MessagesPlaced
  <2>3. CASE M!Market
    BY <2>3 DEF M!Market, MessagesPlaced
  <2> QED BY <1>8, <2>1, <2>2, <2>3
<1> QED BY <1>1, <1>3, <1>4, <1>5, <1>6, <1>7, <1>8 DEF M!Next, M!Step

LEMMA MessagesStart == M!Init => MessagesPlaced
  BY DEF M!Init, M!Idle, MessagesPlaced

\* The sum over the conversations, as the fold computes it.
UnreadTotal(u) == M!MapThenSumSet(LAMBDA k : M!get_unread_count(u, k), Conversations)

LEMMA UnreadSum ==
  ASSUME NEW u, NEW f, f = [k \in Conversations |-> M!get_unread_count(u, k)], NEW some, Adds(some, Conversations, f)
  PROVE  \E g : /\ UnreadTotal(u) = g[Conversations]
                /\ Adds(g, Conversations, f)
<1> DEFINE Sum(g) == g = [s \in SUBSET Conversations |->
                            IF s = {} THEN 0 ELSE M!get_unread_count(u, Picked(s)) + g[s \ {Picked(s)}]]
<1>1. UnreadTotal(u) = (CHOOSE g : Sum(g))[Conversations]
  BY DEF UnreadTotal, M!MapThenSumSet, M!MapThenFoldSet, Picked
<1>2. ASSUME NEW g PROVE Sum(g) <=> Adds(g, Conversations, f)
  <2>1. \A s \in SUBSET Conversations : s # {} => Picked(s) \in Conversations
    BY DEF Picked
  <2> QED BY <2>1 DEF Adds
<1>3. Sum(some)
  BY <1>2
<1> HIDE DEF Sum
<1>4. Sum(CHOOSE g : Sum(g))
  BY <1>3
<1> QED BY <1>1, <1>2, <1>4

LEMMA UnreadCounted == ASSUME MessagesPlaced PROVE M!UnreadAgree
<1> SUFFICES ASSUME NEW u \in Users
             PROVE  M!unread_messages(u) = UnreadTotal(u)
  BY DEF UnreadTotal, M!UnreadAgree
<1> DEFINE whole == 1..Len(log)
<1> DEFINE part == [k \in Conversations |-> IF M!In(u, k) THEN M!Unread(u, k) ELSE {}]
<1>0. PICK f : f = [k \in Conversations |-> M!get_unread_count(u, k)]
  OBVIOUS
<1>1. Parts(Conversations, part, whole, f)
  <2>1. IsFiniteSet(Conversations) /\ IsFiniteSet(whole)
    <3>1. Len(log) \in Nat
      BY DEF MessagesPlaced
    <3> QED BY <3>1, Countable, FS_Interval
  <2>2. \A k \in Conversations : part[k] \subseteq whole
    BY DEF M!Unread
  <2>3. \A k \in Conversations : f[k] = Cardinality(part[k])
    BY <1>0, FS_EmptySet, MessageCounts DEF M!get_unread_count
  <2>4. \A k, o \in Conversations : k # o => part[k] \cap part[o] = {}
    BY DEF M!Unread
  <2> QED BY <2>1, <2>2, <2>3, <2>4 DEF Parts
<1>2. Within(part, whole, Conversations)
        = {i \in 1..Len(log) : /\ log[i].sender # u /\ log[i].conv # None
                               /\ M!In(u, log[i].conv) /\ mark[log[i].conv][u] < i}
  <2>1. \A i \in 1..Len(log) : log[i] \in Sent
    BY DEF MessagesPlaced
  <2>2. \A i \in 1..Len(log) : log[i].conv \in Conversations \cup {None}
    BY <2>1 DEF Sent
  <2>3. None \notin Conversations
    BY Constants DEF M!Terms
  <2>4. \A k \in Conversations : \A i \in whole :
          i \in part[k] <=> M!In(u, k) /\ log[i].conv = k /\ log[i].sender # u /\ mark[k][u] < i
    BY DEF M!Unread
  <2> HIDE DEF part
  <2> QED BY <2>2, <2>3, <2>4 DEF Within
<1>3. M!unread_messages(u) = Cardinality(Within(part, whole, Conversations))
  BY <1>2, MessageCounts DEF M!unread_messages
<1> HIDE DEF part, whole
<1>4. PICK some : Adds(some, Conversations, f)
  BY <1>1, SumExists
<1>5. PICK g : /\ UnreadTotal(u) = g[Conversations]
               /\ Adds(g, Conversations, f)
  BY <1>0, <1>4, UnreadSum
<1> QED BY <1>1, <1>3, <1>5, SumCounts

-----------------------------------------------------------------------------
(* Reports.  A request's copy of a row is one that some save could leave.  *)

ReportRow == [reporter: Guests, target: Listings, reason: Criteria,
              status: T!Unsettled \cup T!Finished, assigned: Staff \cup {None}, reviewed: BOOLEAN]
Accounted(r) == /\ r \in ReportRow
                /\ r.status # "OPEN" => r.assigned \in Staff
                /\ r.status \in T!Finished => r.reviewed

ReportJob(c) ==
  /\ job[c].op = "file" => Accounted(job[c].row)
  /\ job[c].op \in {"UNDER_REVIEW"} \cup T!Finished => Accounted(job[c].row)
  /\ job[c].op = "announce" => [report |-> job[c].id, action |-> job[c].row.status] \in trail

ReportsSafe ==
  /\ DOMAIN job = Clients /\ DOMAIN report = Filings
  /\ \A r \in T!Filed : Accounted(report[r])
  /\ \A c \in Clients : ReportJob(c)
  /\ heard \subseteq trail

\* A statement that leaves the rows alone.
LEMMA ReportGoes ==
  ASSUME ReportsSafe, NEW c \in Clients, NEW op, NEW id, NEW r, T!Go(c, op, id, r),
         op \in {"file", "UNDER_REVIEW"} \cup T!Finished => Accounted(r),
         op = "announce" => [report |-> id, action |-> r.status] \in trail',
         trail \subseteq trail'
  PROVE  DOMAIN job' = Clients /\ \A d \in Clients : ReportJob(d)'
<1>1. DOMAIN job' = Clients
  BY DEF ReportsSafe, T!Go
<1>2. ASSUME NEW d \in Clients PROVE ReportJob(d)'
  <2>1. CASE d = c
    <3>1. job'[d] = [op |-> op, id |-> id, row |-> r]
      BY <2>1 DEF ReportsSafe, T!Go
    <3> QED BY <3>1 DEF ReportJob, T!Finished, T!Unsettled, Accounted, ReportRow
  <2>2. CASE d # c
    <3>1. job'[d] = job[d]
      BY <2>2 DEF ReportsSafe, T!Go
    <3> QED BY <3>1 DEF ReportsSafe, ReportJob, Accounted, ReportRow, T!Finished, T!Unsettled
  <2> QED BY <2>1, <2>2
<1> QED BY <1>1, <1>2

LEMMA SavesAccount ==
  ASSUME NEW r, Accounted(r), NEW s \in Staff
  PROVE  /\ Accounted(T!Assigned(r, s))
         /\ \A status \in T!Finished : Accounted(T!Settled(r, status, s))
  BY DEF Accounted, ReportRow, T!Assigned, T!Settled, T!Finished, T!Unsettled

LEMMA ReportsKeep == ASSUME ReportsSafe, [T!Next]_(T!vars) PROVE ReportsSafe'
<1>1. CASE UNCHANGED T!vars
  BY <1>1 DEF T!vars, ReportsSafe, ReportJob, T!Filed, Accounted, ReportRow
<1>2. ASSUME NEW c \in Clients, T!Write(c) PROVE ReportsSafe'
  <2>1. PICK u \in Guests, t \in Listings, why \in Criteria :
          T!Go(c, "file", None, [reporter |-> u, target |-> t, reason |-> why, status |-> "OPEN",
                                 assigned |-> None, reviewed |-> FALSE])
    BY <1>2 DEF T!Write
  <2>2. Accounted([reporter |-> u, target |-> t, reason |-> why, status |-> "OPEN",
                   assigned |-> None, reviewed |-> FALSE])
    BY DEF Accounted, ReportRow, T!Finished, T!Unsettled
  <2>3. UNCHANGED <<report, target, trail, heard>>
    BY <1>2 DEF T!Write
  <2>4. DOMAIN job' = Clients /\ \A d \in Clients : ReportJob(d)'
    BY <2>1, <2>2, <2>3, ReportGoes
  <2> QED BY <2>3, <2>4 DEF ReportsSafe, T!Filed, Accounted, ReportRow
<1>3. ASSUME NEW c \in Clients, T!File(c) PROVE ReportsSafe'
  <2>1. PICK r \in Filings : report' = [report EXCEPT ![r] = job[c].row]
    BY <1>3 DEF T!File
  <2>2. Accounted(job[c].row)
    BY <1>3 DEF ReportsSafe, ReportJob, T!File
  <2>3. UNCHANGED <<target, trail, heard>> /\ T!Go(c, "none", None, None)
    BY <1>3 DEF T!File
  <2>4. DOMAIN job' = Clients /\ \A d \in Clients : ReportJob(d)'
    BY <2>3, ReportGoes DEF T!Finished
  <2>5. DOMAIN report' = Filings /\ \A x \in Filings : report'[x] = IF x = r THEN job[c].row ELSE report[x]
    BY <2>1 DEF ReportsSafe
  <2>6. ASSUME NEW x \in T!Filed' PROVE Accounted(report'[x])
    BY <2>2, <2>5 DEF ReportsSafe, T!Filed
  <2> QED BY <2>3, <2>4, <2>5, <2>6 DEF ReportsSafe, Accounted, ReportRow
<1>4. ASSUME NEW c \in Clients, T!Load(c) PROVE ReportsSafe'
  <2>1. PICK r \in T!Filed, op \in {"UNDER_REVIEW"} \cup T!Finished : T!Go(c, op, r, report[r])
    BY <1>4 DEF T!Load
  <2>2. UNCHANGED <<report, target, trail, heard>>
    BY <1>4 DEF T!Load
  <2>3. DOMAIN job' = Clients /\ \A d \in Clients : ReportJob(d)'
    BY <2>1, <2>2, ReportGoes DEF ReportsSafe, T!Finished
  <2> QED BY <2>2, <2>3 DEF ReportsSafe, T!Filed, Accounted, ReportRow
<1>5. ASSUME NEW c \in Clients, T!Save(c) PROVE ReportsSafe'
  <2>1. PICK s \in Staff : /\ report' = [report EXCEPT ![job[c].id] = T!SavedBy(c, s)]
                           /\ T!Go(c, "audit", job[c].id, T!SavedBy(c, s))
    BY <1>5 DEF T!Save
  <2>2. Accounted(T!SavedBy(c, s))
    BY <1>5, SavesAccount DEF T!Save, T!SavedBy, ReportsSafe, ReportJob
  <2>3. UNCHANGED <<target, trail, heard>>
    BY <1>5 DEF T!Save
  <2>4. DOMAIN job' = Clients /\ \A d \in Clients : ReportJob(d)'
    BY <2>1, <2>3, ReportGoes DEF T!Finished
  <2>5. DOMAIN report' = Filings
        /\ \A x \in Filings : report'[x] = IF x = job[c].id THEN T!SavedBy(c, s) ELSE report[x]
    BY <2>1 DEF ReportsSafe
  <2>6. ASSUME NEW x \in T!Filed' PROVE Accounted(report'[x])
    BY <2>2, <2>5 DEF ReportsSafe, T!Filed
  <2> QED BY <2>3, <2>4, <2>5, <2>6 DEF ReportsSafe, Accounted, ReportRow
<1>6. ASSUME NEW c \in Clients, T!Audit(c) PROVE ReportsSafe'
  <2>1. UNCHANGED <<report, target, heard>>
        /\ trail' = trail \cup {[report |-> job[c].id, action |-> job[c].row.status]}
    BY <1>6 DEF T!Audit
  <2>2. T!Go(c, "announce", job[c].id, job[c].row) \/ T!Go(c, "none", None, None)
    BY <1>6 DEF T!Audit
  <2>3. DOMAIN job' = Clients /\ \A d \in Clients : ReportJob(d)'
    BY <2>1, <2>2, ReportGoes DEF T!Finished
  <2> QED BY <2>1, <2>3 DEF ReportsSafe, T!Filed, Accounted, ReportRow
<1>7. ASSUME NEW c \in Clients, T!Announce(c) PROVE ReportsSafe'
  <2>1. UNCHANGED <<report, target, trail>> /\ T!Go(c, "none", None, None)
        /\ heard' = heard \cup {[report |-> job[c].id, action |-> job[c].row.status]}
    BY <1>7 DEF T!Announce
  <2>2. DOMAIN job' = Clients /\ \A d \in Clients : ReportJob(d)'
    BY <2>1, ReportGoes DEF T!Finished
  <2>3. heard' \subseteq trail'
    BY <1>7, <2>1 DEF T!Announce, ReportsSafe, ReportJob
  <2> QED BY <2>1, <2>2, <2>3 DEF ReportsSafe, T!Filed, Accounted, ReportRow
<1>8. ASSUME NEW c \in Clients, T!GiveUp(c) PROVE ReportsSafe'
  <2>1. UNCHANGED <<report, target, trail, heard>> /\ T!Go(c, "none", None, None)
    BY <1>8 DEF T!GiveUp
  <2>2. DOMAIN job' = Clients /\ \A d \in Clients : ReportJob(d)'
    BY <2>1, ReportGoes DEF T!Finished
  <2> QED BY <2>1, <2>2 DEF ReportsSafe, T!Filed, Accounted, ReportRow
<1>9. ASSUME NEW t \in Listings, T!Moderate(t) \/ T!Delete(t) PROVE ReportsSafe'
  <2>1. UNCHANGED <<trail, heard, job>> /\ DOMAIN report' = Filings
    BY <1>9 DEF T!Moderate, T!Delete, ReportsSafe
  <2>2. \A r \in Filings : report'[r] \in {None, report[r]}
    BY <1>9 DEF T!Moderate, T!Delete
  <2> QED BY <2>1, <2>2 DEF ReportsSafe, ReportJob, T!Filed, Accounted, ReportRow
<1> QED BY <1>1, <1>2, <1>3, <1>4, <1>5, <1>6, <1>7, <1>8, <1>9 DEF T!Next

LEMMA ReportsAccount == ReportsSafe => T!Accountable
  BY DEF ReportsSafe, Accounted, T!Accountable
LEMMA ReportsStart == T!Init => ReportsSafe
  BY DEF ReportsSafe, ReportJob, T!Init, T!Idle, T!Filed, T!Finished

-----------------------------------------------------------------------------
(* The staff pages count reports of listings that exist.                   *)

Deciding == {"UNDER_REVIEW"} \cup T!Finished
ReportsPlaced ==
  /\ DOMAIN target = Listings
  /\ \A t \in T!Existing : target[t] \in {"SUBMITTED", "PUBLISHED", "PAUSED"}
  /\ \A r \in T!Filed : report[r].target \in T!Existing
  /\ \A c \in Clients : job[c].op \in Deciding /\ job[c].id \in T!Filed => report[job[c].id].target = job[c].row.target

LEMMA ReportCounts == ASSUME NEW some PROVE T!Cardinality(some) = Cardinality(some)
  BY DEF T!Cardinality, Cardinality

LEMMA PlacesGo ==
  ASSUME ReportsSafe, ReportsPlaced, NEW c \in Clients, NEW op, NEW id, NEW r, T!Go(c, op, id, r),
         UNCHANGED <<report, target>>, op \in Deciding => id \in T!Filed /\ r = report[id]
  PROVE  ReportsPlaced'
<1>1. job'[c] = [op |-> op, id |-> id, row |-> r] /\ \A d \in Clients \ {c} : job'[d] = job[d]
  BY DEF ReportsSafe, T!Go
<1>2. ASSUME NEW d \in Clients, job'[d].op \in Deciding, job'[d].id \in T!Filed
      PROVE  report[job'[d].id].target = job'[d].row.target
  BY <1>1, <1>2 DEF ReportsPlaced
<1>3. T!Filed' = T!Filed /\ T!Existing' = T!Existing /\ Deciding' = Deciding
  BY DEF T!Filed, T!Existing, Deciding, T!Finished
<1> QED BY <1>2, <1>3 DEF ReportsPlaced

LEMMA PlacesKeep == ASSUME ReportsSafe, ReportsPlaced, [T!Next]_(T!vars) PROVE ReportsPlaced'
<1> USE DEF Deciding, T!Finished
<1>1. CASE UNCHANGED T!vars
  BY <1>1 DEF T!vars, ReportsPlaced, T!Filed, T!Existing
<1>2. ASSUME NEW c \in Clients, T!Write(c) \/ T!Load(c) \/ T!Audit(c) \/ T!Announce(c) \/ T!GiveUp(c)
      PROVE  ReportsPlaced'
  <2>1. UNCHANGED <<report, target>>
    BY <1>2 DEF T!Write, T!Load, T!Audit, T!Announce, T!GiveUp
  <2>2. \E op, id, r : T!Go(c, op, id, r) /\ (op \in Deciding => id \in T!Filed /\ r = report[id])
    <3>1. CASE T!Write(c)
      <4>1. \E r : T!Go(c, "file", None, r)
        BY <3>1 DEF T!Write
      <4> QED BY <4>1
    <3>2. CASE T!Load(c)
      <4>1. PICK r \in T!Filed, op \in Deciding : T!Go(c, op, r, report[r])
        BY <3>2 DEF T!Load
      <4> QED BY <4>1
    <3>3. CASE T!Audit(c) \/ T!Announce(c) \/ T!GiveUp(c)
      <4>1. T!Go(c, "announce", job[c].id, job[c].row) \/ T!Go(c, "none", None, None)
        BY <3>3 DEF T!Audit, T!Announce, T!GiveUp
      <4> QED BY <4>1
    <3> QED BY <1>2, <3>1, <3>2, <3>3
  <2> QED BY <2>1, <2>2, PlacesGo
<1>3. ASSUME NEW c \in Clients, T!File(c) PROVE ReportsPlaced'
  <2>1. PICK r \in Filings : /\ r \notin T!Filed /\ \A d \in Clients : job[d].id # r
                             /\ report' = [report EXCEPT ![r] = job[c].row]
    BY <1>3 DEF T!File
  <2>2. /\ target[job[c].row.target] # None /\ UNCHANGED target /\ job[c].op = "file"
        /\ job' = [job EXCEPT ![c] = [op |-> "none", id |-> None, row |-> None]]
    BY <1>3 DEF T!File, T!Go
  <2>3. job[c].row.target \in T!Existing
    BY <2>2 DEF ReportsSafe, ReportJob, Accounted, ReportRow, T!Existing
  <2>4. \A x \in Filings : report'[x] = IF x = r THEN job[c].row ELSE report[x]
    BY <2>1 DEF ReportsSafe
  <2>5. T!Existing' = T!Existing
    BY <2>2 DEF T!Existing
  <2>6. \A x \in T!Filed' : report'[x].target \in T!Existing
    BY <2>3, <2>4 DEF ReportsPlaced, T!Filed
  <2>7. ASSUME NEW d \in Clients, job'[d].op \in Deciding, job'[d].id \in T!Filed'
        PROVE  report'[job'[d].id].target = job'[d].row.target
    <3>1. job'[d] = job[d] /\ job[d].id # r
      BY <2>1, <2>2, <2>7 DEF ReportsSafe
    <3>2. job[d].id \in T!Filed
      BY <2>4, <2>7, <3>1 DEF T!Filed
    <3> QED BY <2>4, <2>7, <3>1, <3>2 DEF ReportsPlaced, T!Filed
  <2> QED BY <2>2, <2>5, <2>6, <2>7 DEF ReportsPlaced
<1>4. ASSUME NEW c \in Clients, T!Save(c) PROVE ReportsPlaced'
  <2>1. PICK s \in Staff : /\ report' = [report EXCEPT ![job[c].id] = T!SavedBy(c, s)]
                           /\ T!Go(c, "audit", job[c].id, T!SavedBy(c, s))
    BY <1>4 DEF T!Save
  <2>2. job[c].op \in Deciding /\ report[job[c].id] # None /\ UNCHANGED target /\ Accounted(job[c].row)
    BY <1>4 DEF T!Save, ReportsSafe, ReportJob
  <2>3. T!SavedBy(c, s).target = job[c].row.target
    BY <2>2 DEF T!SavedBy, T!Assigned, T!Settled, Accounted, ReportRow
  <2>4. \A x \in Filings : report'[x] = IF x = job[c].id THEN T!SavedBy(c, s) ELSE report[x]
    BY <2>1 DEF ReportsSafe
  <2>5. \A x \in T!Filed' : x \in T!Filed /\ report'[x].target = report[x].target
    BY <2>2, <2>3, <2>4 DEF ReportsPlaced, T!Filed
  <2>6. T!Existing' = T!Existing
    BY <2>2 DEF T!Existing
  <2>7. ASSUME NEW d \in Clients, job'[d].op \in Deciding, job'[d].id \in T!Filed'
        PROVE  report'[job'[d].id].target = job'[d].row.target
    <3>1. d # c /\ job'[d] = job[d]
      BY <2>1, <2>7 DEF ReportsSafe, T!Go
    <3> QED BY <2>5, <2>7, <3>1 DEF ReportsPlaced
  <2> QED BY <2>2, <2>5, <2>6, <2>7 DEF ReportsPlaced
<1>5. ASSUME NEW t \in Listings, T!Moderate(t) PROVE ReportsPlaced'
  <2>1. PICK s \in {"SUBMITTED", "PUBLISHED", "PAUSED"} : target' = [target EXCEPT ![t] = s]
    BY <1>5 DEF T!Moderate
  <2>2. UNCHANGED <<report, job>> /\ target[t] # None /\ s # None
    BY <1>5, Constants DEF T!Moderate, T!Terms
  <2>3. DOMAIN target' = Listings /\ target'[t] = s /\ \A x \in Listings \ {t} : target'[x] = target[x]
    BY <2>1 DEF ReportsPlaced
  <2>4. T!Existing' = T!Existing /\ T!Filed' = T!Filed
    BY <2>2, <2>3 DEF T!Existing, T!Filed
  <2>5. \A x \in T!Existing : target'[x] \in {"SUBMITTED", "PUBLISHED", "PAUSED"}
    BY <2>1, <2>3 DEF ReportsPlaced, T!Existing
  <2> QED BY <2>2, <2>3, <2>4, <2>5 DEF ReportsPlaced
<1>6. ASSUME NEW t \in Listings, T!Delete(t) PROVE ReportsPlaced'
  <2>1. /\ target' = [target EXCEPT ![t] = None] /\ UNCHANGED job
        /\ report' = [r \in Filings |-> IF r \in T!On(t) THEN None ELSE report[r]]
    BY <1>6 DEF T!Delete
  <2>2. DOMAIN target' = Listings /\ target'[t] = None /\ \A x \in Listings \ {t} : target'[x] = target[x]
    BY <2>1 DEF ReportsPlaced
  <2>3. T!Existing' = T!Existing \ {t}
    BY <2>2 DEF T!Existing
  <2>4. \A x \in T!Filed' : x \in T!Filed /\ x \notin T!On(t) /\ report'[x] = report[x]
    BY <2>1 DEF T!Filed
  <2>5. \A x \in T!Filed' : report'[x].target # t
    BY <2>4 DEF T!On
  <2> QED BY <2>1, <2>2, <2>3, <2>4, <2>5 DEF ReportsPlaced
<1> QED BY <1>1, <1>2, <1>3, <1>4, <1>5, <1>6 DEF T!Next

LEMMA PlacesStart == T!Init => ReportsPlaced
  BY DEF ReportsPlaced, T!Init, T!Idle, T!Filed, T!Existing, T!Finished, Deciding

\* The two sums of the staff pages, as the fold computes them.
StatusTotal == T!MapThenSumSet(LAMBDA s : T!StaysSummary[s], T!STAFF_REVIEW_STATUSES)
ReportTotal == T!MapThenSumSet(T!open_reports_count, T!Existing)

LEMMA StatusSum ==
  ASSUME NEW f, f = [s \in T!STAFF_REVIEW_STATUSES |-> T!StaysSummary[s]],
         NEW some, Adds(some, T!STAFF_REVIEW_STATUSES, f)
  PROVE  \E g : StatusTotal = g[T!STAFF_REVIEW_STATUSES] /\ Adds(g, T!STAFF_REVIEW_STATUSES, f)
<1> DEFINE keys == T!STAFF_REVIEW_STATUSES
<1> DEFINE Sum(g) == g = [s \in SUBSET keys |->
                            IF s = {} THEN 0 ELSE T!StaysSummary[Picked(s)] + g[s \ {Picked(s)}]]
<1>1. StatusTotal = (CHOOSE g : Sum(g))[keys]
  BY DEF StatusTotal, T!MapThenSumSet, T!MapThenFoldSet, Picked
<1>2. ASSUME NEW g PROVE Sum(g) <=> Adds(g, keys, f)
  <2>1. \A s \in SUBSET keys : s # {} => Picked(s) \in keys
    BY DEF Picked
  <2> QED BY <2>1 DEF Adds
<1>3. Sum(some)
  BY <1>2
<1> HIDE DEF Sum
<1>4. Sum(CHOOSE g : Sum(g))
  BY <1>3
<1> QED BY <1>1, <1>2, <1>4

LEMMA ReportSum ==
  ASSUME NEW f, f = [t \in T!Existing |-> T!open_reports_count(t)], NEW some, Adds(some, T!Existing, f)
  PROVE  \E g : ReportTotal = g[T!Existing] /\ Adds(g, T!Existing, f)
<1> DEFINE keys == T!Existing
<1> DEFINE Sum(g) == g = [s \in SUBSET keys |->
                            IF s = {} THEN 0 ELSE T!open_reports_count(Picked(s)) + g[s \ {Picked(s)}]]
<1>1. ReportTotal = (CHOOSE g : Sum(g))[keys]
  BY DEF ReportTotal, T!MapThenSumSet, T!MapThenFoldSet, Picked
<1>2. ASSUME NEW g PROVE Sum(g) <=> Adds(g, keys, f)
  <2>1. \A s \in SUBSET keys : s # {} => Picked(s) \in keys
    BY DEF Picked
  <2> QED BY <2>1 DEF Adds
<1>3. Sum(some)
  BY <1>2
<1> HIDE DEF Sum
<1>4. Sum(CHOOSE g : Sum(g))
  BY <1>3
<1> QED BY <1>1, <1>2, <1>4

LEMMA StatusesFinite == IsFiniteSet(T!STAFF_REVIEW_STATUSES)
<1>1. \A x : IsFiniteSet({x})
  BY FS_Singleton
<1>2. \A a, b : IsFiniteSet({a, b})
  <2> SUFFICES ASSUME NEW a, NEW b PROVE IsFiniteSet({a, b})
    OBVIOUS
  <2>1. {a, b} = {a} \cup {b}
    OBVIOUS
  <2>2. IsFiniteSet({a} \cup {b})
    BY <1>1, FS_Union
  <2> QED BY <2>1, <2>2
<1> DEFINE one == {"SUBMITTED", "UNDER_REVIEW"}
<1> DEFINE two == {"CHANGES_REQUESTED", "REJECTED"}
<1> DEFINE three == {"PUBLISHED", "SUSPENDED"}
<1>3. T!STAFF_REVIEW_STATUSES = (one \cup two) \cup three
  BY DEF T!STAFF_REVIEW_STATUSES
<1>4. IsFiniteSet(one) /\ IsFiniteSet(two) /\ IsFiniteSet(three)
  BY <1>2
<1> HIDE DEF one, two, three
<1> QED BY <1>3, <1>4, FS_Union

LEMMA StatusesCounted ==
  ASSUME ReportsPlaced PROVE Cardinality(T!StaysQueue({})) = StatusTotal
<1> DEFINE keys == T!STAFF_REVIEW_STATUSES
<1> DEFINE part == [s \in keys |-> {t \in T!Existing : target[t] = s}]
<1>0. PICK f : f = [s \in keys |-> T!StaysSummary[s]]
  OBVIOUS
<1>1. Parts(keys, part, Listings, f)
  <2>1. IsFiniteSet(keys) /\ IsFiniteSet(Listings)
    BY StatusesFinite, Countable
  <2>2. \A s \in keys : part[s] \subseteq Listings
    BY DEF T!Existing
  <2>3. \A s \in keys : f[s] = Cardinality(part[s])
    BY <1>0, ReportCounts DEF T!StaysSummary
  <2>4. \A s, o \in keys : s # o => part[s] \cap part[o] = {}
    OBVIOUS
  <2> QED BY <2>1, <2>2, <2>3, <2>4 DEF Parts
<1>2. Within(part, Listings, keys) = T!StaysQueue({})
  <2>1. \A t \in Listings : (\E s \in keys : t \in part[s]) <=> t \in T!Existing /\ target[t] \in keys
    BY DEF T!Existing
  <2>2. \A t \in T!Existing : target[t] \in keys <=> target[t] \notin {"DRAFT", "PAUSED"}
    BY DEF ReportsPlaced, T!STAFF_REVIEW_STATUSES
  <2> HIDE DEF part, keys
  <2> QED BY <2>1, <2>2 DEF Within, T!StaysQueue, T!Existing
<1> HIDE DEF part
<1>3. PICK some : Adds(some, keys, f)
  BY <1>1, SumExists
<1>4. PICK g : StatusTotal = g[keys] /\ Adds(g, keys, f)
  BY <1>0, <1>3, StatusSum
<1> QED BY <1>1, <1>2, <1>4, SumCounts

OpenOrReviewed == {r \in T!Filed : report[r].status \in T!Unsettled}
LEMMA ReportsCounted ==
  ASSUME ReportsPlaced PROVE ReportTotal = Cardinality(OpenOrReviewed)
<1> DEFINE keys == T!Existing
<1> DEFINE part == [t \in keys |-> {r \in T!On(t) : report[r].status \in T!Unsettled}]
<1>0. PICK f : f = [t \in keys |-> T!open_reports_count(t)]
  OBVIOUS
<1>1. Parts(keys, part, Filings, f)
  <2>1. IsFiniteSet(keys) /\ IsFiniteSet(Filings)
    BY Countable, FS_Subset DEF T!Existing
  <2>2. \A t \in keys : part[t] \subseteq Filings
    BY DEF T!On, T!Filed
  <2>3. \A t \in keys : f[t] = Cardinality(part[t])
    BY <1>0, ReportCounts DEF T!open_reports_count
  <2>4. \A t, o \in keys : t # o => part[t] \cap part[o] = {}
    BY DEF T!On
  <2> QED BY <2>1, <2>2, <2>3, <2>4 DEF Parts
<1>2. Within(part, Filings, keys) = OpenOrReviewed
  BY DEF Within, OpenOrReviewed, T!On, T!Filed, ReportsPlaced
<1> HIDE DEF part
<1>3. PICK some : Adds(some, keys, f)
  BY <1>1, SumExists
<1>4. PICK g : ReportTotal = g[keys] /\ Adds(g, keys, f)
  BY <1>0, <1>3, ReportSum
<1> QED BY <1>1, <1>2, <1>4, SumCounts

LEMMA StaffPagesCount == ASSUME ReportsPlaced PROVE T!CountsAgree
<1>1. /\ T!Summary.awaiting_review = T!Cardinality(T!Queue(T!Pending)) /\ T!Summary.latest = T!Queue(T!Pending)
      /\ T!Queue(T!Pending) \subseteq T!Queue({})
  BY DEF T!Summary, T!Queue, T!Pending, T!STAFF_REVIEW_STATUSES
<1>2. T!Cardinality(T!StaysQueue({})) = StatusTotal
  BY StatusesCounted, ReportCounts
<1>3. \A s \in T!STAFF_REVIEW_STATUSES : T!Cardinality(T!StaysQueue({s})) = T!StaysSummary[s]
  <2> SUFFICES ASSUME NEW s \in T!STAFF_REVIEW_STATUSES
               PROVE  T!Cardinality(T!StaysQueue({s})) = T!StaysSummary[s]
    OBVIOUS
  <2>1. T!StaysQueue({s}) = {t \in T!Existing : target[t] = s}
    BY DEF T!StaysQueue
  <2> QED BY <2>1 DEF T!StaysSummary
<1>4. ReportTotal = T!Summary.open_reports + T!Cardinality({r \in T!Filed : report[r].status = "UNDER_REVIEW"})
  <2> DEFINE open == {r \in T!Filed : report[r].status = "OPEN"}
  <2> DEFINE reviewed == {r \in T!Filed : report[r].status = "UNDER_REVIEW"}
  <2>1. IsFiniteSet(open) /\ IsFiniteSet(reviewed)
    BY Countable, FS_Subset DEF T!Filed
  <2>2. OpenOrReviewed = open \cup reviewed /\ open \cap reviewed = {}
    BY DEF OpenOrReviewed, T!Unsettled
  <2>3. T!Summary.open_reports = Cardinality(open)
    BY ReportCounts DEF T!Summary
  <2>4. T!Cardinality(reviewed) = Cardinality(reviewed)
    BY ReportCounts
  <2> HIDE DEF open, reviewed
  <2>5. Cardinality(open \cap reviewed) = 0 /\ Cardinality(open) \in Nat /\ Cardinality(reviewed) \in Nat
    BY <2>1, <2>2, FS_EmptySet, FS_CardinalityType
  <2>6. Cardinality(open \cup reviewed) = Cardinality(open) + Cardinality(reviewed) - Cardinality(open \cap reviewed)
    BY <2>1, FS_Union
  <2>7. ReportTotal = Cardinality(open) + Cardinality(reviewed)
    BY <2>2, <2>5, <2>6, ReportsCounted
  <2> QED BY <2>3, <2>4, <2>7 DEF reviewed
<1> QED BY <1>1, <1>2, <1>3, <1>4 DEF T!CountsAgree, StatusTotal, ReportTotal

-----------------------------------------------------------------------------
(* The edit form.  What a form or a copy brings was right when it was      *)
(* validated, and stays right: nobody who was in the team loses a profile. *)

Newborn == [agency: {None, Agency}, agent: Guests \cup {None}, complete: BOOLEAN]
OneField == [{"complete"} -> BOOLEAN] \cup [{"agent"} -> Guests \cup {None}]
InTeam(agent, agency) == agent # None => agency = Agency /\ member[agent] # None
RowFits(r) == r \in E!Rows /\ InTeam(r.agent, r.agency)

EditFits(j) ==
  /\ j.op = "create" => /\ j.form \in Newborn /\ j.by \in Guests \cup Staff
                        /\ InTeam(j.form.agent, j.form.agency)
  /\ j.op = "edit" => /\ j.row \in E!Rows /\ j.form \in OneField /\ RowFits(listing)
                      /\ "agent" \in DOMAIN j.form => InTeam(j.form["agent"], j.row.agency)
                      /\ form = "property" /\ j.row.status = "PUBLISHED" /\ "complete" \in DOMAIN j.form
                           => j.form["complete"]
  /\ j.op \in DOMAIN E!To => RowFits(listing)
  /\ j.op \in {"submit", "approve"} => j.row.complete = TRUE
  /\ j.op = "pause" => RowFits(j.row)

EditsSafe ==
  /\ DOMAIN job = Clients /\ member \in [Guests -> BOOLEAN \cup {None}] /\ unseen \in BOOLEAN
  /\ form \in {"property", "stay"}
  /\ listing = None \/ RowFits(listing)
  /\ E!PublishedComplete
  /\ \A c \in Clients : EditFits(job[c])

LEMMA NamesOfDecisions == DOMAIN E!To = {"submit", "approve", "suspend", "restore", "pause"}
  BY DEF E!To

LEMMA WrittenIs ==
  ASSUME NEW r \in E!Rows, NEW f \in OneField
  PROVE  /\ E!Written(f, r) \in E!Rows
         /\ E!Written(f, r).owner = r.owner /\ E!Written(f, r).agency = r.agency
         /\ E!Written(f, r).status = r.status
         /\ E!Written(f, r).agent = IF "agent" \in DOMAIN f THEN f["agent"] ELSE r.agent
         /\ E!Written(f, r).complete = IF "complete" \in DOMAIN f THEN f["complete"] ELSE r.complete
<1>1. DOMAIN r = {"owner", "agency", "agent", "status", "complete"}
  BY DEF E!Rows
<1>2. DOMAIN f \in {{"complete"}, {"agent"}}
  BY DEF OneField
<1>3. E!Written(f, r) = [owner |-> r.owner, agency |-> r.agency,
                         agent |-> IF "agent" \in DOMAIN f THEN f["agent"] ELSE r.agent,
                         status |-> r.status,
                         complete |-> IF "complete" \in DOMAIN f THEN f["complete"] ELSE r.complete]
  BY <1>1, <1>2 DEF E!Written
<1>4. "agent" \in DOMAIN f => f["agent"] \in Guests \cup {None}
  BY DEF OneField
<1>5. "complete" \in DOMAIN f => f["complete"] \in BOOLEAN
  BY DEF OneField
<1> QED BY <1>3, <1>4, <1>5 DEF E!Rows

\* A job that is not touched stays as good as it was.
LEMMA EditStays ==
  ASSUME NEW j, EditFits(j), UNCHANGED form, RowFits(listing) => RowFits(listing)',
         \A u : member[u] # None => member'[u] # None
  PROVE  EditFits(j)'
  BY DEF EditFits, InTeam, RowFits

\* A step of one request: its own job fits afterwards, and the row is as good as it was.
LEMMA EditMoves ==
  ASSUME EditsSafe, NEW c \in Clients, DOMAIN job' = Clients, EditFits(job[c])',
         \A d \in Clients \ {c} : job'[d] = job[d],
         UNCHANGED <<form, member>>, unseen' \in BOOLEAN,
         RowFits(listing) => RowFits(listing)', listing' = None \/ RowFits(listing)',
         E!PublishedComplete'
  PROVE  EditsSafe'
<1>2. ASSUME NEW d \in Clients PROVE EditFits(job[d])'
  <2>1. CASE d = c
    BY <2>1
  <2>2. CASE d # c
    <3>1. EditFits(job[d]) /\ job'[d] = job[d]
      BY <2>2 DEF EditsSafe
    <3> QED BY <3>1 DEF EditFits, RowFits, InTeam
  <2> QED BY <2>1, <2>2
<1> QED BY <1>2 DEF EditsSafe

\* The end of a request.
LEMMA EditEnds ==
  ASSUME EditsSafe, NEW c \in Clients, E!Finish(c), UNCHANGED <<form, member>>, unseen' \in BOOLEAN,
         RowFits(listing)', E!PublishedComplete'
  PROVE  EditsSafe'
<1>1. /\ DOMAIN job' = Clients /\ job'[c] = E!Idle
      /\ \A d \in Clients \ {c} : job'[d] = job[d]
  BY DEF EditsSafe, E!Finish
<1>6. EditFits(job[c])'
  BY <1>1 DEF E!Idle, EditFits, E!To
<1> QED BY <1>1, <1>6, EditMoves

LEMMA EditIdle ==
  ASSUME EditsSafe, NEW c \in Clients, E!Finish(c), UNCHANGED <<form, listing, member, unseen>>
  PROVE  EditsSafe'
<1>1. /\ DOMAIN job' = Clients /\ job'[c] = E!Idle
      /\ \A d \in Clients \ {c} : job'[d] = job[d]
  BY DEF EditsSafe, E!Finish
<1>6. EditFits(job[c])'
  BY <1>1 DEF E!Idle, EditFits, E!To
<1>2. E!PublishedComplete'
  BY DEF EditsSafe, E!PublishedComplete
<1>3. listing' = None \/ RowFits(listing)'
  BY DEF EditsSafe, RowFits, InTeam
<1>4. RowFits(listing) => RowFits(listing)'
  BY DEF RowFits, InTeam
<1>5. unseen' \in BOOLEAN
  BY DEF EditsSafe
<1> QED BY <1>1, <1>2, <1>3, <1>4, <1>5, <1>6, EditMoves

\* A request that begins changes no row.
LEMMA EditBegins ==
  ASSUME EditsSafe, NEW c \in Clients, NEW op, NEW u, NEW f, E!Start(c, op, u, f),
         UNCHANGED <<form, listing, member, unseen>>,
         EditFits([op |-> op, by |-> u, row |-> listing, form |-> f])
  PROVE  EditsSafe'
<1>1. /\ DOMAIN job' = Clients /\ job'[c] = [op |-> op, by |-> u, row |-> listing, form |-> f]
      /\ \A d \in Clients \ {c} : job'[d] = job[d]
  BY DEF EditsSafe, E!Start
<1>2. E!PublishedComplete'
  BY DEF EditsSafe, E!PublishedComplete
<1>3. listing' = None \/ RowFits(listing)'
  BY DEF EditsSafe, RowFits, InTeam
<1>4. RowFits(listing) => RowFits(listing)'
  BY DEF RowFits, InTeam
<1>5. unseen' \in BOOLEAN
  BY DEF EditsSafe
<1>6. EditFits(job[c])'
  BY <1>1 DEF EditFits, RowFits, InTeam
<1> QED BY <1>1, <1>2, <1>3, <1>4, <1>5, <1>6, EditMoves

LEMMA ValidateNewKeeps ==
  ASSUME EditsSafe, NEW c \in Clients, NEW u \in Guests \cup Staff, E!ValidateNew(c, u)
  PROVE  EditsSafe'
<1>0. PICK agency \in {None, Agency}, complete \in BOOLEAN :
        \E agent \in {None} \cup {v \in Guests : agency # None /\ member[v] # None} :
          E!Start(c, "create", u, [agency |-> agency, agent |-> agent, complete |-> complete])
  BY DEF E!ValidateNew
<1>1. PICK agent \in {None} \cup {v \in Guests : agency # None /\ member[v] # None} :
        E!Start(c, "create", u, [agency |-> agency, agent |-> agent, complete |-> complete])
  BY <1>0
<1>2. EditFits([op |-> "create", by |-> u, row |-> listing,
                form |-> [agency |-> agency, agent |-> agent, complete |-> complete]])
  BY DEF EditFits, Newborn, InTeam, E!To
<1> QED BY <1>1, <1>2, EditBegins DEF E!ValidateNew

LEMMA ValidateEditKeeps ==
  ASSUME EditsSafe, NEW c \in Clients, NEW u \in Guests \cup Staff, E!ValidateEdit(c, u)
  PROVE  EditsSafe'
<1>1. RowFits(listing) /\ listing \in E!Rows
  BY DEF E!ValidateEdit, EditsSafe, RowFits
<1>2. PICK f \in E!Forms(listing.agency) :
        /\ form = "property" /\ E!Written(f, listing).status = "PUBLISHED" => E!Written(f, listing).complete
        /\ E!Start(c, "edit", u, f)
  BY DEF E!ValidateEdit
<1>3. f \in OneField
  BY <1>2 DEF E!Forms, OneField
<1>4. "agent" \in DOMAIN f => InTeam(f["agent"], listing.agency)
  BY <1>1, <1>2 DEF E!Forms, InTeam, E!Rows
<1>5. form = "property" /\ listing.status = "PUBLISHED" /\ "complete" \in DOMAIN f => f["complete"]
  BY <1>1, <1>2, <1>3, WrittenIs
<1>6. EditFits([op |-> "edit", by |-> u, row |-> listing, form |-> f])
  BY <1>1, <1>3, <1>4, <1>5 DEF EditFits, E!To
<1> QED BY <1>2, <1>6, EditBegins DEF E!ValidateEdit

LEMMA CreateKeeps == ASSUME EditsSafe, NEW c \in Clients, E!Create(c) PROVE EditsSafe'
<1>1. EditFits(job[c]) /\ job[c].op = "create"
  BY DEF EditsSafe, E!Create
<1>2. /\ listing' = [owner |-> job[c].by, agency |-> job[c].form.agency, agent |-> job[c].form.agent,
                     status |-> "DRAFT", complete |-> job[c].form.complete]
      /\ E!Finish(c) /\ UNCHANGED <<form, member, unseen>>
  BY DEF E!Create
<1>3. RowFits(listing)'
  BY <1>1, <1>2 DEF EditFits, RowFits, E!Rows, InTeam, Newborn, E!Statuses
<1>4. E!PublishedComplete'
  BY <1>2 DEF E!PublishedComplete
<1>5. unseen' \in BOOLEAN
  BY <1>2 DEF EditsSafe
<1> QED BY <1>2, <1>3, <1>4, <1>5, EditEnds

LEMMA EditKeeps == ASSUME EditsSafe, NEW c \in Clients, E!Edit(c) PROVE EditsSafe'
<1> DEFINE r == job[c].row  f == job[c].form
<1>1. /\ r \in E!Rows /\ f \in OneField /\ RowFits(listing) /\ listing \in E!Rows
      /\ "agent" \in DOMAIN f => InTeam(f["agent"], r.agency)
      /\ form = "property" /\ r.status = "PUBLISHED" /\ "complete" \in DOMAIN f => f["complete"]
  BY DEF EditsSafe, EditFits, E!Edit, RowFits
<1>2. /\ listing' = E!Written(f, listing) /\ r.agency = listing.agency
      /\ unseen' = (unseen \/ (listing'.status = "PUBLISHED" /\ (form = "stay" \/ r.status # "PUBLISHED")))
      /\ E!Finish(c) /\ UNCHANGED <<form, member>>
  BY DEF E!Edit, E!Confirmed, E!Scope
<1> HIDE DEF r, f
<1>3. /\ listing' \in E!Rows /\ listing'.agency = listing.agency /\ listing'.status = listing.status
      /\ listing'.agent = IF "agent" \in DOMAIN f THEN f["agent"] ELSE listing.agent
      /\ listing'.complete = IF "complete" \in DOMAIN f THEN f["complete"] ELSE listing.complete
  BY <1>1, <1>2, WrittenIs
<1>4. RowFits(listing)'
  BY <1>1, <1>2, <1>3 DEF RowFits, InTeam
<1>5. unseen' \in BOOLEAN
  BY <1>2 DEF EditsSafe
<1>6. form \in {"property", "stay"}
  BY DEF EditsSafe
<1>7. E!PublishedComplete'
  <2> SUFFICES ASSUME listing' # None, listing'.status = "PUBLISHED", ~unseen' PROVE listing'.complete
    BY DEF E!PublishedComplete
  <2>1. ~unseen /\ form = "property" /\ r.status = "PUBLISHED"
    BY <1>2, <1>6 DEF EditsSafe
  <2>2. listing # None
    BY <1>1, Constants DEF E!Terms
  <2> QED BY <1>1, <1>3, <2>1, <2>2 DEF EditsSafe, E!PublishedComplete
<1> QED BY <1>2, <1>4, <1>5, <1>7, EditEnds

LEMMA EditLoadKeeps ==
  ASSUME EditsSafe, NEW c \in Clients, NEW op \in DOMAIN E!To, E!Load(c, op) PROVE EditsSafe'
<1>1. /\ listing # None /\ E!Allowed(op, listing) /\ E!Start(c, op, None, <<>>)
      /\ UNCHANGED <<form, listing, member, unseen>>
  BY DEF E!Load
<1>2. RowFits(listing) /\ listing.complete \in BOOLEAN
  BY <1>1 DEF EditsSafe, RowFits, E!Rows
<1>3. op \in {"submit", "approve"} => listing.complete = TRUE
  BY <1>1, <1>2 DEF E!Allowed, E!Checks
<1>4. op \in {"submit", "approve", "suspend", "restore", "pause"}
  BY NamesOfDecisions
<1>5. EditFits([op |-> op, by |-> None, row |-> listing, form |-> <<>>])
  BY <1>2, <1>3, <1>4 DEF EditFits
<1> QED BY <1>1, <1>5, EditBegins

LEMMA DecisionLeads == ASSUME NEW op \in DOMAIN E!To PROVE E!To[op] \in E!Statuses
  BY DEF E!To, E!Statuses

\* A decision changes the status of the row; what it publishes is complete or was not looked at.
LEMMA DecisionKeeps ==
  ASSUME EditsSafe, RowFits(listing), NEW op \in DOMAIN E!To,
         listing' = [listing EXCEPT !.status = E!To[op]], UNCHANGED <<form, member>>,
         unseen => unseen' , E!To[op] = "PUBLISHED" => unseen' \/ listing.complete
  PROVE  RowFits(listing)' /\ E!PublishedComplete'
<1>1. E!To[op] \in E!Statuses
  BY DecisionLeads
<1> DEFINE s == E!To[op]
<1> HIDE DEF s
<1>2. listing \in E!Rows
  BY DEF RowFits
<1>3. /\ listing' \in E!Rows /\ listing'.agent = listing.agent /\ listing'.agency = listing.agency
      /\ listing'.status = E!To[op] /\ listing'.complete = listing.complete
  BY <1>1, <1>2 DEF E!Rows
<1>4. RowFits(listing)'
  BY <1>3 DEF RowFits, InTeam
<1>5. E!PublishedComplete'
  BY <1>3 DEF E!PublishedComplete
<1> QED BY <1>4, <1>5

LEMMA DecisionWriteKeeps == ASSUME EditsSafe, NEW c \in Clients, E!Write(c) PROVE EditsSafe'
<1> DEFINE op == job[c].op
<1>1. /\ op \in DOMAIN E!To /\ form = "property" /\ listing' = [listing EXCEPT !.status = E!To[op]]
      /\ unseen' = (unseen \/ op = "restore"
                    \/ (E!To[op] = "PUBLISHED" /\ listing.complete # job[c].row.complete))
      /\ E!Finish(c) /\ UNCHANGED <<form, member>>
  BY DEF E!Write
<1>2. EditFits(job[c])
  BY DEF EditsSafe
<1>3. RowFits(listing)
  BY <1>1, <1>2 DEF EditFits
<1>4. unseen' \in BOOLEAN /\ (unseen => unseen')
  BY <1>1 DEF EditsSafe
<1>5. E!To[op] = "PUBLISHED" => unseen' \/ listing.complete
  <2>1. E!To[op] = "PUBLISHED" => op \in {"approve", "restore"}
    BY <1>1 DEF E!To
  <2>2. op = "approve" => job[c].row.complete = TRUE
    BY <1>2 DEF EditFits
  <2> QED BY <1>1, <2>1, <2>2
<1>6. RowFits(listing)' /\ E!PublishedComplete'
  BY <1>1, <1>3, <1>4, <1>5, DecisionKeeps
<1> QED BY <1>1, <1>4, <1>6, EditEnds

LEMMA WriteAllKeeps == ASSUME EditsSafe, NEW c \in Clients, E!WriteAll(c) PROVE EditsSafe'
<1>1. /\ job[c].op = "pause" /\ listing' = [job[c].row EXCEPT !.status = "PAUSED"]
      /\ E!Finish(c) /\ UNCHANGED <<form, member, unseen>>
  BY DEF E!WriteAll
<1>2. RowFits(job[c].row)
  BY <1>1 DEF EditsSafe, EditFits
<1>3. RowFits(listing)'
  BY <1>1, <1>2 DEF RowFits, InTeam, E!Rows, E!Statuses
<1>4. E!PublishedComplete'
  BY <1>1, <1>2 DEF E!PublishedComplete, RowFits, E!Rows
<1>5. unseen' \in BOOLEAN
  BY <1>1 DEF EditsSafe
<1> QED BY <1>1, <1>3, <1>4, <1>5, EditEnds

\* What happens to the row or the team outside the form leaves every job as good as it was.
LEMMA EditOutside ==
  ASSUME EditsSafe, UNCHANGED <<form, job, unseen>>,
         member' \in [Guests -> BOOLEAN \cup {None}], \A u : member[u] # None => member'[u] # None,
         RowFits(listing) => RowFits(listing)', listing' = None \/ RowFits(listing)', E!PublishedComplete'
  PROVE  EditsSafe'
<1>1. ASSUME NEW c \in Clients PROVE EditFits(job[c])'
  BY EditStays DEF EditsSafe
<1> QED BY <1>1 DEF EditsSafe

LEMMA DecideKeeps == ASSUME EditsSafe, NEW op \in DOMAIN E!To, E!Decide(op) PROVE EditsSafe'
<1>1. /\ listing # None /\ form = "stay" /\ E!Allowed(op, listing)
      /\ listing' = [listing EXCEPT !.status = E!To[op]] /\ UNCHANGED <<form, member, job, unseen>>
  BY DEF E!Decide
<1>2. RowFits(listing)
  BY <1>1 DEF EditsSafe
<1>3. E!To[op] = "PUBLISHED" => op \in {"approve", "restore"}
  BY DEF E!To
<1>4. E!To[op] = "PUBLISHED" => listing.complete
  BY <1>1, <1>3 DEF E!Allowed, E!Checks
<1>5. RowFits(listing)' /\ E!PublishedComplete'
  BY <1>1, <1>2, <1>4, DecisionKeeps
<1> QED BY <1>1, <1>5, EditOutside DEF EditsSafe

LEMMA HandoverKeeps == ASSUME EditsSafe, E!Transfer PROVE EditsSafe'
<1>1. PICK u \in Guests, a \in {None, Agency} :
        listing' = [listing EXCEPT !.owner = u, !.agency = a, !.agent = None]
  BY Zenon DEF E!Transfer
<1>2. listing # None /\ UNCHANGED <<form, member, job, unseen>>
  BY DEF E!Transfer
<1>3. listing \in E!Rows
  BY <1>2 DEF EditsSafe, RowFits
<1>4. /\ listing' \in E!Rows /\ listing'.agent = None
      /\ listing'.status = listing.status /\ listing'.complete = listing.complete
  BY <1>1, <1>3 DEF E!Rows
<1>5. RowFits(listing)'
  BY <1>4 DEF RowFits, InTeam
<1>6. E!PublishedComplete'
  BY <1>2, <1>4 DEF EditsSafe, E!PublishedComplete
<1> QED BY <1>2, <1>5, <1>6, EditOutside DEF EditsSafe

LEMMA TeamKeeps == ASSUME EditsSafe, NEW u \in Guests, E!Join(u) \/ E!Leave(u) PROVE EditsSafe'
<1>1. PICK active \in BOOLEAN : member' = [member EXCEPT ![u] = active]
  BY DEF E!Join, E!Leave
<1>2. UNCHANGED <<form, listing, job, unseen>>
  BY DEF E!Join, E!Leave
<1>3. active # None
  BY Constants DEF E!Terms
<1>4. member' \in [Guests -> BOOLEAN \cup {None}]
  BY <1>1 DEF EditsSafe
<1>5. \A v : member[v] # None => member'[v] # None
  BY <1>1, <1>3 DEF EditsSafe
<1>6. RowFits(listing) => RowFits(listing)'
  BY <1>2, <1>5 DEF RowFits, InTeam
<1>7. E!PublishedComplete'
  BY <1>2 DEF EditsSafe, E!PublishedComplete
<1> QED BY <1>2, <1>4, <1>5, <1>6, <1>7, EditOutside DEF EditsSafe

LEMMA EditsKeep == ASSUME EditsSafe, [E!Next]_(E!vars) PROVE EditsSafe'
<1>1. CASE UNCHANGED E!vars
  <2>1. E!PublishedComplete'
    BY <1>1 DEF E!vars, EditsSafe, E!PublishedComplete
  <2> QED BY <1>1, <2>1, EditOutside DEF E!vars, EditsSafe, RowFits, InTeam
<1>2. ASSUME NEW c \in Clients, E!Refused(c) \/ E!GiveUp(c) PROVE EditsSafe'
  BY <1>2, EditIdle DEF E!Refused, E!GiveUp
<1> QED BY <1>1, <1>2, ValidateNewKeeps, ValidateEditKeeps, CreateKeeps, EditKeeps, EditLoadKeeps, DecisionWriteKeeps,
           WriteAllKeeps, DecideKeeps, HandoverKeeps, TeamKeeps DEF E!Next

LEMMA EditsStart == E!Init => EditsSafe
<1> SUFFICES ASSUME E!Init PROVE EditsSafe
  OBVIOUS
<1>1. DOMAIN job = Clients /\ \A c \in Clients : EditFits(job[c])
  BY DEF E!Init, E!Idle, EditFits, E!To
<1>2. listing = None \/ (RowFits(listing) /\ listing.complete)
  BY DEF E!Init, RowFits, E!Rows, InTeam
<1>3. E!PublishedComplete
  BY <1>2 DEF E!PublishedComplete
<1> QED BY <1>1, <1>2, <1>3 DEF E!Init, EditsSafe

LEMMA EditsAgree == EditsSafe => E!AgentInTeam /\ E!PublishedComplete
  BY DEF EditsSafe, RowFits, InTeam, E!AgentInTeam

-----------------------------------------------------------------------------
(* Staff roles.  A request that is alone with its row finds the row as it  *)
(* left it a statement before.                                             *)

OfRole == {"rename", "read", "add"}
OfMember == {"remove", "grant"}
RoleJob == [op: {"none", "create"} \cup OfRole \cup OfMember, of: Roles \cup Guests \cup {None},
            name: Names \cup {None}, set: SUBSET (Catalog \cup Roles), old: SUBSET Catalog, alone: BOOLEAN]

JobShaped(j) ==
  /\ j \in RoleJob
  /\ j.op \in {"none", "create"} => j.of = None
  /\ j.op = "create" => j.name \in Names /\ j.set \subseteq Catalog /\ j.old = {}
  /\ j.op \in OfRole => j.of \in Roles /\ j.name \in Names /\ j.set \subseteq Catalog
  /\ j.op \in OfMember => j.of \in Guests
Ready(j) ==
  /\ j.alone /\ j.op = "add" => role[j.of] = None \/ role[j.of].permissions = j.old
  /\ j.alone /\ j.op = "grant" => held[j.of] \subseteq j.set
Alone(c) == job[c].alone /\ job[c].of # None => \A d \in Clients \ {c} : job[d].of # job[c].of

RolesStored ==
  /\ DOMAIN role = Roles /\ \A r \in R!_managed_roles : role[r] \in R!Rows
  /\ held \in [Guests -> SUBSET Roles]
  /\ \A u \in Guests : held[u] \subseteq R!_managed_roles
  /\ \A r, s \in R!_managed_roles : role[r].name = role[s].name => r = s
RoleJobs == DOMAIN job = Clients /\ \A c \in Clients : JobShaped(job[c]) /\ Alone(c) /\ Ready(job[c])
Unclaimed(k) == \A c \in Clients : job[c].of # k
HasAsAnswered(k) == replied[k] = IF k \in Guests THEN held[k] ELSE role[k].permissions
Replies == /\ DOMAIN replied = Roles \cup Guests
           /\ \A k \in Roles : replied[k] # None => replied[k] \subseteq Catalog
           /\ \A k \in Roles \cup Guests : replied[k] # None /\ Unclaimed(k) => HasAsAnswered(k)
RolesSafe == RolesStored /\ RoleJobs /\ Replies

\* The job of one request goes on with the row it had, or lets it go.
LEMMA RoleJobsMove ==
  ASSUME RoleJobs, NEW c \in Clients, DOMAIN job' = Clients, \A d \in Clients \ {c} : job'[d] = job[d],
         JobShaped(job'[c]), Ready(job[c])',
         job'[c].of = None \/ (job'[c].of = job[c].of /\ job'[c].alone = job[c].alone),
         \A d \in Clients \ {c} : Ready(job[d])'
  PROVE  RoleJobs'
<1>1. ASSUME NEW d \in Clients PROVE JobShaped(job'[d]) /\ Ready(job[d])'
  BY DEF RoleJobs
<1>2. ASSUME NEW d \in Clients PROVE Alone(d)'
  <2> SUFFICES ASSUME job'[d].alone, job'[d].of # None, NEW e \in Clients \ {d} PROVE job'[e].of # job'[d].of
    BY DEF Alone
  <2>1. CASE d = c
    BY <2>1 DEF RoleJobs, Alone
  <2>2. CASE d # c
    <3>1. job'[d] = job[d] /\ \A x \in Clients \ {d} : job[x].of # job[d].of
      BY <2>2 DEF RoleJobs, Alone
    <3>2. CASE e = c
      BY <3>1, <3>2, <2>2
    <3>3. CASE e # c
      BY <3>1, <3>3
    <3> QED BY <3>2, <3>3
  <2> QED BY <2>1, <2>2
<1> QED BY <1>1, <1>2 DEF RoleJobs, JobShaped

LEMMA IdleShaped == JobShaped(R!Idle) /\ R!Idle.of = None /\ R!Idle.op = "none"
  BY DEF R!Idle, JobShaped, RoleJob, OfRole, OfMember

\* A request about a row begins: those under way about it, and itself, are no longer alone.
LEMMA RoleStarts ==
  ASSUME RolesSafe, NEW c \in Clients, NEW req \in RoleJob, R!Start(c, req), JobShaped(req),
         req.op \notin {"add", "grant"}, UNCHANGED <<role, held, replied>>
  PROVE  RolesSafe'
<1> DEFINE others == {d \in Clients : job[d].of = req.of /\ job[d].of # None}
<1>1. PICK yes \in BOOLEAN, no \in BOOLEAN : yes = (others = {}) /\ no = FALSE
  OBVIOUS
<1>2. job' = [d \in Clients |-> IF d = c THEN [req EXCEPT !.alone = yes]
                                ELSE IF d \in others THEN [job[d] EXCEPT !.alone = no] ELSE job[d]]
  BY <1>1 DEF R!Start
<1>3. job[c].of = None
  BY DEF R!Start, R!Idle
<1>4. \A d \in Clients : job[d] \in RoleJob
  BY DEF RolesSafe, RoleJobs, JobShaped
<1>5. /\ \A d \in Clients : job'[d] \in RoleJob
      /\ \A d \in Clients \ {c} : /\ job'[d].op = job[d].op /\ job'[d].of = job[d].of
                                  /\ job'[d].name = job[d].name /\ job'[d].set = job[d].set
                                  /\ job'[d].old = job[d].old
                                  /\ job'[d].alone => job[d].alone /\ d \notin others
      /\ job'[c].op = req.op /\ job'[c].of = req.of /\ job'[c].name = req.name
      /\ job'[c].set = req.set /\ job'[c].old = req.old /\ job'[c].alone = yes
  <2> HIDE DEF others
  <2>1. job'[c] = [req EXCEPT !.alone = yes]
    BY <1>2
  <2>2. ASSUME NEW d \in Clients \ {c} PROVE d \in others => job'[d] = [job[d] EXCEPT !.alone = FALSE]
    BY <1>1, <1>2, <2>2
  <2>3. ASSUME NEW d \in Clients \ {c} PROVE d \notin others => job'[d] = job[d]
    BY <1>2, <2>3
  <2>4. ASSUME NEW d \in Clients \ {c}
        PROVE  /\ job'[d] \in RoleJob /\ job'[d].op = job[d].op /\ job'[d].of = job[d].of
               /\ job'[d].name = job[d].name /\ job'[d].set = job[d].set /\ job'[d].old = job[d].old
               /\ job'[d].alone => job[d].alone /\ d \notin others
    <3>0. job[d] \in RoleJob
      BY <1>4
    <3>1. CASE job'[d] = job[d] /\ d \notin others
      BY <3>0, <3>1
    <3>2. CASE d \in others /\ job'[d] = [job[d] EXCEPT !.alone = FALSE]
      BY <3>0, <3>2 DEF RoleJob
    <3> QED BY <2>2, <2>3, <3>1, <3>2
  <2>5. /\ job'[c] \in RoleJob /\ job'[c].op = req.op /\ job'[c].of = req.of /\ job'[c].name = req.name
        /\ job'[c].set = req.set /\ job'[c].old = req.old /\ job'[c].alone = yes
    BY <1>1, <2>1 DEF RoleJob
  <2> QED BY <2>4, <2>5
<1>6. ASSUME NEW d \in Clients PROVE JobShaped(job'[d]) /\ Ready(job[d])' /\ Alone(d)'
  <2>1. CASE d = c
    <3>1. JobShaped(job'[d]) /\ Ready(job[d])'
      BY <1>5, <2>1 DEF JobShaped, Ready
    <3>2. Alone(d)'
      BY <1>1, <1>5, <2>1 DEF Alone
    <3> QED BY <3>1, <3>2
  <2>2. CASE d # c
    <3>1. JobShaped(job[d]) /\ Ready(job[d]) /\ Alone(d)
      BY DEF RolesSafe, RoleJobs
    <3>2. JobShaped(job'[d])
      BY <1>5, <2>2, <3>1 DEF JobShaped
    <3>3. Ready(job[d])'
      BY <1>5, <2>2, <3>1 DEF Ready
    <3>4. Alone(d)'
      BY <1>5, <2>2, <3>1 DEF Alone
    <3> QED BY <3>2, <3>3, <3>4
  <2> QED BY <2>1, <2>2
<1>7. RoleJobs'
  BY <1>2, <1>6 DEF RoleJobs, JobShaped
<1>8. Replies'
  <2>1. \A k \in Roles \cup Guests : Unclaimed(k)' => Unclaimed(k)
    BY <1>3, <1>5, Constants DEF Unclaimed, R!Terms
  <2> QED BY <2>1 DEF RolesSafe, Replies, HasAsAnswered
<1>9. RolesStored'
  BY DEF RolesSafe, RolesStored, R!_managed_roles
<1> QED BY <1>7, <1>8, <1>9 DEF RolesSafe

LEMMA RequestKeeps ==
  ASSUME RolesSafe, NEW c \in Clients, R!Post(c) \/ R!Patch(c) \/ R!Put(c) PROVE RolesSafe'
<1>1. CASE R!Post(c)
  <2>1. PICK name \in Names, set \in SUBSET Catalog :
          R!Start(c, [R!Idle EXCEPT !.op = "create", !.name = name, !.set = set])
    BY Zenon, <1>1 DEF R!Post
  <2> DEFINE req == [R!Idle EXCEPT !.op = "create", !.name = name, !.set = set]
  <2>2. req \in RoleJob /\ JobShaped(req) /\ req.op = "create"
    BY DEF R!Idle, RoleJob, JobShaped, OfRole, OfMember
  <2> HIDE DEF req
  <2> QED BY Zenon, <1>1, <2>1, <2>2, RoleStarts DEF R!Post, req
<1>2. CASE R!Patch(c)
  <2>1. PICK r \in R!_managed_roles, name \in Names, set \in SUBSET Catalog :
          R!Start(c, [R!Idle EXCEPT !.op = "rename", !.of = r, !.name = name, !.set = set])
    BY Zenon, <1>2 DEF R!Patch
  <2> DEFINE req == [R!Idle EXCEPT !.op = "rename", !.of = r, !.name = name, !.set = set]
  <2>2. req \in RoleJob /\ JobShaped(req) /\ req.op = "rename"
    BY DEF R!Idle, RoleJob, JobShaped, OfRole, OfMember, R!_managed_roles
  <2> HIDE DEF req
  <2> QED BY Zenon, <1>2, <2>1, <2>2, RoleStarts DEF R!Patch, req
<1>3. CASE R!Put(c)
  <2>1. PICK u \in Guests, set \in SUBSET R!_managed_roles :
          R!Start(c, [R!Idle EXCEPT !.op = "remove", !.of = u, !.set = set])
    BY Zenon, <1>3 DEF R!Put
  <2> DEFINE req == [R!Idle EXCEPT !.op = "remove", !.of = u, !.set = set]
  <2>2. req \in RoleJob /\ JobShaped(req) /\ req.op = "remove"
    BY DEF R!Idle, RoleJob, JobShaped, OfRole, OfMember, R!_managed_roles
  <2> HIDE DEF req
  <2> QED BY Zenon, <1>3, <2>1, <2>2, RoleStarts DEF R!Put, req
<1> QED BY <1>1, <1>2, <1>3

LEMMA CreateRoleKeeps == ASSUME RolesSafe, NEW c \in Clients, R!Create(c) PROVE RolesSafe'
<1>1. PICK r \in Roles : /\ role[r] = None /\ \A d \in Clients : job[d].of # r
                         /\ role' = [role EXCEPT ![r] = [name |-> job[c].name, permissions |-> {}]]
                         /\ job' = [job EXCEPT ![c] = [job[c] EXCEPT !.op = "add", !.of = r, !.alone = TRUE]]
  BY Zenon DEF R!Create, R!Step
<1>2. JobShaped(job[c]) /\ job[c].op = "create" /\ ~R!Refused(job[c].name, None)
      /\ UNCHANGED <<held, replied>>
  BY DEF RolesSafe, RoleJobs, R!Create
<1>3. PICK yes \in BOOLEAN : yes = TRUE
  OBVIOUS
<1>4. /\ DOMAIN job' = Clients /\ \A d \in Clients \ {c} : job'[d] = job[d]
      /\ job'[c] = [job[c] EXCEPT !.op = "add", !.of = r, !.alone = yes]
  BY <1>1, <1>3 DEF RolesSafe, RoleJobs
<1>5. /\ job'[c] \in RoleJob /\ job'[c].op = "add" /\ job'[c].of = r /\ job'[c].old = job[c].old
      /\ job'[c].name = job[c].name /\ job'[c].set = job[c].set
  BY <1>2, <1>3, <1>4 DEF JobShaped, RoleJob, OfRole
<1>6. DOMAIN role' = Roles
      /\ \A x \in Roles : role'[x] = IF x = r THEN [name |-> job[c].name, permissions |-> {}] ELSE role[x]
  BY <1>1 DEF RolesSafe, RolesStored
<1>7. RolesStored'
  <2>1. \A x \in R!_managed_roles' : role'[x] \in R!Rows
    BY <1>2, <1>6 DEF RolesSafe, RolesStored, R!_managed_roles, R!Rows, JobShaped
  <2>2. R!_managed_roles \subseteq R!_managed_roles'
    BY <1>1, <1>6 DEF R!_managed_roles
  <2>3. \A x \in R!_managed_roles : role[x].name # job[c].name
    BY <1>2, Constants DEF R!Refused, R!Terms, R!_managed_roles
  <2>4. \A x, y \in R!_managed_roles' : role'[x].name = role'[y].name => x = y
    BY <1>6, <2>3 DEF RolesSafe, RolesStored, R!_managed_roles
  <2> QED BY <1>2, <1>6, <2>1, <2>2, <2>4 DEF RolesSafe, RolesStored
<1>8. RoleJobs'
  <2>1. ASSUME NEW d \in Clients PROVE JobShaped(job'[d]) /\ Ready(job[d])' /\ Alone(d)'
    <3>1. CASE d = c
      <4>1. JobShaped(job'[d])
        BY <1>2, <1>5, <3>1 DEF JobShaped, OfRole, OfMember
      <4>2. Ready(job[d])'
        <5>1. role'[r].permissions = {} /\ job[c].old = {}
          BY <1>2, <1>6 DEF JobShaped
        <5> QED BY <1>5, <3>1, <5>1 DEF Ready
      <4>3. Alone(d)'
        BY <1>1, <1>4, <1>5, <3>1 DEF Alone
      <4> QED BY <4>1, <4>2, <4>3
    <3>2. CASE d # c
      <4>1. job'[d] = job[d] /\ JobShaped(job[d]) /\ Ready(job[d]) /\ Alone(d) /\ job[d].of # r
        BY <1>1, <1>4, <3>2 DEF RolesSafe, RoleJobs
      <4>2. job[d].op = "add" => job[d].of \in Roles
        BY <4>1 DEF JobShaped, OfRole
      <4>3. Ready(job[d])'
        BY <1>2, <1>6, <4>1, <4>2 DEF Ready
      <4>4. Alone(d)'
        BY <1>4, <1>5, <3>2, <4>1 DEF Alone
      <4> QED BY <4>1, <4>3, <4>4
    <3> QED BY <3>1, <3>2
  <2> QED BY <1>4, <2>1 DEF RoleJobs, JobShaped
<1>9. Replies'
  <2>1. ASSUME NEW k \in Roles \cup Guests, replied[k] # None, Unclaimed(k)' PROVE HasAsAnswered(k)'
    <3>1. k # r
      BY <1>5, <2>1 DEF Unclaimed
    <3>2. job[c].of = None /\ k # None
      BY <1>2, Constants DEF JobShaped, R!Terms
    <3>3. Unclaimed(k)
      BY <1>4, <2>1, <3>2 DEF Unclaimed
    <3> QED BY <1>2, <1>6, <2>1, <3>1, <3>3 DEF RolesSafe, Replies, HasAsAnswered
  <2> QED BY <1>2, <2>1 DEF RolesSafe, Replies
<1> QED BY <1>7, <1>8, <1>9 DEF RolesSafe

\* A statement that finishes a request, or leaves it its row, and touches that row only.
LEMMA RoleRests ==
  ASSUME RoleJobs, NEW c \in Clients, NEW d \in Clients \ {c}, job[d].alone, job[c].of # None
  PROVE  job[d].of # job[c].of
  BY DEF RoleJobs, Alone

LEMMA StepIs ==
  ASSUME RoleJobs, NEW c \in Clients, NEW req, R!Step(c, req)
  PROVE  /\ DOMAIN job' = Clients /\ job'[c] = req /\ \A d \in Clients \ {c} : job'[d] = job[d]
  BY DEF RoleJobs, R!Step

LEMMA OwnRow ==
  ASSUME RoleJobs, NEW c \in Clients
  PROVE  /\ JobShaped(job[c]) /\ Ready(job[c])
         /\ job[c].op \in OfRole => job[c].of \in Roles /\ job[c].of # None
         /\ job[c].op \in OfMember => job[c].of \in Guests /\ job[c].of # None
         /\ Roles \cap Guests = {}
  BY Constants DEF RoleJobs, JobShaped, R!Terms

LEMMA RenameKeeps == ASSUME RolesSafe, NEW c \in Clients, R!Rename(c) PROVE RolesSafe'
<1> DEFINE r == job[c].of
<1>1. /\ RoleJobs /\ RolesStored /\ Replies /\ job[c].op = "rename" /\ role[r] # None
      /\ ~R!Refused(job[c].name, r) /\ role' = [role EXCEPT ![r].name = job[c].name]
      /\ R!Step(c, [job[c] EXCEPT !.op = "read"]) /\ UNCHANGED <<held, replied>>
  BY DEF RolesSafe, R!Rename
<1>2. r \in Roles /\ r # None /\ JobShaped(job[c]) /\ r \notin Guests
  BY <1>1, OwnRow DEF OfRole
<1> HIDE DEF r
<1>3. role[r] \in R!Rows
  BY <1>1, <1>2 DEF RolesStored, R!_managed_roles
<1>4. /\ DOMAIN role' = Roles /\ role'[r] = [role[r] EXCEPT !.name = job[c].name]
      /\ \A x \in Roles \ {r} : role'[x] = role[x]
  BY <1>1, <1>2 DEF RolesStored
<1>5. /\ role'[r] \in R!Rows /\ role'[r].name = job[c].name /\ role'[r].permissions = role[r].permissions
  BY <1>1, <1>2, <1>3, <1>4 DEF R!Rows, JobShaped, OfRole
<1>6. DOMAIN job' = Clients /\ job'[c] = [job[c] EXCEPT !.op = "read"]
      /\ \A d \in Clients \ {c} : job'[d] = job[d]
  BY <1>1, StepIs
<1>7. JobShaped(job'[c]) /\ job'[c].op = "read" /\ job'[c].of = r /\ job'[c].alone = job[c].alone
  BY <1>1, <1>2, <1>6 DEF JobShaped, RoleJob, OfRole, OfMember, r
<1>8. RoleJobs'
  <2>1. ASSUME NEW d \in Clients \ {c} PROVE Ready(job[d])'
    <3>1. JobShaped(job[d]) /\ Ready(job[d]) /\ job'[d] = job[d]
      BY <1>1, <1>6 DEF RoleJobs
    <3>2. job[d].op = "add" => job[d].of \in Roles
      BY <3>1 DEF JobShaped, OfRole
    <3>3. job[d].alone /\ job[d].op = "add" => job[d].of # r
      BY <1>1, <1>2, RoleRests DEF r
    <3> QED BY <1>1, <1>4, <3>1, <3>2, <3>3 DEF Ready
  <2>2. Ready(job[c])'
    BY <1>7 DEF Ready
  <2> QED BY <1>1, <1>6, <1>7, <2>1, <2>2, RoleJobsMove DEF r
<1>9. Replies'
  <2>1. \A k : Unclaimed(k)' => Unclaimed(k)
    BY <1>6, <1>7 DEF Unclaimed, r
  <2>2. \A k \in Roles : role'[k].permissions = role[k].permissions
    BY <1>4, <1>5
  <2> QED BY <1>1, <2>1, <2>2 DEF Replies, HasAsAnswered
<1>10. RolesStored'
  <2>1. \A x \in R!_managed_roles' : x \in R!_managed_roles /\ role'[x] \in R!Rows
    BY <1>1, <1>2, <1>4, <1>5 DEF RolesStored, R!_managed_roles
  <2>2. \A u \in Guests : held'[u] \subseteq R!_managed_roles'
    <3>1. role'[r] # None
      BY <1>5, Constants DEF R!Terms, R!Rows
    <3>2. R!_managed_roles \subseteq R!_managed_roles'
      BY <1>4, <3>1 DEF R!_managed_roles
    <3> QED BY <1>1, <3>2 DEF RolesStored
  <2>3. \A x \in R!_managed_roles \ {r} : role[x].name # job[c].name
    BY <1>1 DEF R!Refused
  <2>4. \A x, y \in R!_managed_roles' : role'[x].name = role'[y].name => x = y
    BY <1>1, <1>4, <1>5, <2>1, <2>3 DEF RolesStored, R!_managed_roles
  <2> QED BY <1>1, <1>4, <2>1, <2>2, <2>4 DEF RolesStored
<1> QED BY <1>8, <1>9, <1>10 DEF RolesSafe

LEMMA ReadKeeps == ASSUME RolesSafe, NEW c \in Clients, R!Read(c) PROVE RolesSafe'
<1> DEFINE r == job[c].of
<1>1. /\ RoleJobs /\ RolesStored /\ Replies /\ job[c].op = "read" /\ role[r] # None
      /\ R!Step(c, [job[c] EXCEPT !.op = "add", !.old = role[r].permissions])
      /\ UNCHANGED <<role, held, replied>>
  BY DEF RolesSafe, R!Read
<1>2. r \in Roles /\ r # None /\ JobShaped(job[c])
  BY <1>1, OwnRow DEF OfRole
<1> HIDE DEF r
<1>3. role[r] \in R!Rows
  BY <1>1, <1>2 DEF RolesStored, R!_managed_roles
<1> DEFINE before == role[r].permissions
<1>4. before \subseteq Catalog
  BY <1>3 DEF R!Rows
<1>5. DOMAIN job' = Clients /\ job'[c] = [job[c] EXCEPT !.op = "add", !.old = before]
      /\ \A d \in Clients \ {c} : job'[d] = job[d]
  BY <1>1, StepIs
<1>6. role' = role /\ role'[r].permissions = before
  BY <1>1
<1> HIDE DEF before
<1>7. JobShaped(job'[c]) /\ job'[c].op = "add" /\ job'[c].of = r /\ job'[c].alone = job[c].alone
      /\ job'[c].old = before
  BY <1>1, <1>2, <1>4, <1>5 DEF JobShaped, RoleJob, OfRole, OfMember, r
<1>8. RoleJobs'
  <2>1. ASSUME NEW d \in Clients \ {c} PROVE Ready(job[d])'
    <3>1. Ready(job[d]) /\ job'[d] = job[d]
      BY <1>1, <1>5 DEF RoleJobs
    <3> QED BY <1>1, <3>1 DEF Ready
  <2>2. Ready(job[c])'
    BY <1>6, <1>7 DEF Ready
  <2> QED BY <1>1, <1>5, <1>7, <2>1, <2>2, RoleJobsMove DEF r
<1>9. Replies'
  <2>1. \A k : Unclaimed(k)' => Unclaimed(k)
    BY <1>5, <1>7 DEF Unclaimed, r
  <2> QED BY <1>1, <2>1 DEF Replies, HasAsAnswered
<1>10. RolesStored'
  BY <1>1 DEF RolesStored, R!_managed_roles
<1> QED BY <1>8, <1>9, <1>10 DEF RolesSafe

\* A request that ends leaves the others their rows, and what it answered.
LEMMA RoleEnds ==
  ASSUME RoleJobs, Replies, NEW c \in Clients, R!Finish(c), NEW x, x = job[c].of, x # None,
         DOMAIN replied' = Roles \cup Guests,
         \A k \in (Roles \cup Guests) \ {x} : /\ replied'[k] = replied[k]
                                            /\ IF k \in Guests THEN held'[k] = held[k]
                                               ELSE role'[k] = role[k],
         replied'[x] # None => HasAsAnswered(x)' /\ (x \in Roles => replied'[x] \subseteq Catalog)
  PROVE  RoleJobs' /\ Replies'
<1>1. DOMAIN job' = Clients /\ job'[c] = R!Idle /\ \A d \in Clients \ {c} : job'[d] = job[d]
  BY StepIs DEF R!Finish
<1>2. JobShaped(job'[c]) /\ job'[c].of = None /\ Ready(job[c])'
  BY <1>1, IdleShaped DEF Ready
<1>3. ASSUME NEW d \in Clients \ {c} PROVE Ready(job[d])'
  <2>1. Ready(job[d]) /\ job'[d] = job[d] /\ JobShaped(job[d])
    BY <1>1 DEF RoleJobs
  <2>2. job[d].alone => job[d].of # job[c].of
    BY RoleRests
  <2>3. job[d].op = "add" => job[d].of \in Roles /\ job[d].of \notin Guests
    BY OwnRow DEF OfRole
  <2>4. job[d].op = "grant" => job[d].of \in Guests
    BY OwnRow DEF OfMember
  <2>5. job[d].alone /\ job[d].op = "add" => role'[job[d].of] = role[job[d].of]
    BY <2>2, <2>3
  <2>6. job[d].alone /\ job[d].op = "grant" => held'[job[d].of] = held[job[d].of]
    BY <2>2, <2>4
  <2> QED BY <2>1, <2>5, <2>6 DEF Ready
<1>4. RoleJobs'
  BY <1>1, <1>2, <1>3, RoleJobsMove
<1>5. ASSUME NEW k \in Roles \cup Guests, replied'[k] # None, Unclaimed(k)' PROVE HasAsAnswered(k)'
  <2>1. CASE k = x
    BY <1>5, <2>1
  <2>2. CASE k # x
    <3>1. Unclaimed(k)
      BY <1>1, <1>5, <2>2 DEF Unclaimed
    <3>2. HasAsAnswered(k)
      BY <1>5, <2>2, <3>1 DEF Replies
    <3> QED BY <2>2, <3>2 DEF HasAsAnswered
  <2> QED BY <2>1, <2>2
<1>6. \A k \in Roles : replied'[k] # None => replied'[k] \subseteq Catalog
  BY DEF Replies
<1> QED BY <1>4, <1>5, <1>6 DEF Replies

LEMMA AddKeeps == ASSUME RolesSafe, NEW c \in Clients, R!Add(c) PROVE RolesSafe'
<1>0. PICK r : r = job[c].of
  OBVIOUS
<1> DEFINE set == job[c].set
<1> DEFINE now == (role[r].permissions \ (job[c].old \ set)) \cup (set \ job[c].old)
<1>1. /\ RoleJobs /\ RolesStored /\ Replies /\ job[c].op = "add" /\ role[r] # None
      /\ role' = [role EXCEPT ![r].permissions = now]
      /\ replied' = [replied EXCEPT ![r] = IF job[c].alone THEN set ELSE None]
      /\ R!Finish(c) /\ UNCHANGED held
  BY <1>0 DEF RolesSafe, R!Add, R!Answered
<1>2. r \in Roles /\ r # None /\ r \notin Guests
  BY <1>0, <1>1, OwnRow DEF OfRole
<1>3. set \subseteq Catalog /\ Ready(job[c]) /\ job[c].alone \in BOOLEAN
  BY <1>1 DEF RoleJobs, JobShaped, OfRole, RoleJob
<1>4. role[r] \in R!Rows
  BY <1>1, <1>2 DEF RolesStored, R!_managed_roles
<1>5. now \subseteq Catalog
  BY <1>3, <1>4 DEF R!Rows
<1>6. job[c].alone => now = set
  BY <1>0, <1>1, <1>3 DEF Ready
<1> HIDE DEF now, set
<1>7. /\ DOMAIN role' = Roles /\ role'[r] = [role[r] EXCEPT !.permissions = now]
      /\ \A x \in Roles \ {r} : role'[x] = role[x]
  BY <1>1, <1>2 DEF RolesStored
<1>8. role'[r] \in R!Rows /\ role'[r].name = role[r].name /\ role'[r].permissions = now
  BY <1>4, <1>5, <1>7 DEF R!Rows
<1>9. /\ DOMAIN replied' = Roles \cup Guests /\ replied'[r] = IF job[c].alone THEN set ELSE None
      /\ \A k \in (Roles \cup Guests) \ {r} : replied'[k] = replied[k]
  BY <1>1, <1>2 DEF Replies
<1>10. RoleJobs' /\ Replies'
  <2>1. replied'[r] # None => HasAsAnswered(r)' /\ replied'[r] \subseteq Catalog
    BY <1>2, <1>3, <1>6, <1>8, <1>9 DEF HasAsAnswered
  <2>2. \A k \in (Roles \cup Guests) \ {r} : IF k \in Guests THEN held'[k] = held[k] ELSE role'[k] = role[k]
    BY <1>1, <1>7
  <2> QED BY <1>0, <1>1, <1>2, <1>9, <2>1, <2>2, RoleEnds
<1>11. RolesStored'
  <2>1. role'[r] # None
    BY <1>8, Constants DEF R!Terms
  <2>2. R!_managed_roles = R!_managed_roles'
    BY <1>1, <1>7, <2>1 DEF R!_managed_roles
  <2>3. \A x \in R!_managed_roles : role'[x] \in R!Rows /\ role'[x].name = role[x].name
    BY <1>1, <1>7, <1>8 DEF RolesStored, R!_managed_roles
  <2> QED BY <1>1, <1>7, <2>2, <2>3 DEF RolesStored
<1> QED BY <1>10, <1>11 DEF RolesSafe

LEMMA DeleteRoleKeeps == ASSUME RolesSafe, NEW r \in Roles, R!Delete(r) PROVE RolesSafe'
<1>1. /\ RoleJobs /\ RolesStored /\ Replies /\ UNCHANGED job
      /\ role' = [role EXCEPT ![r] = None] /\ held' = [u \in Guests |-> held[u] \ {r}]
      /\ replied' = [k \in DOMAIN replied |-> IF k = r \/ replied[k] = None THEN None ELSE replied[k] \ {r}]
  BY DEF RolesSafe, R!Delete
<1>2. DOMAIN role' = Roles /\ role'[r] = None /\ \A x \in Roles \ {r} : role'[x] = role[x]
  BY <1>1 DEF RolesStored
<1>3. held' \in [Guests -> SUBSET Roles] /\ \A u \in Guests : held'[u] = held[u] \ {r}
  BY <1>1 DEF RolesStored
<1>4. R!_managed_roles' = R!_managed_roles \ {r}
  BY <1>2 DEF R!_managed_roles
<1>5. RolesStored'
  BY <1>1, <1>2, <1>3, <1>4 DEF RolesStored, R!_managed_roles
<1>6. RoleJobs'
  <2>1. ASSUME NEW d \in Clients PROVE JobShaped(job'[d]) /\ Ready(job[d])' /\ Alone(d)'
    <3>1. JobShaped(job[d]) /\ Ready(job[d]) /\ Alone(d)
      BY <1>1 DEF RoleJobs
    <3>2. job[d].op = "add" => job[d].of \in Roles
      BY <1>1, OwnRow DEF OfRole
    <3>3. job[d].op = "grant" => job[d].of \in Guests
      BY <1>1, OwnRow DEF OfMember
    <3>4. JobShaped(job'[d]) /\ Alone(d)'
      BY <1>1, <3>1 DEF JobShaped, Alone
    <3>5. Ready(job[d])'
      BY <1>1, <1>2, <1>3, <3>1, <3>2, <3>3 DEF Ready
    <3> QED BY <3>4, <3>5
  <2> QED BY <1>1, <2>1 DEF RoleJobs, JobShaped
<1>7. DOMAIN replied' = Roles \cup Guests
      /\ \A k \in Roles \cup Guests : replied'[k] # None =>
           k # r /\ replied[k] # None /\ replied'[k] = replied[k] \ {r}
  BY <1>1 DEF Replies
<1>8. Replies'
  <2>1. r \notin Catalog /\ Roles \cap Guests = {}
    BY Constants DEF R!Terms
  <2>2. \A k \in Roles : replied'[k] # None => replied'[k] = replied[k] /\ replied'[k] \subseteq Catalog
    BY <1>1, <1>7, <2>1 DEF Replies
  <2>3. ASSUME NEW k \in Roles \cup Guests, replied'[k] # None, Unclaimed(k)' PROVE HasAsAnswered(k)'
    <3>1. HasAsAnswered(k)
      BY <1>1, <1>7, <2>3 DEF Replies, Unclaimed
    <3>2. CASE k \in Guests
      BY <1>3, <1>7, <2>3, <3>1, <3>2 DEF HasAsAnswered
    <3>3. CASE k \in Roles
      BY <1>2, <1>7, <2>1, <2>2, <2>3, <3>1, <3>3 DEF HasAsAnswered
    <3> QED BY <3>2, <3>3
  <2> QED BY <1>7, <2>2, <2>3 DEF Replies
<1> QED BY <1>5, <1>6, <1>8 DEF RolesSafe

LEMMA RemoveKeeps == ASSUME RolesSafe, NEW c \in Clients, R!Remove(c) PROVE RolesSafe'
<1>0. PICK u : u = job[c].of
  OBVIOUS
<1>1. /\ RoleJobs /\ RolesStored /\ Replies /\ job[c].op = "remove"
      /\ held' = [held EXCEPT ![u] = @ \ (R!_managed_roles \ job[c].set)]
      /\ R!Step(c, [job[c] EXCEPT !.op = "grant"])
      /\ replied' = [replied EXCEPT ![u] = None] /\ UNCHANGED role
  BY <1>0 DEF RolesSafe, R!Remove, R!Unanswered
<1>2. u \in Guests /\ u # None /\ JobShaped(job[c]) /\ Roles \cap Guests = {}
  BY <1>0, <1>1, OwnRow DEF OfMember
<1>3. /\ held' \in [Guests -> SUBSET Roles] /\ held'[u] = held[u] \ (R!_managed_roles \ job[c].set)
      /\ \A v \in Guests \ {u} : held'[v] = held[v]
  BY <1>1, <1>2 DEF RolesStored
<1>4. held'[u] \subseteq job[c].set /\ \A v \in Guests : held'[v] \subseteq R!_managed_roles
  BY <1>1, <1>2, <1>3 DEF RolesStored
<1>5. DOMAIN job' = Clients /\ job'[c] = [job[c] EXCEPT !.op = "grant"]
      /\ \A d \in Clients \ {c} : job'[d] = job[d]
  BY <1>1, StepIs
<1>6. JobShaped(job'[c]) /\ job'[c].op = "grant" /\ job'[c].of = u /\ job'[c].set = job[c].set
      /\ job'[c].alone = job[c].alone
  BY <1>0, <1>1, <1>2, <1>5 DEF JobShaped, RoleJob, OfRole, OfMember
<1>7. RoleJobs'
  <2>1. ASSUME NEW d \in Clients \ {c} PROVE Ready(job[d])'
    <3>1. Ready(job[d]) /\ job'[d] = job[d]
      BY <1>1, <1>5 DEF RoleJobs
    <3>2. job[d].op = "grant" => job[d].of \in Guests
      BY <1>1, OwnRow DEF OfMember
    <3>3. job[d].alone => job[d].of # u
      BY <1>0, <1>1, <1>2, RoleRests
    <3> QED BY <1>1, <1>3, <3>1, <3>2, <3>3 DEF Ready
  <2>2. Ready(job[c])'
    BY <1>4, <1>6 DEF Ready
  <2> QED BY <1>0, <1>1, <1>5, <1>6, <2>1, <2>2, RoleJobsMove
<1>8. Replies'
  <2>1. DOMAIN replied' = Roles \cup Guests /\ replied'[u] = None
        /\ \A k \in (Roles \cup Guests) \ {u} : replied'[k] = replied[k]
    BY <1>1, <1>2 DEF Replies
  <2>2. \A k : Unclaimed(k)' => Unclaimed(k)
    BY <1>0, <1>5, <1>6 DEF Unclaimed
  <2>3. ASSUME NEW k \in Roles \cup Guests, replied'[k] # None, Unclaimed(k)' PROVE HasAsAnswered(k)'
    <3>1. k # u /\ HasAsAnswered(k)
      BY <1>1, <2>1, <2>2, <2>3 DEF Replies
    <3> QED BY <1>1, <1>3, <2>1, <3>1 DEF HasAsAnswered
  <2>4. \A k \in Roles : replied'[k] # None => replied'[k] \subseteq Catalog
    BY <1>1, <2>1 DEF Replies
  <2> QED BY <2>1, <2>3, <2>4 DEF Replies
<1>9. RolesStored'
  BY <1>1, <1>3, <1>4 DEF RolesStored, R!_managed_roles
<1> QED BY <1>7, <1>8, <1>9 DEF RolesSafe

LEMMA GrantKeeps == ASSUME RolesSafe, NEW c \in Clients, R!Grant(c) PROVE RolesSafe'
<1>0. PICK u : u = job[c].of
  OBVIOUS
<1>1. /\ RoleJobs /\ RolesStored /\ Replies /\ job[c].op = "grant" /\ job[c].set \subseteq R!_managed_roles
      /\ held' = [held EXCEPT ![u] = @ \cup job[c].set]
      /\ replied' = [replied EXCEPT ![u] = IF job[c].alone THEN job[c].set ELSE None]
      /\ R!Finish(c) /\ UNCHANGED role
  BY <1>0 DEF RolesSafe, R!Grant, R!Answered
<1>2. u \in Guests /\ u # None /\ Ready(job[c]) /\ Roles \cap Guests = {}
  BY <1>0, <1>1, OwnRow DEF OfMember
<1>3. /\ held' \in [Guests -> SUBSET Roles] /\ held'[u] = held[u] \cup job[c].set
      /\ \A v \in Guests \ {u} : held'[v] = held[v]
  BY <1>1, <1>2 DEF RolesStored, R!_managed_roles
<1>4. job[c].alone => held'[u] = job[c].set
  <2>1. job[c].alone => held[u] \subseteq job[c].set
    BY <1>0, <1>1, <1>2 DEF Ready
  <2> QED BY <1>3, <2>1
<1>5. DOMAIN replied' = Roles \cup Guests
      /\ replied'[u] = (IF job[c].alone THEN job[c].set ELSE None)
      /\ \A k \in (Roles \cup Guests) \ {u} : replied'[k] = replied[k]
  BY <1>1, <1>2 DEF Replies
<1>6. replied'[u] # None => HasAsAnswered(u)'
  BY <1>2, <1>4, <1>5 DEF HasAsAnswered
<1>7. \A k \in (Roles \cup Guests) \ {u} : IF k \in Guests THEN held'[k] = held[k] ELSE role'[k] = role[k]
  BY <1>1, <1>3
<1>8. RoleJobs' /\ Replies'
  BY <1>0, <1>1, <1>2, <1>5, <1>6, <1>7, RoleEnds
<1>9. RolesStored'
  BY <1>1, <1>2, <1>3 DEF RolesStored, R!_managed_roles
<1> QED BY <1>8, <1>9 DEF RolesSafe

LEMMA StopKeeps == ASSUME RolesSafe, NEW c \in Clients, R!Stop(c) PROVE RolesSafe'
<1>0. PICK k : k = job[c].of
  OBVIOUS
<1>1. /\ RoleJobs /\ RolesStored /\ Replies /\ R!Finish(c) /\ UNCHANGED <<role, held>>
      /\ JobShaped(job[c]) /\ k \in Roles \cup Guests \cup {None}
      /\ IF k = None THEN UNCHANGED replied ELSE replied' = [replied EXCEPT ![k] = None]
  BY <1>0 DEF RolesSafe, RoleJobs, JobShaped, RoleJob, R!Stop, R!Unanswered
<1>2. RolesStored'
  BY <1>1 DEF RolesStored, R!_managed_roles
<1>3. CASE k # None
  <2>1. DOMAIN replied' = Roles \cup Guests /\ replied'[k] = None
        /\ \A x \in (Roles \cup Guests) \ {k} : replied'[x] = replied[x]
    BY <1>1, <1>3 DEF Replies
  <2>2. RoleJobs' /\ Replies'
    BY <1>0, <1>1, <1>3, <2>1, RoleEnds
  <2> QED BY <1>2, <2>2 DEF RolesSafe
<1>4. CASE k = None
  <2>1. DOMAIN job' = Clients /\ job'[c] = R!Idle /\ \A d \in Clients \ {c} : job'[d] = job[d]
    BY <1>1, StepIs DEF R!Finish
  <2>2. JobShaped(job'[c]) /\ job'[c].of = None /\ Ready(job[c])'
    BY <2>1, IdleShaped DEF Ready
  <2>3. ASSUME NEW d \in Clients \ {c} PROVE Ready(job[d])'
    <3>1. Ready(job[d]) /\ job'[d] = job[d]
      BY <1>1, <2>1 DEF RoleJobs
    <3> QED BY <1>1, <3>1 DEF Ready
  <2>4. RoleJobs'
    BY <1>1, <2>1, <2>2, <2>3, RoleJobsMove
  <2>5. \A x : Unclaimed(x)' => Unclaimed(x)
    BY <1>0, <1>4, <2>1, <2>2 DEF Unclaimed
  <2>6. Replies'
    BY <1>1, <1>4, <2>5 DEF Replies, HasAsAnswered
  <2> QED BY <1>2, <2>4, <2>6 DEF RolesSafe
<1> QED BY <1>3, <1>4

LEMMA RolesKeep == ASSUME RolesSafe, [R!Next]_(R!vars) PROVE RolesSafe'
<1>1. CASE UNCHANGED R!vars
  <2>1. RoleJobs' /\ RolesStored'
    BY <1>1 DEF R!vars, RolesSafe, RolesStored, RoleJobs, R!_managed_roles, JobShaped, Alone, Ready
  <2>2. Replies'
    BY <1>1 DEF R!vars, RolesSafe, Replies, HasAsAnswered, Unclaimed
  <2> QED BY <2>1, <2>2 DEF RolesSafe
<1> QED BY <1>1, RequestKeeps, CreateRoleKeeps, RenameKeeps, ReadKeeps, AddKeeps, DeleteRoleKeeps,
           RemoveKeeps, GrantKeeps, StopKeeps DEF R!Next

LEMMA RolesStart == R!Init => RolesSafe
<1> SUFFICES ASSUME R!Init PROVE RolesSafe
  OBVIOUS
<1>1. R!_managed_roles = {} /\ RolesStored
  BY DEF R!Init, RolesStored, R!_managed_roles
<1>2. RoleJobs
  <2>1. \A c \in Clients : job[c] = R!Idle
    BY DEF R!Init
  <2> QED BY <2>1, IdleShaped DEF R!Init, RoleJobs, Alone, Ready
<1>3. Replies
  BY DEF R!Init, Replies
<1> QED BY <1>1, <1>2, <1>3 DEF RolesSafe

LEMMA RolesAnswer == RolesSafe => R!RolesAsAnswered
  BY DEF RolesSafe, RolesStored, Replies, HasAsAnswered, Unclaimed, R!RolesAsAnswered

-----------------------------------------------------------------------------
(* The featured pages.  A page that no save overtook shows what the public *)
(* search shows, on its way to the cache and in it.                        *)

Fresh(k, p) == p \subseteq N!Search(k)
PagesStored ==
  /\ DOMAIN listing = N!Advertised
  /\ \A l \in N!Advertised : DOMAIN listing[l] = {"owner", "agency", "agent", "published", "open", "featured", "date"}
  /\ DOMAIN cache = N!Kinds
  /\ \A k \in N!Kinds : cache[k] # None =>
       cache[k] \in [page : SUBSET N!Advertised, overtaken : BOOLEAN]
  /\ job \in [Applicants -> [kind : SUBSET N!Advertised, page : SUBSET N!Advertised, overtaken : BOOLEAN]]
PagesFresh ==
  /\ \A c \in Applicants : ~job[c].overtaken /\ job[c].kind \in N!Kinds => Fresh(job[c].kind, job[c].page)
  /\ N!FeaturedFresh
ScreensSafe == PagesStored /\ PagesFresh

LEMMA FeaturedIsPublic ==
  ASSUME NEW k
  PROVE  N!Featured(k) \subseteq N!Search(k) /\ N!Search(k) \subseteq N!Advertised
  BY DEF N!Featured, N!Search, N!FeaturedProperties, N!FeaturedStays, N!PublicProperties, N!PublicStays,
         N!Advertised

\* What a save of one listing leaves alone.
LEMMA SearchElsewhere ==
  ASSUME NEW l \in N!Advertised, NEW k \in N!Kinds, k # N!KindOf(l), DOMAIN listing' = N!Advertised,
         \A m \in N!Advertised \ {l} : listing'[m] = listing[m]
  PROVE  N!Search(k)' = N!Search(k)
<1>1. Properties \cap Stays = {}
  BY Constants DEF N!Terms
<1>2. CASE l \in Properties
  <2>1. k = Stays /\ k # Properties /\ \A m \in Stays : listing'[m] = listing[m]
    BY <1>1, <1>2 DEF N!Kinds, N!KindOf, N!Advertised
  <2>2. N!PublicStays' = N!PublicStays
    BY <2>1 DEF N!PublicStays, N!Published
  <2> QED BY <2>1, <2>2 DEF N!Search
<1>3. CASE l \notin Properties
  <2>1. k = Properties /\ \A m \in Properties : listing'[m] = listing[m]
    BY <1>3 DEF N!Kinds, N!KindOf, N!Advertised
  <2>2. N!PublicProperties' = N!PublicProperties
    BY <2>1 DEF N!PublicProperties, N!Published, N!Open
  <2> QED BY <2>1, <2>2 DEF N!Search
<1> QED BY <1>2, <1>3

LEMMA ListingSaveKeeps ==
  ASSUME ScreensSafe, NEW l \in N!Advertised, NEW r, N!Save(l, r), DOMAIN r = DOMAIN listing[l]
  PROVE  ScreensSafe'
<1>1. /\ listing' = [listing EXCEPT ![l] = r] /\ pending' = pending \cup {N!KindOf(l)} /\ cache' = cache
      /\ job' = [c \in Applicants |-> IF job[c].kind = N!KindOf(l) THEN [job[c] EXCEPT !.overtaken = TRUE]
                                      ELSE job[c]]
  BY DEF N!Save
<1>2. DOMAIN listing' = N!Advertised /\ listing'[l] = r /\ \A m \in N!Advertised \ {l} : listing'[m] = listing[m]
  BY <1>1 DEF ScreensSafe, PagesStored
<1>3. ASSUME NEW c \in Applicants
      PROVE  /\ job'[c] \in [kind : SUBSET N!Advertised, page : SUBSET N!Advertised, overtaken : BOOLEAN]
             /\ ~job'[c].overtaken => ~job[c].overtaken /\ job'[c] = job[c] /\ job[c].kind # N!KindOf(l)
  <2> DEFINE was == job[c]
  <2>1. was \in [kind : SUBSET N!Advertised, page : SUBSET N!Advertised, overtaken : BOOLEAN]
    BY DEF ScreensSafe, PagesStored
  <2>2. job'[c] = IF was.kind = N!KindOf(l) THEN [was EXCEPT !.overtaken = TRUE] ELSE was
    BY <1>1
  <2> HIDE DEF was
  <2>3. CASE was.kind = N!KindOf(l)
    <3>1. job'[c] = [was EXCEPT !.overtaken = TRUE]
      BY <2>2, <2>3
    <3> QED BY <2>1, <3>1
  <2>4. CASE was.kind # N!KindOf(l)
    BY <2>1, <2>2, <2>4 DEF was
  <2> QED BY <2>3, <2>4
<1>4. PagesStored'
  <2>1. job' \in [Applicants -> [kind : SUBSET N!Advertised, page : SUBSET N!Advertised, overtaken : BOOLEAN]]
    BY <1>1, <1>3
  <2>2. \A m \in N!Advertised : DOMAIN listing'[m] = {"owner", "agency", "agent", "published", "open", "featured", "date"}
    BY <1>2 DEF ScreensSafe, PagesStored
  <2> QED BY <1>1, <1>2, <2>1, <2>2 DEF ScreensSafe, PagesStored, N!Advertised, N!Kinds
<1>5. ASSUME NEW c \in Applicants, ~job'[c].overtaken, job'[c].kind \in N!Kinds
      PROVE  Fresh(job[c].kind, job[c].page)'
  <2>1. job'[c] = job[c] /\ job[c].page \subseteq N!Search(job[c].kind) /\ job[c].kind # N!KindOf(l)
    BY <1>3, <1>5 DEF ScreensSafe, PagesFresh, Fresh
  <2>2. PICK k \in N!Kinds : k = job[c].kind
    BY <1>5, <2>1
  <2>3. N!Search(k)' = N!Search(k)
    BY <1>2, <2>1, <2>2, SearchElsewhere
  <2>4. job'[c].page \subseteq N!Search(k)'
    BY <2>1, <2>2, <2>3
  <2>5. job'[c].kind = k
    BY <2>1, <2>2
  <2> QED BY <2>4, <2>5 DEF Fresh, N!Search
<1>6. N!FeaturedFresh'
  <2> SUFFICES ASSUME NEW k \in N!Kinds, cache[k] # None, ~cache[k].overtaken, k \notin pending'
               PROVE  cache[k].page \subseteq N!Search(k)'
    BY <1>1 DEF N!FeaturedFresh, N!Kinds, N!Search
  <2>1. k # N!KindOf(l) /\ k \notin pending
    BY <1>1
  <2> QED BY <1>2, <2>1, SearchElsewhere DEF ScreensSafe, PagesFresh, N!FeaturedFresh
<1>7. \A c \in Applicants : ~job'[c].overtaken /\ job'[c].kind \in N!Kinds => Fresh(job[c].kind, job[c].page)'
  BY <1>5
<1> QED BY <1>4, <1>6, <1>7 DEF ScreensSafe, PagesFresh, N!Kinds

\* Rows change, but nobody's publication and no property's availability.
LEMMA SearchStays ==
  ASSUME UNCHANGED <<cache, pending, job>>, ScreensSafe, DOMAIN listing' = DOMAIN listing,
         \A l \in N!Advertised : /\ DOMAIN listing'[l] = DOMAIN listing[l]
                                 /\ listing'[l].published = listing[l].published
                                 /\ l \in Properties => listing'[l].open = listing[l].open
  PROVE  ScreensSafe'
<1>1. PagesStored'
  BY DEF ScreensSafe, PagesStored, N!Advertised, N!Kinds
<1>2. ASSUME NEW k PROVE N!Search(k)' = N!Search(k)
  BY DEF N!Search, N!PublicProperties, N!PublicStays, N!Published, N!Open, N!Advertised
<1>3. N!FeaturedFresh'
  BY <1>2 DEF ScreensSafe, PagesFresh, N!FeaturedFresh, N!Kinds
<1>4. ASSUME NEW c \in Applicants, ~job'[c].overtaken, job'[c].kind \in N!Kinds
      PROVE  Fresh(job[c].kind, job[c].page)'
  <2>1. PICK k \in N!Kinds : k = job[c].kind /\ k = job'[c].kind
    BY <1>4
  <2>2. job[c].page \subseteq N!Search(k)
    BY <1>4, <2>1 DEF ScreensSafe, PagesFresh, Fresh
  <2>3. job'[c].page \subseteq N!Search(k)'
    BY <1>2, <2>2
  <2> QED BY <2>1, <2>3 DEF Fresh, N!Search
<1> QED BY <1>1, <1>3, <1>4 DEF ScreensSafe, PagesFresh, N!Kinds

LEMMA ChangeKeeps ==
  ASSUME ScreensSafe, NEW l \in N!Advertised, NEW u, NEW a,
         N!Publish(l) \/ N!Highlight(l) \/ N!Assign(l, u) \/ N!Confirm(l) \/ N!Transfer(l, u, a)
  PROVE  ScreensSafe'
<1>1. CASE N!Publish(l)
  BY <1>1, ListingSaveKeeps DEF N!Publish
<1>2. CASE N!Highlight(l)
  BY <1>2, ListingSaveKeeps DEF N!Highlight
<1>3. CASE N!Assign(l, u)
  BY <1>3, ListingSaveKeeps DEF N!Assign
<1>4. CASE N!Confirm(l)
  BY <1>4, ListingSaveKeeps DEF N!Confirm
<1>5. CASE N!Transfer(l, u, a)
  BY <1>5, ListingSaveKeeps DEF N!Transfer
<1> QED BY <1>1, <1>2, <1>3, <1>4, <1>5

LEMMA QueryKeeps ==
  ASSUME ScreensSafe, NEW c \in Applicants, NEW k \in N!Kinds, N!Query(c, k)
  PROVE  ScreensSafe'
<1>1. /\ job' = [job EXCEPT ![c] = [kind |-> k, page |-> N!Featured(k), overtaken |-> FALSE]]
      /\ UNCHANGED <<listing, cache, pending>>
  BY DEF N!Query, N!tables
<1>2. k \subseteq N!Advertised /\ N!Featured(k) \subseteq N!Advertised /\ N!Featured(k) \subseteq N!Search(k)
  BY FeaturedIsPublic DEF N!Kinds, N!Advertised
<1> DEFINE p == N!Featured(k)
<1> HIDE DEF p
<1>3. /\ job' \in [Applicants -> [kind : SUBSET N!Advertised, page : SUBSET N!Advertised, overtaken : BOOLEAN]]
      /\ job'[c].kind = k /\ job'[c].page = p /\ \A d \in Applicants \ {c} : job'[d] = job[d]
  BY <1>1, <1>2 DEF ScreensSafe, PagesStored, p
<1>4. PagesStored'
  BY <1>1, <1>3 DEF ScreensSafe, PagesStored, N!Advertised, N!Kinds
<1>5. \A x : N!Search(x)' = N!Search(x)
  BY <1>1 DEF N!Search, N!PublicProperties, N!PublicStays, N!Published, N!Open
<1>6. N!FeaturedFresh'
  BY <1>1, <1>5 DEF ScreensSafe, PagesFresh, N!FeaturedFresh, N!Kinds
<1>7. ASSUME NEW d \in Applicants, ~job'[d].overtaken, job'[d].kind \in N!Kinds
      PROVE  Fresh(job[d].kind, job[d].page)'
  <2>1. PICK x \in N!Kinds : x = job'[d].kind
    BY <1>7
  <2>2. job'[d].page \subseteq N!Search(x)
    <3>1. CASE d = c
      BY <1>2, <1>3, <2>1, <3>1 DEF p
    <3>2. CASE d # c
      BY <1>3, <1>7, <2>1, <3>2 DEF ScreensSafe, PagesFresh, Fresh
    <3> QED BY <3>1, <3>2
  <2>3. job'[d].page \subseteq N!Search(x)'
    BY <1>5, <2>2
  <2> QED BY <2>1, <2>3 DEF Fresh, N!Search
<1> QED BY <1>4, <1>6, <1>7 DEF ScreensSafe, PagesFresh, N!Kinds

\* The cache changes: what is fresh and not due to be cleared was so before, or is a job's.
LEMMA CacheKeeps ==
  ASSUME ScreensSafe, UNCHANGED listing, DOMAIN cache' = N!Kinds,
         job' \in [Applicants -> [kind : SUBSET N!Advertised, page : SUBSET N!Advertised, overtaken : BOOLEAN]],
         \A c \in Applicants : job'[c].kind \in N!Kinds /\ ~job'[c].overtaken =>
                                 job'[c] = job[c] \/ job'[c].page = {},
         \A k \in N!Kinds : cache'[k] # None =>
           /\ cache'[k] \in [page : SUBSET N!Advertised, overtaken : BOOLEAN]
           /\ ~cache'[k].overtaken /\ k \notin pending' =>
                \/ cache'[k] = cache[k] /\ k \notin pending
                \/ cache'[k].page \subseteq N!Search(k)
  PROVE  ScreensSafe'
<1>1. PagesStored'
  BY DEF ScreensSafe, PagesStored, N!Advertised, N!Kinds
<1>2. \A x : N!Search(x)' = N!Search(x)
  BY DEF N!Search, N!PublicProperties, N!PublicStays, N!Published, N!Open
<1>3. N!FeaturedFresh'
  BY <1>2 DEF ScreensSafe, PagesFresh, N!FeaturedFresh, N!Kinds
<1>4. ASSUME NEW d \in Applicants, ~job'[d].overtaken, job'[d].kind \in N!Kinds
      PROVE  Fresh(job[d].kind, job[d].page)'
  <2>1. PICK x \in N!Kinds : x = job'[d].kind
    BY <1>4
  <2>2. job'[d].page \subseteq N!Search(x)
    BY <1>4, <2>1 DEF ScreensSafe, PagesFresh, Fresh
  <2>3. job'[d].page \subseteq N!Search(x)'
    BY <1>2, <2>2
  <2> QED BY <2>1, <2>3 DEF Fresh, N!Search
<1> QED BY <1>1, <1>3, <1>4 DEF ScreensSafe, PagesFresh, N!Kinds

LEMMA KeepKeeps == ASSUME ScreensSafe, NEW c \in Applicants, N!Keep(c) PROVE ScreensSafe'
<1> DEFINE j == job[c]
<1>1. /\ cache' = [cache EXCEPT ![j.kind] = [page |-> j.page, overtaken |-> j.overtaken]]
      /\ job' = [job EXCEPT ![c] = N!Idle] /\ UNCHANGED <<listing, pending>>
  BY DEF N!Keep, N!tables
<1>2. j \in [kind : SUBSET N!Advertised, page : SUBSET N!Advertised, overtaken : BOOLEAN]
  BY DEF ScreensSafe, PagesStored
<1>3. ~j.overtaken /\ j.kind \in N!Kinds => j.page \subseteq N!Search(j.kind)
  BY DEF ScreensSafe, PagesFresh, Fresh
<1> HIDE DEF j
<1>4. N!Idle \in [kind : SUBSET N!Advertised, page : SUBSET N!Advertised, overtaken : BOOLEAN] /\ N!Idle.page = {}
  BY DEF N!Idle
<1>5. job' \in [Applicants -> [kind : SUBSET N!Advertised, page : SUBSET N!Advertised, overtaken : BOOLEAN]]
      /\ \A d \in Applicants : job'[d] = job[d] \/ job'[d].page = {}
  BY <1>1, <1>4 DEF ScreensSafe, PagesStored
<1>6. ASSUME NEW k \in N!Kinds, cache'[k] # None
      PROVE /\ cache'[k] \in [page : SUBSET N!Advertised, overtaken : BOOLEAN]
            /\ ~cache'[k].overtaken /\ k \notin pending' =>
                 \/ cache'[k] = cache[k] /\ k \notin pending
                 \/ cache'[k].page \subseteq N!Search(k)
  <2>1. CASE k = j.kind
    <3>1. cache'[k] = [page |-> j.page, overtaken |-> j.overtaken]
      BY <1>1, <2>1 DEF ScreensSafe, PagesStored
    <3> QED BY <1>2, <1>3, <2>1, <3>1
  <2>2. CASE k # j.kind
    <3>1. cache'[k] = cache[k]
      BY <1>1, <2>2 DEF ScreensSafe, PagesStored
    <3> QED BY <1>1, <1>6, <3>1 DEF ScreensSafe, PagesStored
  <2> QED BY <2>1, <2>2
<1>7. DOMAIN cache' = N!Kinds
  BY <1>1 DEF ScreensSafe, PagesStored
<1> QED BY <1>1, <1>5, <1>6, <1>7, CacheKeeps

LEMMA DropKeeps ==
  ASSUME ScreensSafe, NEW k \in N!Kinds, N!Clear(k) \/ N!Forget(k) \/ N!Expire(k) PROVE ScreensSafe'
<1>1. /\ UNCHANGED <<listing, job>> /\ DOMAIN cache' = N!Kinds
      /\ \A x \in N!Kinds \ {k} : cache'[x] = cache[x] /\ (x \in pending' <=> x \in pending)
  BY DEF N!Clear, N!Forget, N!Expire, N!tables, ScreensSafe, PagesStored
<1>2. cache'[k] = None \/ (cache'[k] = [cache[k] EXCEPT !.overtaken = TRUE] /\ cache[k] # None)
  BY DEF N!Clear, N!Forget, N!Expire, ScreensSafe, PagesStored
<1>3. cache'[k] # None => cache'[k] \in [page : SUBSET N!Advertised, overtaken : BOOLEAN] /\ cache'[k].overtaken
  BY <1>2 DEF ScreensSafe, PagesStored
<1>4. ASSUME NEW x \in N!Kinds, cache'[x] # None
      PROVE /\ cache'[x] \in [page : SUBSET N!Advertised, overtaken : BOOLEAN]
            /\ ~cache'[x].overtaken /\ x \notin pending' =>
                 \/ cache'[x] = cache[x] /\ x \notin pending
                 \/ cache'[x].page \subseteq N!Search(x)
  <2>1. CASE x = k
    BY <1>3, <1>4, <2>1
  <2>2. CASE x # k
    BY <1>1, <1>4, <2>2 DEF ScreensSafe, PagesStored
  <2> QED BY <2>1, <2>2
<1>5. job' = job /\ job' \in [Applicants -> [kind : SUBSET N!Advertised, page : SUBSET N!Advertised, overtaken : BOOLEAN]]
  BY <1>1 DEF ScreensSafe, PagesStored
<1> QED BY <1>1, <1>4, <1>5, CacheKeeps

LEMMA ScreensKeep == ASSUME ScreensSafe, [N!Next]_(N!vars) PROVE ScreensSafe'
<1>1. CASE UNCHANGED N!vars
  BY <1>1, SearchStays DEF N!vars, N!tables
<1>2. ASSUME NEW s \in Stays, N!SetRoom(s) PROVE ScreensSafe'
  <2>1. listing' = [listing EXCEPT ![s] = [listing[s] EXCEPT !.open = ~listing[s].open]]
        /\ UNCHANGED <<cache, pending, job>> /\ s \notin Properties /\ s \in N!Advertised
    BY <1>2, Constants DEF N!SetRoom, N!Terms, N!Advertised
  <2>2. \A l \in N!Advertised \ {s} : listing'[l] = listing[l]
    BY <2>1 DEF ScreensSafe, PagesStored
  <2>3. listing'[s] = [listing[s] EXCEPT !.open = ~listing[s].open]
    BY <2>1 DEF ScreensSafe, PagesStored
  <2>4. DOMAIN listing'[s] = DOMAIN listing[s] /\ listing'[s].published = listing[s].published
    BY <2>1, <2>3 DEF ScreensSafe, PagesStored
  <2> QED BY <2>1, <2>2, <2>4, SearchStays
<1>3. ASSUME (\E u \in People : N!Join(u) \/ N!Leave(u)) \/ N!Close PROVE ScreensSafe'
  BY <1>3, SearchStays DEF N!Join, N!Leave, N!Close
<1>4. ASSUME NEW l \in N!Advertised, NEW u, NEW a,
             N!Publish(l) \/ N!Highlight(l) \/ N!Assign(l, u) \/ N!Confirm(l) \/ N!Transfer(l, u, a)
      PROVE  ScreensSafe'
  BY <1>4, ChangeKeeps
<1>5. Properties \subseteq N!Advertised
  BY DEF N!Advertised
<1> QED BY <1>1, <1>2, <1>3, <1>4, <1>5, QueryKeeps, KeepKeeps, DropKeeps DEF N!Next

LEMMA ScreensStart == N!Init => ScreensSafe
<1> SUFFICES ASSUME N!Init PROVE ScreensSafe
  OBVIOUS
<1>1. DOMAIN listing = N!Advertised
      /\ \A l \in N!Advertised : DOMAIN listing[l] = {"owner", "agency", "agent", "published", "open", "featured", "date"}
  BY DEF N!Init, N!Listed
<1>2. cache = [k \in N!Kinds |-> None] /\ job = [c \in Applicants |-> N!Idle] /\ N!Idle.page = {}
  BY DEF N!Init, N!Idle
<1>3. N!Idle \in [kind : SUBSET N!Advertised, page : SUBSET N!Advertised, overtaken : BOOLEAN]
  BY DEF N!Idle
<1> QED BY <1>1, <1>2, <1>3 DEF ScreensSafe, PagesStored, PagesFresh, Fresh, N!FeaturedFresh

-----------------------------------------------------------------------------
(* Checklists.  A document of a request names one of the needs.            *)

NeedsNamed == \A d \in Documents : document[d].request \in Requests => document[d].need \in Needs

LEMMA NeedsStart == ASSUME V!Definitions, V!Init PROVE NeedsNamed
  BY DEF V!Definitions, V!Init, V!NoDocument, NeedsNamed

LEMMA NeedsKeep == ASSUME V!Definitions, ReviewsSafe, NeedsNamed, [V!Next]_(V!vars) PROVE NeedsNamed'
<1>1. \A d \in Documents : document[d] \in [request: Requests \cup {None}, need: Needs \cup {None},
                                            status: {"NONE", "PENDING", "REJECTED"}]
  BY DEF ReviewsSafe, V!TypeOK, V!DocumentRows
<1>0. DOMAIN document = Documents /\ None \notin Requests
  BY DEF ReviewsSafe, V!TypeOK, V!Definitions
<1>2. CASE UNCHANGED document
  BY <1>2 DEF NeedsNamed
<1>3. ASSUME NEW c \in Applicants, V!Upload(c) PROVE NeedsNamed'
  <2>1. PICK d \in Documents, n \in Needs :
          document' = [document EXCEPT ![d] = [request |-> job[c].request, need |-> n, status |-> "PENDING"]]
    BY <1>3 DEF V!Upload
  <2>2. \A e \in Documents : document'[e] = IF e = d THEN [request |-> job[c].request, need |-> n, status |-> "PENDING"]
                                            ELSE document[e]
    BY <1>0, <2>1
  <2> QED BY <2>2 DEF NeedsNamed
<1>4. ASSUME NEW c \in Applicants, V!Remove(c) PROVE NeedsNamed'
  <2>1. PICK d \in Documents : document' = [document EXCEPT ![d] = V!NoDocument]
    BY <1>4 DEF V!Remove, V!DocumentsOf
  <2> QED BY <1>0, <2>1 DEF NeedsNamed, V!NoDocument
<1>5. ASSUME NEW some, V!Refuse(some) PROVE NeedsNamed'
  <2>1. ASSUME NEW d \in Documents
        PROVE  document'[d].request = document[d].request /\ document'[d].need = document[d].need
    <3>1. document'[d] = IF d \in some THEN [document[d] EXCEPT !.status = "REJECTED"] ELSE document[d]
      BY <1>5 DEF V!Refuse
    <3> QED BY <1>1, <3>1
  <2> QED BY <2>1 DEF NeedsNamed
<1>6. ASSUME NEW r \in Requests, V!Destroy(r) PROVE NeedsNamed'
  <2>1. document' = [d \in Documents |-> IF document[d].request = r THEN V!NoDocument ELSE document[d]]
    BY <1>6 DEF V!Destroy
  <2> QED BY <1>0, <2>1 DEF NeedsNamed, V!NoDocument
<1>7. ASSUME NEW r \in Requests, V!Decide(r) PROVE NeedsNamed'
  <2>1. UNCHANGED document \/ \E some : V!Refuse(some)
    BY <1>7 DEF V!Decide, V!StartReview, V!Approve, V!Reject, V!RejectDocument, V!RequestChanges
  <2> QED BY <1>2, <1>5, <2>1
<1>8. ASSUME NEW c \in Applicants, V!Apply(c) PROVE NeedsNamed'
  <2>1. UNCHANGED document \/ V!Upload(c) \/ V!Remove(c)
    BY Zenon, <1>8 DEF V!Apply, V!Load, V!LoadItem, V!Create, V!Submit, V!Edit, V!Cancel, V!Suspend, V!GiveUp
  <2> QED BY <1>2, <1>3, <1>4, <2>1
<1> QED BY <1>2, <1>6, <1>7, <1>8 DEF V!Next, V!vars

LEMMA DocumentCounts == ASSUME NEW some PROVE V!Cardinality(some) = Cardinality(some)
  BY DEF V!Cardinality, Cardinality

\* The documents of an entity's requests, as the fold adds them up.
DocumentTotal(i) == V!MapThenSumSet(LAMBDA r : V!Cardinality(V!DocumentsOf(r)), V!Filed(i))

LEMMA DocumentSum ==
  ASSUME NEW i, NEW f, f = [r \in V!Filed(i) |-> V!Cardinality(V!DocumentsOf(r))],
         NEW some, Adds(some, V!Filed(i), f)
  PROVE  \E g : DocumentTotal(i) = g[V!Filed(i)] /\ Adds(g, V!Filed(i), f)
<1> DEFINE keys == V!Filed(i)
<1> DEFINE Sum(g) == g = [s \in SUBSET keys |->
                            IF s = {} THEN 0 ELSE V!Cardinality(V!DocumentsOf(Picked(s))) + g[s \ {Picked(s)}]]
<1>1. DocumentTotal(i) = (CHOOSE g : Sum(g))[keys]
  BY DEF DocumentTotal, V!MapThenSumSet, V!MapThenFoldSet, Picked
<1>2. ASSUME NEW g PROVE Sum(g) <=> Adds(g, keys, f)
  <2>1. \A s \in SUBSET keys : s # {} => Picked(s) \in keys
    BY DEF Picked
  <2> QED BY <2>1 DEF Adds
<1>3. Sum(some)
  BY <1>2
<1> HIDE DEF Sum
<1>4. Sum(CHOOSE g : Sum(g))
  BY <1>3
<1> QED BY <1>1, <1>2, <1>4

LEMMA DocumentsCounted == ASSUME NEW i PROVE V!_evidence_counts(i).documents = DocumentTotal(i)
<1> DEFINE keys == V!Filed(i)
<1> DEFINE part == [r \in keys |-> V!DocumentsOf(r)]
<1>0. PICK f : f = [r \in keys |-> V!Cardinality(V!DocumentsOf(r))]
  OBVIOUS
<1>1. Parts(keys, part, Documents, f)
  <2>1. IsFiniteSet(keys) /\ IsFiniteSet(Documents)
    BY Countable, FS_Subset DEF V!Filed
  <2>2. \A r \in keys : part[r] \subseteq Documents
    BY DEF V!DocumentsOf
  <2>3. \A r \in keys : f[r] = Cardinality(part[r])
    BY <1>0, DocumentCounts
  <2>4. \A r, q \in keys : r # q => part[r] \cap part[q] = {}
    BY DEF V!DocumentsOf
  <2> QED BY <2>1, <2>2, <2>3, <2>4 DEF Parts
<1>2. Within(part, Documents, keys) = {d \in Documents : document[d].request \in V!Filed(i)}
  BY DEF Within, V!DocumentsOf
<1> HIDE DEF part
<1>3. PICK some : Adds(some, keys, f)
  BY <1>1, SumExists
<1>4. PICK g : DocumentTotal(i) = g[keys] /\ Adds(g, keys, f)
  BY <1>0, <1>3, DocumentSum
<1>5. V!_evidence_counts(i).documents = Cardinality(Within(part, Documents, keys))
  BY <1>2, DocumentCounts DEF V!_evidence_counts
<1> QED BY <1>1, <1>4, <1>5, SumCounts

LEMMA ChecklistsTick == ASSUME V!Definitions, ReviewsSafe, NeedsNamed PROVE V!ChecklistAgrees
<1>1. \A r \in Requests : {n \in Needs : V!get_requirements(r)[n]} = V!Evidence(r)
  BY DEF V!get_requirements, V!Evidence, V!DocumentsOf, NeedsNamed
<1>2. \A i \in Items : V!Duplicate(i, {}) <=> V!Verified(i) \/ \E r \in V!verification_attention : request[r].item = i
  BY DEF V!Duplicate, V!Verified, V!verification_attention, V!Editable, V!InReview
<1>3. V!verification_requests = V!Cardinality({r \in Requests : V!Reviewable(r)})
  BY DEF V!verification_requests, V!Reviewable, V!InReview
<1> QED BY <1>1, <1>2, <1>3, DocumentsCounted DEF V!ChecklistAgrees, DocumentTotal

-----------------------------------------------------------------------------
(* Notices.  What is announced determines where its link leads.            *)

\* The part of the site an announcement to somebody is about, for each kind of thing.
Area(k, as, what) ==
  CASE k = "booking"      -> IF as = "guest" THEN "bookings" ELSE "manage/bookings"
    [] k = "viewing"      -> IF what = "REQUESTED" THEN "viewings" ELSE "account/viewings"
    [] k = "verification" -> "verification"
    [] k = "property"     -> IF what \in {"APPROVED", "RESTORED", "SUSPEND", "PAUSE", "REINSTATE"}
                             THEN "properties" ELSE "manage/properties"
    [] k = "stay"         -> IF what \in {"APPROVED", "RESTORED", "SUSPEND", "PAUSE", "REINSTATE"}
                             THEN "stays" ELSE "manage/stays"
Moderated == {"APPROVED", "REJECTED", "CHANGES_REQUESTED", "SUSPENDED", "RESTORED"}
NoticeFits(k, n) ==
  /\ n.as \in {"guest", "host"} /\ n.route.area = Area(k, n.as, n.what)
  /\ k = "booking" => (n.manager <=> n.as = "host") /\ (n.type = "BOOKING_REQUESTED" => n.as = "host")
  /\ IF n.action = None THEN n.status = None
     ELSE /\ k \in {"property", "stay"} /\ n.action \in Moderated /\ n.what = n.action
          /\ n.status = IF L!Public(n.what) THEN "PUBLISHED" ELSE n.what
LetterFits(k, l) ==
  /\ l.link.area = Area(k, l.as, l.what)
  /\ l.template # "transactional" =>
       ((l.what \in L!Claims(l.template).what /\ l.as = L!Claims(l.template).as)
        <=> ~ (\/ k = "verification" /\ l.what \in {"SUSPENDED", "CHANGES_REQUESTED"}
               \/ k = "booking" /\ l.as = "host" /\ l.what \in {"INSTANT", "WITHDRAWN"}))
BothFit(k, n) == NoticeFits(k, n) /\ LetterFits(k, L!Letter(n))

NoticesSafe ==
  /\ DOMAIN thing = {"kind", "owner", "guest", "status"} /\ thing.kind \in L!Kinds
  /\ \A n \in inbox : NoticeFits(thing.kind, n)
  /\ \A l \in letters : LetterFits(thing.kind, l)

LEMMA AnnounceKeeps ==
  ASSUME NoticesSafe, NEW notices, NEW status, L!Announce(notices, status),
         \A n \in notices : BothFit(thing.kind, n)
  PROVE  NoticesSafe'
<1>1. DOMAIN thing' = DOMAIN thing /\ thing'.kind = thing.kind
  BY DEF L!Announce, NoticesSafe
<1>2. \A n \in inbox' : n \in inbox \/ n \in notices
  BY DEF L!Announce
<1>3. \A l \in letters' : l \in letters \/ \E n \in notices : l = L!Letter(n)
  BY DEF L!Announce
<1>4. \A n \in inbox' : NoticeFits(thing.kind, n)
  BY Zenon, <1>2 DEF NoticesSafe, BothFit
<1>5. \A l \in letters' : LetterFits(thing.kind, l)
  BY Zenon, <1>3 DEF NoticesSafe, BothFit
<1> QED BY <1>1, <1>4, <1>5 DEF NoticesSafe

LEMMA BookingFits ==
  ASSUME L!Terms, NEW what \in DOMAIN L!BookingOutcomes \cup {"REQUESTED", "INSTANT", "REMINDER", "WITHDRAWN"},
         NEW n \in L!AboutBooking(what)
  PROVE  BothFit("booking", n)
<1> USE DEF L!AboutBooking, L!ToHost, L!ToGuest, L!Notice, L!One, L!BookingOutcomes, BothFit, NoticeFits,
        LetterFits, L!Letter, L!template_for_notification, L!NOTIFICATION_TEMPLATE_KEYS, L!Claims, Area
<1>1. CASE what = "REQUESTED"
  BY <1>1
<1>2. CASE what = "INSTANT"
  BY <1>2
<1>3. CASE what = "REMINDER"
  BY <1>3
<1>4. CASE what = "WITHDRAWN"
  BY <1>4
<1>5. CASE what = "CONFIRMED"
  BY <1>5
<1>6. CASE what = "DECLINED"
  BY <1>6
<1>7. CASE what = "CANCELLED"
  BY <1>7
<1>8. CASE what = "EXPIRED"
  BY <1>8
<1> QED BY Zenon, <1>1, <1>2, <1>3, <1>4, <1>5, <1>6, <1>7, <1>8

LEMMA ViewingFits ==
  ASSUME L!Terms, NEW what \in DOMAIN L!ViewingOutcomes \cup {"REQUESTED"}, NEW n \in L!AboutViewing(what)
  PROVE  BothFit("viewing", n)
BY DEF L!AboutViewing, L!Notice, L!One, L!ViewingOutcomes, BothFit, NoticeFits, LetterFits, L!Letter,
       L!template_for_notification, L!NOTIFICATION_TEMPLATE_KEYS, L!Claims, Area

LEMMA VerificationFits ==
  ASSUME L!Terms, NEW what \in {"APPROVED", "REJECTED", "CHANGES_REQUESTED", "DOCUMENT_REJECTED", "SUSPENDED"},
         NEW n \in L!AboutVerification(what)
  PROVE  BothFit("verification", n)
<1>1. /\ n.as = "guest" /\ n.what = what /\ n.type = "VERIFICATION_UPDATE" /\ n.route.area = "verification"
      /\ n.action = None /\ n.status = None
  BY DEF L!AboutVerification, L!Notice, L!One, L!All
<1>2. NoticeFits("verification", n)
  BY <1>1 DEF NoticeFits, Area
<1> DEFINE l == L!Letter(n)
<1>3. /\ l.as = "guest" /\ l.what = what /\ l.link.area = "verification"
      /\ l.template = CASE what = "APPROVED" -> "verification.approved"
                        [] what \in {"REJECTED", "DOCUMENT_REJECTED"} -> "verification.rejected"
                        [] OTHER -> "verification.submitted"
  BY <1>1 DEF L!Letter, L!template_for_notification
<1> HIDE DEF l
<1>4. LetterFits("verification", l)
  <2>1. CASE what = "APPROVED"
    BY <1>3, <2>1 DEF LetterFits, L!Claims, Area
  <2>2. CASE what \in {"REJECTED", "DOCUMENT_REJECTED"}
    BY <1>3, <2>2 DEF LetterFits, L!Claims, Area
  <2>3. CASE what \in {"CHANGES_REQUESTED", "SUSPENDED"}
    BY <1>3, <2>3 DEF LetterFits, L!Claims, Area
  <2> QED BY <2>1, <2>2, <2>3
<1> QED BY <1>2, <1>4 DEF BothFit, l

LEMMA ModerationFits ==
  ASSUME L!Terms, NEW what \in Moderated, NEW status, status = IF L!Public(what) THEN "PUBLISHED" ELSE what,
         NEW n
  PROVE  /\ n \in L!AboutProperty(what, status) => BothFit("property", n)
         /\ n \in L!AboutStay(what, status) => BothFit("stay", n)
<1>1. ASSUME NEW shown, NEW edit, n \in L!Decided(what, status, shown, edit)
      PROVE  /\ n.as = "host" /\ n.what = what /\ n.type = "LISTING_STATUS_UPDATE"
             /\ n.action = what /\ n.status = status
             /\ n.route.area = IF what \in {"APPROVED", "RESTORED"} THEN shown ELSE edit
  <2>1. n = [user |-> thing.owner, as |-> "host", type |-> "LISTING_STATUS_UPDATE", what |-> what,
             route |-> [area |-> IF what \in {"APPROVED", "RESTORED"} THEN shown ELSE edit, names |-> TRUE],
             action |-> what, status |-> status, manager |-> FALSE, serial |-> left]
    <3> DEFINE route == IF L!Public(what) THEN L!One(shown) ELSE L!One(edit)
    <3> DEFINE plain == L!Notice(thing.owner, "host", "LISTING_STATUS_UPDATE", what, route)
    <3>1. n = [plain EXCEPT !.action = what, !.status = status, !.serial = left]
      BY <1>1 DEF L!Decided
    <3>2. route = [area |-> IF what \in {"APPROVED", "RESTORED"} THEN shown ELSE edit, names |-> TRUE]
      BY DEF L!One, L!Public
    <3> HIDE DEF route
    <3>3. plain = [user |-> thing.owner, as |-> "host", type |-> "LISTING_STATUS_UPDATE", what |-> what,
                   route |-> route, action |-> None, status |-> None, manager |-> FALSE, serial |-> 0]
      BY DEF L!Notice
    <3> HIDE DEF plain
    <3> QED BY <3>1, <3>2, <3>3
  <2> QED BY <2>1
<1>2. n \in L!AboutProperty(what, status) => BothFit("property", n)
  BY <1>1 DEF L!AboutProperty, Moderated, BothFit, NoticeFits, LetterFits, L!Letter, Area,
              L!template_for_notification, L!NOTIFICATION_TEMPLATE_KEYS, L!Terms
<1>3. n \in L!AboutStay(what, status) => BothFit("stay", n)
  BY <1>1 DEF L!AboutStay, Moderated, BothFit, NoticeFits, LetterFits, L!Letter, Area,
              L!template_for_notification, L!NOTIFICATION_TEMPLATE_KEYS, L!Terms
<1> QED BY <1>2, <1>3

LEMMA StaffFits ==
  ASSUME L!Terms, NEW what \in {"SUSPEND", "PAUSE", "REINSTATE"}, thing.kind \in {"property", "stay"},
         NEW n \in L!ByStaff(what)
  PROVE  BothFit(thing.kind, n)
BY DEF L!ByStaff, L!Notice, L!One, BothFit, NoticeFits, LetterFits,
       L!Letter, L!template_for_notification, L!NOTIFICATION_TEMPLATE_KEYS, Area

LEMMA ReminderFits ==
  ASSUME L!Terms, NEW what \in {"REMINDER", "LAPSED"}, NEW n \in L!Reminder(what)
  PROVE  BothFit("property", n)
BY DEF L!Reminder, L!Notice, L!All, BothFit, NoticeFits, LetterFits,
       L!Letter, L!template_for_notification, L!NOTIFICATION_TEMPLATE_KEYS, Area

LEMMA NoticesKeep == ASSUME L!Terms, NoticesSafe, [L!Next]_(L!vars) PROVE NoticesSafe'
<1>1. ASSUME NEW what \in DOMAIN L!BookingOutcomes \cup {"REQUESTED", "INSTANT", "REMINDER", "WITHDRAWN"},
             L!Book(what)
      PROVE  NoticesSafe'
  BY <1>1, BookingFits, AnnounceKeeps DEF L!Book
<1>2. ASSUME NEW what \in DOMAIN L!ViewingOutcomes \cup {"REQUESTED"}, L!View(what) PROVE NoticesSafe'
  BY <1>2, ViewingFits, AnnounceKeeps DEF L!View
<1>3. ASSUME NEW what \in {"APPROVED", "REJECTED", "CHANGES_REQUESTED", "DOCUMENT_REJECTED", "SUSPENDED"},
             L!Review(what)
      PROVE  NoticesSafe'
  BY <1>3, VerificationFits, AnnounceKeeps DEF L!Review
<1>4. ASSUME NEW what \in Moderated, L!Moderate(what) PROVE NoticesSafe'
  <2> DEFINE status == IF L!Public(what) THEN "PUBLISHED" ELSE what
  <2>1. CASE thing.kind = "property"
    <3>1. L!Announce(L!AboutProperty(what, status), status)
      BY <1>4, <2>1 DEF L!Moderate
    <3>2. \A n \in L!AboutProperty(what, status) : BothFit(thing.kind, n)
      BY <2>1, ModerationFits
    <3> QED BY <3>1, <3>2, AnnounceKeeps
  <2>2. CASE thing.kind = "stay"
    <3>1. L!Announce(L!AboutStay(what, status), status)
      BY <1>4, <2>2 DEF L!Moderate
    <3>2. \A n \in L!AboutStay(what, status) : BothFit(thing.kind, n)
      BY <2>2, ModerationFits
    <3> QED BY <3>1, <3>2, AnnounceKeeps
  <2> QED BY <1>4, <2>1, <2>2 DEF L!Moderate
<1>5. ASSUME NEW what \in {"SUSPEND", "PAUSE", "REINSTATE"}, L!listing_action(what) PROVE NoticesSafe'
  BY <1>5, StaffFits, AnnounceKeeps DEF L!listing_action
<1>6. ASSUME NEW what \in {"REMINDER", "LAPSED"}, L!Remind(what) PROVE NoticesSafe'
  BY <1>6, ReminderFits, AnnounceKeeps DEF L!Remind
<1>7. ASSUME L!Submit PROVE NoticesSafe'
  BY <1>7, AnnounceKeeps DEF L!Submit
<1>8. ASSUME L!Transfer PROVE NoticesSafe'
  BY <1>8 DEF L!Transfer, NoticesSafe
<1>9. ASSUME UNCHANGED L!vars PROVE NoticesSafe'
  BY <1>9 DEF L!vars, NoticesSafe
<1> QED BY <1>1, <1>2, <1>3, <1>4, <1>5, <1>6, <1>7, <1>8, <1>9 DEF L!Next, Moderated

LEMMA NoticesStart == L!Init => NoticesSafe
  BY DEF L!Init, NoticesSafe

LEMMA NoRoute ==
  ASSUME L!Terms
  PROVE  L!One("properties") # None /\ L!One("manage/properties") # None /\ L!All("manage/properties") # None
<1>1. \A names \in BOOLEAN, area \in {"properties", "manage/properties"} :
        [area |-> area, names |-> names] \in [area : {"properties", "manage/properties"}, names : BOOLEAN]
  OBVIOUS
<1> QED BY <1>1 DEF L!Terms, L!One, L!All

\* Where a link leads when it is read.
LEMMA LinkLeads ==
  ASSUME L!Terms, NoticesSafe, NEW n \in inbox
  PROVE  /\ ~L!Astray(n) => L!get_action(n).area = Area(thing.kind, n.as, n.what)
         /\ L!Astray(n) => L!get_action(n).area = "manage/properties"
         /\ n.action # None /\ L!get_action(n) = L!One("manage/properties") => n.user = thing.owner
<1>0. NoticeFits(thing.kind, n) /\ thing.kind \in L!Kinds
  BY DEF NoticesSafe
<1> DEFINE semantic == L!_semantic_listing_route(n)
<1>1. CASE thing.kind = "booking"
  BY <1>0, <1>1 DEF NoticeFits, Area, L!get_action, L!booking_route, L!Astray, L!All
<1>2. CASE thing.kind # "booking" /\ n.action = None
  <2>1. semantic = None
    BY <1>0, <1>2 DEF NoticeFits, L!_semantic_listing_route, L!Terms
  <2> QED BY <1>0, <1>2, <2>1 DEF NoticeFits, L!get_action, L!Astray
<1>3. CASE thing.kind = "property" /\ n.action # None
  <2>1. CASE L!Public(n.action)
    <3>1. semantic = L!One("properties")
      BY <1>0, <1>3, <2>1 DEF NoticeFits, L!_semantic_listing_route, L!OfProperty
    <3>2. L!get_action(n) = L!One("properties")
      BY <1>3, <3>1, NoRoute DEF L!get_action
    <3>3. n.what \in {"APPROVED", "RESTORED"}
      BY <1>0, <1>3, <2>1 DEF NoticeFits, L!Public
    <3> QED BY <1>3, <3>2, <3>3 DEF L!Astray, L!One, Area
  <2>2. CASE ~L!Public(n.action)
    <3>1. semantic = IF thing.owner = n.user THEN L!One("manage/properties") ELSE L!All("manage/properties")
      BY <1>0, <1>3, <2>2
      DEF NoticeFits, L!_semantic_listing_route, L!OfProperty, L!_property_exists, Moderated, L!Public
    <3>2. L!get_action(n) = IF thing.owner = n.user THEN L!One("manage/properties") ELSE L!All("manage/properties")
      BY <1>3, <3>1, NoRoute DEF L!get_action
    <3>3. n.what \notin {"APPROVED", "RESTORED", "SUSPEND", "PAUSE", "REINSTATE"}
      BY <1>0, <1>3, <2>2 DEF NoticeFits, L!Public, Moderated
    <3> QED BY <1>3, <3>2, <3>3 DEF L!Astray, L!One, L!All, Area
  <2> QED BY <2>1, <2>2
<1>4. CASE thing.kind = "stay" /\ n.action # None
  <2>1. CASE L!Public(n.action)
    <3>1. semantic = None
      BY <1>0, <1>4, <2>1 DEF NoticeFits, L!_semantic_listing_route, L!OfProperty
    <3> QED BY <1>0, <1>4, <2>1, <3>1 DEF NoticeFits, L!get_action, L!Astray, L!One, Area, L!Public
  <2>2. CASE ~L!Public(n.action)
    <3>1. semantic = L!All("manage/properties")
      BY <1>0, <1>4, <2>2
      DEF NoticeFits, L!_semantic_listing_route, L!OfProperty, L!_property_exists, Moderated, L!Public
    <3>2. L!get_action(n) = L!All("manage/properties")
      BY <1>4, <3>1, NoRoute DEF L!get_action
    <3> QED BY <1>4, <2>2, <3>2 DEF L!Astray, L!One, L!All
  <2> QED BY <2>1, <2>2
<1>5. n.action # None => thing.kind \in {"property", "stay"}
  BY <1>0 DEF NoticeFits
<1> QED BY <1>1, <1>2, <1>3, <1>4, <1>5

LEMMA NoticesAgree == ASSUME L!Terms, NoticesSafe PROVE L!NoticesLead /\ L!LettersTell
<1>1. ASSUME NEW n \in inbox
      PROVE  (L!get_action(n).area \in L!Areas(thing.kind, n.as)) <=> ~L!Astray(n)
  <2>1. NoticeFits(thing.kind, n) /\ thing.kind \in L!Kinds
    BY DEF NoticesSafe
  <2>2. CASE L!Astray(n)
    BY <2>2, LinkLeads DEF L!Astray, L!Areas
  <2>3. CASE ~L!Astray(n)
    BY <2>1, <2>3, LinkLeads DEF Area, L!Areas, L!Kinds, NoticeFits
  <2> QED BY <2>2, <2>3
<1>2. ASSUME NEW n \in inbox, NEW l \in letters, l.what = n.what, l.as = n.as
      PROVE  (l.link.area = L!get_action(n).area) <=> ~L!Astray(n)
  <2>1. l.link.area = Area(thing.kind, n.as, n.what)
    BY <1>2 DEF NoticesSafe, LetterFits
  <2>2. CASE L!Astray(n)
    BY <2>1, <2>2, LinkLeads DEF L!Astray, Area
  <2>3. CASE ~L!Astray(n)
    BY <2>1, <2>3, LinkLeads
  <2> QED BY <2>2, <2>3
<1>3. L!NoticesLead
  BY <1>1, <1>2, LinkLeads DEF L!NoticesLead
<1>4. L!LettersTell
  BY DEF NoticesSafe, LetterFits, L!LettersTell, L!Misnamed
<1> QED BY <1>3, <1>4

-----------------------------------------------------------------------------
(* Quotes.  The loop over the nights keeps a minimum, a maximum and a sum, *)
(* in whatever order it takes them.                                        *)

Unasked == [minimum |-> Minimum, rooms |-> Quantity, total |-> 0]
OverNights(g, days) ==
  g = [s \in SUBSET days |-> IF s = {} THEN Unasked ELSE Q!Night(Picked(s), g[s \ {Picked(s)}])]
Upto(g, days, n) ==
  \A s \in SUBSET days : Cardinality(s) <= n =>
    g[s] = IF s = {} THEN Unasked ELSE Q!Night(Picked(s), g[s \ {Picked(s)}])

LEMMA PickedLeaves ==
  ASSUME NEW keys, IsFiniteSet(keys), NEW s \in SUBSET keys, s # {}
  PROVE  /\ Picked(s) \in s /\ s \ {Picked(s)} \in SUBSET keys
         /\ Cardinality(s) \in Nat /\ Cardinality(s) >= 1
         /\ Cardinality(s \ {Picked(s)}) = Cardinality(s) - 1
<1>1. Picked(s) \in s
  BY DEF Picked
<1>2. IsFiniteSet(s) /\ Cardinality(s) \in Nat
  BY FS_Subset, FS_CardinalityType
<1>3. Cardinality(s \ {Picked(s)}) = Cardinality(s) - 1
  BY <1>1, <1>2, FS_RemoveElement
<1>4. IsFiniteSet(s \ {Picked(s)}) /\ Cardinality(s \ {Picked(s)}) \in Nat
  BY <1>2, FS_Subset, FS_CardinalityType
<1> QED BY <1>1, <1>2, <1>3, <1>4

LEMMA OverNightsExists == ASSUME NEW days, IsFiniteSet(days) PROVE \E g : OverNights(g, days)
<1> DEFINE reached == {n \in Nat : \E g : DOMAIN g = SUBSET days /\ g = [s \in SUBSET days |-> g[s]] /\ Upto(g, days, n)}
<1>0. ASSUME NEW s \in SUBSET days PROVE Cardinality(s) \in Nat /\ (Cardinality(s) = 0 <=> s = {})
  BY FS_Subset, FS_CardinalityType, FS_EmptySet
<1>1. 0 \in reached
  <2> DEFINE g == [s \in SUBSET days |-> Unasked]
  <2>1. Upto(g, days, 0)
    BY <1>0 DEF Upto
  <2> QED BY <2>1
<1>2. ASSUME NEW n \in Nat, n >= 1, n - 1 \in reached PROVE n \in reached
  <2>1. PICK g : Upto(g, days, n - 1)
    BY <1>2
  <2> DEFINE h == [s \in SUBSET days |-> IF Cardinality(s) = n THEN Q!Night(Picked(s), g[s \ {Picked(s)}]) ELSE g[s]]
  <2>2. ASSUME NEW s \in SUBSET days, Cardinality(s) <= n
        PROVE  h[s] = IF s = {} THEN Unasked ELSE Q!Night(Picked(s), h[s \ {Picked(s)}])
    <3>1. CASE s = {}
      <4>1. h[s] = g[s] /\ Cardinality(s) <= n - 1
        BY <1>0, <1>2, <3>1
      <4> HIDE DEF h
      <4> QED BY <2>1, <3>1, <4>1 DEF Upto
    <3>2. CASE s # {}
      <4> DEFINE less == s \ {Picked(s)}
      <4>1. less \in SUBSET days /\ Cardinality(less) = Cardinality(s) - 1 /\ Cardinality(s) \in Nat
        BY <3>2, PickedLeaves
      <4> HIDE DEF less
      <4>2. h[less] = g[less]
        BY <1>2, <2>2, <4>1
      <4>3. Cardinality(s) = n => h[s] = Q!Night(Picked(s), g[less])
        BY DEF less
      <4>4. Cardinality(s) # n => h[s] = g[s] /\ Cardinality(s) <= n - 1
        BY <1>2, <2>2, <4>1
      <4> HIDE DEF h
      <4>5. Cardinality(s) # n => g[s] = Q!Night(Picked(s), g[less])
        BY <2>1, <3>2, <4>4 DEF Upto, less
      <4> QED BY <3>2, <4>2, <4>3, <4>4, <4>5 DEF less
    <3> QED BY <3>1, <3>2
  <2>3. Upto(h, days, n)
    <3> HIDE DEF h
    <3> QED BY <2>2 DEF Upto
  <2>4. DOMAIN h = SUBSET days /\ h = [s \in SUBSET days |-> h[s]]
    OBVIOUS
  <2> HIDE DEF h
  <2> QED BY <2>3, <2>4
<1> DEFINE size == Cardinality(days)
<1>3. size \in Nat
  BY <1>0
<1>4. size \in reached
  <2> HIDE DEF reached, size
  <2> QED BY <1>1, <1>2, <1>3, Climb
<1>5. PICK g : g = [s \in SUBSET days |-> g[s]] /\ Upto(g, days, size)
  BY <1>4
<1>6. \A s \in SUBSET days : Cardinality(s) <= size
  BY FS_Subset
<1>7. OverNights(g, days)
  <2> DEFINE after == [s \in SUBSET days |-> IF s = {} THEN Unasked ELSE Q!Night(Picked(s), g[s \ {Picked(s)}])]
  <2>1. \A s \in SUBSET days : g[s] = after[s]
    BY <1>5, <1>6 DEF Upto
  <2>2. g = after
    BY <1>5, <2>1
  <2> QED BY <2>2 DEF OverNights
<1> QED BY <1>7

LEMMA LoopIs ==
  ASSUME NEW q, IsFiniteSet(Q!DaysOf(q))
  PROVE  \E g : /\ OverNights(g, Q!DaysOf(q))
                /\ Q!room_availability(q) =
                     LET all == g[Q!DaysOf(q)]
                         enough == all.rooms >= q.rooms
                     IN  [available |-> Q!Fits(q) /\ q.nights >= all.minimum /\ enough,
                          rooms     |-> all.rooms,
                          total     |-> all.total * q.rooms,
                          minimum   |-> all.minimum,
                          reason    |-> IF ~Q!Fits(q) THEN "occupancy"
                                        ELSE IF q.nights < all.minimum THEN "minimum_stay"
                                        ELSE IF ~enough THEN "inventory" ELSE "none"]
<1> DEFINE g == CHOOSE h : OverNights(h, Q!DaysOf(q))
<1>1. OverNights(g, Q!DaysOf(q))
  BY OverNightsExists
<1>2. Q!FoldSet(Q!Night, Unasked, Q!DaysOf(q)) = g[Q!DaysOf(q)]
  BY DEF Q!FoldSet, Q!MapThenFoldSet, OverNights, Picked
<1> HIDE DEF g
<1> QED BY <1>1, <1>2 DEF Q!room_availability, Unasked

\* What one night asks for, grants and costs.
Bound(d) == IF row[d] = None THEN 0 ELSE Q!Or(row[d].minimum, 1)
Cost(d)  == IF row[d] = None THEN BasePrice ELSE Q!Or(row[d].price, BasePrice)
Calendar == row \in [Nights -> Q!CalendarRows \cup {None}] /\ taken \in [Nights -> 0..Quantity]

LEMMA NightIs ==
  ASSUME Q!Terms, Calendar, NEW d \in Nights
  PROVE  /\ Bound(d) \in Nat /\ Cost(d) \in Nat /\ Q!inventory(d) \in 0..Quantity
         /\ \A all \in [minimum : Nat, rooms : Nat, total : Nat] :
              /\ Q!Night(d, all) \in [minimum : Nat, rooms : Nat, total : Nat]
              /\ Q!Night(d, all).total = Cost(d) + all.total
              /\ \A k \in Nat : Q!Night(d, all).minimum <= k <=> all.minimum <= k /\ Bound(d) <= k
              /\ \A k \in Nat : k <= Q!Night(d, all).rooms <=> k <= all.rooms /\ k <= Q!inventory(d)
<1>1. row[d] = None \/ row[d] \in Q!CalendarRows
  BY DEF Calendar
<1>2. taken[d] \in 0..Quantity /\ Quantity \in Nat /\ BasePrice \in Nat
  BY DEF Calendar, Q!Terms
<1>3. Bound(d) \in Nat /\ Cost(d) \in Nat
  BY <1>1, <1>2 DEF Bound, Cost, Q!Or, Q!CalendarRows, Q!Terms
<1>4. Q!inventory(d) \in 0..Quantity
  BY <1>1, <1>2 DEF Q!inventory, Q!CalendarRows, Q!AtLeast0
<1>5. ASSUME NEW all \in [minimum : Nat, rooms : Nat, total : Nat]
      PROVE  Q!Night(d, all) = [minimum |-> Q!Larger(all.minimum, Bound(d)),
                                rooms   |-> Q!Smaller(all.rooms, Q!inventory(d)),
                                total   |-> all.total + Cost(d)]
  <2>1. (IF row[d] = None THEN all.minimum ELSE Q!Larger(all.minimum, Q!Or(row[d].minimum, 1)))
          = Q!Larger(all.minimum, Bound(d))
    BY DEF Bound, Q!Larger
  <2>2. Q!AtLeast0((IF row[d] = None THEN Quantity ELSE IF row[d].blocked THEN 0 ELSE row[d].units) - taken[d])
          = Q!inventory(d)
    BY DEF Q!inventory
  <2>3. (IF row[d] = None THEN BasePrice ELSE Q!Or(row[d].price, BasePrice)) = Cost(d)
    BY DEF Cost
  <2> DEFINE units == IF row[d] = None THEN Quantity ELSE IF row[d].blocked THEN 0 ELSE row[d].units
  <2>4. Q!Night(d, all) =
          [minimum |-> IF row[d] = None THEN all.minimum ELSE Q!Larger(all.minimum, Q!Or(row[d].minimum, 1)),
           rooms   |-> Q!Smaller(all.rooms, Q!AtLeast0(units - taken[d])),
           total   |-> all.total + (IF row[d] = None THEN BasePrice ELSE Q!Or(row[d].price, BasePrice))]
    BY DEF Q!Night
  <2> QED BY Zenon, <2>1, <2>2, <2>3, <2>4
<1>6. Q!inventory(d) \in Nat
  BY <1>2, <1>4
<1>7. ASSUME NEW all \in [minimum : Nat, rooms : Nat, total : Nat]
      PROVE  /\ Q!Night(d, all) \in [minimum : Nat, rooms : Nat, total : Nat]
             /\ Q!Night(d, all).total = Cost(d) + all.total
             /\ \A k \in Nat : Q!Night(d, all).minimum <= k <=> all.minimum <= k /\ Bound(d) <= k
             /\ \A k \in Nat : k <= Q!Night(d, all).rooms <=> k <= all.rooms /\ k <= Q!inventory(d)
  <2> DEFINE longest == Q!Larger(all.minimum, Bound(d))
  <2> DEFINE fewest == Q!Smaller(all.rooms, Q!inventory(d))
  <2>1. Q!Night(d, all) = [minimum |-> longest, rooms |-> fewest, total |-> all.total + Cost(d)]
    BY <1>5
  <2>2. /\ longest \in Nat /\ fewest \in Nat
        /\ \A k \in Nat : longest <= k <=> all.minimum <= k /\ Bound(d) <= k
        /\ \A k \in Nat : k <= fewest <=> k <= all.rooms /\ k <= Q!inventory(d)
    <3>1. all.minimum \in Nat /\ all.rooms \in Nat
      OBVIOUS
    <3>2. longest \in Nat /\ \A k \in Nat : longest <= k <=> all.minimum <= k /\ Bound(d) <= k
      BY <1>3, <3>1 DEF Q!Larger
    <3>3. fewest \in Nat /\ \A k \in Nat : k <= fewest <=> k <= all.rooms /\ k <= Q!inventory(d)
      BY <1>6, <3>1 DEF Q!Smaller
    <3> QED BY <3>2, <3>3
  <2> HIDE DEF longest, fewest
  <2>3. all.total \in Nat /\ all.total + Cost(d) = Cost(d) + all.total /\ all.total + Cost(d) \in Nat
    BY <1>3
  <2> QED BY <2>1, <2>2, <2>3
<1> QED BY <1>3, <1>4, <1>7

\* What the loop has found after some of the nights.
Found(g, h, s) ==
  /\ g[s] \in [minimum : Nat, rooms : Nat, total : Nat]
  /\ g[s].total = h[s]
  /\ \A k \in Nat : g[s].minimum <= k <=> Minimum <= k /\ \A d \in s : Bound(d) <= k
  /\ \A k \in Nat : k <= g[s].rooms <=> k <= Quantity /\ \A d \in s : k <= Q!inventory(d)
Costs(days) == [d \in days |-> Cost(d)]

LEMMA NightsFinite == ASSUME Q!Terms PROVE IsFiniteSet(Nights)
<1>1. \A some : Q!IsFiniteSet(some) <=> IsFiniteSet(some)
  BY DEF Q!IsFiniteSet, IsFiniteSet
<1> QED BY <1>1 DEF Q!Terms

LEMMA LoopFinds ==
  ASSUME Q!Terms, Calendar, NEW days \in SUBSET Nights, NEW g, OverNights(g, days),
         NEW h, Adds(h, days, Costs(days))
  PROVE  Found(g, h, days)
<1> DEFINE reached == {n \in Nat : \A s \in SUBSET days : Cardinality(s) = n => Found(g, h, s)}
<1>0. IsFiniteSet(days)
  BY FS_Subset, NightsFinite
<1>1. 0 \in reached
  <2> SUFFICES ASSUME NEW s \in SUBSET days, Cardinality(s) = 0 PROVE Found(g, h, s)
    OBVIOUS
  <2>1. s = {}
    BY <1>0, FS_Subset, FS_EmptySet
  <2>2. g[s] = Unasked /\ h[s] = 0
    BY <2>1 DEF OverNights, Adds
  <2> QED BY <2>1, <2>2 DEF Found, Unasked, Q!Terms
<1>2. ASSUME NEW n \in Nat, n >= 1, n - 1 \in reached PROVE n \in reached
  <2> SUFFICES ASSUME NEW s \in SUBSET days, Cardinality(s) = n PROVE Found(g, h, s)
    OBVIOUS
  <2> DEFINE less == s \ {Picked(s)}
  <2>1. s # {}
    BY <1>2, FS_EmptySet
  <2>2. Picked(s) \in s /\ less \in SUBSET days /\ Cardinality(less) = n - 1
    BY <1>0, <2>1, PickedLeaves
  <2>3. g[s] = Q!Night(Picked(s), g[less]) /\ h[s] = Costs(days)[Picked(s)] + h[less]
    BY <2>1 DEF OverNights, Adds
  <2>4. s = less \cup {Picked(s)}
    BY <2>2
  <2> HIDE DEF less
  <2>5. Found(g, h, less)
    BY <1>2, <2>2
  <2>6. Picked(s) \in Nights /\ Costs(days)[Picked(s)] = Cost(Picked(s))
    BY <2>2 DEF Costs
  <2> DEFINE d == Picked(s)
  <2>7. d \in Nights /\ s = less \cup {d} /\ g[s] = Q!Night(d, g[less]) /\ h[s] = Cost(d) + h[less]
    BY <2>3, <2>4, <2>6
  <2> HIDE DEF d
  <2>8. /\ g[s] \in [minimum : Nat, rooms : Nat, total : Nat]
        /\ g[s].total = Cost(d) + g[less].total
        /\ \A k \in Nat : g[s].minimum <= k <=> g[less].minimum <= k /\ Bound(d) <= k
        /\ \A k \in Nat : k <= g[s].rooms <=> k <= g[less].rooms /\ k <= Q!inventory(d)
    BY <2>5, <2>7, NightIs DEF Found
  <2>9. g[s].total = h[s]
    BY <2>5, <2>7, <2>8 DEF Found
  <2>10. ASSUME NEW k \in Nat
         PROVE  /\ g[s].minimum <= k <=> Minimum <= k /\ \A e \in s : Bound(e) <= k
                /\ k <= g[s].rooms <=> k <= Quantity /\ \A e \in s : k <= Q!inventory(e)
    BY <2>5, <2>7, <2>8 DEF Found
  <2> QED BY <2>8, <2>9, <2>10 DEF Found
<1> DEFINE size == Cardinality(days)
<1>3. size \in Nat
  BY <1>0, FS_CardinalityType
<1>4. size \in reached
  <2> HIDE DEF reached, size
  <2> QED BY <1>1, <1>2, <1>3, Climb
<1> QED BY <1>4
\* The costs of some nights have one sum: as many as there are pairs of a night and a coin.
LEMMA CostsAdd ==
  ASSUME Q!Terms, Calendar, NEW days \in SUBSET Nights
  PROVE  /\ \E h : Adds(h, days, Costs(days))
         /\ \A g, h : Adds(g, days, Costs(days)) /\ Adds(h, days, Costs(days)) => g[days] = h[days]
         /\ \A g : Adds(g, days, Costs(days)) => g[days] \in Nat
<1> DEFINE part == [d \in days |-> {d} \X (1..Cost(d))]
<1> DEFINE whole == UNION {part[d] : d \in days}
<1>1. IsFiniteSet(days)
  BY NightsFinite, FS_Subset
<1>2. ASSUME NEW d \in days PROVE IsFiniteSet(part[d]) /\ Cardinality(part[d]) = Cost(d)
  <2>1. Cost(d) \in Nat
    BY NightIs
  <2>2. IsFiniteSet(1..Cost(d)) /\ Cardinality(1..Cost(d)) = Cost(d)
    <3>1. IsFiniteSet(1..Cost(d)) /\ Cardinality(1..Cost(d)) = IF 1 > Cost(d) THEN 0 ELSE Cost(d) - 1 + 1
      BY <2>1, FS_Interval
    <3> QED BY <2>1, <3>1
  <2>3. IsFiniteSet({d}) /\ Cardinality({d}) = 1
    BY FS_Singleton
  <2>4. IsFiniteSet({d} \X (1..Cost(d))) /\ Cardinality({d} \X (1..Cost(d))) = 1 * Cost(d)
    <3> DEFINE one == {d}
    <3> DEFINE coins == 1..Cost(d)
    <3> HIDE DEF one, coins
    <3>1. IsFiniteSet(one) /\ Cardinality(one) = 1 /\ IsFiniteSet(coins) /\ Cardinality(coins) = Cost(d)
      BY <2>2, <2>3 DEF one, coins
    <3>2. IsFiniteSet(one \X coins) /\ Cardinality(one \X coins) = Cardinality(one) * Cardinality(coins)
      BY <3>1, FS_Product
    <3> QED BY <3>1, <3>2 DEF one, coins
  <2> QED BY <2>1, <2>4
<1>3. IsFiniteSet(whole)
  <2>0. part \in Surjection(days, {part[d] : d \in days})
    BY DEF Surjection
  <2> HIDE DEF part
  <2>1. IsFiniteSet({part[d] : d \in days})
    BY <1>1, <2>0, FS_Surjection
  <2>2. \A some \in {part[d] : d \in days} : IsFiniteSet(some)
    BY <1>2
  <2> QED BY <2>1, <2>2, FS_UNION
<1>4. \A i, j \in days : i # j => part[i] \cap part[j] = {}
  OBVIOUS
<1> HIDE DEF part
<1>5. Parts(days, part, whole, Costs(days))
  BY <1>1, <1>2, <1>3, <1>4 DEF Parts, Costs
<1>6. Cardinality(Within(part, whole, days)) \in Nat
  BY <1>3, FS_Subset, FS_CardinalityType DEF Within
<1> QED BY <1>5, <1>6, SumExists, SumCounts

\* An answer is a promise a booking keeps.
QuoteTrue(q, said) ==
  /\ said.available <=>
       /\ Q!Fits(q) /\ q.nights >= Minimum
       /\ \A d \in Q!DaysOf(q) : /\ row[d] # None /\ row[d].minimum # None => q.nights >= row[d].minimum
                                 /\ Q!inventory(d) >= q.rooms
  /\ said.available <=> said.reason = "none"
  /\ \A n \in 1..MaxRooms : said.rooms >= n <=> \A d \in Q!DaysOf(q) : Q!inventory(d) >= n
  /\ \E h : Adds(h, Q!DaysOf(q), Costs(Q!DaysOf(q))) /\ said.total = h[Q!DaysOf(q)] * q.rooms
QuotesSafe == Calendar /\ (ask # None => ask \in Q!AsksHere /\ QuoteTrue(ask, answer))

LEMMA AnswerTrue ==
  ASSUME Q!Terms, Calendar, NEW q \in Q!AsksHere PROVE QuoteTrue(q, Q!room_availability(q))
<1> DEFINE days == Q!DaysOf(q)
<1>0. q \in Q!Asks /\ days \in SUBSET Nights
  BY DEF Q!AsksHere
<1>1. /\ q.from \in Nat /\ q.nights \in Nat /\ q.nights >= 1 /\ q.rooms \in Nat /\ q.rooms >= 1
      /\ days \in SUBSET Nights /\ q.from \in days
  <2> HIDE DEF days
  <2>1. q.from \in Nights /\ q.nights \in 1..Q!Cardinality(Nights) /\ q.rooms \in 1..MaxRooms
    BY Zenon, <1>0 DEF Q!Asks
  <2>2. q.from \in Nat /\ q.nights \in Nat /\ q.nights >= 1 /\ q.rooms \in Nat /\ q.rooms >= 1
    <3>1. \A m : \A n \in 1..m : n \in Nat /\ n >= 1
      OBVIOUS
    <3>2. Nights \subseteq Nat
      BY DEF Q!Terms
    <3> QED BY Zenon, <2>1, <3>1, <3>2
  <2> QED BY <1>0, <2>2 DEF Q!DaysOf, days
<1>2. IsFiniteSet(days)
  BY <1>1, NightsFinite, FS_Subset
<1>3. PICK g : /\ OverNights(g, days)
               /\ Q!room_availability(q) =
                    LET all == g[days]
                        enough == all.rooms >= q.rooms
                    IN  [available |-> Q!Fits(q) /\ q.nights >= all.minimum /\ enough,
                         rooms     |-> all.rooms,
                         total     |-> all.total * q.rooms,
                         minimum   |-> all.minimum,
                         reason    |-> IF ~Q!Fits(q) THEN "occupancy"
                                       ELSE IF q.nights < all.minimum THEN "minimum_stay"
                                       ELSE IF ~enough THEN "inventory" ELSE "none"]
  BY <1>2, LoopIs
<1>4. PICK h : Adds(h, days, Costs(days))
  BY <1>1, CostsAdd
<1>5. Found(g, h, days)
  BY <1>1, <1>3, <1>4, LoopFinds
<1> DEFINE all == g[days]
<1>6. /\ all.minimum \in Nat /\ all.rooms \in Nat /\ all.total = h[days]
      /\ \A k \in Nat : all.minimum <= k <=> Minimum <= k /\ \A d \in days : Bound(d) <= k
      /\ \A k \in Nat : k <= all.rooms <=> k <= Quantity /\ \A d \in days : k <= Q!inventory(d)
  BY <1>5 DEF Found
<1>7. \A d \in days : Q!inventory(d) \in 0..Quantity
  BY <1>1, NightIs
<1>8. \A k \in Nat : all.rooms >= k <=> \A d \in days : Q!inventory(d) >= k
  BY <1>1, <1>6, <1>7 DEF Q!Terms
<1>9. q.nights >= all.minimum <=>
        q.nights >= Minimum /\ \A d \in days : row[d] # None /\ row[d].minimum # None => q.nights >= row[d].minimum
  <2>1. \A d \in days : Bound(d) \in Nat
    BY <1>1, NightIs
  <2>2. \A d \in days : Bound(d) <= q.nights <=>
                        (row[d] # None /\ row[d].minimum # None => q.nights >= row[d].minimum)
    BY <1>1, <2>1 DEF Bound, Q!Or
  <2> QED BY <1>1, <1>6, <2>2 DEF Q!Terms
<1> DEFINE a == Q!room_availability(q)
<1>10. /\ a.available <=> Q!Fits(q) /\ q.nights >= all.minimum /\ all.rooms >= q.rooms
       /\ a.rooms = all.rooms /\ a.total = all.total * q.rooms
       /\ a.reason = IF ~Q!Fits(q) THEN "occupancy"
                     ELSE IF q.nights < all.minimum THEN "minimum_stay"
                     ELSE IF ~(all.rooms >= q.rooms) THEN "inventory" ELSE "none"
  <2> HIDE DEF all
  <2>1. a = [available |-> Q!Fits(q) /\ q.nights >= all.minimum /\ all.rooms >= q.rooms,
             rooms     |-> all.rooms,
             total     |-> all.total * q.rooms,
             minimum   |-> all.minimum,
             reason    |-> IF ~Q!Fits(q) THEN "occupancy"
                           ELSE IF q.nights < all.minimum THEN "minimum_stay"
                           ELSE IF ~(all.rooms >= q.rooms) THEN "inventory" ELSE "none"]
    BY <1>3 DEF all
  <2> HIDE DEF a
  <2>2. a.available <=> Q!Fits(q) /\ q.nights >= all.minimum /\ all.rooms >= q.rooms
    BY <2>1
  <2>3. a.rooms = all.rooms /\ a.total = all.total * q.rooms
    BY <2>1
  <2>4. a.reason = IF ~Q!Fits(q) THEN "occupancy"
                   ELSE IF q.nights < all.minimum THEN "minimum_stay"
                   ELSE IF ~(all.rooms >= q.rooms) THEN "inventory" ELSE "none"
    BY <2>1
  <2> QED BY <2>2, <2>3, <2>4
<1> HIDE DEF all, a
<1>11. a.available <=> a.reason = "none"
  BY <1>1, <1>6, <1>10
<1>12. \A n \in 1..MaxRooms : a.rooms >= n <=> \A d \in days : Q!inventory(d) >= n
  BY <1>8, <1>10
<1>13. a.available <=>
         /\ Q!Fits(q) /\ q.nights >= Minimum
         /\ \A d \in days : /\ row[d] # None /\ row[d].minimum # None => q.nights >= row[d].minimum
                            /\ Q!inventory(d) >= q.rooms
  <2>1. all.rooms >= q.rooms <=> \A d \in days : Q!inventory(d) >= q.rooms
    BY <1>1, <1>8
  <2> HIDE DEF days
  <2> QED BY <1>9, <1>10, <2>1
<1> QED BY <1>4, <1>6, <1>10, <1>11, <1>12, <1>13 DEF QuoteTrue, a
LEMMA QuotesKeep == ASSUME Q!Terms, QuotesSafe, [Q!Next]_(Q!vars) PROVE QuotesSafe'
<1>1. UNCHANGED <<row, taken>> /\ Calendar'
  BY DEF Q!Next, Q!Ask, Q!vars, QuotesSafe, Calendar
<1>2. ASSUME NEW q \in Q!AsksHere, NEW said, QuoteTrue(q, said) PROVE QuoteTrue(q, said)'
  <2>1. \A d : Q!inventory(d)' = Q!inventory(d) /\ Cost(d)' = Cost(d)
    BY <1>1 DEF Q!inventory, Cost
  <2>2. Costs(Q!DaysOf(q))' = Costs(Q!DaysOf(q))
    BY <2>1 DEF Costs
  <2> QED BY <1>1, <1>2, <2>1, <2>2 DEF QuoteTrue
<1>3. CASE UNCHANGED <<ask, answer>>
  <2> SUFFICES ASSUME ask # None PROVE ask \in Q!AsksHere /\ QuoteTrue(ask, answer)'
    BY <1>1, <1>3 DEF QuotesSafe
  <2>1. ask \in Q!AsksHere /\ QuoteTrue(ask, answer)
    BY DEF QuotesSafe
  <2>2. \A q \in Q!AsksHere : \A said : QuoteTrue(q, said) => QuoteTrue(q, said)'
    BY <1>2
  <2> QED BY <1>3, <2>1, <2>2
<1>4. CASE Q!Ask
  <2>1. PICK q \in Q!AsksHere : ask' = q /\ answer' = Q!room_availability(q)
    BY <1>4 DEF Q!Ask
  <2>2. QuoteTrue(q, answer')
    BY <2>1, AnswerTrue DEF QuotesSafe
  <2>3. q \in Q!AsksHere /\ ask' = q
    BY <2>1
  <2>4. PICK said : said = answer'
    OBVIOUS
  <2>5. QuoteTrue(q, said)'
    BY <1>2, <2>2, <2>4
  <2>6. QuoteTrue(ask, answer)'
    BY <2>3, <2>4, <2>5 DEF QuoteTrue
  <2> QED BY <1>1, <2>3, <2>6 DEF QuotesSafe
<1> QED BY <1>3, <1>4 DEF Q!Next, Q!vars
LEMMA QuotesStart == ASSUME Q!Terms, Q!Init PROVE QuotesSafe
  BY DEF Q!Init, QuotesSafe, Calendar

\* The sum that the property states is the sum of the loop.
LEMMA QuotesAgree == ASSUME Q!Terms, QuotesSafe PROVE Q!QuoteIsBookable
<1> SUFFICES ASSUME ask # None PROVE Q!QuoteIsBookable
  BY DEF Q!QuoteIsBookable
<1> DEFINE days == Q!DaysOf(ask)
<1> DEFINE Total == Q!MapThenSumSet(LAMBDA d : IF row[d] = None \/ row[d].price = None THEN BasePrice ELSE row[d].price,
                                  days)
<1>1. Calendar /\ ask \in Q!AsksHere /\ QuoteTrue(ask, answer)
  BY DEF QuotesSafe
<1>2. days \in SUBSET Nights
  BY <1>1 DEF Q!AsksHere
<1>3. PICK h : Adds(h, days, Costs(days)) /\ answer.total = h[days] * ask.rooms
  BY <1>1 DEF QuoteTrue
<1> DEFINE Sum(g) == g = [s \in SUBSET days |->
                            IF s = {} THEN 0
                            ELSE (IF row[Picked(s)] = None \/ row[Picked(s)].price = None
                                  THEN BasePrice ELSE row[Picked(s)].price) + g[s \ {Picked(s)}]]
<1>4. Total = (CHOOSE g : Sum(g))[days]
  BY DEF Q!MapThenSumSet, Q!MapThenFoldSet, Picked
<1>5. ASSUME NEW g PROVE Sum(g) <=> Adds(g, days, Costs(days))
  <2>1. \A s \in SUBSET days : s # {} =>
          Costs(days)[Picked(s)] = IF row[Picked(s)] = None \/ row[Picked(s)].price = None
                                   THEN BasePrice ELSE row[Picked(s)].price
    BY DEF Picked, Costs, Cost, Q!Or
  <2> HIDE DEF days
  <2> QED BY <2>1 DEF Adds
<1>6. Sum(h)
  BY <1>3, <1>5
<1> HIDE DEF Sum
<1>7. Sum(CHOOSE g : Sum(g))
  BY <1>6
<1>8. Total = h[days]
  BY <1>2, <1>1, <1>3, <1>4, <1>5, <1>7, CostsAdd
<1>9. h[days] \in Nat /\ ask.rooms \in Nat
  <2>1. h[days] \in Nat
    BY <1>1, <1>2, <1>3, CostsAdd
  <2> QED BY <1>1, <2>1 DEF Q!AsksHere, Q!Asks, Q!Terms
<1>10. answer.total = ask.rooms * Total
  BY <1>3, <1>8, <1>9
<1> QED BY <1>1, <1>10 DEF QuoteTrue, Q!QuoteIsBookable

-----------------------------------------------------------------------------
(* The pages.  An agent's listing is of the agent's agency.                *)

OfTheTeam(r) == r.agency \in {Agency, None} /\ (r.agent # None => r.agency = Agency)
AgentsOfAgency == \A l \in N!Advertised : OfTheTeam(listing[l])

LEMMA PageCounts ==
  /\ \A some : N!Cardinality(some) = Cardinality(some)
  /\ \A some \in SUBSET Properties : IsFiniteSet(some) /\ Cardinality(some) \in Nat
<1>1. IsFiniteSet(Properties)
  BY Countable
<1> QED BY <1>1, FS_Subset, FS_CardinalityType DEF N!Cardinality, Cardinality

LEMMA AgencySaves ==
  ASSUME PagesStored, AgentsOfAgency, NEW l \in N!Advertised, NEW r, OfTheTeam(r), N!Save(l, r)
  PROVE  AgentsOfAgency'
<1>1. listing' = [listing EXCEPT ![l] = r]
  BY DEF N!Save
<1> QED BY <1>1 DEF AgentsOfAgency, PagesStored

LEMMA AgencyKeeps == ASSUME PagesStored, AgentsOfAgency, [N!Next]_(N!vars) PROVE AgentsOfAgency'
<1> USE DEF OfTheTeam
<1>1. ASSUME NEW l \in N!Advertised, N!Publish(l) \/ N!Highlight(l) \/ N!Confirm(l)
      PROVE  AgentsOfAgency'
  <2>1. PICK r, d : /\ N!Save(l, r)
                    /\ \/ r = [listing[l] EXCEPT !.published = ~@, !.date = d]
                       \/ r = [listing[l] EXCEPT !.featured = ~@]
                       \/ r = [listing[l] EXCEPT !.open = ~@]
    BY <1>1 DEF N!Publish, N!Highlight, N!Confirm
  <2>2. r.agency = listing[l].agency /\ r.agent = listing[l].agent
    BY <2>1 DEF PagesStored
  <2> QED BY <2>1, <2>2, AgencySaves DEF AgentsOfAgency
<1>2. ASSUME NEW l \in N!Advertised, NEW u \in People, N!Assign(l, u) PROVE AgentsOfAgency'
  <2> DEFINE r == [listing[l] EXCEPT !.agent = u]
  <2>1. N!Save(l, r) /\ listing[l].agency = Agency
    BY <1>2 DEF N!Assign, N!OfAgency
  <2>2. r.agency = Agency
    BY <2>1 DEF PagesStored
  <2> QED BY <2>1, <2>2, AgencySaves
<1>3. ASSUME NEW l \in N!Advertised, NEW u \in People, NEW a \in {Agency, None}, N!Transfer(l, u, a)
      PROVE  AgentsOfAgency'
  <2> DEFINE r == [listing[l] EXCEPT !.owner = u, !.agency = a, !.agent = None]
  <2>1. N!Save(l, r)
    BY <1>3 DEF N!Transfer
  <2>2. r.agency = a /\ r.agent = None
    BY DEF PagesStored
  <2> QED BY <2>1, <2>2, AgencySaves
<1>4. ASSUME NEW s \in Stays, N!SetRoom(s) PROVE AgentsOfAgency'
  <2>1. s \in N!Advertised /\ listing' = [listing EXCEPT ![s] = [listing[s] EXCEPT !.open = ~listing[s].open]]
    BY <1>4 DEF N!SetRoom, N!Advertised
  <2>2. \A l \in N!Advertised : listing'[l].agency = listing[l].agency /\ listing'[l].agent = listing[l].agent
    BY <2>1 DEF PagesStored
  <2> QED BY <2>2 DEF AgentsOfAgency
<1>5. ASSUME UNCHANGED listing PROVE AgentsOfAgency'
  BY <1>5 DEF AgentsOfAgency
<1>6. ASSUME NEW u \in People, N!Join(u) \/ N!Leave(u) PROVE AgentsOfAgency'
  BY <1>5, <1>6 DEF N!Join, N!Leave
<1>7. ASSUME NEW c \in Applicants, N!Keep(c) \/ \E k \in N!Kinds : N!Query(c, k) PROVE AgentsOfAgency'
  BY <1>5, <1>7 DEF N!Keep, N!Query, N!tables
<1>8. ASSUME NEW k \in N!Kinds, N!Clear(k) \/ N!Forget(k) \/ N!Expire(k) PROVE AgentsOfAgency'
  BY <1>5, <1>8 DEF N!Clear, N!Forget, N!Expire, N!tables
<1>9. \A p \in Properties : p \in N!Advertised
  BY DEF N!Advertised
<1>10. ASSUME UNCHANGED N!vars \/ N!Close PROVE AgentsOfAgency'
  BY <1>5, <1>10 DEF N!Close, N!vars, N!tables
<1> QED BY Zenon, <1>1, <1>2, <1>3, <1>4, <1>6, <1>7, <1>8, <1>9, <1>10 DEF N!Next

LEMMA AgencyStarts == N!Init => AgentsOfAgency
<1> SUFFICES ASSUME N!Init, NEW l \in N!Advertised PROVE OfTheTeam(listing[l])
  BY DEF AgentsOfAgency
<1>1. PICK u : listing = [k \in N!Advertised |-> N!Listed(u, IF k = Newcomer THEN Agency ELSE None, recent[k])]
  BY DEF N!Init
<1> QED BY <1>1 DEF OfTheTeam, N!Listed

-----------------------------------------------------------------------------
(* The agency's page.  No two listings have one date, so the latest are as *)
(* many as fit.                                                            *)

DatesApart ==
  /\ shifts \in 0..Shift
  /\ \A l \in N!Advertised : listing[l].date \in Nat /\ listing[l].date < N!Today
  /\ \A l, m \in N!Advertised : listing[l].date = listing[m].date => l = m

LEMMA TodayIs ==
  ASSUME shifts \in 0..Shift
  PROVE  N!Cardinality(N!Advertised) \in Nat /\ N!Today \in Nat
<1>1. N!Cardinality(N!Advertised) \in Nat
  <2>1. IsFiniteSet(N!Advertised)
    BY Countable, FS_Union DEF N!Advertised
  <2> QED BY <2>1, PageCounts, FS_CardinalityType
<1> QED BY <1>1, Bounds DEF N!Today

LEMMA DatesSave ==
  ASSUME PagesStored, DatesApart, NEW l \in N!Advertised, NEW r, r.date \in {listing[l].date, N!Today},
         N!Save(l, r), N!Change
  PROVE  DatesApart'
<1>1. \A m \in N!Advertised : listing'[m] = IF m = l THEN r ELSE listing[m]
  BY DEF N!Save, PagesStored
<1>2. shifts' \in 0..Shift /\ N!Today' = N!Today + 1
  <2>1. shifts \in 1..Shift /\ shifts' = shifts - 1
    BY Bounds DEF N!Change, DatesApart
  <2> QED BY <2>1, TodayIs, Bounds DEF N!Today, N!Advertised
<1>3. N!Today \in Nat
  BY TodayIs DEF DatesApart
<1>4. \A m \in N!Advertised : listing'[m].date \in Nat /\ listing'[m].date < N!Today + 1
  BY <1>1, <1>3 DEF DatesApart
<1>5. \A k, m \in N!Advertised : listing'[k].date = listing'[m].date => k = m
  BY <1>1, <1>3 DEF DatesApart
<1> QED BY <1>2, <1>4, <1>5 DEF DatesApart, N!Advertised

LEMMA DatesStay ==
  ASSUME DatesApart, \A l \in N!Advertised : listing'[l].date = listing[l].date,
         N!Change \/ shifts' = shifts
  PROVE  DatesApart'
<1>1. /\ shifts' \in 0..Shift
      /\ N!Today' = N!Today \/ N!Today' = N!Today + 1
  <2>1. shifts \in 0..Shift /\ (shifts' = shifts \/ (shifts > 0 /\ shifts' = shifts - 1))
    BY DEF N!Change, DatesApart
  <2> QED BY <2>1, TodayIs, Bounds DEF N!Today, N!Advertised
<1>2. N!Today \in Nat
  BY TodayIs DEF DatesApart
<1> QED BY <1>1, <1>2 DEF DatesApart, N!Advertised

LEMMA DatesKeep == ASSUME PagesStored, DatesApart, [N!Next]_(N!vars) PROVE DatesApart'
<1>1. ASSUME NEW l \in N!Advertised, N!Publish(l) PROVE DatesApart'
  <2>1. PICK date \in N!Redated(l) :
          \E r : N!Save(l, r) /\ r = [listing[l] EXCEPT !.published = ~@, !.date = date]
    BY <1>1 DEF N!Publish
  <2>2. PICK r : N!Save(l, r) /\ r = [listing[l] EXCEPT !.published = ~@, !.date = date]
    BY <2>1
  <2>3. r.date \in {listing[l].date, N!Today}
    BY <2>2 DEF N!Redated, PagesStored
  <2>4. N!Change
    BY <1>1 DEF N!Publish
  <2>5. N!Save(l, r)
    BY <2>2
  <2> QED BY <2>3, <2>4, <2>5, DatesSave
<1>2. ASSUME NEW l \in N!Advertised, NEW u, NEW a,
             N!Highlight(l) \/ N!Assign(l, u) \/ N!Confirm(l) \/ N!Transfer(l, u, a)
      PROVE  DatesApart'
  <2>1. PICK r : /\ N!Save(l, r)
                 /\ \/ r = [listing[l] EXCEPT !.featured = ~@]
                    \/ r = [listing[l] EXCEPT !.agent = u]
                    \/ r = [listing[l] EXCEPT !.open = ~@]
                    \/ r = [listing[l] EXCEPT !.owner = u, !.agency = a, !.agent = None]
    BY <1>2 DEF N!Highlight, N!Assign, N!Confirm, N!Transfer
  <2>2. r.date = listing[l].date
    BY <2>1 DEF PagesStored
  <2>3. N!Change
    BY <1>2 DEF N!Highlight, N!Assign, N!Confirm, N!Transfer
  <2> QED BY <2>1, <2>2, <2>3, DatesSave
<1>3. ASSUME NEW s \in Stays, N!SetRoom(s) PROVE DatesApart'
  <2>1. s \in N!Advertised /\ listing' = [listing EXCEPT ![s] = [listing[s] EXCEPT !.open = ~listing[s].open]]
    BY <1>3 DEF N!SetRoom, N!Advertised
  <2>2. \A l \in N!Advertised : listing'[l].date = listing[l].date
    BY <2>1 DEF PagesStored
  <2> QED BY <1>3, <2>2, DatesStay DEF N!SetRoom
<1>4. ASSUME (\E u \in People : N!Join(u) \/ N!Leave(u)) \/ N!Close PROVE DatesApart'
  BY <1>4, DatesStay DEF N!Join, N!Leave, N!Close
<1>5. ASSUME \/ \E c \in Applicants : N!Keep(c) \/ \E k \in N!Kinds : N!Query(c, k)
             \/ \E k \in N!Kinds : N!Clear(k) \/ N!Forget(k) \/ N!Expire(k)
      PROVE  DatesApart'
  BY <1>5, DatesStay DEF N!Keep, N!Query, N!Clear, N!Forget, N!Expire, N!tables
<1>6. CASE UNCHANGED N!vars
  BY <1>6, DatesStay DEF N!vars, N!tables
<1>7. Properties \subseteq N!Advertised
  BY DEF N!Advertised
<1> QED BY <1>1, <1>2, <1>3, <1>4, <1>5, <1>6, <1>7 DEF N!Next

LEMMA DatesStart == N!Init => DatesApart
<1> SUFFICES ASSUME N!Init PROVE DatesApart
  OBVIOUS
<1> DEFINE n == N!Cardinality(N!Advertised)
<1>1. shifts = Shift /\ shifts \in 0..Shift
  BY Bounds DEF N!Init
<1>2. n \in Nat /\ N!Today = n
  BY <1>1, TodayIs, Bounds DEF N!Today
<1>3. /\ recent \in [N!Advertised -> 1..n]
      /\ \A l, m \in N!Advertised : recent[l] = recent[m] => l = m
  BY DEF N!Init, N!Orders
<1>4. \A l \in N!Advertised : listing[l].date = n - recent[l]
  BY DEF N!Init, N!Listed
<1> HIDE DEF n
<1> QED BY <1>1, <1>2, <1>3, <1>4 DEF DatesApart

Up(all, date, l) == {m \in all : date[m] >= date[l]}
First(all, date, n) == {l \in all : Cardinality(Up(all, date, l)) <= n}

\* The latest n of a set are n, or all of it, and later than the rest.
LEMMA LatestAreMany ==
  ASSUME NEW all, IsFiniteSet(all), NEW date \in [all -> Nat], NEW n \in Nat,
         \A l, m \in all : date[l] = date[m] => l = m
  PROVE  /\ Cardinality(First(all, date, n)) = IF Cardinality(all) <= n THEN Cardinality(all) ELSE n
         /\ \A l \in First(all, date, n), m \in all \ First(all, date, n) : date[m] < date[l]
<1> DEFINE up(l) == Up(all, date, l)
           top == First(all, date, n)
<1>0. \A l : l \in top <=> l \in all /\ Cardinality(up(l)) <= n
  BY DEF First
<1>00. \A l, m : m \in up(l) <=> m \in all /\ date[m] >= date[l]
  BY DEF Up
<1> HIDE DEF up, top
<1>1. Cardinality(all) \in Nat
  BY FS_CardinalityType
<1>2. \A some \in SUBSET all : /\ IsFiniteSet(some) /\ Cardinality(some) \in Nat
                               /\ Cardinality(some) <= Cardinality(all)
  BY FS_Subset, FS_CardinalityType
<1>3. \A l \in all : up(l) \in SUBSET all /\ l \in up(l)
  BY <1>00
<1>4. ASSUME NEW l \in all, NEW m \in all, date[m] >= date[l]
      PROVE  Cardinality(up(m)) <= Cardinality(up(l))
  <2>1. up(m) \subseteq up(l)
    BY <1>00, <1>4
  <2> QED BY <1>2, <1>3, <2>1, FS_Subset
<1>5. ASSUME NEW l \in top, NEW m \in all \ top PROVE date[m] < date[l]
  <2>1. l \in all /\ m \in all /\ Cardinality(up(l)) <= n /\ ~(Cardinality(up(m)) <= n)
    BY <1>0
  <2>2. Cardinality(up(l)) \in Nat /\ Cardinality(up(m)) \in Nat
    BY <1>2, <1>3, <2>1
  <2>3. ~(date[m] >= date[l])
    BY <1>4, <2>1, <2>2
  <2>4. date[m] \in Nat /\ date[l] \in Nat
    BY <2>1
  <2> QED BY <2>3, <2>4
<1>6. ASSUME NEW some \in SUBSET all, some # {} PROVE \E l \in some : some \subseteq up(l)
  <2> DEFINE days == {date[l] : l \in some}
  <2>1. days \subseteq Nat /\ days # {}
    BY <1>6
  <2>2. PICK d \in days : \A e \in days : d <= e
    <3> HIDE DEF days
    <3> QED BY <2>1, LeastNatural
  <2>3. PICK l \in some : date[l] = d
    BY <2>2
  <2>4. \A m \in some : date[m] >= date[l]
    BY <2>2, <2>3
  <2> QED BY <1>00, <2>3, <2>4
<1>7. CASE Cardinality(all) <= n
  <2>1. ASSUME NEW l \in all PROVE l \in top
    <3>1. Cardinality(up(l)) \in Nat /\ Cardinality(up(l)) <= Cardinality(all)
      BY <1>2, <1>3
    <3> QED BY <1>0, <1>1, <1>7, <3>1
  <2>2. top = all
    BY <1>0, <2>1
  <2> QED BY <1>5, <1>7, <2>2 DEF top
<1>8. CASE ~(Cardinality(all) <= n)
  <2>1. Cardinality(top) \in Nat /\ IsFiniteSet(top) /\ Cardinality(top) <= n
    <3>1. IsFiniteSet(top) /\ Cardinality(top) \in Nat
      BY <1>0, <1>2
    <3>2. CASE top = {}
      <4>1. Cardinality({}) = 0
        BY FS_EmptySet
      <4>2. Cardinality(top) = 0
        BY <3>2, <4>1
      <4> QED BY <3>1, <4>2
    <3>3. CASE top # {}
      <4>1. PICK l \in top : top \subseteq up(l)
        BY <1>0, <1>6, <3>3
      <4>2. Cardinality(top) <= Cardinality(up(l)) /\ Cardinality(up(l)) \in Nat
        BY <1>0, <1>2, <1>3, <4>1, FS_Subset
      <4>3. Cardinality(up(l)) <= n
        BY <1>0
      <4> QED BY <3>1, <4>2, <4>3
    <3> QED BY <3>1, <3>2, <3>3
  <2>2. Cardinality(top) >= n
    <3> DEFINE rest == all \ top
    <3>1. rest # {}
      <4> SUFFICES ASSUME all = top PROVE FALSE
        BY <1>0
      <4> QED BY <1>1, <1>8, <2>1
    <3>2. PICK r \in rest : \A m \in rest : Cardinality(up(r)) <= Cardinality(up(m))
      <4> DEFINE places == {Cardinality(up(m)) : m \in rest}
      <4>0. \A m \in rest : Cardinality(up(m)) \in Nat
        BY <1>2, <1>3
      <4>1. places \subseteq Nat /\ places # {}
        <5> HIDE DEF rest
        <5> QED BY <3>1, <4>0
      <4>2. PICK k \in places : \A j \in places : k <= j
        <5> HIDE DEF places
        <5> QED BY <4>1, LeastNatural
      <4> HIDE DEF rest
      <4> QED BY <4>2
    <3>3. ASSUME NEW m \in up(r), m # r PROVE m \in top
      <4>1. m \in all /\ r \in all /\ date[m] >= date[r] /\ date[m] # date[r]
        BY <1>00, <3>3
      <4>2. date[m] \in Nat /\ date[r] \in Nat
        BY <4>1
      <4>3. up(m) \subseteq up(r) \ {r}
        BY <1>00, <4>1, <4>2
      <4>4. IsFiniteSet(up(r)) /\ IsFiniteSet(up(r) \ {r}) /\ Cardinality(up(m)) \in Nat
            /\ Cardinality(up(r)) \in Nat /\ r \in up(r)
        BY <1>2, <1>3, <4>1, FS_Subset
      <4>5. Cardinality(up(m)) <= Cardinality(up(r) \ {r})
        BY <4>3, <4>4, FS_Subset
      <4>6. Cardinality(up(r) \ {r}) = Cardinality(up(r)) - 1
        BY <4>4, FS_RemoveElement
      <4>7. ~(Cardinality(up(r)) <= Cardinality(up(m)))
        BY <4>4, <4>5, <4>6
      <4> QED BY <3>2, <4>1, <4>7
    <3>4. up(r) \ {r} \subseteq top
      BY <3>3
    <3>5. IsFiniteSet(up(r)) /\ Cardinality(up(r)) \in Nat /\ r \in up(r) /\ ~(Cardinality(up(r)) <= n)
      BY <1>0, <1>2, <1>3
    <3>6. Cardinality(up(r) \ {r}) = Cardinality(up(r)) - 1
      BY <3>5, FS_RemoveElement
    <3>7. Cardinality(up(r) \ {r}) <= Cardinality(top)
      BY <2>1, <3>4, FS_Subset
    <3> QED BY <2>1, <3>5, <3>6, <3>7
  <2> QED BY <1>1, <1>5, <1>8, <2>1, <2>2 DEF top
<1> QED BY <1>7, <1>8

LEMMA LatestShown ==
  ASSUME N!Terms, DatesApart, NEW all \in SUBSET N!Advertised
  PROVE  N!ShowsLatest(N!Latest(all), N!Cardinality(all), all)
<1> DEFINE date == [l \in all |-> listing[l].date]
<1>1. IsFiniteSet(all) /\ PageLimit \in Nat
  <2>1. IsFiniteSet(N!Advertised)
    BY Countable, FS_Union DEF N!Advertised
  <2> QED BY <2>1, FS_Subset DEF N!Terms
<1>2. date \in [all -> Nat] /\ \A l, m \in all : date[l] = date[m] => l = m
  BY DEF DatesApart
<1>3. \A l \in all : date[l] = listing[l].date
  OBVIOUS
<1> HIDE DEF date
<1>4. \A l \in all : Up(all, date, l) = {m \in all : listing[m].date >= listing[l].date}
  BY <1>3 DEF Up
<1>5. N!Latest(all) = First(all, date, PageLimit)
  BY <1>4, PageCounts DEF N!Latest, First
<1>6. /\ Cardinality(First(all, date, PageLimit)) = IF Cardinality(all) <= PageLimit THEN Cardinality(all) ELSE PageLimit
      /\ \A l \in First(all, date, PageLimit), m \in all \ First(all, date, PageLimit) : date[m] < date[l]
  BY <1>1, <1>2, LatestAreMany
<1>7. First(all, date, PageLimit) \subseteq all
  BY DEF First
<1> QED BY <1>3, <1>5, <1>6, <1>7, PageCounts DEF N!ShowsLatest

LEMMA PublicPagesAgree ==
  ASSUME N!Terms, AgentsOfAgency, DatesApart
  PROVE  /\ \A k \in N!Kinds : \A l \in N!Search(k) : N!Opens(None, l)
         /\ trading =>
              /\ N!ShowsLatest(N!AgencyPage.properties, N!AgencyPage.property_count,
                               N!Search(Properties) \cap N!OfAgency)
              /\ N!ShowsLatest(N!AgencyPage.stays, N!AgencyPage.stay_count, N!Search(Stays) \cap N!OfAgency)
<1>1. N!Search(Properties) = N!PublicProperties
  BY DEF N!Search
<1>2. ASSUME NEW k \in N!Kinds, NEW l \in N!Search(k) PROVE N!Opens(None, l)
  BY <1>2 DEF N!Kinds, N!Search, N!PublicProperties, N!PublicStays, N!Opens, N!PropertyOpens, N!StayOpens
<1>3. ASSUME NEW s PROVE s \in N!Search(Stays) <=> s \in Stays /\ N!Published(s)
  <2>1. CASE Stays = Properties
    BY <2>1 DEF N!Search, N!PublicProperties, N!Terms
  <2>2. CASE Stays # Properties
    BY <2>2 DEF N!Search, N!PublicStays
  <2> QED BY <2>1, <2>2
<1>4. ASSUME trading
      PROVE  /\ N!AgencyPage.properties
                  = N!Latest({p \in Properties \cap N!OfAgency : N!Published(p) /\ N!Open(p)})
             /\ N!AgencyPage.stays = N!Latest({s \in Stays \cap N!OfAgency : N!Published(s)})
             /\ N!AgencyPage.property_count =
                  N!Cardinality({p \in Properties : listing[p].agency = Agency /\ N!Published(p) /\ N!Open(p)})
             /\ N!AgencyPage.stay_count =
                  N!Cardinality({s \in Stays : listing[s].agency = Agency /\ N!Published(s)})
  BY <1>4 DEF N!AgencyPage
<1>5. /\ {p \in Properties \cap N!OfAgency : N!Published(p) /\ N!Open(p)}
           = {p \in Properties : listing[p].agency = Agency /\ N!Published(p) /\ N!Open(p)}
      /\ {s \in Stays \cap N!OfAgency : N!Published(s)}
           = {s \in Stays : listing[s].agency = Agency /\ N!Published(s)}
  BY DEF N!OfAgency, N!Advertised
<1>6. /\ {p \in Properties \cap N!OfAgency : N!Published(p) /\ N!Open(p)} = N!PublicProperties \cap N!OfAgency
      /\ {s \in Stays \cap N!OfAgency : N!Published(s)} = N!Search(Stays) \cap N!OfAgency
  BY <1>3 DEF N!PublicProperties
<1>7. \A k \in {Properties, Stays} : N!Search(k) \cap N!OfAgency \in SUBSET N!Advertised
  BY DEF N!OfAgency
<1> QED BY <1>1, <1>2, <1>4, <1>5, <1>6, <1>7, LatestShown

LEMMA AgentPagesAgree ==
  ASSUME N!Terms, AgentsOfAgency, NEW u \in N!Directory
  PROVE  /\ N!AgentPage(u).active_listings \subseteq N!Search(Properties) \cap N!OfAgency
         /\ N!AgentPage(u).active_listings_count = N!Cardinality(N!AgentPage(u).active_listings)
         /\ N!AgentPage(u).active_listing_count >= N!AgentPage(u).active_listings_count
<1> DEFINE some == {p \in Properties : listing[p].agent = u /\ N!Published(p) /\ N!Open(p)}
<1> DEFINE more == {p \in Properties : listing[p].agent = u /\ N!Published(p)}
<1>1. /\ N!AgentPage(u).active_listings = some
      /\ N!AgentPage(u).active_listings_count = N!Cardinality(some)
      /\ N!AgentPage(u).active_listing_count = N!Cardinality(more)
  BY DEF N!AgentPage
<1>2. u # None
  BY DEF N!Directory, N!Terms
<1>3. some \subseteq N!Search(Properties) \cap N!OfAgency
  BY <1>2 DEF AgentsOfAgency, OfTheTeam, N!Search, N!PublicProperties, N!OfAgency, N!Advertised
<1>4. N!Cardinality(more) >= N!Cardinality(some)
  <2>1. some \subseteq more /\ IsFiniteSet(more)
    BY PageCounts
  <2> HIDE DEF some, more
  <2> QED BY <2>1, PageCounts, FS_Subset
<1> QED BY <1>1, <1>3, <1>4

LEMMA ManagersPagesAgree ==
  ASSUME N!Terms, AgentsOfAgency, NEW u \in People
  PROVE  /\ {l \in N!Advertised : N!CanManage(u, l)} \subseteq N!MyProperties(u) \cup N!MyStays(u)
         /\ \A context \in {"individual", "agency"} :
              N!Managed(u, context) # None => \A l \in N!Managed(u, context) : N!CanManage(u, l)
         /\ N!Capability(u).property \/ N!Capability(u).stay => N!DefaultContext(u) = "individual"
         /\ (N!Capability(u).agency > 0) <=> N!Managed(u, "agency") # None
<1>0. u # None /\ Agency # None
  BY DEF N!Terms
<1>1. {l \in N!Advertised : N!CanManage(u, l)} \subseteq N!MyProperties(u) \cup N!MyStays(u)
  BY DEF AgentsOfAgency, OfTheTeam, N!CanManage, N!can_manage_property, N!can_manage_stay, N!MyProperties,
         N!MyStays, N!OfAgency, N!AsAgent, N!Advertised
<1>2. ASSUME NEW l \in N!Individual(u) PROVE N!CanManage(u, l)
  BY <1>0 DEF N!Individual, N!CanManage, N!can_manage_property, N!can_manage_stay
<1>3. ASSUME N!Active(u), NEW l \in N!OfAgency PROVE N!CanManage(u, l)
  BY <1>0, <1>3 DEF N!OfAgency, N!CanManage, N!can_manage_property, N!can_manage_stay
<1>4. N!Managed(u, "individual") = IF N!HasIndividual(u) THEN N!Individual(u) ELSE None
  BY DEF N!Managed
<1>5. N!Managed(u, "agency") = IF N!Active(u) THEN N!OfAgency ELSE None
  BY DEF N!Managed, N!Agencies
<1>6. N!OfAgency # None
  BY DEF N!Terms, N!OfAgency, N!Advertised
<1>7. N!Capability(u).property \/ N!Capability(u).stay => N!DefaultContext(u) = "individual"
  BY DEF N!Capability, N!DefaultContext, N!HasIndividual
<1>8. (N!Capability(u).agency > 0) <=> N!Active(u)
  <2>1. N!Capability(u).agency = N!Cardinality({a \in {Agency} : N!Active(u)})
    BY DEF N!Capability
  <2>2. N!Active(u) => {a \in {Agency} : N!Active(u)} = {Agency}
    OBVIOUS
  <2>3. ~N!Active(u) => {a \in {Agency} : N!Active(u)} = {}
    OBVIOUS
  <2>4. Cardinality({Agency}) = 1 /\ Cardinality({}) = 0
    BY FS_EmptySet, FS_Singleton
  <2> QED BY <2>1, <2>2, <2>3, <2>4, PageCounts
<1> QED BY <1>1, <1>2, <1>3, <1>4, <1>5, <1>6, <1>7, <1>8

LEMMA SummariesAgree ==
  ASSUME N!Terms, NEW u \in People
  PROVE  IF N!advertiser_summary(u) = None THEN N!MyProperties(u) \cup N!MyStays(u) = {}
         ELSE \A k \in N!Kinds :
                LET mine == IF k = Properties THEN N!MyProperties(u) ELSE N!MyStays(u)
                IN  N!advertiser_summary(u)[k] =
                      [published |-> N!Cardinality({l \in mine : N!Published(l)}), has |-> mine # {}]
<1>1. N!managed(u, Properties) = N!MyProperties(u) /\ N!managed(u, Stays) = N!MyStays(u)
  BY DEF N!managed, N!MyProperties, N!MyStays, N!OfAgency, N!AsAgent, N!Advertised
<1> DEFINE nothing == \A k \in N!Kinds : N!managed(u, k) = {} /\ ~N!Active(u)
<1> DEFINE summary == [k \in N!Kinds |->
                         [published |-> N!Cardinality({l \in N!managed(u, k) : N!Published(l)}),
                          has       |-> N!managed(u, k) # {}]]
<1>2. N!advertiser_summary(u) = IF nothing THEN None ELSE summary
  BY DEF N!advertiser_summary
<1>3. nothing => N!MyProperties(u) \cup N!MyStays(u) = {}
  BY <1>1 DEF N!Kinds
<1>4. summary # None
  <2>1. IsFiniteSet(N!Advertised)
    BY Countable, FS_Union DEF N!Advertised
  <2>2. ASSUME NEW k \in N!Kinds
        PROVE  N!Cardinality({l \in N!managed(u, k) : N!Published(l)}) \in 0..N!Cardinality(Properties \cup Stays)
    <3> DEFINE some == {l \in N!managed(u, k) : N!Published(l)}
    <3>1. some \subseteq N!Advertised
      BY DEF N!managed, N!Advertised, N!OfAgency
    <3> HIDE DEF some
    <3>2. Cardinality(some) \in Nat /\ Cardinality(N!Advertised) \in Nat /\ Cardinality(some) <= Cardinality(N!Advertised)
      BY <2>1, <3>1, FS_Subset, FS_CardinalityType
    <3> QED BY <3>2, PageCounts DEF some, N!Advertised
  <2>3. summary \in [N!Kinds -> [published : 0..N!Cardinality(Properties \cup Stays), has : BOOLEAN]]
    BY <2>2
  <2> HIDE DEF summary
  <2> QED BY <2>3 DEF N!Terms, N!Kinds
<1>5. \A k \in N!Kinds :
        LET mine == IF k = Properties THEN N!MyProperties(u) ELSE N!MyStays(u)
        IN  summary[k] = [published |-> N!Cardinality({l \in mine : N!Published(l)}), has |-> mine # {}]
  <2>1. \A k \in N!Kinds : N!managed(u, k) = IF k = Properties THEN N!MyProperties(u) ELSE N!MyStays(u)
    BY <1>1 DEF N!Kinds
  <2> QED BY <2>1
<1> HIDE DEF nothing, summary
<1> QED BY <1>2, <1>3, <1>4, <1>5

LEMMA PagesDoAgree == ASSUME N!Terms, AgentsOfAgency, DatesApart PROVE N!PagesAgree
<1>1. \A p \in Properties : N!Advertiser(p) # "AGENT"
  BY DEF N!Advertiser, AgentsOfAgency, OfTheTeam, N!Advertised, N!Terms
<1>2. \A s \in Stays : N!ShownHost(s) # "AGENT"
  BY DEF N!ShownHost, AgentsOfAgency, OfTheTeam, N!Advertised, N!Terms
<1> QED BY Zenon, <1>1, <1>2, PublicPagesAgree, AgentPagesAgree, ManagersPagesAgree, SummariesAgree DEF N!PagesAgree

-----------------------------------------------------------------------------
(* What two places tell, in its scene.                                     *)

LEMMA FactSteps ==
  ASSUME [Next]_vars
  PROVE  /\ scene = "messaging" => [M!Next]_(M!vars)
         /\ scene = "quotes" => [Q!Next]_(Q!vars)
         /\ scene = "screens" => [N!Next]_(N!vars)
         /\ scene = "edits" => [E!Next]_(E!vars)
         /\ scene = "roles" => [R!Next]_(R!vars)
         /\ scene = "reports" => [T!Next]_(T!vars)
         /\ scene = "notices" => [L!Next]_(L!vars)
BY DEF Next, vars, Onboard, Verify, Account, Message, View, Search, Favour, Photograph, Quote,
       Demo, Show, Edit, Entitle, Report, Notice, messaging, quoting, screens, editing, roles,
       reporting, noticing, M!vars, Q!vars, N!vars, N!tables, E!vars, R!vars, T!vars, L!vars

FactsInv ==
  /\ scene = "messaging" => MessagesPlaced
  /\ scene = "quotes" => QuotesSafe
  /\ scene = "verification" => ReviewsSafe /\ NeedsNamed
  /\ scene = "screens" => ScreensSafe /\ AgentsOfAgency /\ DatesApart
  /\ scene = "edits" => EditsSafe
  /\ scene = "roles" => RolesSafe
  /\ scene = "reports" => ReportsSafe /\ ReportsPlaced
  /\ scene = "notices" => NoticesSafe

LEMMA FactsStart == Init => FactsInv
<1> SUFFICES ASSUME Init PROVE FactsInv
  OBVIOUS
<1>1. scene = "messaging" => MessagesPlaced
  BY MessagesStart DEF Init
<1>2. scene = "quotes" => QuotesSafe
  BY Constants, QuotesStart DEF Init
<1>3. scene = "verification" => ReviewsSafe /\ NeedsNamed
  BY Constants, ReviewsStart, NeedsStart DEF Init
<1>4. scene = "screens" => ScreensSafe /\ AgentsOfAgency /\ DatesApart
  BY ScreensStart, AgencyStarts, DatesStart DEF Init
<1>5. scene = "edits" => EditsSafe
  BY EditsStart DEF Init
<1>6. scene = "roles" => RolesSafe
  BY RolesStart DEF Init
<1>7. scene = "reports" => ReportsSafe /\ ReportsPlaced
  BY ReportsStart, PlacesStart DEF Init
<1>8. scene = "notices" => NoticesSafe
  BY NoticesStart DEF Init
<1> QED BY <1>1, <1>2, <1>3, <1>4, <1>5, <1>6, <1>7, <1>8 DEF FactsInv

LEMMA FactsKeep == FactsInv /\ [Next]_vars => FactsInv'
<1> SUFFICES ASSUME FactsInv, [Next]_vars PROVE FactsInv'
  OBVIOUS
<1>0. scene' = scene
  BY SceneStays
<1>1. CASE scene = "messaging"
  BY <1>0, <1>1, FactSteps, MessagesKeep DEF FactsInv
<1>2. CASE scene = "quotes"
  BY <1>0, <1>2, Constants, FactSteps, QuotesKeep DEF FactsInv
<1>3. CASE scene = "verification"
  BY <1>0, <1>3, Constants, VerificationSteps, ReviewsKeep, NeedsKeep DEF FactsInv
<1>4. CASE scene = "screens"
  BY <1>0, <1>4, FactSteps, ScreensKeep, AgencyKeeps, DatesKeep DEF FactsInv, ScreensSafe
<1>5. CASE scene = "edits"
  BY <1>0, <1>5, FactSteps, EditsKeep DEF FactsInv
<1>6. CASE scene = "roles"
  BY <1>0, <1>6, FactSteps, RolesKeep DEF FactsInv
<1>7. CASE scene = "reports"
  BY <1>0, <1>7, FactSteps, ReportsKeep, PlacesKeep DEF FactsInv
<1>8. CASE scene = "notices"
  BY <1>0, <1>8, Constants, FactSteps, NoticesKeep DEF FactsInv
<1>9. CASE scene \notin {"messaging", "quotes", "verification", "screens", "edits", "roles", "reports", "notices"}
  BY <1>0, <1>9 DEF FactsInv
<1> QED BY <1>1, <1>2, <1>3, <1>4, <1>5, <1>6, <1>7, <1>8, <1>9

LEMMA FactsInvariance == Spec => []FactsInv
  BY FactsStart, FactsKeep, PTL DEF Spec

\* Two places that tell one fact agree in every scene, for all users, rows, prices and requests:
\* unread counts (alerts/views.py, messaging/serializers.py), quotes and what a booking would be
\* granted (stays/services.py), checklists (verification/serializers.py), the pages and the cache
\* that show a listing (agencies/views.py, properties/views.py, stays/views.py), agents and their
\* agency (properties/serializers.py), roles (accounts/views.py), reports and staff's counts
\* (moderation/views.py), and notifications, their links and letters (notifications/).
THEOREM FactsTold == Spec => []FactsAgree
<1>1. FactsInv => FactsAgree
  <2> SUFFICES ASSUME FactsInv PROVE FactsAgree
    OBVIOUS
  <2>1. scene = "messaging" => M!UnreadAgree
    BY UnreadCounted DEF FactsInv
  <2>2. scene = "quotes" => Q!QuoteIsBookable
    BY Constants, QuotesAgree DEF FactsInv
  <2>3. scene = "verification" => V!ChecklistAgrees
    BY Constants, ChecklistsTick DEF FactsInv
  <2>4. scene = "screens" => N!PagesAgree /\ N!FeaturedFresh
    BY Constants, PagesDoAgree DEF FactsInv, ScreensSafe, PagesFresh
  <2>5. scene = "edits" => E!AgentInTeam /\ E!PublishedComplete
    BY EditsAgree DEF FactsInv
  <2>6. scene = "roles" => R!RolesAsAnswered
    BY RolesAnswer DEF FactsInv
  <2>7. scene = "reports" => T!Accountable /\ T!CountsAgree
    BY ReportsAccount, StaffPagesCount DEF FactsInv
  <2>8. scene = "notices" => L!NoticesLead /\ L!LettersTell
    BY Constants, NoticesAgree DEF FactsInv
  <2> QED BY <2>1, <2>2, <2>3, <2>4, <2>5, <2>6, <2>7, <2>8 DEF FactsAgree
<1> QED BY <1>1, FactsInvariance, PTL
=============================================================================
