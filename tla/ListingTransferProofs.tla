------------------------ MODULE ListingTransferProofs ------------------------
(* Theorems about ListingTransfer, and about the team it builds on, for     *)
(* every value of their constants.                                          *)
EXTENDS ListingTransfer, FiniteSetTheorems, TLAPS

(***************************************************************************)
(* The team's types.                                                       *)
(***************************************************************************)
Invites == [status: {"NONE", "PENDING", "ACCEPTED", "DECLINED", "EXPIRED"},
            for: Users \cup {NoUser}, role: Roles, expires: Nat]
RoleTasks   == [kind: {"role", "invite"}, member: Users, role: Roles]
RemoveTasks == [kind: {"remove"}, member: Users]
AnswerTasks == [kind: {"accept", "decline", "expire"}, invite: Invitations]
Tasks == RoleTasks \cup RemoveTasks \cup AnswerTasks \cup {NoTask}

TeamOK ==
  /\ now \in 0..MaxTime
  /\ role \in [Users -> Roles \cup {"NONE"}] /\ active \in [Users -> BOOLEAN]
  /\ \A u \in Users : active[u] => role[u] \in Roles
  /\ invite \in [Invitations -> Invites]
  /\ step \in [TeamClients -> {"idle", "authorised", "loaded", "ready"}]
  /\ task \in [TeamClients -> Tasks]
  /\ late \subseteq TeamClients /\ raced \in BOOLEAN

LEMMA TeamInitOK == TeamInit => TeamOK
<1> SUFFICES ASSUME TeamInit PROVE TeamOK OBVIOUS
<1>1. now \in 0..MaxTime BY TermKnown DEF TeamInit
<1>2. NoInvite \in Invites BY DEF NoInvite, Invites, Roles
<1>3. invite \in [Invitations -> Invites] BY <1>2 DEF TeamInit
<1>4. task \in [TeamClients -> Tasks] BY DEF TeamInit, Tasks
<1>5. \A u \in Users : active[u] = (u = Founder) /\ (u = Founder => role[u] = "OWNER")
  BY DEF TeamInit
<1>6. active \in [Users -> BOOLEAN] /\ role \in [Users -> Roles \cup {"NONE"}]
  BY DEF TeamInit, Roles
<1>7. step \in [TeamClients -> {"idle", "authorised", "loaded", "ready"}] BY DEF TeamInit
<1>8. late \subseteq TeamClients /\ raced \in BOOLEAN BY DEF TeamInit
<1> QED BY <1>1, <1>3, <1>4, <1>5, <1>6, <1>7, <1>8 DEF TeamOK, Roles

LEMMA TaskOf ==
  ASSUME TeamOK, NEW c \in TeamClients
  PROVE  /\ task[c].kind \in {"role", "invite"} => task[c].member \in Users /\ task[c].role \in Roles
         /\ task[c].kind = "remove" => task[c].member \in Users
         /\ task[c].kind \in {"accept", "decline", "expire"} => task[c].invite \in Invitations
<1>1. task[c] \in Tasks BY DEF TeamOK
<1>2. CASE task[c] \in RoleTasks BY <1>2 DEF RoleTasks
<1>3. CASE task[c] \in RemoveTasks BY <1>3 DEF RemoveTasks
<1>4. CASE task[c] \in AnswerTasks BY <1>4 DEF AnswerTasks
<1>5. CASE task[c] = NoTask BY <1>5 DEF NoTask
<1> QED BY <1>1, <1>2, <1>3, <1>4, <1>5 DEF Tasks

LEMMA EnterOK ==
  ASSUME TeamOK, NEW c \in TeamClients, NEW s \in {"idle", "authorised", "loaded", "ready"},
         NEW t \in Tasks, Enter(c, s, t)
  PROVE  /\ step' \in [TeamClients -> {"idle", "authorised", "loaded", "ready"}]
         /\ task' \in [TeamClients -> Tasks]
  BY DEF TeamOK, Enter

LEMMA LeaveOK ==
  ASSUME TeamOK, NEW c \in TeamClients, Leave(c)
  PROVE  /\ step' \in [TeamClients -> {"idle", "authorised", "loaded", "ready"}]
         /\ task' \in [TeamClients -> Tasks]
  BY EnterOK DEF Leave, Tasks

\* Every step either brings its request up to date or commits what it writes.
LEMMA HistoryOK ==
  ASSUME TeamOK, NEW c \in TeamClients, UpToDate(c) \/ \E matters \in BOOLEAN : Commit(c, matters)
  PROVE  late' \subseteq TeamClients /\ raced' \in BOOLEAN
  BY DEF TeamOK, UpToDate, Commit

LEMMA HistoryKept ==
  ASSUME NEW c \in TeamClients, TeamStep(c)
  PROVE  UpToDate(c) \/ \E matters \in BOOLEAN : Commit(c, matters)
<1>1. Withdraws(c) \in BOOLEAN BY DEF Withdraws
<1>2. CASE SaveMember(c) BY <1>1, <1>2 DEF SaveMember
<1>3. CASE SaveInvite(c) BY <1>3 DEF SaveInvite
<1>4. CASE SaveAcceptance(c) BY <1>4 DEF SaveAcceptance
<1>5. CASE SaveAnswer(c) BY <1>5 DEF SaveAnswer
<1>6. CASE BeginMemberChange(c) \/ LoadMember(c) \/ EnsureOtherOwner(c) \/ BeginInvite(c)
           \/ CheckInvitee(c) \/ ReadInvitation(c) \/ GiveUp(c)
  BY <1>6 DEF BeginMemberChange, LoadMember, EnsureOtherOwner, BeginInvite, CheckInvitee,
              ReadInvitation, GiveUp
<1> QED BY <1>2, <1>3, <1>4, <1>5, <1>6 DEF TeamStep

LEMMA TeamStepOK == TeamOK /\ [TeamNext]_<<now, teamVars>> => TeamOK'
<1> SUFFICES ASSUME TeamOK, [TeamNext]_<<now, teamVars>> PROVE TeamOK' OBVIOUS
<1>1. CASE Tick
  BY <1>1, TermKnown DEF Tick, TeamOK, teamVars, team
<1>2. CASE UNCHANGED <<now, teamVars>>
  BY <1>2 DEF TeamOK, teamVars, team
<1>3. ASSUME NEW c \in TeamClients, TeamStep(c) PROVE TeamOK'
  <2>0. late' \subseteq TeamClients /\ raced' \in BOOLEAN BY <1>3, HistoryOK, HistoryKept
  <2>1. CASE BeginMemberChange(c)
    <3>1. \E t \in Tasks : Enter(c, "authorised", t)
      BY <2>1, KnownRoles DEF BeginMemberChange, Tasks, RoleTasks, RemoveTasks
    <3> QED BY <2>0, <2>1, <3>1, EnterOK DEF BeginMemberChange, team, TeamOK
  <2>2. CASE LoadMember(c) \/ EnsureOtherOwner(c) \/ CheckInvitee(c)
    BY <2>0, <2>2 DEF LoadMember, EnsureOtherOwner, CheckInvitee, team, TeamOK
  <2>3. CASE SaveMember(c)
    <3>1. task[c].member \in Users /\ (task[c].kind = "role" => task[c].role \in Roles)
      BY <2>3, TaskOf DEF SaveMember, In
    <3>2. /\ role' \in [Users -> Roles \cup {"NONE"}] /\ active' \in [Users -> BOOLEAN]
          /\ \A u \in Users : active'[u] => role'[u] \in Roles
      BY <2>3, <3>1 DEF SaveMember, TeamOK
    <3> QED BY <2>0, <2>3, <3>2, LeaveOK DEF SaveMember, TeamOK
  <2>4. CASE BeginInvite(c)
    <3>1. \E t \in Tasks : Enter(c, "authorised", t)
      BY <2>4, KnownRoles DEF BeginInvite, Tasks, RoleTasks
    <3> QED BY <2>0, <2>4, <3>1, EnterOK DEF BeginInvite, team, TeamOK
  <2>5. CASE SaveInvite(c)
    <3> DEFINE row == [status |-> "PENDING", for |-> task[c].member, role |-> task[c].role,
                       expires |-> now + InviteTerm]
    <3>1. row \in Invites
      BY <2>5, TaskOf, TermKnown DEF SaveInvite, In, Invites, TeamOK
    <3>2. \E i \in Invitations : invite' = [invite EXCEPT ![i] = row]
      BY <2>5 DEF SaveInvite
    <3> HIDE DEF row
    <3>3. invite' \in [Invitations -> Invites] BY <3>1, <3>2 DEF TeamOK
    <3> QED BY <2>0, <2>5, <3>3, LeaveOK DEF SaveInvite, TeamOK
  <2>6. CASE ReadInvitation(c)
    <3>1. \E t \in Tasks : Enter(c, "ready", t)
      BY <2>6 DEF ReadInvitation, Answers, Tasks, AnswerTasks
    <3> QED BY <2>0, <2>6, <3>1, EnterOK DEF ReadInvitation, team, TeamOK
  <2>7. CASE SaveAcceptance(c)
    <3>1. task[c].invite \in Invitations BY <2>7, TaskOf DEF SaveAcceptance, In
    <3> DEFINE row == invite[task[c].invite]
    <3>2. row \in Invites BY <3>1 DEF TeamOK
    <3>3. /\ role' = [role EXCEPT ![row.for] = row.role]
          /\ active' = [active EXCEPT ![row.for] = TRUE]
          /\ invite' = [invite EXCEPT ![task[c].invite] = [row EXCEPT !.status = "ACCEPTED"]]
      BY <2>7, <3>1 DEF SaveAcceptance, TeamOK
    <3>4. [row EXCEPT !.status = "ACCEPTED"] \in Invites BY <3>2 DEF Invites
    <3>5. row.for \in Users \cup {NoUser} /\ row.role \in Roles BY <3>2 DEF Invites
    <3> HIDE DEF row
    <3>6. /\ role' \in [Users -> Roles \cup {"NONE"}] /\ active' \in [Users -> BOOLEAN]
          /\ \A u \in Users : active'[u] => role'[u] \in Roles
      BY <3>3, <3>5 DEF TeamOK
    <3>7. invite' \in [Invitations -> Invites] BY <3>1, <3>3, <3>4 DEF TeamOK
    <3> QED BY <2>0, <2>7, <3>6, <3>7, LeaveOK DEF SaveAcceptance, TeamOK
  <2>8. CASE SaveAnswer(c)
    <3>1. task[c].invite \in Invitations BY <2>8, TaskOf DEF SaveAnswer, In
    <3>2. invite' \in [Invitations -> Invites]
      BY <2>8, <3>1 DEF SaveAnswer, TeamOK, Invites
    <3> QED BY <2>0, <2>8, <3>2, LeaveOK DEF SaveAnswer, TeamOK
  <2>9. CASE GiveUp(c)
    BY <2>0, <2>9, LeaveOK DEF GiveUp, team, TeamOK
  <2> QED BY <1>3, <2>1, <2>2, <2>3, <2>4, <2>5, <2>6, <2>7, <2>8, <2>9 DEF TeamStep
<1> QED BY <1>1, <1>2, <1>3 DEF TeamNext

(***************************************************************************)
(* Only a race takes the last owner of a team.  Requests about the team    *)
(* overlap as they like; what one of them read last is still true when it  *)
(* writes unless another wrote in between, and then it is late.            *)
(***************************************************************************)
PendingFor(i) == invite[i].status = "PENDING"

\* What a request that nobody overtook has read is still true when it writes.
Current(c) ==
  /\ In(c, {"role", "remove"}, "ready") =>
       \/ task[c].kind = "role" /\ task[c].role = "OWNER"
       \/ ~IsOwner(task[c].member)
       \/ OtherOwner(task[c].member)
  /\ In(c, {"invite"}, "ready") => ~active[task[c].member]
  /\ In(c, {"accept"}, "ready") => PendingFor(task[c].invite)

\* Only people outside the team have an open invitation, and one each.
InvitedAreOutside ==
  /\ \A i \in Invitations : PendingFor(i) => invite[i].for \in Users /\ ~active[invite[i].for]
  /\ \A i, j \in Invitations : PendingFor(i) /\ PendingFor(j) /\ invite[i].for = invite[j].for => i = j

InTime == \A c \in TeamClients : c \notin late => Current(c)

TeamInv == TeamOK /\ (~raced => NeverOwnerless /\ InvitedAreOutside /\ InTime)

LEMMA TeamInitInv == TeamInit => TeamInv
<1> SUFFICES ASSUME TeamInit PROVE TeamInv OBVIOUS
<1>1. TeamOK BY TeamInitOK
<1>2. NeverOwnerless BY Founded DEF TeamInit, NeverOwnerless, IsOwner
<1>3. InvitedAreOutside BY DEF TeamInit, InvitedAreOutside, PendingFor, NoInvite
<1>4. InTime BY DEF TeamInit, InTime, Current, In
<1> QED BY <1>1, <1>2, <1>3, <1>4 DEF TeamInv

LEMMA OthersStay ==
  ASSUME TeamOK, NEW c \in TeamClients, TeamStep(c), NEW d \in TeamClients \ {c}
  PROVE  step'[d] = step[d] /\ task'[d] = task[d]
<1>1. \/ \E s, t : Enter(c, s, t)
      \/ UNCHANGED task /\ \E s : step' = [step EXCEPT ![c] = s]
  BY DEF TeamStep, BeginMemberChange, LoadMember, EnsureOtherOwner, SaveMember, BeginInvite,
         CheckInvitee, SaveInvite, ReadInvitation, SaveAcceptance, SaveAnswer, GiveUp, Leave
<1> QED BY <1>1 DEF Enter, TeamOK

\* A step that only reads disturbs what no other request has read.
LEMMA ReadsKeep ==
  ASSUME TeamOK, InTime, NEW c \in TeamClients, TeamStep(c), UNCHANGED team, UpToDate(c), Current(c)'
  PROVE  InTime'
<1> SUFFICES ASSUME NEW d \in TeamClients, d \notin late' PROVE Current(d)'
  BY DEF InTime
<1>1. CASE d = c BY <1>1
<1>2. CASE d # c
  <2>1. Current(d) BY <1>2 DEF InTime, UpToDate
  <2>2. step'[d] = step[d] /\ task'[d] = task[d] BY <1>2, OthersStay
  <2> QED BY <2>1, <2>2 DEF Current, In, PendingFor, IsOwner, OtherOwner, team
<1> QED BY <1>1, <1>2

\* A step that writes makes every request that was about to write late.
LEMMA WritesKeep ==
  ASSUME TeamOK, NEW c \in TeamClients, TeamStep(c), NEW matters, Commit(c, matters), step'[c] = "idle"
  PROVE  InTime'
<1> SUFFICES ASSUME NEW d \in TeamClients, d \notin late' PROVE step'[d] # "ready"
  BY DEF InTime, Current, In
<1>1. CASE d = c BY <1>1
<1>2. CASE d # c BY <1>2, OthersStay DEF Commit
<1> QED BY <1>1, <1>2

LEMMA TeamInvStep ==
  ASSUME TeamInv, [TeamNext]_<<now, teamVars>>
  PROVE  TeamInv'
<1>0. TeamOK /\ TeamOK' BY TeamStepOK DEF TeamInv
<1>1. CASE UNCHANGED teamVars
  BY <1>0, <1>1 DEF TeamInv, InTime, teamVars, team, NeverOwnerless, InvitedAreOutside, Current, PendingFor,
     In, IsOwner, OtherOwner
<1>2. ASSUME NEW c \in TeamClients, TeamStep(c), ~raced'
      PROVE  NeverOwnerless' /\ InvitedAreOutside' /\ InTime'
  <2>0. ~raced /\ NeverOwnerless /\ InvitedAreOutside /\ InTime
    BY <1>0, <1>2, HistoryKept DEF UpToDate, Commit, TeamInv
  <2>10. ASSUME UNCHANGED team, UpToDate(c), Current(c)'
         PROVE  NeverOwnerless' /\ InvitedAreOutside' /\ InTime'
    <3>1. InTime' BY <1>0, <1>2, <2>0, <2>10, ReadsKeep
    <3> QED BY <2>0, <2>10, <3>1 DEF team, NeverOwnerless, InvitedAreOutside, PendingFor, IsOwner
  <2>1. CASE BeginMemberChange(c) \/ BeginInvite(c) \/ GiveUp(c)
    <3>1. UNCHANGED team /\ UpToDate(c) /\ step'[c] \in {"authorised", "idle"}
      BY <1>0, <2>1 DEF BeginMemberChange, BeginInvite, GiveUp, Leave, Enter, TeamOK
    <3> QED BY <2>10, <3>1 DEF Current, In
  <2>2. CASE LoadMember(c)
    <3>1. UNCHANGED <<team, task>> /\ UpToDate(c) /\ task[c].kind \in {"role", "remove"}
      BY <2>2 DEF LoadMember, In
    <3>2. step'[c] = IF Withdraws(c) THEN "loaded" ELSE "ready"
      BY <1>0, <2>2 DEF LoadMember, TeamOK
    <3>3. Current(c)' BY <3>1, <3>2 DEF Withdraws, team, Current, In, IsOwner, OtherOwner
    <3> QED BY <2>10, <3>1, <3>3
  <2>3. CASE EnsureOtherOwner(c)
    <3>1. /\ UNCHANGED <<team, task>> /\ UpToDate(c)
          /\ task[c].kind \in {"role", "remove"} /\ OtherOwner(task[c].member)
      BY <2>3 DEF EnsureOtherOwner, In
    <3>2. Current(c)' BY <3>1 DEF team, Current, In, IsOwner, OtherOwner
    <3> QED BY <2>10, <3>1, <3>2
  <2>4. CASE SaveMember(c)
    <3> DEFINE m == task[c].member
    <3>1. /\ step'[c] = "idle" /\ UNCHANGED invite /\ m \in Users /\ Commit(c, Withdraws(c))
          /\ \A u \in Users : u # m => role'[u] = role[u] /\ active'[u] = active[u]
          /\ active'[m] => active[m]
          /\ task[c].kind = "role" => active'[m] = active[m] /\ role'[m] = task[c].role
      BY <1>0, <2>4, TaskOf DEF SaveMember, In, Leave, Enter, TeamOK
    <3>2. \/ task[c].kind = "role" /\ task[c].role = "OWNER"
          \/ ~IsOwner(m) \/ OtherOwner(m)
      <4>1. CASE Withdraws(c)
        <5>1. Current(c) BY <1>2, <2>0, <3>1, <4>1 DEF Commit, InTime
        <5> QED BY <2>4, <5>1 DEF Current, SaveMember
      <4>2. CASE ~Withdraws(c) BY <4>2 DEF Withdraws
      <4> QED BY <4>1, <4>2
    <3>3. NeverOwnerless'
      <4>1. CASE OtherOwner(m) BY <3>1, <4>1 DEF NeverOwnerless, OtherOwner, IsOwner
      <4>2. CASE ~IsOwner(m)
        <5>1. PICK u \in Users : IsOwner(u) BY <2>0 DEF NeverOwnerless
        <5> QED BY <3>1, <4>2, <5>1 DEF NeverOwnerless, IsOwner
      <4>3. CASE task[c].kind = "role" /\ task[c].role = "OWNER" /\ IsOwner(m)
        BY <3>1, <4>3 DEF NeverOwnerless, IsOwner
      <4> QED BY <3>2, <4>1, <4>2, <4>3
    <3>4. InvitedAreOutside' BY <2>0, <3>1 DEF InvitedAreOutside, PendingFor
    <3>5. InTime' BY <1>0, <1>2, <3>1, WritesKeep
    <3> QED BY <3>3, <3>4, <3>5
  <2>5. CASE CheckInvitee(c)
    <3>1. /\ UNCHANGED <<team, task>> /\ UpToDate(c)
          /\ task[c].kind = "invite" /\ ~active[task[c].member]
      BY <2>5 DEF CheckInvitee, In
    <3>2. Current(c)' BY <3>1 DEF team, Current, In
    <3> QED BY <2>10, <3>1, <3>2
  <2>6. CASE SaveInvite(c)
    <3> DEFINE u == task[c].member
               row == [status |-> "PENDING", for |-> u, role |-> task[c].role, expires |-> now + InviteTerm]
    <3>0. Current(c) /\ Commit(c, TRUE) BY <1>2, <2>0, <2>6 DEF SaveInvite, Commit, InTime
    <3>1. u \in Users /\ ~active[u] BY <1>0, <2>6, <3>0, TaskOf DEF Current, SaveInvite, In
    <3>2. /\ step'[c] = "idle" /\ UNCHANGED <<role, active>>
          /\ \A i \in Invitations : ~(invite[i].status = "PENDING" /\ invite[i].for = u)
          /\ \E i \in Invitations : invite' = [invite EXCEPT ![i] = row]
          /\ row.for = u
      BY <1>0, <2>6 DEF SaveInvite, Leave, Enter, TeamOK
    <3> HIDE DEF row
    <3>3. PICK i \in Invitations : invite' = [invite EXCEPT ![i] = row] BY <3>2
    <3>4. invite'[i].for = u /\ \A j \in Invitations : j # i => invite'[j] = invite[j]
      BY <1>0, <3>2, <3>3 DEF TeamOK
    <3>5. InvitedAreOutside' BY <2>0, <3>1, <3>2, <3>4 DEF InvitedAreOutside, PendingFor
    <3>6. InTime' BY <1>0, <1>2, <3>0, <3>2, WritesKeep
    <3> QED BY <2>0, <3>2, <3>5, <3>6 DEF NeverOwnerless, IsOwner
  <2>7. CASE ReadInvitation(c)
    <3>1. UNCHANGED team /\ UpToDate(c) BY <2>7 DEF ReadInvitation
    <3>2. PICK i \in Invitations : /\ PendingFor(i)
                                   /\ \E a \in {"accept", "decline", "expire"} :
                                        Enter(c, "ready", [kind |-> a, invite |-> i])
      BY <2>7 DEF ReadInvitation, Answers, PendingFor
    <3>3. task'[c].invite = i /\ task'[c].kind \in {"accept", "decline", "expire"}
      BY <1>0, <3>2 DEF Enter, TeamOK
    <3>4. Current(c)' BY <3>1, <3>2, <3>3 DEF team, Current, In, PendingFor
    <3> QED BY <2>10, <3>1, <3>4
  <2>8. CASE SaveAcceptance(c)
    <3> DEFINE i == task[c].invite
               u == invite[i].for
    <3>0. Current(c) /\ Commit(c, TRUE) BY <1>2, <2>0, <2>8 DEF SaveAcceptance, Commit, InTime
    <3>1. i \in Invitations /\ PendingFor(i) /\ u \in Users /\ ~active[u]
      BY <1>0, <2>0, <2>8, <3>0, TaskOf DEF Current, SaveAcceptance, In, InvitedAreOutside
    <3>2. /\ step'[c] = "idle"
          /\ \A x \in Users : x # u => role'[x] = role[x] /\ active'[x] = active[x]
          /\ \A j \in Invitations : j # i => invite'[j] = invite[j]
          /\ invite'[i].status = "ACCEPTED"
      BY <1>0, <2>8, <3>1 DEF SaveAcceptance, Leave, Enter, TeamOK, Invites
    <3>3. NeverOwnerless'
      <4>1. PICK w \in Users : IsOwner(w) BY <2>0 DEF NeverOwnerless
      <4> QED BY <3>1, <3>2, <4>1 DEF NeverOwnerless, IsOwner
    <3>4. InvitedAreOutside' BY <2>0, <3>1, <3>2 DEF InvitedAreOutside, PendingFor
    <3>5. InTime' BY <1>0, <1>2, <3>0, <3>2, WritesKeep
    <3> QED BY <3>3, <3>4, <3>5
  <2>9. CASE SaveAnswer(c)
    <3> DEFINE i == task[c].invite
    <3>1. i \in Invitations BY <1>0, <2>9, TaskOf DEF SaveAnswer, In
    <3>0. Commit(c, FALSE) BY <2>9 DEF SaveAnswer
    <3>2. /\ step'[c] = "idle" /\ UNCHANGED <<role, active>>
          /\ \A j \in Invitations : j # i => invite'[j] = invite[j]
          /\ invite'[i].status # "PENDING"
      BY <1>0, <2>9, <3>1 DEF SaveAnswer, Leave, Enter, TeamOK, Invites
    <3>3. InTime' BY <1>0, <1>2, <3>0, <3>2, WritesKeep
    <3>4. InvitedAreOutside' BY <2>0, <3>1, <3>2 DEF InvitedAreOutside, PendingFor
    <3> QED BY <2>0, <3>2, <3>3, <3>4 DEF NeverOwnerless, IsOwner
  <2> QED BY <1>2, <2>1, <2>2, <2>3, <2>4, <2>5, <2>6, <2>7, <2>8, <2>9 DEF TeamStep
<1>3. ASSUME NEW c \in TeamClients, TeamStep(c) PROVE TeamInv'
  BY <1>0, <1>2, <1>3 DEF TeamInv
<1> QED BY <1>1, <1>3 DEF TeamNext, Tick, teamVars

\* The agency keeps an active owner, however requests about its team overlap, unless one
\* of them writes after another overtook it: what docs/agencies.md promises, up to the
\* race that ensure_other_owner leaves open.
THEOREM OwnerRemains == TeamSpec => []OwnerKept
<1>1. TeamInv => OwnerKept BY DEF TeamInv, OwnerKept
<1>2. TeamInv /\ [TeamNext]_<<now, teamVars>> => TeamInv' BY TeamInvStep
<1> QED BY <1>1, <1>2, TeamInitInv, PTL DEF TeamSpec

(***************************************************************************)
(* Transfers.  Whoever answers a request holds its row from the moment it  *)
(* read it, so what it read there stands until it writes.                  *)
(***************************************************************************)
Places == [owner: Users, managed: BOOLEAN]
Rows   == [status: {"PENDING", "ACCEPTED", "DECLINED", "CANCELLED"}, listing: Listings, sender: Users,
           source: Places, target: Users \cup {Agency}, expires: Nat]
SendRequests   == [kind: {"send"}, user: Users, listing: Listings, target: Users \cup {Agency}]
AnswerRequests == [kind: {"accept", "decline", "cancel"}, user: Users, transfer: Transfers,
                   listing: Listings]

TransfersOK ==
  /\ held \in [Listings -> Places]
  /\ transfer \in [Transfers -> Rows \cup {NoTransfer}]
  /\ \A l \in Listings : \A t, u \in Pending(l) : t = u
  /\ holder \in [Listings \cup Transfers -> Clients \cup {Nobody}]
  /\ stage \in [Clients -> {"idle", "listing", "save"}]
  /\ request \in [Clients -> SendRequests \cup AnswerRequests \cup {NoRequest}]

Answering ==
  \A c \in Clients : stage[c] # "idle" /\ request[c].kind \in {"accept", "decline", "cancel"} =>
    LET t == request[c].transfer
    IN  /\ holder[t] = c
        /\ transfer[t].status = "PENDING" /\ transfer[t].listing = request[c].listing
        /\ request[c].kind = "accept" => transfer[t].target \in {Agency, request[c].user}

TInv == TeamOK /\ TransfersOK /\ Answering

LEMMA TypesFollow == TInv => TypeOK
<1> SUFFICES ASSUME TInv PROVE TypeOK OBVIOUS
<1>1. \A l \in Listings : Cardinality(Pending(l)) <= 1
  <2> TAKE l \in Listings
  <2>1. CASE Pending(l) = {} BY <2>1, FS_EmptySet
  <2>2. ASSUME NEW t \in Pending(l) PROVE Cardinality(Pending(l)) <= 1
    <3>1. Pending(l) = {t} BY <2>2 DEF TInv, TransfersOK
    <3>2. Cardinality({t}) = 1 BY FS_Singleton
    <3> QED BY <3>1, <3>2
  <2> QED BY <2>1, <2>2
<1> QED BY <1>1 DEF TypeOK, TInv, TeamOK, TransfersOK, Invites, Places, Rows

LEMMA FinishOK ==
  ASSUME TransfersOK, NEW c \in Clients, Finish(c)
  PROVE  /\ holder' \in [Listings \cup Transfers -> Clients \cup {Nobody}]
         /\ stage' \in [Clients -> {"idle", "listing", "save"}]
         /\ request' \in [Clients -> SendRequests \cup AnswerRequests \cup {NoRequest}]
  BY DEF TransfersOK, Finish

\* A transaction's end leaves the others what they hold and ask.
LEMMA OthersGoOn ==
  ASSUME TransfersOK, NEW c \in Clients, Finish(c), NEW d \in Clients, stage'[d] # "idle"
  PROVE  /\ d # c /\ stage'[d] = stage[d] /\ request'[d] = request[d]
         /\ \A x \in Listings \cup Transfers : holder[x] = d => holder'[x] = d
  BY DEF TransfersOK, Finish

\* Holding a request's row keeps its answerer's facts while others write elsewhere.
LEMMA AnswersKept ==
  ASSUME TransfersOK, Answering, NEW c \in Clients, Finish(c),
         \A t \in Transfers : transfer'[t] = transfer[t] \/ transfer[t].status # "PENDING"
                                \/ holder[t] \in {c, Nobody}
  PROVE  Answering'
<1> SUFFICES ASSUME NEW d \in Clients, stage'[d] # "idle",
                    request'[d].kind \in {"accept", "decline", "cancel"}
             PROVE  /\ holder'[request'[d].transfer] = d
                    /\ transfer'[request'[d].transfer].status = "PENDING"
                    /\ transfer'[request'[d].transfer].listing = request'[d].listing
                    /\ request'[d].kind = "accept" =>
                         transfer'[request'[d].transfer].target \in {Agency, request'[d].user}
  BY DEF Answering
<1>1. d # c /\ stage[d] # "idle" /\ request'[d] = request[d]
  BY OthersGoOn
<1> DEFINE t == request[d].transfer
<1>2. t \in Transfers BY <1>1 DEF TransfersOK, SendRequests, AnswerRequests, NoRequest
<1>3. /\ holder[t] = d /\ transfer[t].status = "PENDING" /\ transfer[t].listing = request[d].listing
      /\ request[d].kind = "accept" => transfer[t].target \in {Agency, request[d].user}
  BY <1>1 DEF Answering
<1>4. transfer'[t] = transfer[t] BY <1>1, <1>2, <1>3, Apart
<1>5. holder'[t] = d BY <1>2, <1>3, OthersGoOn
<1> QED BY <1>1, <1>3, <1>4, <1>5

LEMMA TransferInit == Init => TInv
<1> SUFFICES ASSUME Init PROVE TInv OBVIOUS
<1>1. TeamOK BY TeamInitOK DEF Init
<1>2. \A l \in Listings : Pending(l) = {} BY DEF Init, Pending, NoTransfer
<1>3. held \in [Listings -> Places]
  <2>1. [owner: Users, managed: {FALSE}] \subseteq Places BY DEF Places
  <2> QED BY <2>1 DEF Init
<1>4. TransfersOK BY <1>2, <1>3 DEF Init, TransfersOK
<1>5. Answering BY DEF Init, Answering
<1> QED BY <1>1, <1>4, <1>5 DEF TInv

LEMMA SaveTransferStep ==
  ASSUME TInv, NEW c \in Clients, SaveTransfer(c)
  PROVE  TransfersOK' /\ Answering'
<1>0. TransfersOK /\ Answering /\ now \in Nat BY TermKnown DEF TInv, TeamOK
<1> DEFINE req == request[c]
           place == held[req.listing]
           overdue == {t \in Pending(req.listing) : transfer[t].expires <= now}
           row == [status |-> "PENDING", listing |-> req.listing, sender |-> req.user,
                   source |-> place, target |-> req.target, expires |-> now + TransferTerm]
<1>1. req \in SendRequests BY <1>0 DEF SaveTransfer, TransfersOK, AnswerRequests, NoRequest
<1>2. row \in Rows
  BY <1>0, <1>1, Apart DEF Rows, SendRequests, TransfersOK
<1>3. Finish(c) /\ UNCHANGED held /\ Unblocked(req.listing) /\ \A t \in overdue : holder[t] = Nobody
  BY DEF SaveTransfer
<1>4. PICK n \in Transfers :
        /\ transfer[n] = NoTransfer
        /\ transfer' = [t \in Transfers |-> IF t = n THEN row
                                            ELSE IF t \in overdue THEN [transfer[t] EXCEPT !.status = ClosedAs]
                                            ELSE transfer[t]]
  BY DEF SaveTransfer
<1>5. row.status = "PENDING" /\ row.listing = req.listing OBVIOUS
<1>6. overdue = Pending(req.listing) BY <1>3 DEF Unblocked
<1> HIDE DEF row, overdue
<1>7. \A t \in overdue : /\ transfer[t] \in Rows /\ t # n /\ transfer[t].status = "PENDING"
                         /\ [transfer[t] EXCEPT !.status = ClosedAs] \in Rows
                         /\ [transfer[t] EXCEPT !.status = ClosedAs].status # "PENDING"
  BY <1>0, <1>4, <1>6 DEF Pending, TransfersOK, NoTransfer, Rows, ClosedAs
<1>8. transfer' \in [Transfers -> Rows \cup {NoTransfer}]
  BY <1>0, <1>2, <1>4, <1>7 DEF TransfersOK
<1>9. ASSUME NEW l \in Listings, NEW t \in Pending(l)', NEW u \in Pending(l)' PROVE t = u
  <2>1. t \in Transfers /\ u \in Transfers /\ t \notin overdue /\ u \notin overdue
    BY <1>4, <1>7, <1>9 DEF Pending
  <2>2. \A x \in {t, u} : x # n => x \in Pending(l) /\ l # req.listing
    BY <1>4, <1>6, <1>9, <2>1 DEF Pending
  <2>3. \A x \in {t, u} : x = n => l = req.listing
    BY <1>4, <1>5, <1>9 DEF Pending
  <2> QED BY <1>0, <2>2, <2>3 DEF TransfersOK
<1>10. TransfersOK' BY <1>0, <1>3, <1>8, <1>9, FinishOK DEF TransfersOK
<1>11. \A t \in Transfers : transfer'[t] = transfer[t] \/ transfer[t].status # "PENDING"
                              \/ holder[t] \in {c, Nobody}
  BY <1>3, <1>4 DEF NoTransfer
<1> QED BY <1>0, <1>3, <1>10, <1>11, AnswersKept

\* An answer that is written changes one pending request, whose row the writer holds.
LEMMA AnswerWritten ==
  ASSUME TInv, NEW c \in Clients, AcceptTransfer(c) \/ CloseTransfer(c)
  PROVE  LET t == request[c].transfer
         IN  /\ request[c] \in AnswerRequests /\ Finish(c) /\ stage[c] = "save"
             /\ holder[t] = c /\ transfer[t] \in Rows /\ transfer[t].status = "PENDING"
             /\ transfer[t].listing = request[c].listing
             /\ request[c].kind = "accept" => transfer[t].target \in {Agency, request[c].user}
             /\ transfer' \in [Transfers -> Rows \cup {NoTransfer}]
             /\ transfer'[t].status # "PENDING"
             /\ AcceptTransfer(c) <=> transfer'[t].status = "ACCEPTED"
             /\ \A x \in Transfers : x # t => transfer'[x] = transfer[x]
<1> DEFINE t == request[c].transfer
<1>0. TransfersOK /\ Answering BY DEF TInv
<1>1. request[c].kind \in {"accept", "decline", "cancel"} /\ stage[c] = "save" /\ Finish(c)
  BY DEF AcceptTransfer, CloseTransfer
<1>2. request[c] \in AnswerRequests BY <1>0, <1>1 DEF TransfersOK, SendRequests, NoRequest
<1>3. /\ holder[t] = c /\ transfer[t].status = "PENDING" /\ transfer[t].listing = request[c].listing
      /\ request[c].kind = "accept" => transfer[t].target \in {Agency, request[c].user}
  BY <1>1 DEF TInv, Answering
<1>4. t \in Transfers /\ transfer[t] \in Rows
  BY <1>0, <1>2, <1>3 DEF TransfersOK, AnswerRequests, NoTransfer
<1>5. PICK s \in {"ACCEPTED", "DECLINED", "CANCELLED"} :
        /\ transfer' = [transfer EXCEPT ![t].status = s]
        /\ AcceptTransfer(c) <=> s = "ACCEPTED"
  <2>1. CASE AcceptTransfer(c) BY <2>1 DEF AcceptTransfer
  <2>2. CASE CloseTransfer(c)
    BY <2>2 DEF CloseTransfer, AcceptTransfer
  <2> QED BY <2>1, <2>2
<1>6. transfer'[t] = [transfer[t] EXCEPT !.status = s] /\ \A x \in Transfers : x # t => transfer'[x] = transfer[x]
  BY <1>0, <1>4, <1>5 DEF TransfersOK
<1>7. [transfer[t] EXCEPT !.status = s] \in Rows /\ [transfer[t] EXCEPT !.status = s].status = s
  BY <1>4 DEF Rows
<1>8. transfer' \in [Transfers -> Rows \cup {NoTransfer}]
  BY <1>0, <1>4, <1>5, <1>6, <1>7 DEF TransfersOK
<1> QED BY <1>1, <1>2, <1>3, <1>4, <1>5, <1>6, <1>7, <1>8

LEMMA AnswerStep ==
  ASSUME TInv, NEW c \in Clients, AcceptTransfer(c) \/ CloseTransfer(c)
  PROVE  TransfersOK' /\ Answering'
<1> DEFINE t == request[c].transfer
<1>0. TransfersOK /\ Answering BY DEF TInv
<1>1. /\ request[c] \in AnswerRequests /\ Finish(c) /\ holder[t] = c
      /\ transfer' \in [Transfers -> Rows \cup {NoTransfer}] /\ transfer'[t].status # "PENDING"
      /\ \A x \in Transfers : x # t => transfer'[x] = transfer[x]
  BY AnswerWritten
<1>2. held' \in [Listings -> Places]
  <2>1. CASE CloseTransfer(c) BY <1>0, <2>1 DEF CloseTransfer, TransfersOK
  <2>2. CASE AcceptTransfer(c)
    <3> DEFINE place == [owner |-> request[c].user, managed |-> transfer[t].target = Agency]
    <3>1. place \in Places BY <1>1 DEF AnswerRequests, Places
    <3>2. held' = [held EXCEPT ![request[c].listing] = place] BY <2>2 DEF AcceptTransfer
    <3> HIDE DEF place
    <3> QED BY <1>0, <3>1, <3>2 DEF TransfersOK
  <2> QED BY <2>1, <2>2
<1>3. \A l \in Listings : Pending(l)' \subseteq Pending(l)
  BY <1>1 DEF Pending
<1>4. TransfersOK' BY <1>0, <1>1, <1>2, <1>3, FinishOK DEF TransfersOK
<1>5. \A x \in Transfers : transfer'[x] = transfer[x] \/ transfer[x].status # "PENDING"
                             \/ holder[x] \in {c, Nobody}
  BY <1>1
<1> QED BY <1>0, <1>1, <1>4, <1>5, AnswersKept

\* A request that starts or waits changes no other and no transfer.
LEMMA StartStep ==
  ASSUME TInv, NEW c \in Clients, BeginSend(c) \/ LockListing(c) \/ LockTransfer(c)
  PROVE  TransfersOK' /\ Answering'
<1>0. TransfersOK /\ Answering /\ c # Nobody BY Apart DEF TInv
<1>1. UNCHANGED <<now, held, transfer>>
  BY DEF BeginSend, LockListing, LockTransfer, Answer
<1>2. \E x \in Listings \cup Transfers \cup {request[c].listing} : Lock(x, c)
  BY DEF BeginSend, LockListing, LockTransfer
<1>3. /\ holder' \in [Listings \cup Transfers -> Clients \cup {Nobody}]
      /\ \A x \in Listings \cup Transfers : holder[x] # Nobody => holder'[x] = holder[x]
  BY <1>0, <1>2 DEF Lock, TransfersOK
<1>4. /\ stage' \in [Clients -> {"idle", "listing", "save"}]
      /\ request' \in [Clients -> SendRequests \cup AnswerRequests \cup {NoRequest}]
      /\ \A d \in Clients : d # c => stage'[d] = stage[d] /\ request'[d] = request[d]
      /\ stage[c] # "idle" => request'[c] = request[c]
      /\ stage[c] = "idle" /\ request'[c].kind \in {"accept", "decline", "cancel"} =>
           LET t == request'[c].transfer
           IN  /\ t \in Transfers /\ Lock(t, c) /\ Open(t) /\ transfer[t].listing = request'[c].listing
               /\ request'[c].kind = "accept" => CanReceive(request'[c].user, t)
  <2>1. CASE BeginSend(c)
    <3>1. PICK u \in Users, l \in Listings, d \in Targets :
            request' = [request EXCEPT ![c] = [kind |-> "send", user |-> u, listing |-> l, target |-> d]]
      BY <2>1 DEF BeginSend
    <3> DEFINE req == [kind |-> "send", user |-> u, listing |-> l, target |-> d]
    <3>2. req \in SendRequests /\ req.kind = "send" BY <3>1, Apart DEF SendRequests
    <3> HIDE DEF req
    <3>3. request' = [request EXCEPT ![c] = req] BY <3>1 DEF req
    <3> QED BY <1>0, <2>1, <3>2, <3>3 DEF BeginSend, TransfersOK
  <2>2. CASE LockListing(c)
    BY <1>0, <2>2 DEF LockListing, TransfersOK
  <2>3. CASE LockTransfer(c)
    <3>1. PICK u \in Users, a \in {"accept", "decline", "cancel"}, t \in Transfers :
            Lock(t, c) /\ Open(t) /\ May(u, a, t) /\ Answer(c, u, a, t)
      BY <2>3 DEF LockTransfer
    <3> DEFINE req == [kind |-> a, user |-> u, transfer |-> t, listing |-> transfer[t].listing]
    <3>2. req \in AnswerRequests
      <4>1. transfer[t] \in Rows BY <1>0, <3>1 DEF Open, TransfersOK, NoTransfer
      <4> QED BY <4>1 DEF AnswerRequests, Rows
    <3>3. req.kind = a /\ req.user = u /\ req.transfer = t /\ req.listing = transfer[t].listing OBVIOUS
    <3>4. request' = [request EXCEPT ![c] = req] /\ stage' \in [Clients -> {"idle", "listing", "save"}]
          /\ \A d \in Clients : d # c => stage'[d] = stage[d]
      BY <1>0, <3>1 DEF Answer, TransfersOK
    <3> HIDE DEF req
    <3>5. request'[c] = req /\ stage[c] = "idle" BY <1>0, <2>3, <3>4 DEF TransfersOK, LockTransfer
    <3>6. a = "accept" => CanReceive(u, t) BY <3>1 DEF May
    <3> QED BY <1>0, <3>1, <3>2, <3>3, <3>4, <3>5, <3>6 DEF TransfersOK
  <2> QED BY <2>1, <2>2, <2>3
<1>5. TransfersOK' BY <1>0, <1>1, <1>3, <1>4 DEF TransfersOK, Pending
<1>6. ASSUME NEW d \in Clients, stage'[d] # "idle", request'[d].kind \in {"accept", "decline", "cancel"}
      PROVE  LET t == request'[d].transfer
             IN  /\ holder'[t] = d
                 /\ transfer'[t].status = "PENDING" /\ transfer'[t].listing = request'[d].listing
                 /\ request'[d].kind = "accept" => transfer'[t].target \in {Agency, request'[d].user}
  <2> DEFINE t == request'[d].transfer
  <2>1. CASE d # c \/ stage[c] # "idle"
    <3>1. request'[d] = request[d] /\ stage[d] # "idle" BY <1>4, <1>6, <2>1
    <3>2. t \in Transfers
      BY <1>0, <1>6, <3>1 DEF TransfersOK, SendRequests, AnswerRequests, NoRequest
    <3>3. holder[t] = d BY <1>0, <1>6, <3>1 DEF Answering
    <3>4. d # Nobody BY Apart
    <3> QED BY <1>0, <1>1, <1>3, <1>6, <3>1, <3>2, <3>3, <3>4 DEF Answering
  <2>2. CASE d = c /\ stage[c] = "idle"
    <3>1. /\ t \in Transfers /\ Lock(t, c) /\ Open(t) /\ transfer[t].listing = request'[c].listing
          /\ request'[c].kind = "accept" => CanReceive(request'[c].user, t)
      BY <1>4, <1>6, <2>2
    <3>2. holder'[t] = c BY <1>0, <3>1 DEF Lock, TransfersOK
    <3> QED BY <1>1, <2>2, <3>1, <3>2 DEF Open, CanReceive
  <2> QED BY <2>1, <2>2
<1> QED BY <1>5, <1>6 DEF Answering

LEMMA TInvStep == TInv /\ [Next]_vars => TInv'
<1> SUFFICES ASSUME TInv, [Next]_vars PROVE TInv' OBVIOUS
<1>0. TransfersOK /\ Answering BY DEF TInv
<1>1. TeamOK'
  <2>1. [TeamNext]_<<now, teamVars>>
    BY DEF Next, vars, TransferStep, BeginSend, LockListing, SaveTransfer, LockTransfer, Answer,
       AcceptTransfer, CloseTransfer, Rollback, Reassign
  <2> QED BY <2>1, TeamStepOK DEF TInv
<1>2. CASE UNCHANGED <<held, transfer, holder, stage, request>>
  <2>1. TransfersOK' BY <1>0, <1>2 DEF TransfersOK, Pending
  <2>2. Answering' BY <1>0, <1>2 DEF Answering
  <2> QED BY <1>1, <2>1, <2>2 DEF TInv
<1>3. ASSUME NEW c \in Clients, Rollback(c) PROVE TransfersOK' /\ Answering'
  <2>1. Finish(c) /\ UNCHANGED <<held, transfer>> BY <1>3 DEF Rollback
  <2>2. TransfersOK' BY <1>0, <2>1, FinishOK DEF TransfersOK, Pending
  <2> QED BY <1>0, <2>1, <2>2, AnswersKept
<1>4. ASSUME NEW l \in Listings, Reassign(l) PROVE TransfersOK' /\ Answering'
  <2>1. held' \in [Listings -> Places] BY <1>0, <1>4 DEF Reassign, TransfersOK, Places
  <2>2. UNCHANGED <<transfer, holder, stage, request>> BY <1>4 DEF Reassign
  <2>3. TransfersOK' BY <1>0, <2>1, <2>2 DEF TransfersOK, Pending
  <2>4. Answering' BY <1>0, <2>2 DEF Answering
  <2> QED BY <2>3, <2>4
<1>5. ASSUME NEW c \in Clients, TransferStep(c) PROVE TransfersOK' /\ Answering'
  BY <1>3, <1>5, StartStep, SaveTransferStep, AnswerStep DEF TransferStep
<1> QED BY <1>1, <1>2, <1>4, <1>5 DEF Next, vars, TInv

LEMMA TInvHolds == Spec => []TInv
  BY TransferInit, TInvStep, PTL DEF Spec

\* Every variable keeps its type, and a listing has at most one pending request.
THEOREM TypeCorrect == Spec => []TypeOK
  BY TInvHolds, TypesFollow, PTL

\* Which steps write a transfer that exists.
LEMMA TransferWrites ==
  ASSUME TInv, [Next]_vars, NEW t \in Transfers, transfer[t] # NoTransfer, transfer'[t] # transfer[t]
  PROVE  /\ transfer[t].status = "PENDING"
         /\ \/ \E c \in Clients : /\ AcceptTransfer(c) \/ CloseTransfer(c)
                                  /\ t = request[c].transfer
            \/ transfer'[t].status = "CANCELLED"
<1>1. PICK c \in Clients : SaveTransfer(c) \/ AcceptTransfer(c) \/ CloseTransfer(c)
  BY DEF Next, vars, TransferStep, BeginSend, LockListing, LockTransfer, Answer, Rollback, Reassign
<1>2. CASE SaveTransfer(c)
  <2>1. t \in Pending(request[c].listing) /\ transfer'[t] = [transfer[t] EXCEPT !.status = ClosedAs]
    BY <1>2 DEF SaveTransfer
  <2>2. transfer[t] \in Rows BY DEF TInv, TransfersOK
  <2> QED BY <2>1, <2>2 DEF Pending, ClosedAs, Rows
<1>3. CASE AcceptTransfer(c) \/ CloseTransfer(c)
  <2>1. t = request[c].transfer /\ transfer[t].status = "PENDING"
    BY <1>3, AnswerWritten
  <2> QED BY <1>3, <2>1
<1> QED BY <1>1, <1>2, <1>3

\* A request is decided once, whoever answers it and whatever closes it.
THEOREM OneDecision == Spec => DecidedOnce
<1> DEFINE Once == \A t \in Transfers :
       transfer[t] # NoTransfer /\ transfer[t].status # "PENDING" => transfer'[t] = transfer[t]
<1>1. TInv /\ [Next]_vars => [Once]_vars BY TransferWrites
<1> QED BY <1>1, TInvHolds, PTL DEF Spec, DecidedOnce

\* An acceptance moves the listing from where its request saw it to where it asked.
THEOREM AcceptedAsAsked == Spec => MovesAsRequested
<1> DEFINE Moves == \A l \in Listings, t \in Transfers :
       transfer[t] # NoTransfer /\ transfer'[t] # transfer[t] /\ transfer'[t].status = "ACCEPTED"
         /\ transfer[t].listing = l
       => /\ held[l] = transfer[t].source
          /\ transfer[t].target = IF held'[l].managed THEN Agency ELSE held'[l].owner
<1>1. TInv /\ [Next]_vars => Moves
  <2> SUFFICES ASSUME TInv, [Next]_vars, NEW l \in Listings, NEW t \in Transfers,
                      transfer[t] # NoTransfer, transfer'[t] # transfer[t],
                      transfer'[t].status = "ACCEPTED", transfer[t].listing = l
               PROVE  /\ held[l] = transfer[t].source
                      /\ transfer[t].target = IF held'[l].managed THEN Agency ELSE held'[l].owner
    OBVIOUS
  <2>1. PICK c \in Clients : (AcceptTransfer(c) \/ CloseTransfer(c)) /\ t = request[c].transfer
    BY TransferWrites
  <2>2. /\ AcceptTransfer(c) /\ l = request[c].listing
        /\ request[c].kind = "accept" => transfer[t].target \in {Agency, request[c].user}
    BY <2>1, AnswerWritten
  <2>3. /\ held[l] = transfer[t].source /\ request[c].kind = "accept"
        /\ held' = [held EXCEPT ![l] = [owner |-> request[c].user, managed |-> transfer[t].target = Agency]]
    BY <2>1, <2>2 DEF AcceptTransfer, SourceUnchanged
  <2>4. held'[l].owner = request[c].user /\ held'[l].managed = (transfer[t].target = Agency)
    BY <2>3 DEF TInv, TransfersOK
  <2> QED BY <2>2, <2>3, <2>4
<1>2. TInv /\ [Next]_vars => [Moves]_vars BY <1>1
<1> QED BY <1>2, TInvHolds, PTL DEF Spec, MovesAsRequested

\* A listing the agency manages always has somebody who can hand it on, however requests
\* about the team overlap, unless one of them writes after another overtook it.
THEOREM NobodyOrphaned == Spec => []NoOrphans
<1>1. Init => TeamInv BY TeamInitInv DEF Init
<1>2. TeamInv /\ [Next]_vars => TeamInv'
  <2> SUFFICES ASSUME TeamInv, [Next]_vars PROVE TeamInv' OBVIOUS
  <2>1. [TeamNext]_<<now, teamVars>>
    BY DEF Next, vars, TransferStep, BeginSend, LockListing, SaveTransfer, LockTransfer, Answer,
       AcceptTransfer, CloseTransfer, Rollback, Reassign
  <2> QED BY <2>1, TeamInvStep
<1>3. TeamInv => NoOrphans
  BY DEF TeamInv, NeverOwnerless, NoOrphans, CanSend, IsOwner, IsManager
<1> QED BY <1>1, <1>2, <1>3, PTL DEF Spec
=============================================================================
