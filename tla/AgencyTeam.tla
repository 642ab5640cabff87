----------------------------- MODULE AgencyTeam -----------------------------
(***************************************************************************)
(* The team of one agency: who belongs to it, in which role, and the       *)
(* invitations that bring people in (agencies/views.py, agencies/models.py)*)
(*                                                                         *)
(* No request here locks anything: each one reads a few rows, one query    *)
(* after another, decides, and writes.  Its stages are                     *)
(*    idle -> authorised -> loaded -> ready -> idle                        *)
(* and other requests come in between.                                     *)
(***************************************************************************)
EXTENDS Integers, FiniteSets

CONSTANTS
  Users,
  Founder,      \* who created the agency
  Invitations,  \* AgencyInvitation rows
  TeamClients,  \* requests in progress at once                     (bound)
  NoUser,
  Asked,        \* the roles that changes and invitations ask for     (bound)
  InviteTerm,   \* settings.AGENCY_INVITATION_TTL_DAYS
  MaxTime       \* last instant of the clock                        (bound)

ASSUME Founded == Founder \in Users /\ NoUser \notin Users
ASSUME TermKnown == InviteTerm \in Nat \ {0} /\ MaxTime \in Nat

Roles == {"OWNER", "ADMIN", "AGENT"}
ASSUME KnownRoles == Asked \subseteq Roles

VARIABLES
  now,
  role,     \* AgentProfile.role, "NONE" without a profile
  active,   \* AgentProfile.is_active
  invite,   \* AgencyInvitation rows
  step, task, \* each request's progress and what it has read
  late,     \* history: the requests about to write that another write overtook
  raced     \* history: one of them did write what it should not have

team == <<role, active, invite>>
teamVars == <<team, step, task, late, raced>>

NoInvite == [status |-> "NONE", for |-> NoUser, role |-> "AGENT", expires |-> 0]
NoTask   == [kind |-> "none"]
-----------------------------------------------------------------------------
IsOwner(u)   == active[u] /\ role[u] = "OWNER"
IsManager(u) == active[u] /\ role[u] \in {"OWNER", "ADMIN"}

Enter(c, s, req) == step' = [step EXCEPT ![c] = s] /\ task' = [task EXCEPT ![c] = req]
Leave(c) == Enter(c, "idle", NoTask)
In(c, kinds, s) == step[c] = s /\ task[c].kind \in kinds

\* The history of races, which no request looks at.  What a request read last is up to
\* date again; a write overtakes all the requests that are about to write.
UpToDate(c) == late' = late \ {c} /\ UNCHANGED raced
Commit(c, matters) == /\ late' = {d \in TeamClients \ {c} : step[d] = "ready"}
                      /\ raced' = (raced \/ (c \in late /\ matters))

\* Whether the change takes the role of an owner from somebody who has it now.
Withdraws(c) == IsOwner(task[c].member) /\ ~(task[c].kind = "role" /\ task[c].role = "OWNER")

\* update_member_role and remove_member: the actor is an owner ...
BeginMemberChange(c) ==
  /\ step[c] = "idle"
  /\ \E actor \in Users : IsOwner(actor)
  /\ \E m \in {u \in Users : role[u] # "NONE"} :
       \/ \E r \in Asked : Enter(c, "authorised", [kind |-> "role", member |-> m, role |-> r])
       \/ Enter(c, "authorised", [kind |-> "remove", member |-> m])
  /\ UpToDate(c) /\ UNCHANGED <<now, team>>

\* ... then the member is loaded, and with it the role it has by then ...
LoadMember(c) ==
  /\ In(c, {"role", "remove"}, "authorised")
  /\ active[task[c].member]
  /\ step' = [step EXCEPT ![c] = IF Withdraws(c) THEN "loaded" ELSE "ready"]
  /\ UpToDate(c) /\ UNCHANGED <<now, team, task>>

\* ... and an owner may only go while there is another one.
OtherOwnerEver(m) == \E u \in Users \ {m} : role[u] = "OWNER"
OtherOwner(m) == \E u \in Users \ {m} : IsOwner(u)
EnsureOtherOwner(c) ==
  /\ In(c, {"role", "remove"}, "loaded")
  /\ OtherOwner(task[c].member)
  /\ step' = [step EXCEPT ![c] = "ready"]
  /\ UpToDate(c) /\ UNCHANGED <<now, team, task>>

\* Each write names its columns only.
SaveMember(c) ==
  LET m == task[c].member
  IN  /\ In(c, {"role", "remove"}, "ready")
      /\ \/ task[c].kind = "role" /\ role' = [role EXCEPT ![m] = task[c].role] /\ UNCHANGED active
         \/ task[c].kind = "remove" /\ active' = [active EXCEPT ![m] = FALSE] /\ UNCHANGED role
      /\ Leave(c) /\ Commit(c, Withdraws(c))
      /\ UNCHANGED <<now, invite>>
-----------------------------------------------------------------------------
(* Invitations.                                                            *)

BeginInvite(c) ==
  /\ step[c] = "idle"
  /\ \E actor \in Users : IsManager(actor)
  /\ \E i \in Invitations : invite[i] = NoInvite
  /\ \E u \in Users, r \in Asked : Enter(c, "authorised", [kind |-> "invite", member |-> u, role |-> r])
  /\ UpToDate(c) /\ UNCHANGED <<now, team>>

CheckInvitee(c) ==
  /\ In(c, {"invite"}, "authorised")
  /\ ~active[task[c].member]
  /\ step' = [step EXCEPT ![c] = "ready"]
  /\ UpToDate(c) /\ UNCHANGED <<now, team, task>>

\* unique_pending_agency_invitation admits one open invitation per address.
SaveInvite(c) ==
  LET u == task[c].member
  IN  /\ In(c, {"invite"}, "ready")
      /\ \A i \in Invitations : ~(invite[i].status = "PENDING" /\ invite[i].for = u)
      /\ \E i \in Invitations :
           /\ invite[i] = NoInvite
           /\ invite' = [invite EXCEPT ![i] = [status |-> "PENDING", for |-> u, role |-> task[c].role,
                                              expires |-> now + InviteTerm]]
      /\ Leave(c) /\ Commit(c, TRUE)
      /\ UNCHANGED <<now, role, active>>

\* get_pending_invitation, outside any transaction.
Answers(i) == IF now >= invite[i].expires THEN {"expire"} ELSE {"accept", "decline"}
ReadInvitation(c) ==
  /\ step[c] = "idle"
  /\ \E i \in Invitations : /\ invite[i].status = "PENDING"
                            /\ \E a \in Answers(i) : Enter(c, "ready", [kind |-> a, invite |-> i])
  /\ UpToDate(c) /\ UNCHANGED <<now, team>>

\* The acceptance overwrites whatever role and activity the profile has by then.
SaveAcceptance(c) ==
  LET i == task[c].invite
  IN  /\ In(c, {"accept"}, "ready")
      /\ role'   = [role EXCEPT ![invite[i].for] = invite[i].role]
      /\ active' = [active EXCEPT ![invite[i].for] = TRUE]
      /\ invite' = [invite EXCEPT ![i].status = "ACCEPTED"]
      /\ Leave(c) /\ Commit(c, TRUE)
      /\ UNCHANGED now

SaveAnswer(c) ==
  /\ In(c, {"decline", "expire"}, "ready")
  /\ invite' = [invite EXCEPT ![task[c].invite].status =
                  IF task[c].kind = "decline" THEN "DECLINED" ELSE "EXPIRED"]
  /\ Leave(c) /\ Commit(c, FALSE)
  /\ UNCHANGED <<now, role, active>>

\* A refusal, an error or a lost connection.
GiveUp(c) == step[c] # "idle" /\ Leave(c) /\ UpToDate(c) /\ UNCHANGED <<now, team>>
-----------------------------------------------------------------------------
Tick == now < MaxTime /\ now' = now + 1 /\ UNCHANGED teamVars

TeamInit ==
  /\ now = 0
  /\ role   = [u \in Users |-> IF u = Founder THEN "OWNER" ELSE "NONE"]
  /\ active = [u \in Users |-> u = Founder]
  /\ invite = [i \in Invitations |-> NoInvite]
  /\ step   = [c \in TeamClients |-> "idle"]
  /\ task   = [c \in TeamClients |-> NoTask]
  /\ late = {} /\ raced = FALSE

TeamStep(c) == \/ BeginMemberChange(c) \/ LoadMember(c) \/ EnsureOtherOwner(c) \/ SaveMember(c)
               \/ BeginInvite(c) \/ CheckInvitee(c) \/ SaveInvite(c)
               \/ ReadInvitation(c) \/ SaveAcceptance(c) \/ SaveAnswer(c) \/ GiveUp(c)
TeamNext == Tick \/ \E c \in TeamClients : TeamStep(c)
TeamSpec == TeamInit /\ [][TeamNext]_<<now, teamVars>>
-----------------------------------------------------------------------------
\* "An agency cannot be left without an active owner."  (docs/agencies.md; the
\* check in ensure_other_owner)
NeverOwnerless == \E u \in Users : IsOwner(u)

\* All that can take the last owner is a race: a removal or demotion of an owner, an
\* invitation or an acceptance that is written although another request wrote between
\* the last thing it read and its own write.  Whatever else overlaps does no harm.
OwnerKept == ~raced => NeverOwnerless
=============================================================================
