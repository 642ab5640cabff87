----------------------------- MODULE StaffRoles -----------------------------
(***************************************************************************)
(* Staff roles and who holds them (accounts/views.py, "SurePlace / ..."    *)
(* groups).  Superusers create, change, delete and assign roles; nothing   *)
(* is locked, and each statement commits on its own.                       *)
(***************************************************************************)
EXTENDS Integers, FiniteSets

CONSTANTS
  Roles,       \* auth.Group rows that may come to exist                  (bound)
  Names, Fold, \* names, and the name iexact compares                     (bound)
  Catalog,     \* STAFF_PERMISSION_KEYS
  Members,     \* staff accounts, not superusers
  Clients,     \* requests in progress at once                            (bound)
  Lasting,     \* requests, in all                                        (bound)
  None

\* A role as stored.
Rows == [name : Names, permissions : SUBSET Catalog]

\* What the constants stand for; whoever instantiates the module assumes it.
Terms == /\ None \notin Roles \cup Members \cup Rows
         /\ Roles \cap Members = {} /\ Roles \cap Catalog = {}

VARIABLES
  role,    \* [name, permissions], None before and after
  held,    \* User.groups
  job,     \* requests between two statements
  answer,  \* what was last answered about a role's permissions and a member's roles
  left

vars == <<role, held, job, answer, left>>

_managed_roles == {r \in Roles : role[r] # None}
Idle == [op |-> "none", of |-> None, name |-> None, set |-> {}, old |-> {}, alone |-> TRUE]
Request == left > 0 /\ left' = left - 1
\* A request about a row makes those under way about it, and itself, no longer alone.
Start(c, req) ==
  LET others == {d \in Clients : job[d].of = req.of /\ job[d].of # None}
  IN  /\ job[c] = Idle
      /\ job' = [d \in Clients |-> IF d = c THEN [req EXCEPT !.alone = others = {}]
                                   ELSE IF d \in others THEN [job[d] EXCEPT !.alone = FALSE] ELSE job[d]]
Step(c, req) == job' = [job EXCEPT ![c] = req]
Finish(c) == Step(c, Idle)
Answered(c) == answer' = [answer EXCEPT ![job[c].of] = IF job[c].alone THEN job[c].set ELSE None]
\* The rows no longer follow an answer.
Unanswered(c) == answer' = [answer EXCEPT ![job[c].of] = None]

Taken(name, but) == {r \in _managed_roles \ {but} : Fold[role[r].name] = Fold[name]}
\* The unique key of Group.name.
Refused(name, but) == \E r \in _managed_roles \ {but} : role[r].name = name
-----------------------------------------------------------------------------
Post(c) == /\ Request
           /\ \E name \in Names, set \in SUBSET Catalog :
                /\ Taken(name, None) = {}
                /\ Start(c, [Idle EXCEPT !.op = "create", !.name = name, !.set = set])
           /\ UNCHANGED <<role, held, answer>>
Create(c) == /\ job[c].op = "create" /\ ~Refused(job[c].name, None)
             /\ \E r \in Roles : /\ role[r] = None /\ \A d \in Clients : job[d].of # r  \* ids are not used again
                                 /\ role' = [role EXCEPT ![r] = [name |-> job[c].name, permissions |-> {}]]
                                 /\ Step(c, [job[c] EXCEPT !.op = "add", !.of = r, !.alone = TRUE])
             /\ UNCHANGED <<held, answer, left>>

\* A PATCH without "permissions" asks for none.
Patch(c) == /\ Request
            /\ \E r \in _managed_roles, name \in Names, set \in SUBSET Catalog :
                 /\ Taken(name, r) = {}
                 /\ Start(c, [Idle EXCEPT !.op = "rename", !.of = r, !.name = name, !.set = set])
            /\ UNCHANGED <<role, held, answer>>
Rename(c) == /\ job[c].op = "rename" /\ role[job[c].of] # None /\ ~Refused(job[c].name, job[c].of)
             /\ role' = [role EXCEPT ![job[c].of].name = job[c].name]
             /\ Step(c, [job[c] EXCEPT !.op = "read"])
             /\ UNCHANGED <<held, answer, left>>
\* permissions.set(): the ids there are, then those too many go and those missing come.
Read(c) == /\ job[c].op = "read" /\ role[job[c].of] # None
           /\ Step(c, [job[c] EXCEPT !.op = "add", !.old = role[job[c].of].permissions])
           /\ UNCHANGED <<role, held, answer, left>>
Add(c) == LET req == job[c] IN
          /\ req.op = "add" /\ role[req.of] # None
          /\ role' = [role EXCEPT ![req.of].permissions = (@ \ (req.old \ req.set)) \cup (req.set \ req.old)]
          /\ Answered(c) /\ Finish(c) /\ UNCHANGED <<held, left>>

\* The role leaves its holders with it; what was answered about them holds without it.
Delete(r) == /\ Request /\ role[r] # None
             /\ role' = [role EXCEPT ![r] = None] /\ held' = [u \in Members |-> held[u] \ {r}]
             /\ answer' = [k \in DOMAIN answer |-> IF k = r \/ answer[k] = None THEN None ELSE answer[k] \ {r}]
             /\ UNCHANGED job
-----------------------------------------------------------------------------
(* PUT of the roles of a member.                                           *)

Put(c) == /\ Request
          /\ \E u \in Members, set \in SUBSET _managed_roles :
               Start(c, [Idle EXCEPT !.op = "remove", !.of = u, !.set = set])
          /\ UNCHANGED <<role, held, answer>>
Remove(c) == /\ job[c].op = "remove"
             /\ held' = [held EXCEPT ![job[c].of] = @ \ (_managed_roles \ job[c].set)]
             /\ Step(c, [job[c] EXCEPT !.op = "grant"]) /\ Unanswered(c)
             /\ UNCHANGED <<role, left>>
\* A role deleted meanwhile fails the whole statement, after the removal.
Grant(c) == /\ job[c].op = "grant" /\ job[c].set \subseteq _managed_roles
            /\ held' = [held EXCEPT ![job[c].of] = @ \cup job[c].set]
            /\ Answered(c) /\ Finish(c) /\ UNCHANGED <<role, left>>
Stop(c) == /\ job[c] # Idle /\ IF job[c].of = None THEN UNCHANGED answer ELSE Unanswered(c)
           /\ Finish(c) /\ UNCHANGED <<role, held, left>>

Init == /\ role = [r \in Roles |-> None] /\ held = [u \in Members |-> {}]
        /\ job = [c \in Clients |-> Idle]
        /\ answer = [k \in Roles \cup Members |-> None] /\ left = Lasting
Next == \/ \E c \in Clients : \/ Post(c) \/ Create(c) \/ Patch(c) \/ Rename(c) \/ Read(c) \/ Add(c)
                              \/ Put(c) \/ Remove(c) \/ Grant(c) \/ Stop(c)
        \/ \E r \in Roles : Delete(r)
Spec == Init /\ [][Next]_vars
-----------------------------------------------------------------------------
TypeOK == /\ \A r \in _managed_roles : role[r] \in Rows
          /\ DOMAIN job = Clients /\ left \in 0..Lasting

\* Nobody holds a role that is gone, no two roles have one name, and while no other request
\* about a role or a member overlaps, its permissions or roles are those that the last
\* answer listed, whatever deletions came between.
RolesAsAnswered ==
  /\ \A u \in Members : held[u] \subseteq _managed_roles
  /\ \A r, s \in _managed_roles : role[r].name = role[s].name => r = s
  /\ \A k \in DOMAIN answer :
       answer[k] # None /\ (\A c \in Clients : job[c].of # k)
         => answer[k] = IF k \in Members THEN held[k] ELSE role[k].permissions
=============================================================================
