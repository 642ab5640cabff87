------------------------------ MODULE Accounts ------------------------------
(***************************************************************************)
(* Accounts (accounts/views.py, serializers.py, email_verification.py):    *)
(* registration, the address and its verification links, profile edits,    *)
(* passwords and reset links, restriction by staff.  No endpoint locks the *)
(* row: each reads the user, looks at it, and writes later; a profile edit *)
(* writes every column it read, the others a few.                          *)
(***************************************************************************)
EXTENDS Naturals, FiniteSets

CONSTANTS
  Users,      \* User primary keys
  Addresses,  \* email addresses as people type them
  Lower,      \* Lower[a]: the address in lower case
  Passwords,
  Clients,    \* requests in progress
  NoUser, NoAddress,
  MaxLinks    \* links that work at a time (bound)

\* What the constants stand for; whoever instantiates the module assumes it.
Spelling == /\ Lower \in [Addresses -> Addresses] /\ \A a \in Addresses : Lower[Lower[a]] = Lower[a]
            /\ NoAddress \notin Addresses /\ NoUser \notin Users /\ Passwords # {}

VARIABLES
  user,    \* the User rows
  links,   \* verification links that have not expired, [user, email]
  resets,  \* reset links that have not expired, [user, email, password]
  job      \* what each request read

vars == <<user, links, resets, job>>

APassword == CHOOSE p \in Passwords : TRUE
Absent == [email |-> NoAddress, verified |-> FALSE, active |-> TRUE, password |-> APassword, welcomed |-> FALSE]
Idle   == [op |-> "none", user |-> NoUser, seen |-> Absent, email |-> NoAddress]
Exists(u) == user[u].email # NoAddress

\* normalize_email(value).lower(), in the serializers and in the manager.
AsTyped(a) == a
Normalized(a) == Lower[a]

\* The serializers' check: email__iexact, the account itself excepted.
Taken(a, but) == \E u \in Users \ but : Exists(u) /\ Lower[user[u].email] = Lower[a]
\* The database's: a unique column, which compares spellings.
Unique(a, u)  == \A v \in Users \ {u} : user[v].email # a

\* Only what the write will use is kept.
Start(c, op, u, a) == job' = [job EXCEPT ![c] = [op |-> op, user |-> u, email |-> a,
                                                 seen |-> IF op \in {"profile", "verify"} THEN user[u]
                                                          ELSE Absent]]
Done(c) == job' = [job EXCEPT ![c] = Idle]
\* The mail is queued after the commit, and an error there is only logged.
MayMail(u, a) == /\ links' \in {links, links \cup {[user |-> u, email |-> a]}}
                 /\ Cardinality(links') + Cardinality(resets) <= MaxLinks
-----------------------------------------------------------------------------
(* Each request first reads.                                               *)

LoadRegistration(c) ==
  /\ \E a \in Addresses : ~Taken(a, {}) /\ Start(c, "register", NoUser, Normalized(a))

LoadProfile(c) ==
  \E u \in Users, a \in Addresses :
    /\ Exists(u) /\ user[u].active
    /\ ~Taken(a, {u})
    /\ Start(c, "profile", u, Normalized(a))

\* verify_email_token: the link's address must be the account's.
LoadVerification(c) ==
  \E u \in Users :
    /\ user[u].active /\ ~user[u].verified
    /\ [user |-> u, email |-> user[u].email] \in links
    /\ Start(c, "verify", u, NoAddress)

LoadPassword(c) == \E u \in Users : Exists(u) /\ user[u].active /\ Start(c, "password", u, NoAddress)

\* check_token digests the password and the address.
LoadReset(c) ==
  \E u \in Users :
    /\ [user |-> u, email |-> user[u].email, password |-> user[u].password] \in resets
    /\ Start(c, "password", u, NoAddress)

LoadModeration(c) ==
  \E u \in Users : Exists(u) /\ Start(c, IF user[u].active THEN "restrict" ELSE "reinstate", u, NoAddress)

Load(c) ==
  /\ job[c] = Idle
  /\ LoadRegistration(c) \/ LoadProfile(c) \/ LoadVerification(c) \/ LoadPassword(c) \/ LoadReset(c) \/ LoadModeration(c)
  /\ UNCHANGED <<user, links, resets>>
-----------------------------------------------------------------------------
(* ... and then writes.                                                    *)

Insert(c) ==
  /\ job[c].op = "register"
  /\ \E u \in Users, p \in Passwords :
       /\ ~Exists(u) /\ Unique(job[c].email, u)
       /\ user' = [user EXCEPT ![u] = [Absent EXCEPT !.email = job[c].email, !.password = p]]
       /\ MayMail(u, job[c].email)
  /\ Done(c) /\ UNCHANGED resets

\* UserSerializer.update: every column first, the verification in a second statement.
SaveProfile(c) ==
  LET j == job[c]
  IN  /\ j.op = "profile" /\ Unique(j.email, j.user)
      /\ user' = [user EXCEPT ![j.user] = [j.seen EXCEPT !.email = j.email]]
      /\ IF Lower[j.email] = Lower[j.seen.email] THEN Done(c) ELSE job' = [job EXCEPT ![c].op = "unverify"]
      /\ UNCHANGED <<links, resets>>
Unverify(c) ==
  /\ job[c].op = "unverify"
  /\ user' = [user EXCEPT ![job[c].user].verified = FALSE]
  /\ MayMail(job[c].user, job[c].email)
  /\ Done(c) /\ UNCHANGED resets

\* VerifyEmailView, and the welcome mail of enqueue_welcome_email_once after it.
SaveVerified(c) ==
  /\ job[c].op = "verify"
  /\ user' = [user EXCEPT ![job[c].user].verified = TRUE]
  /\ IF job[c].seen.welcomed THEN Done(c) ELSE job' = [job EXCEPT ![c].op = "welcome"]
  /\ UNCHANGED <<links, resets>>
Welcome(c) ==
  /\ job[c].op = "welcome"
  /\ user' = [user EXCEPT ![job[c].user].welcomed = TRUE]
  /\ Done(c) /\ UNCHANGED <<links, resets>>

SavePassword(c) ==
  /\ job[c].op = "password"
  /\ \E p \in Passwords : user' = [user EXCEPT ![job[c].user].password = p]
  /\ Done(c) /\ UNCHANGED <<links, resets>>

SaveModeration(c) ==
  /\ job[c].op \in {"restrict", "reinstate"}
  /\ user' = [user EXCEPT ![job[c].user].active = (job[c].op = "reinstate")]
  /\ Done(c) /\ UNCHANGED <<links, resets>>

\* A refused write, an error, a closed browser.
GiveUp(c) == job[c] # Idle /\ Done(c) /\ UNCHANGED <<user, links, resets>>

Resend == /\ \E u \in Users : Exists(u) /\ user[u].active /\ ~user[u].verified /\ MayMail(u, user[u].email)
          /\ UNCHANGED <<user, resets, job>>

AskReset ==
  /\ \E u \in Users : /\ Exists(u) /\ user[u].active
                      /\ resets' = resets \cup {[user |-> u, email |-> user[u].email, password |-> user[u].password]}
  /\ Cardinality(links) + Cardinality(resets') <= MaxLinks
  /\ UNCHANGED <<user, links, job>>

Expire == /\ \/ \E l \in links : links' = links \ {l} /\ UNCHANGED resets
             \/ \E r \in resets : resets' = resets \ {r} /\ UNCHANGED links
          /\ UNCHANGED <<user, job>>
-----------------------------------------------------------------------------
Init == /\ user = [u \in Users |-> Absent]
        /\ links = {} /\ resets = {}
        /\ job = [c \in Clients |-> Idle]

Write(c) == \/ Insert(c) \/ SaveProfile(c) \/ Unverify(c) \/ SaveVerified(c) \/ Welcome(c)
            \/ SavePassword(c) \/ SaveModeration(c) \/ GiveUp(c)
Next == (\E c \in Clients : Load(c) \/ Write(c)) \/ Resend \/ AskReset \/ Expire

Spec == Init /\ [][Next]_vars
-----------------------------------------------------------------------------
Row == [email: Addresses \cup {NoAddress}, verified: BOOLEAN, active: BOOLEAN,
        password: Passwords, welcomed: BOOLEAN]
TypeOK ==
  /\ user \in [Users -> Row]
  /\ links \subseteq [user: Users, email: Addresses]
  /\ resets \subseteq [user: Users, email: Addresses, password: Passwords]
  /\ job \in [Clients -> [op: {"none", "register", "profile", "unverify", "verify", "welcome", "password",
                               "restrict", "reinstate"},
                          user: Users \cup {NoUser}, seen: Row, email: Addresses \cup {NoAddress}]]

\* Two accounts never have one address in two spellings, although the check that ignores
\* case and the insert are two statements and the unique column compares spellings: log-in,
\* password reset and resend look an account up without case and take the first.
AddressesDistinct ==
  \A u, v \in Users : u # v /\ Exists(u) /\ Exists(v) => Lower[user[u].email] # Lower[user[v].email]
=============================================================================
