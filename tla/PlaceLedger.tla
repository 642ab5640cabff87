----------------------------- MODULE PlaceLedger -----------------------------
(***************************************************************************)
(* What a host, staff and the hourly task may rely on, without locks,      *)
(* transactions or reads of old rows: each operation on an owner's places  *)
(* happens at once.  A stay goes live within its owner's plan or on a      *)
(* grant of the owner's, spent once, oldest first and only when the plan   *)
(* is full; it leaves the market when it is withdrawn, or when its grant   *)
(* has run out, its owner's plan is overfull and it owes no guest a night. *)
(* A publication and a lapse may be judged as of an instant that is past.  *)
(* StayAllowance implements it.                                            *)
(***************************************************************************)
EXTENDS Integers, FiniteSets

CONSTANTS
  Owners, Stays, Grants,
  Limits,     \* what a plan may allow
  Length,     \* how long a grant covers the stay it is spent on
  Lifetime,   \* how long it may be kept before
  LastTime

VARIABLES
  now,
  live, owner,   \* stays on the market, and the owner of each
  owed,          \* stays that owe their guests something
  grant,         \* grant[g]: whose it is, and the stay and time it covers
  plan           \* plan[o][t]: how many stays o's plan covered at t, or will

vars == <<now, live, owner, owed, grant, plan>>

Times == 0..LastTime

Covered(s, t) == \E g \in Grants : /\ grant[g].status = "ACTIVE" /\ grant[g].stay = s
                                   /\ grant[g].until > t
\* The stays on the market that the owner's plan has to cover.
Uncovered(o, t) == Cardinality({s \in live : owner[s] = o /\ ~Covered(s, t)})

Unspent(o, t) == {g \in Grants : /\ grant[g].status = "UNUSED" /\ grant[g].owner = o
                                 /\ grant[g].until > t}
Oldest(grants) == {g \in grants : \A h \in grants : g <= h}

\* Whether a grant was ever spent on the stay: such a stay does not change hands.
Granted(s) == \E g \in Grants : grant[g].stay = s

\* The grant is spent, and what has run out on the stay is closed.
Spent(g, s) ==
  [h \in Grants |->
     IF h = g THEN [grant[h] EXCEPT !.status = "ACTIVE", !.stay = s, !.since = now,
                                    !.until = now + Length]
     ELSE IF grant[h].status = "ACTIVE" /\ grant[h].stay = s /\ grant[h].until <= now
       THEN [grant[h] EXCEPT !.status = "EXPIRED"]
     ELSE grant[h]]
-----------------------------------------------------------------------------
Init ==
  /\ now = 0
  /\ live \subseteq Stays /\ owner \in [Stays -> Owners] /\ owed = {}
  /\ \A g \in Grants : /\ grant[g].status \in {"NONE", "UNUSED"} /\ grant[g].stay \notin Stays
                       /\ grant[g].status = "UNUSED" => grant[g].owner \in Owners
  /\ plan \in [Owners -> [Times -> Limits]]

\* A stay goes live for o, who has it already or receives it.
Publish(s, o) ==
  /\ s \notin live \/ owner[s] # o
  /\ owner[s] # o => ~Granted(s)
  /\ live' = live \cup {s}
  /\ owner' = [owner EXCEPT ![s] = o]
  /\ UNCHANGED <<now, owed, plan>>
  /\ \E t \in 0..now :
       \/ Covered(s, t) /\ UNCHANGED grant
       \/ Uncovered(o, t) < plan[o][t] /\ UNCHANGED grant
       \/ /\ ~Covered(s, t) /\ Uncovered(o, t) = plan[o][t]
          /\ \E g \in Oldest(Unspent(o, t)) : grant' = Spent(g, s)

\* A stay that no grant covers any more gets another of its owner's.
Renew(s) ==
  /\ ~Covered(s, now)
  /\ \E g \in Oldest(Unspent(owner[s], now)) : grant' = Spent(g, s)
  /\ UNCHANGED <<now, live, owner, owed, plan>>

Withdraw(s) ==
  /\ s \in live
  /\ live' = live \ {s}
  /\ UNCHANGED <<now, owner, owed, grant, plan>>

\* A stay changes hands off the market: by a transfer that finds it there, or back to
\* a former owner by a pause that read it before.
HandOver(s, o) ==
  /\ owner[s] # o /\ ~Granted(s)
  /\ owner' = [owner EXCEPT ![s] = o]
  /\ live' = live \ {s}
  /\ UNCHANGED <<now, owed, grant, plan>>

\* A grant that has run out is closed; its stay keeps its place if a grant spent later
\* replaced this one, another covers it, its owner's plan has room, or guests are due.
Lapse(g) ==
  LET s == grant[g].stay
      Replaced == \E h \in Grants : grant[h].stay = s /\ grant[h].since > grant[g].since
  IN  /\ s \in Stays
      /\ \E t \in 0..now :
           /\ grant[g].until <= t
           /\ live' = IF Replaced \/ Covered(s, t) \/ Uncovered(owner[s], t) <= plan[owner[s]][t]
                         \/ s \in owed
                      THEN live ELSE live \ {s}
      /\ grant' = [grant EXCEPT ![g].status = "EXPIRED"]
      /\ UNCHANGED <<now, owner, owed, plan>>

\* Staff give an owner the next grant, or sell, prolong or end the owner's plan; the
\* hourly task ends it.
Give(g, o) ==
  /\ grant[g].status = "NONE" /\ \A h \in Grants : h < g => grant[h].status # "NONE"
  /\ grant' = [grant EXCEPT ![g].status = "UNUSED", ![g].owner = o, ![g].until = now + Lifetime]
  /\ UNCHANGED <<now, live, owner, owed, plan>>
Replan(o) ==
  /\ UNCHANGED <<now, live, owner, owed, grant>>
  /\ \E p \in [Times -> Limits] : plan' = [plan EXCEPT ![o] = p]

Owe(s) ==
  /\ s \in live
  /\ owed' = owed \cup {s}
  /\ UNCHANGED <<now, live, owner, grant, plan>>
Discharge(s) ==
  /\ owed' = owed \ {s}
  /\ UNCHANGED <<now, live, owner, grant, plan>>

Pass == /\ now' \in Times /\ now' = now + 1
        /\ UNCHANGED <<live, owner, owed, grant, plan>>

Next ==
  \/ \E s \in Stays : \/ \E o \in Owners : Publish(s, o) \/ HandOver(s, o)
                      \/ Renew(s) \/ Withdraw(s) \/ Owe(s) \/ Discharge(s)
  \/ \E g \in Grants : Lapse(g) \/ \E o \in Owners : Give(g, o)
  \/ \E o \in Owners : Replan(o)
  \/ Pass

Spec == Init /\ [][Next]_vars
=============================================================================
