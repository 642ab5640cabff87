--------------------------- MODULE SavedSearches ---------------------------
(***************************************************************************)
(* Saved searches (alerts/, notifications/tasks.py).  A search is          *)
(* evaluated by the periodic task and by its owner's check; its owner      *)
(* edits, switches off and deletes it meanwhile.  The task keeps the rows  *)
(* it read when it started and, after a match, writes one back in full.    *)
(***************************************************************************)
EXTENDS Naturals, FiniteSets

CONSTANTS
  Listings,
  Searches,  \* SavedSearch primary keys
  Criteria,
  Meets,     \* Meets[k]: the listings that satisfy criteria k
  Workers,   \* runs of the task and requests in progress
  Chosen,    \* the frequencies owners choose, of INSTANT, DAILY, WEEKLY and OFF
  Week,      \* days between weekly checks, 7 in the code
  MaxDay     \* the last day looked at (bound)

VARIABLES
  day,       \* today
  listed,    \* the listings that are published and available
  search,    \* SavedSearch rows
  events,    \* SearchAlertEvent rows: <<search, listing>>
  announced, \* how often a listing was reported as a new match of a search
  job        \* what each worker read

vars == <<day, listed, search, events, announced, job>>

Period   == [INSTANT |-> 0, DAILY |-> 1, WEEKLY |-> Week]
Row      == [criteria: Criteria, frequency: Chosen \cup {"OFF"}, on: BOOLEAN, checked: 0..MaxDay]  \* 0: never
Absent   == [criteria |-> CHOOSE k \in Criteria : TRUE, frequency |-> "OFF", on |-> TRUE, checked |-> 0]
Exists(s) == search[s] # Absent
Idle     == [op |-> "none", rows |-> [s \in {} |-> Absent], left |-> {}, found |-> 0]
Go(w, j) == job' = [job EXCEPT ![w] = j]
Only(s, row) == [x \in {s} |-> row]      \* the rows of a request about one search
Next1(w) == CHOOSE s \in DOMAIN job[w].rows : TRUE
-----------------------------------------------------------------------------
(* The owner's requests.                                                   *)

\* validate: with frequency OFF, notifications are off.
Wanted(row) == row \in Row /\ (row.frequency = "OFF" => ~row.on)
Create == /\ \E s \in Searches, row \in Row : /\ ~Exists(s) /\ Wanted(row) /\ row.checked = 0
                                              /\ search' = [search EXCEPT ![s] = row]
          /\ UNCHANGED <<day, listed, events, announced, job>>

LoadEdit(w) ==
  /\ job[w] = Idle
  /\ \E s \in Searches, row \in Row :
       /\ Exists(s) /\ Wanted(row) /\ row.checked = search[s].checked
       /\ Go(w, [Idle EXCEPT !.op = "edit", !.rows = Only(s, row)])
  /\ UNCHANGED <<day, listed, search, events, announced>>
\* A save of a row that was deleted meanwhile inserts it again.
Edit(w) ==
  /\ job[w].op = "edit"
  /\ search' = [search EXCEPT ![Next1(w)] = job[w].rows[Next1(w)]]
  /\ Go(w, Idle)
  /\ UNCHANGED <<day, listed, events, announced>>

Delete == /\ \E s \in Searches : /\ Exists(s)
                                 /\ search' = [search EXCEPT ![s] = Absent]
                                 /\ events' = {e \in events : e[1] # s}
                                 /\ announced' = [announced EXCEPT ![s] = [l \in Listings |-> 0]]
          /\ UNCHANGED <<day, listed, job>>
-----------------------------------------------------------------------------
(* Evaluation.                                                             *)

Matches(row) == Meets[row.criteria] \cap listed

\* The task reads all enabled searches at its start and keeps those that are due.
Due(row) == row.checked = 0 \/ row.checked + Period[row.frequency] <= day
StartTask(w) ==
  /\ job[w] = Idle
  /\ LET rows == [s \in {x \in Searches : Exists(x) /\ search[x].on /\ search[x].frequency # "OFF"
                                          /\ Due(search[x])} |-> search[s]]
     IN  DOMAIN rows # {} /\ Go(w, [op |-> "due", rows |-> rows, left |-> {}, found |-> 0])
  /\ UNCHANGED <<day, listed, search, events, announced>>

StartCheck(w) ==
  /\ job[w] = Idle
  /\ \E s \in Searches : Exists(s) /\ Go(w, [Idle EXCEPT !.op = "check", !.rows = Only(s, search[s])])
  /\ UNCHANGED <<day, listed, search, events, announced>>

\* evaluate: the matches are read ...
Evaluate(w) ==
  /\ job[w].op \in {"due", "check"}
  /\ Go(w, [job[w] EXCEPT !.op = IF @ = "due" THEN "dueItems" ELSE "checkItems",
                          !.left = Matches(job[w].rows[Next1(w)]), !.found = 0])
  /\ UNCHANGED <<day, listed, search, events, announced>>

\* ... and get_or_create makes an event of each that has none yet.
IsNewWhenAsked(e) == TRUE
IsNew(e) == e \notin events
Item(w) ==
  LET s == Next1(w)
  IN  /\ job[w].op \in {"dueItems", "checkItems"} /\ Exists(s)
      /\ \E l \in job[w].left :
           /\ events' = events \cup {<<s, l>>}
           /\ announced' = IF IsNew(<<s, l>>) THEN [announced EXCEPT ![s][l] = @ + 1] ELSE announced
           /\ Go(w, [job[w] EXCEPT !.left = @ \ {l}, !.found = IF IsNew(<<s, l>>) THEN @ + 1 ELSE @])
      /\ UNCHANGED <<day, listed, search>>

\* The check's time, alone; the task notifies and saves the row it read, if it found any.
Rest(w) == [job[w] EXCEPT !.op = "due", !.rows = [x \in DOMAIN @ \ {Next1(w)} |-> @[x]]]
Checked(w) ==
  LET s == Next1(w)
  IN  /\ job[w].op \in {"dueItems", "checkItems"} /\ job[w].left = {} /\ Exists(s)
      /\ search' = [search EXCEPT ![s].checked = day]
      /\ Go(w, IF job[w].op = "dueItems" /\ job[w].found > 0
               THEN [job[w] EXCEPT !.op = "notified", !.rows[s].checked = day]
               ELSE IF DOMAIN Rest(w).rows = {} THEN Idle ELSE Rest(w))
      /\ UNCHANGED <<day, listed, events, announced>>
SaveNotified(w) ==
  /\ job[w].op = "notified"
  /\ search' = [search EXCEPT ![Next1(w)] = job[w].rows[Next1(w)]]
  /\ Go(w, IF DOMAIN Rest(w).rows = {} THEN Idle ELSE Rest(w))
  /\ UNCHANGED <<day, listed, events, announced>>

\* An error, among them the write to a search that was deleted, ends the request or the run.
GiveUp(w) == job[w] # Idle /\ Go(w, Idle) /\ UNCHANGED <<day, listed, search, events, announced>>
-----------------------------------------------------------------------------
Market == /\ \E l \in Listings : listed' = (listed \ {l}) \cup ({l} \ listed)
          /\ UNCHANGED <<day, search, events, announced, job>>
Tick == /\ day < MaxDay /\ day' = day + 1
        /\ UNCHANGED <<listed, search, events, announced, job>>

Init == /\ day = 1 /\ listed = Listings
        /\ search = [s \in Searches |-> Absent]
        /\ events = {}
        /\ announced = [s \in Searches |-> [l \in Listings |-> 0]]
        /\ job = [w \in Workers |-> Idle]

Step(w) == \/ LoadEdit(w) \/ Edit(w) \/ StartTask(w) \/ StartCheck(w) \/ Evaluate(w) \/ Item(w)
           \/ Checked(w) \/ SaveNotified(w) \/ GiveUp(w)
Next == (\E w \in Workers : Step(w)) \/ Create \/ Delete \/ Market \/ Tick
Spec == Init /\ [][Next]_vars
-----------------------------------------------------------------------------
TypeOK ==
  /\ day \in 1..MaxDay /\ listed \subseteq Listings
  /\ \A s \in Searches : Exists(s) => Wanted(search[s])
  /\ events \subseteq Searches \X Listings
  /\ announced \in [Searches -> [Listings -> Nat]]
  /\ \A w \in Workers : /\ DOMAIN job[w].rows \subseteq Searches /\ job[w].left \subseteq Listings
                        /\ job[w].found \in 0..Cardinality(Listings)

\* A listing is reported as a new match of a search once, whether the task's runs overlap
\* each other, the owner's checks or edits.
MatchCountedOnce == \A s \in Searches, l \in Listings : announced[s][l] <= 1
=============================================================================
