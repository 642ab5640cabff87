------------------------------- MODULE Photos -------------------------------
(***************************************************************************)
(* The photos of a property, a stay or a room type, and which of them is   *)
(* the cover (properties/views.py, properties/models.py, stays/models.py). *)
(* A room's photos are saved and deleted under the lock of the room; a     *)
(* stay's rely on a unique constraint; a property's endpoints write the    *)
(* photo, read the gallery again and then repair its cover, each in a      *)
(* transaction of its own.  The order of the photos is left out: the first *)
(* one is any of them.                                                     *)
(***************************************************************************)
EXTENDS FiniteSets, Naturals

CONSTANTS Photos,  \* primary keys
          Clients, \* requests in progress
          None

VARIABLES kind,    \* whose gallery this is
          photo,   \* "cover", "plain" or "absent"
          job      \* what each request read

vars == <<kind, photo, job>>

Kinds   == {"property", "stay", "room"}
Idle    == [op |-> "none", id |-> None, cover |-> FALSE]
Present(gallery) == {p \in Photos : gallery[p] # "absent"}
Covers(gallery)  == {p \in Photos : gallery[p] = "cover"}
As(cover) == IF cover THEN "cover" ELSE "plain"
Go(c, j)  == job' = [job EXCEPT ![c] = j]
\* What is left to do on a property's gallery once a photo was written.
After(c, id) == Go(c, IF kind = "property" THEN [op |-> "look", id |-> id, cover |-> FALSE] ELSE Idle)
-----------------------------------------------------------------------------
(* One photo is written, in one transaction (the three save methods).      *)

Demoted(gallery, p) == [q \in Photos |-> IF gallery[q] = "cover" /\ q # p THEN "plain" ELSE gallery[q]]
SaveKeepsOwnFlag(p, cover) ==
  LET first == FALSE
  IN  photo' = [(IF cover \/ first THEN Demoted(photo, p) ELSE photo) EXCEPT ![p] = As(cover \/ first)]
\* A room's first photo becomes its cover, and so does its only cover when it is saved as plain.
SavePhoto(p, cover) ==
  LET first == kind = "room" /\ Covers(photo) \ {p} = {}
  IN  photo' = [(IF cover \/ first THEN Demoted(photo, p) ELSE photo) EXCEPT ![p] = As(cover \/ first)]

Upload(c) ==
  /\ job[c] = Idle
  /\ \E p \in Photos, cover \in BOOLEAN :
       /\ photo[p] = "absent"
       /\ SavePhoto(p, cover /\ kind # "property")
       /\ After(c, None)
  /\ UNCHANGED kind

\* A change keeps the flag it read unless it carries one; deletions are read first too.
LoadPhoto(c) ==
  /\ job[c] = Idle
  /\ \E p \in Present(photo), cover \in BOOLEAN, op \in {"change", "delete"} :
       Go(c, [op |-> op, id |-> p, cover |-> cover])
  /\ UNCHANGED <<kind, photo>>
Change(c) ==
  /\ job[c].op = "change"
  /\ SavePhoto(job[c].id, job[c].cover)
  /\ \/ After(c, None)
     \/ job[c].cover /\ After(c, job[c].id)     \* the request itself asked for the cover
  /\ UNCHANGED kind

\* RoomTypeImage.delete makes another photo the cover when it took the cover away.
Delete(c) ==
  /\ job[c].op = "delete"
  /\ LET rest == [photo EXCEPT ![job[c].id] = "absent"]
     IN  photo' \in IF kind = "room" /\ Covers(rest) = {} /\ Present(rest) # {}
                    THEN {[rest EXCEPT ![p] = "cover"] : p \in Present(rest)}
                    ELSE {rest}
  /\ After(c, None)
  /\ UNCHANGED kind
-----------------------------------------------------------------------------
(* ensure_property_cover: the gallery is read, the winner marked later.    *)

Look(c) ==
  /\ job[c].op = "look"
  /\ LET wanted == job[c].id
         seen   == Present(photo)
     IN  \/ seen = {} /\ Go(c, Idle)
         \/ wanted \notin seen /\ Cardinality(Covers(photo)) = 1 /\ Go(c, Idle)
         \/ wanted \in seen /\ Go(c, [job[c] EXCEPT !.op = "mark"])
         \/ /\ wanted \notin seen /\ Covers(photo) = {}
            /\ \E p \in seen : Go(c, [job[c] EXCEPT !.op = "mark", !.id = p])
  /\ UNCHANGED <<kind, photo>>

\* Two updates in one transaction: none is a cover, then the winner is, if it still exists.
Mark(c) ==
  /\ job[c].op = "mark"
  /\ photo' = [p \in Photos |-> IF photo[p] = "absent" THEN "absent" ELSE As(p = job[c].id)]
  /\ Go(c, Idle)
  /\ UNCHANGED kind

\* A refused file, an error, a crash between two transactions.
GiveUp(c) == job[c] # Idle /\ Go(c, Idle) /\ UNCHANGED <<kind, photo>>
-----------------------------------------------------------------------------
Init == /\ kind \in Kinds
        /\ photo = [p \in Photos |-> "absent"]
        /\ job = [c \in Clients |-> Idle]

Step(c) == Upload(c) \/ LoadPhoto(c) \/ Change(c) \/ Delete(c) \/ Look(c) \/ Mark(c) \/ GiveUp(c)
Next == \E c \in Clients : Step(c)
Spec == Init /\ [][Next]_vars
-----------------------------------------------------------------------------
TypeOK == /\ kind \in Kinds
          /\ photo \in [Photos -> {"absent", "plain", "cover"}]
          /\ job \in [Clients -> [op: {"none", "change", "delete", "look", "mark"},
                                  id: Photos \cup {None}, cover: BOOLEAN]]

\* A gallery never has two covers, and a room that has photos has one, whichever stale
\* change or second deletion arrives: search pages show the cover or nothing.
OneCover == /\ Cardinality(Covers(photo)) <= 1
            /\ kind = "room" /\ Present(photo) # {} => Covers(photo) # {}
=============================================================================
