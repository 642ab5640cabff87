------------------------------ MODULE Viewings ------------------------------
(***************************************************************************)
(* Viewing requests (bookings/views.py): a guest asks for a slot, the host *)
(* confirms, declines or completes, the guest cancels or asks for another  *)
(* time.  An endpoint reads without a lock, and its statements commit one  *)
(* by one; a change is refused to no status.  What its conversation and    *)
(* its people are told after the save is the subject of Messaging and of   *)
(* Notifications.                                                          *)
(***************************************************************************)
EXTENDS Naturals

CONSTANTS
  Guests, Listings, Slots,
  Viewings, \* ViewingRequest primary keys
  Clients,  \* requests in progress
  None

VARIABLES
  published, \* the listings on the market
  viewing,   \* ViewingRequest rows
  job        \* what each client read

vars == <<published, viewing, job>>

Holding   == {"PENDING", "CONFIRMED", "RESCHEDULE_REQUESTED"}
Ended     == {"DECLINED", "CANCELLED", "COMPLETED"}
Statuses  == Holding \cup Ended
NoRow     == [status |-> "NONE", guest |-> None, listing |-> None, slot |-> None]
Idle      == [op |-> "none", viewing |-> None, row |-> NoRow]
Active(v) == viewing[v].status \in Holding
Same(x, y) == <<x.guest, x.listing, x.slot>> = <<y.guest, y.listing, y.slot>>
Go(c, j)  == job' = [job EXCEPT ![c] = j]

\* The constraint unique_active_viewing_request, checked by the insert and by every save.
UniquePending(v, row) ==
  row.status = "PENDING" => \A w \in Viewings \ {v} : viewing[w].status = "PENDING" => ~Same(viewing[w], row)
Unique(v, row) ==
  row.status \in Holding => \A w \in Viewings \ {v} : Active(w) => ~Same(viewing[w], row)
-----------------------------------------------------------------------------
\* create_viewing looks for an active request of this guest for this slot ...
LoadRequest(c) ==
  /\ job[c] = Idle
  /\ \E g \in Guests, l \in published, s \in Slots :
       LET row == [status |-> "PENDING", guest |-> g, listing |-> l, slot |-> s]
       IN  /\ ~\E v \in Viewings : Active(v) /\ Same(viewing[v], row)
           /\ Go(c, [op |-> "insert", viewing |-> None, row |-> row])
  /\ UNCHANGED <<published, viewing>>

\* ... and inserts one when its conversation has been opened.
InsertRequest(c) ==
  /\ job[c].op = "insert"
  /\ \E v \in Viewings :
       /\ viewing[v] = NoRow /\ Unique(v, job[c].row)
       /\ viewing' = [viewing EXCEPT ![v] = job[c].row]
  /\ Go(c, Idle)
  /\ UNCHANGED published

\* _change reads the request and saves all of it.
LoadChange(c) ==
  /\ job[c] = Idle
  /\ \E v \in Viewings, s \in Statuses \ {"PENDING"} :
       /\ viewing[v] # NoRow
       /\ Go(c, [op |-> "change", viewing |-> v, row |-> [viewing[v] EXCEPT !.status = s]])
  /\ UNCHANGED <<published, viewing>>
Change(c) ==
  /\ job[c].op = "change" /\ Unique(job[c].viewing, job[c].row)
  /\ viewing' = [viewing EXCEPT ![job[c].viewing] = job[c].row]
  /\ Go(c, Idle)
  /\ UNCHANGED published

\* A refused write, an error, a crash between two statements.
GiveUp(c) == job[c] # Idle /\ Go(c, Idle) /\ UNCHANGED <<published, viewing>>

Market == /\ \E l \in Listings : published' = (published \ {l}) \cup ({l} \ published)
          /\ UNCHANGED <<viewing, job>>
-----------------------------------------------------------------------------
Init == /\ published = Listings
        /\ viewing = [v \in Viewings |-> NoRow]
        /\ job = [c \in Clients |-> Idle]

Step(c) == \/ LoadRequest(c) \/ InsertRequest(c) \/ LoadChange(c) \/ Change(c) \/ GiveUp(c)
Next == (\E c \in Clients : Step(c)) \/ Market
Spec == Init /\ [][Next]_vars
-----------------------------------------------------------------------------
Rows == [status: Statuses, guest: Guests, listing: Listings, slot: Slots] \cup {NoRow}
TypeOK ==
  /\ published \subseteq Listings
  /\ viewing \in [Viewings -> Rows]
  /\ job \in [Clients -> [op: {"none", "insert", "change"}, viewing: Viewings \cup {None}, row: Rows]]

\* A guest holds one appointment for one slot at most, although requests are read before
\* they are inserted and a host may confirm a request that was cancelled and asked again.
OneActiveViewing ==
  \A v, w \in Viewings : Active(v) /\ Active(w) /\ v # w => ~Same(viewing[v], viewing[w])
=============================================================================
