----------------------------- MODULE Favourites -----------------------------
(***************************************************************************)
(* Favourites (favourites/): a request looks for the pair it is to insert, *)
(* inserts it later, and meets the unique constraint of the table.         *)
(***************************************************************************)
EXTENDS Naturals, FiniteSets

CONSTANTS Users, Listings,
          Favourites, \* Favourite primary keys
          Clients,    \* requests in progress
          None

VARIABLES favourite,  \* Favourite rows, <<user, listing>> or None
          job         \* the pair a request found to be new

Pair(u, l) == <<u, l>>
Has(p)  == \E f \in Favourites : favourite[f] = p
vars    == <<favourite, job>>

Validate(c) == /\ job[c] = None
               /\ \E u \in Users, l \in Listings : ~Has(Pair(u, l)) /\ job' = [job EXCEPT ![c] = Pair(u, l)]
               /\ UNCHANGED favourite

\* unique_user_property_favourite and unique_user_stay_favourite.
UniqueAtValidation(p) == TRUE
Unique(p) == ~Has(p)
Insert(c) == /\ job[c] # None /\ Unique(job[c])
             /\ \E f \in Favourites : favourite[f] = None /\ favourite' = [favourite EXCEPT ![f] = job[c]]
             /\ job' = [job EXCEPT ![c] = None]
Refuse(c) == job[c] # None /\ job' = [job EXCEPT ![c] = None] /\ UNCHANGED favourite
Remove == \E f \in Favourites : favourite[f] # None /\ favourite' = [favourite EXCEPT ![f] = None] /\ UNCHANGED job

Init == favourite = [f \in Favourites |-> None] /\ job = [c \in Clients |-> None]
Next == (\E c \in Clients : Validate(c) \/ Insert(c) \/ Refuse(c)) \/ Remove
Spec == Init /\ [][Next]_vars
-----------------------------------------------------------------------------
TypeOK == /\ favourite \in [Favourites -> (Users \X Listings) \cup {None}]
          /\ job \in [Clients -> (Users \X Listings) \cup {None}]

\* A user favours a listing once, although two requests find that they do not.
OneFavourite == \A f, g \in Favourites : favourite[f] # None /\ favourite[f] = favourite[g] => f = g
=============================================================================
