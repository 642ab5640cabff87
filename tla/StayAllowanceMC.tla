--------------------------- MODULE StayAllowanceMC ---------------------------
(* Small instances of StayAllowance for TLC.                                *)
EXTENDS StayAllowance, TLC

Interchangeable == Permutations(Stays) \cup Permutations(Clients)

\* What follows a suspension is not looked at, nor two suspensions at once, nor any once
\* time has passed (bound).
BeforeSuspension ==
  /\ \A s \in Stays : status[s] # "SUSPENDED"
  /\ \A c \in Clients : request[c].kind \in Legacy => now = 0
  /\ Cardinality({c \in Clients : request[c].kind \in Legacy}) <= 1
=============================================================================
