------------------------- MODULE ListingTransferMC -------------------------
(* Small instances of ListingTransfer for TLC.                              *)
EXTENDS ListingTransfer, TLC

Interchangeable == Permutations(Clients) \cup Permutations(TeamClients) \cup Permutations(Transfers) \cup Permutations(Users \ {Founder})

\* One request about the team beside those about transfers, or two of them by themselves
\* before a second transfer is sent.  Once time has passed the team only closes
\* invitations that ran out, and after a race it rests (bound).
Busy == {c \in TeamClients : step[c] # "idle"}
Sent == {t \in Transfers : transfer[t] # NoTransfer}
InTurn == /\ Cardinality(Busy) > 1 => Cardinality(Sent) <= 1 /\ \A c \in Clients : stage[c] = "idle"
          /\ \A c \in Busy : ~raced /\ (now > 0 => task[c].kind = "expire")
=============================================================================
