------------------------- MODULE PropertyListingMC -------------------------
(* Small instances of PropertyListing for TLC.                             *)
EXTENDS PropertyListing

CONSTANTS First, Second,  \* the listings
  Host, Staff   \* one client each

Row(status, available) ==
  [status |-> status, available |-> available, owner |-> 1, age |-> 0, confirmed |-> FALSE,
   dated |-> status = "PUBLISHED", reminded |-> FALSE]

\* A listing on the market, and one that waits for its review.
Market == {[l \in {First, Second} |-> Row(IF l = First THEN "PUBLISHED" ELSE "SUBMITTED", "AVAILABLE")]}

\* The host sells and asks, staff decide and sell plans.
Everyone == [c \in {Host, Staff} |-> IF c = Host THEN HostOps ELSE StaffOps \cup LegacyOps \cup GrantOps]
=============================================================================
