\* Two owners, two stays and one unit in stock: two requests at a time that publish, renew,
\* transfer, pause (from a copy read earlier) or suspend a stay, while the unit runs out.
CONSTANTS
  Scopes = {1, 2}
  Stays = {s1, s2}
  Units = {1, 2}
  Clients = {c1, c2}
  Beats = {}
  Nobody = nobody
  NoStay = noStay
  StartingAs = {"SUBMITTED", "PUBLISHED"}
  Stock = {1}
  FreeLimit = 1
  PaidLimit = 2
  Term = 1
  GraceTime = 0
  Duration = 1
  Validity = 2
  MaxSubs = 1
  MaxTime = 1
  Workload = {"approve", "accept", "renew", "pause", "grant", "suspend"}
SPECIFICATION Spec
SYMMETRY Interchangeable
CONSTRAINT BeforeSuspension
INVARIANTS UnitsFollowStays CirclesAreListingActions
PROPERTIES PublicationWithinPlan ImplementsPlaceLedger
