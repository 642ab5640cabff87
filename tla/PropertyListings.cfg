\* A host, a moderator, staff who grant and cancel and both tasks,
\* around two listings and one extra unit.
CONSTANTS
  Scopes = {1, 2}
  Listings = {l1, l2}
  First = l1
  Second = l2
  Units = {1, 2}
  Clients = {c1, c2}
  Host = c1
  Staff = c2
  Upkeep = upkeep
  Expiry = expiry
  Nobody = nobody
  NoListing = noListing
  Does <- Everyone
  StartingTables <- Market
  Stock = {1}
  FreeLimit = 1
  PaidLimit = 2
  Term = 1
  Duration = 1
  Validity = 2
  ReminderDays = 1
  StaleDays = 2
  MaxDays = 2
SPECIFICATION FairSpec
INVARIANTS TypeOK UnitsFollowListing
PROPERTIES PublicationWithinPlan ConfirmedStaysUp LapseWithdraws StaleLeaves
CHECK_DEADLOCK FALSE
