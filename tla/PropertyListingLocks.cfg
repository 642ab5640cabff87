\* The reminder task next to the hourly task, hosts and staff: who waits for whom.
CONSTANTS
  Scopes = {1, 2}
  Listings = {l1, l2}
  First = l1
  Second = l2
  Units = {1}
  Clients = {c1, c2}
  Host = c1
  Staff = c2
  Upkeep = upkeep
  Expiry = expiry
  Nobody = nobody
  NoListing = noListing
  Does <- Everyone
  StartingTables <- Market
  Stock = {1}
  FreeLimit = 1
  PaidLimit = 2
  Term = 1
  Duration = 1
  Validity = 2
  ReminderDays = 1
  StaleDays = 2
  MaxDays = 2
SPECIFICATION Spec
INVARIANTS NoLockCycle
CHECK_DEADLOCK FALSE
