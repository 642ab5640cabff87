\* The expiry worker against guests and managers: progress, and the refinement of
\* RoomLedger.  No symmetry: TLC must not merge states when it checks liveness.
CONSTANTS
  Bookings = {b1, b2}
  Clients = {c1, w1}
  Workers = {w1}
  Rooms = {1}
  s1 = s1
  s2 = s2
  Stays <- OneStay
  StayOf <- AllOfOne
  Keys = {}
  NoKey = NoKey
  NoRow = NoRow
  Nobody = Nobody
  Workload = {"create", "CONFIRMED", "DECLINED", "CANCELLED", "EXPIRED"}
  LastDay = 1
  MaxUnits = 1
  MaxTime = 2
  HoldTime = 1
SPECIFICATION FairSpec
PROPERTIES LapsedHoldsAreResolved StatusFollowsGraph ImplementsLedger
