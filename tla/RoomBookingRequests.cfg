\* Two cases, one after the other (Contested): bookings of one or two nights, some of them
\* retries with one idempotency key, and confirmations, against changes of the calendar
\* and of the quantity of one room type; and a booking of one night against publication
\* changes, room closures and automatic pauses, which lock both rooms and the stay.
CONSTANTS
  Bookings = {b1, b2}
  Clients = {c1, c2}
  Workers = {}
  Rooms = {1, 2}
  s1 = s1
  s2 = s2
  Stays <- OneStay
  StayOf <- AllOfOne
  Keys = {k1}
  NoKey = NoKey
  NoRow = NoRow
  Nobody = Nobody
  Workload = {"create", "CONFIRMED", "bulk", "resize", "pause", "write", "deactivate", "CANCELLED", "COMPLETED"}
  LastDay = 2
  MaxUnits = 1
  MaxTime = 1
  HoldTime = 1
SPECIFICATION Spec
SYMMETRY Interchangeable
CONSTRAINT Contested
INVARIANTS TypeOK NeverOversold CalendarWithinQuantity RetryFindsFirst NoLockCycle
PROPERTIES PauseSparesObligations AcceptedOnlyIfOpen
