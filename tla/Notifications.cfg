\* Two events announced by two callbacks at once, two rows, two workers, one retry.
CONSTANTS
  Users = {u1}
  Keys = {k1, k2}
  Deliveries = {d1, d2}
  Callbacks = {b1, b2}
  Workers = {w1, w2}
  MaxRetries = 1
SPECIFICATION FairSpec
INVARIANTS TypeOK OneEmailPerEvent
PROPERTIES AcceptedIsFinal EmailsSettle
