\* The hourly task, which may be killed, against a host whose extra stay loses its unit,
\* is paused, resubmitted, reinstated or renewed, and staff who sell and cancel plans.
\* No symmetry: TLC must not merge states when it checks liveness.
CONSTANTS
  Scopes = {1}
  Stays = {s1}
  Units = {1, 2}
  Clients = {c1}
  Beats = {b1}
  Nobody = nobody
  NoStay = noStay
  StartingAs = {"PUBLISHED"}
  Stock = {1, 2}
  FreeLimit = 0
  PaidLimit = 1
  Term = 1
  GraceTime = 1
  Duration = 1
  Validity = 3
  MaxSubs = 1
  MaxTime = 2
  Workload = {"renew", "subscribe", "oblige", "abort", "submit", "refuse", "reinstate", "cancel"}
SPECIFICATION FairSpec
INVARIANTS TypeOK
PROPERTIES OverstaysEnd ReviewsClose
