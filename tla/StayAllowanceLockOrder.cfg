\* One stay that is suspended by staff, transferred and paused by its host, two at a time.
CONSTANTS
  Scopes = {1, 2}
  Stays = {s1}
  Units = {1}
  Clients = {c1, c2}
  Beats = {}
  Nobody = nobody
  NoStay = noStay
  StartingAs = {"PUBLISHED"}
  Stock = {1}
  FreeLimit = 1
  PaidLimit = 2
  Term = 1
  GraceTime = 0
  Duration = 1
  Validity = 2
  MaxSubs = 1
  MaxTime = 0
  Workload = {"suspend", "accept", "pause"}
SPECIFICATION Spec
INVARIANTS NoLockCycle
