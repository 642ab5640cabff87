\* A pause that read the stay before it changed hands.
CONSTANTS
  Scopes = {1, 2}
  Stays = {s1}
  Units = {}
  Clients = {c1, c2}
  Beats = {}
  Nobody = nobody
  NoStay = noStay
  StartingAs = {"PUBLISHED"}
  Stock = {}
  FreeLimit = 2
  PaidLimit = 2
  Term = 1
  GraceTime = 0
  Duration = 1
  Validity = 2
  MaxSubs = 1
  MaxTime = 0
  Workload = {"pause", "accept"}
SPECIFICATION Spec
SYMMETRY Interchangeable
PROPERTIES OwnerChangesByTransfer
