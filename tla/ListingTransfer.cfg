\* One listing, two users, one of whom founded the agency, two requests about
\* transfers and two about the team at once (InTurn).
CONSTANTS
  Users = {u1, u2}
  Founder = u1
  Invitations = {i1}
  TeamClients = {d1, d2}
  NoUser = noUser
  Asked = {"OWNER"}
  InviteTerm = 1
  MaxTime = 1
  Listings = {l1}
  Transfers = {t1, t2}
  Clients = {c1, c2}
  Agency = agency
  Targets = {agency, u2}
  Nobody = nobody
  TransferTerm = 1
SPECIFICATION Spec
CONSTRAINT InTurn
SYMMETRY Interchangeable
INVARIANTS TypeOK NoOrphans
PROPERTIES DecidedOnce MovesAsRequested
