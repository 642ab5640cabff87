\* Two owners, two requests about the team at once.
CONSTANTS
  Users = {u1, u2}
  Founder = u1
  Invitations = {i1}
  TeamClients = {c1, c2}
  NoUser = noUser
  Asked = {"OWNER", "ADMIN"}
  InviteTerm = 1
  MaxTime = 0
SPECIFICATION TeamSpec
INVARIANTS NeverOwnerless
