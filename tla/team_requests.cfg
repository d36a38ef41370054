SPECIFICATION Spec
CONSTANTS
  Users = {u1, u2, u3}
  Founder = u1
  Emails = {e1, e2}
  FounderEmail = e1
  InviteIds = {i1, i2}
  Requests = {q1, q2}
  NoUser = NoUser
  NoEmail = NoEmail
  NoInvite = NoInvite
  RoleSets <- SomeRoleSets
  UserOps <- Everything
  Overlapping <- RoleChanges
  MaxRequests = 4
  MaxFaults = 1
SYMMETRY Symmetry
INVARIANTS
  TypeOK
  OwnerRowStays
  NobodyStranded
  OneAccountPerEmail
  InvitationsSettle
CHECK_DEADLOCK FALSE
