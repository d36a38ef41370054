SPECIFICATION Spec
CONSTANTS
  Users = {u1, u2}
  Founder = u1
  Emails = {e1, e2}
  FounderEmail = e1
  InviteIds = {i1}
  Requests = {q1}
  NoUser = NoUser
  NoEmail = NoEmail
  NoInvite = NoInvite
  RoleSets <- SomeRoleSets
  UserOps <- RoleOps
  Overlapping <- RoleOps
  MaxRequests = 5
  MaxFaults = 0
INVARIANT LastOwnerStays
CHECK_DEADLOCK FALSE
