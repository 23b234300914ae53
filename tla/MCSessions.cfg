SPECIFICATION Spec
CONSTANTS
  r1 = r1 r2 = r2 u1 = u1
  Users = {u1}
  Requests = {r1, r2}
  NoUser = NoUser
  TicksPerSecond = 2
  AccessLife = 1
  RefreshLife = 2
  ResetLife = 1
  Faults = {"crash", "revokeReply"}
  MaxTokens = 4
  LastIssue = 1
  MaxTime = 5
SYMMETRY Interchangeable
CHECK_DEADLOCK FALSE
INVARIANTS RotatedOnce LinkHeldByOne LastRevocationHolds LogoutHolds
