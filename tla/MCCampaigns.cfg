SPECIFICATION Spec
CONSTANTS
  c1 = c1 c2 = c2 h1 = h1 gm = gm player = player
  p1 = p1 p2 = p2 s1 = s1 s2 = s2 v1 = v1 v2 = v2 r1 = r1 r2 = r2
  Campaigns = {c1, c2}
  Characters = {h1}
  Users = {gm, player}
  OwnerOf <- Owners
  Gms = {gm}
  Founder = gm
  MaxRows = 3
  PartIds = {p1, p2}
  SessionIds = {s1, s2}
  ReviewIds = {v1}
  MaxNumber = 2
  Requests = {r1, r2}
  NoUser = NoUser NoRequest = NoRequest Null = Null
SYMMETRY Interchangeable
CHECK_DEADLOCK FALSE
INVARIANTS SeatsAgree AutoNumberFree
PROPERTIES RosterPromise ReviewsKept
