SPECIFICATION Spec
CONSTANTS
  ana = ana  rui = rui
  a1 = a1  r1 = r1
  pass = pass
  c1 = c1
  secretary = secretary
  change = change  read = read
  User        = {ana, rui}
  Email       = {a1, r1}
  Lower       <- MCLower
  Password    = {pass}
  Temporal    = pass
  Policy      = {}
  Church      = {c1}
  Permission  = {change, read}
  Role        = {"ADMIN", "MEMBER", secretary}
  BaseRoles   <- MCBaseRoles
  Base        <- MCBase
  Name        = {"Secretary"}
  Needed      <- MCNeeded
  Order       <- Orders
  Staff       <- MCStaff
  Held        <- MCHeld
  Request     = {q1, q2}
  Missing     = Missing
  MaxRequests = 4
  MaxTroubles = 1
SYMMETRY Alike
INVARIANTS CacheFollows GrantsFollow
CHECK_DEADLOCK FALSE
