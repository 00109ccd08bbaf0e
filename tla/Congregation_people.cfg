SPECIFICATION PeopleSpec
CONSTANTS
  ana = ana  eva = eva  ivo = ivo
  a1 = a1  b1 = b1  B1 = B1
  d1 = d1  secret = secret  other = other  first = first
  c1 = c1  c2 = c2
  m1 = m1  k1 = k1
  User        = {ana, eva, ivo}
  Email       = {a1, b1, B1}
  Lower       <- MCLower
  Password    = {d1, secret, other, first}
  Temporal    = first
  Policy      = {"v1"}
  Church      = {c1, c2}
  Permission  = {"all"}
  Role        = {"ADMIN", "MEMBER"}
  BaseRoles   <- MCBaseRoles
  Base        <- MCBase
  Name        = {}
  Needed      <- MCNeeded
  Order       <- Orders
  Staff       <- MCStaff
  Held        <- MCHeld
  Request     = {q1, q2}
  Missing     = Missing
  MaxRequests = 3
  MaxTroubles = 1
  Member      = {m1}
  Dni         = {d1}
  Minister    = {p1, p2}
  Clergy      = {p1, p2}
  Customer    = {k1}
  Applicant   <- MCApplicant
SYMMETRY Alike
INVARIANTS LastWordKept  LinksAgree CompletedIsUsable
CHECK_DEADLOCK FALSE
