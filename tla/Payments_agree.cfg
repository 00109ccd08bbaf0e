SPECIFICATION Spec
CONSTANTS
  Account        = {a1}
  NoAccount      = NoAccount
  Contribution   = {x1, x2}
  NoContribution = NoContribution
  NoDoc          = NoDoc
  Nan            = Nan
  Installment    = {1, 2}
  Price          = {2}
  Sum            = {0, 1, 2, 3, 4, 5}
  Amount         = {1, 3}
  List           <- OneOrBoth
  Request        = {q1, q2}
  MaxRequests    = 3
  MaxLosses      = 1
  MaxCrashes     = 1
  MaxFails       = 1
SYMMETRY Symmetry
CONSTRAINT OneDisturbance
INVARIANTS AccountsAgree InstallmentsAddUp InReviewBacked ReviewEnds RecordsMatch
CHECK_DEADLOCK FALSE
