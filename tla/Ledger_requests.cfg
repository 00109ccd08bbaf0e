SPECIFICATION Spec
CONSTANTS
  Rec = {r1, r2, r3}
  Request = {q1, q2}
  Account = {bank}
  CashAccount = {}
  CostCenter = {c1}
  Month = {m1}
  CurrentMonth = m1
  Amount = {1}
  Loan = {1}
  CreateStatus = {"PENDING", "CLEARED"}
  NoRec = NoRec
  NoRow = NoRow
  NoCostCenter = NoCostCenter
  MaxRequests = 4
  MaxFlips = 0
  MaxLosses = 0
  MaxCrashes = 0
  MaxEdits = 0
  MaxFails = 0
SYMMETRY Symmetry
CHECK_DEADLOCK FALSE
INVARIANTS ReversalMirrors  CentersAgree
