SPECIFICATION Spec
CONSTANTS
  Rec = {r1, r2, r3}
  Request = {q1, q2}
  Account = {cash}
  CashAccount = {cash}
  CostCenter = {}
  Month = {m1, m2}
  CurrentMonth = m1
  Amount = {1}
  Loan = {1}
  CreateStatus = {"CLEARED"}
  NoRec = NoRec
  NoRow = NoRow
  NoCostCenter = {}
  MaxRequests = 3
  MaxFlips = 1
  MaxLosses = 1
  MaxCrashes = 1
  MaxEdits = 1
  MaxFails = 1
SYMMETRY Symmetry
CONSTRAINT OneDisturbance
CHECK_DEADLOCK FALSE
INVARIANTS AuditTrail PostedOnce MasterFollows 
 
