SPECIFICATION FairSpec
CONSTANTS
  Rec = {r1, r2}
  Request = {q1, q2}
  Account = {bank}
  CashAccount = {}
  CostCenter = {c1}
  Month = {m1}
  CurrentMonth = m1
  Amount = {1}
  Loan = {}
  CreateStatus = {"CLEARED"}
  NoRec = NoRec
  NoRow = NoRow
  NoCostCenter = NoCostCenter
  MaxRequests = 3
  MaxFlips = 0
  MaxLosses = 0
  MaxCrashes = 0
  MaxEdits = 0
  MaxFails = 0
CHECK_DEADLOCK FALSE
PROPERTY VoidIsFinal
