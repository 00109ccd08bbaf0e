SPECIFICATION Spec
CONSTANTS
  c1 = c1  c2 = c2
  sale = sale  buy = buy
  Symbol = {"R$", "USD"}
  Statements <- MCStatements
  Church = {c1, c2}
  Entry = {sale, buy}
  Purchase = {buy}
  PeriodOf <- MCPeriodOf
  MonthsPerYear = 2
  UserPeriod <- MCUserPeriod
  MaxTime = 1
  MaxRequests = 1
  MaxTroubles = 1
INVARIANTS ReportsAgree  PurchaseExplained
PROPERTIES OpenedByUserOnly MonthsGetClosed
CHECK_DEADLOCK FALSE
