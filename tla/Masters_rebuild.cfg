SPECIFICATION Spec
CONSTANTS
  rent = rent  tithe = tithe
  Entry = {rent, tithe}
  PeriodOf <- MCPeriodOf
  MaxTime = 1
  MaxRebuilds = 1
  MaxTroubles = 1
INVARIANTS  OneMaster
CHECK_DEADLOCK FALSE
