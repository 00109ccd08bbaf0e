SPECIFICATION Spec
CONSTANTS
  File        <- Files
  Entry       <- Entries
  NoRecord    = NoRecord
  Worker      = Worker
  Request     = {q1}
  MaxUploads  = 2
  MaxRequests = 1
  MaxCancels  = 1
  MaxTroubles = 1
INVARIANTS LinesStoredOnce PendingExplained   
 
CHECK_DEADLOCK FALSE
