SPECIFICATION Spec
CONSTANTS
  Item        = {i1, i2}
  Week        = 7
  LastDay     = 16
  Creation    <- MCCreation
  Edit        <- MCEdit
  Request     = {q1, q2}
  Missing     = Missing
  MaxRequests = 5
SYMMETRY Alike
INVARIANTS WeekShowsCalendar WeekAnswers
CHECK_DEADLOCK FALSE
