SPECIFICATION Spec
CONSTANTS
  bell = bell  plate = plate  photo = photo
  deacon = deacon  visitor = visitor  k1 = k1  k2 = k2
  Asset    = {bell}
  Request  = {q1, q2}
  File     = {plate, photo}
  Person   = {deacon, visitor}
  Member   = {deacon}
  Name     = {k1, k2}
  Code     = {k1, k2}
  Quantity = {1, 2}
  Draft    <- Drafts
  Edit     <- Edits
  Count    <- Counts
  Sheet    <- Sheets
  Missing  = Missing
  MaxRequests = 3
  MaxImports  = 1
  MaxTroubles = 1
SYMMETRY Symmetry
INVARIANTS  FilesMatch
PROPERTY HistoryGrows
CHECK_DEADLOCK FALSE
