SPECIFICATION BothSpec
CONSTANTS
  Drivers = {d1, d2, d3}
  Status = {"idle", "busy"}
  Cells <- Row
  NoCell = NoCell
  Nothing = Nothing
  Distance <- Steps
  VeryDense = 3
  Dense = 2
  Sparse = 1
  Targets = {0, 2}
  Reaches = {0, 2}
  Boundary <- Square
  Capacity = 1
  Points <- Grid
  Ranges <- Windows
  MaxPoints = 4
CHECK_DEADLOCK FALSE
SYMMETRY Symmetry
INVARIANTS
  SearchTypeOK
  MapsAgree
  NearbyExact
  AnswerExact
  NearestFirst
  QueryExact
PROPERTIES
  Implements
