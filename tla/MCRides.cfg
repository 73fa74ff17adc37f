SPECIFICATION BothSpec
CONSTANTS
  Drivers = {d1, d2}
  Riders = {r1, r2}
  NoDriver = NoDriver
  Creators = {c1, c2}
  Updaters = {u1}
  MaxRides = 3
  DbCanFail = TRUE
CHECK_DEADLOCK FALSE
SYMMETRY Symmetry
INVARIANTS
  BothTypeOK
  CreatedOnce
PROPERTIES
  PostgresImplements
  MemoryImplements
