SPECIFICATION Spec
CONSTANTS
  Drivers = {d1}
  Riders = {r1, r2}
  NoRider = NoRider
  NoDriver = NoDriver
  Nothing = Nothing
  Beats = {h1, h2}
  MaxFix = 3
  MaxTime = 6
  Strict = TRUE
  Reorders = FALSE
  Evicts = TRUE
CHECK_DEADLOCK FALSE
SYMMETRY Symmetry
INVARIANTS
  TypeOK
  SinceOnlyMatching
PROPERTIES
  StatusKept
  ReservationDropped
  LocationMonotonic
