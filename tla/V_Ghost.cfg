SPECIFICATION Spec
CONSTANTS
  Drivers = {d1}
  Riders = {r1}
  NoRider = NoRider
  NoDriver = NoDriver
  Nothing = Nothing
  Beats = {h1}
  MaxFix = 2
  MaxTime = 3
  Strict = FALSE
  Reorders = TRUE
  Evicts = TRUE
CHECK_DEADLOCK FALSE
INVARIANT IndexMirrors
