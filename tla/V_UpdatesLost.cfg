SPECIFICATION BothSpec
CONSTANTS
  Drivers = {d1}
  Riders = {r1}
  NoDriver = NoDriver
  Creators = {c1}
  Updaters = {u1}
  MaxRides = 1
  DbCanFail = FALSE
CHECK_DEADLOCK FALSE
PROPERTY UpdatesAreStored
