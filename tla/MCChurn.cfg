SPECIFICATION ChurnSpec
CONSTANTS
  Drivers = {d1}
  Riders = {r1, r2}
  NoDriver = NoDriver
  NoRider = NoRider
  Matchers = {m1}
  Workers = {w1}
  NoOffer = NoOffer
  Fanout = 1
  QueueCap = 1
  MaxRetries = 2
  Responses = {"accept", "reject"}
  RedisCanFail = FALSE
  StoreCanFail = FALSE
CONSTRAINT Running
CHECK_DEADLOCK FALSE
SYMMETRY Symmetry
INVARIANTS
  ChurnTypeOK
  RideBeforeBusy
  NoStaleIntent
