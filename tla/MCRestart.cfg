SPECIFICATION RestartSpec
CONSTANTS
  Drivers = {d1, d2}
  Riders = {r1, r2}
  NoDriver = NoDriver
  NoRider = NoRider
  Matchers = {m1}
  Workers = {w1}
  NoOffer = NoOffer
  Fanout = 2
  QueueCap = 2
  MaxRetries = 2
  Responses = {"accept", "reject"}
  RedisCanFail = FALSE
  StoreCanFail = FALSE
CONSTRAINT Running
SYMMETRY Symmetry
INVARIANTS
  NoDoubleBooking
