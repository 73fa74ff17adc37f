SPECIFICATION Spec
CONSTANTS
  Drivers = {d1, d2}
  Riders = {r1, r2}
  NoDriver = NoDriver
  NoRider = NoRider
  Matchers = {m1, m2}
  Workers = {w1, w2}
  NoOffer = NoOffer
  Fanout = 2
  QueueCap = 2
  MaxRetries = 3
  Responses = {"accept", "reject"}
  RedisCanFail = TRUE
  StoreCanFail = FALSE
SYMMETRY Symmetry
INVARIANTS
  NoDoubleBooking
