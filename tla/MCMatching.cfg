SPECIFICATION Spec
CONSTANTS
  Drivers = {d1, d2}
  Riders = {r1, r2}
  NoDriver = NoDriver
  NoRider = NoRider
  Matchers = {m1, m2}
  Workers = {w1, w2}
  NoOffer = NoOffer
  Fanout = 2
  QueueCap = 2
  MaxRetries = 3
  Responses = {"accept", "reject"}
  RedisCanFail = FALSE
  StoreCanFail = FALSE
SYMMETRY Symmetry
INVARIANTS
  TypeOK
  NoDoubleBooking
  RideKeepsDriver
  SoleClaim
  ClaimsReserved
  ReservationHeld
  NoRollback
  GroupExpires
PROPERTIES
  Implements
