SPECIFICATION Spec
CONSTANTS
  Drivers = {d1, d2}
  Riders = {r1}
  NoDriver = NoDriver
  NoRider = NoRider
  Matchers = {m1}
  Workers = {w1, w2}
  NoOffer = NoOffer
  Fanout = 2
  QueueCap = 1
  MaxRetries = 2
  Responses = {"accept"}
  RedisCanFail = TRUE
  StoreCanFail = TRUE
CONSTRAINT Running
SYMMETRY Symmetry
INVARIANTS
  RideBeforeBusy
  NoStaleIntent
PROPERTIES
  NobodyStranded
  FirstAcceptWins
  RideKept
