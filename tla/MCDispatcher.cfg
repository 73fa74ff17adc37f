SPECIFICATION Spec
CONSTANTS
  Drivers = {d1, d2}
  Riders = {r1}
  Workers = {w1, w2}
  QueueCap = 2
  MaxRetries = 3
  NoOffer = NoOffer
INVARIANTS
  RetryBounded
PROPERTIES
  FullQueueDrains
  WorkersReturn
