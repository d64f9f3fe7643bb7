SPECIFICATION Spec
CONSTANTS
  Publishers = {p1, p2}
  Subscribers <- NoSubscribers
  Messages <- TwoMessages
  RedisReliable = FALSE
  BatchSize = 2
  MaxFaults = 1
INVARIANTS TypeOK MarkedAfterHanded DuplicatesBounded
PROPERTIES RelaysEveryMessage EveryMessageSettles
