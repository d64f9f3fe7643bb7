SPECIFICATION Spec
CONSTANTS
  Publishers = {p1}
  Subscribers <- NoSubscribers
  Messages <- TwoMessages
  RedisReliable = FALSE
  BatchSize = 2
  MaxFaults = 0
INVARIANTS PublishedReachedRedis
