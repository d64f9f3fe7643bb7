SPECIFICATION Spec
CONSTANTS
  Publishers <- OneRelay
  Subscribers <- Listeners
  OrderReplicas <- OrderService
  NotificationReplicas <- NotificationService
  Messages = {1, 2, 3}
  Submits = {1, 2}
  Orders = {1, 2}
  Cancels = {c1}
  Keys = {1, 2}
  CallKeys = {3}
  MaxPaying = 2
  MaxSends = 2
  MaxFaults = 1
  RedisReliable = TRUE
  UseMock = FALSE
  None = None
  Done = Done
  relay = relay
  orders1 = orders1
  notify1 = notify1
INVARIANTS ShownIsPaid
CHECK_DEADLOCK FALSE
