SPECIFICATION Spec
CONSTANTS
  Requests = {q1, q2, q3, q4}
  Replicas = {g1, g2}
  MaxRequests = 2
  Window = 3
  Concurrency = 2
  Delay = 1
  Horizon = 4
SYMMETRY Clients
INVARIANTS TypeOK OverrunBounded LocalLimitHolds RejectedAtLimit
\* Nothing happens once every request has its verdict and the clock is at its bound.
CHECK_DEADLOCK FALSE
