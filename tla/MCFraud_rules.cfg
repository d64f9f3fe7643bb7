SPECIFICATION Spec
CONSTANTS
  Transactions = {t1, t2}
  Replicas = {g1}
  Amounts <- AmountBands
  Counts <- CounterBands
  HighAmount = 10
  CriticalAmount = 50
  MaxVelocity = 5
  MaxFailed = 3
  RedisReliable = FALSE
  None = None
SYMMETRY Sequels
INVARIANTS TypeOK RiskIsMonotone
\* Nothing happens once every transaction is checked and no replica has records.
CHECK_DEADLOCK FALSE
