SPECIFICATION Spec
CONSTANTS
  Products = {apple}
  Quantities <- SmallQuantities
  Requests = {r1, r2, r3}
  None = None
INVARIANTS TypeOK
PROPERTIES AtomicStock EveryRequestEnds
\* Nothing happens once every request is answered.
CHECK_DEADLOCK FALSE
