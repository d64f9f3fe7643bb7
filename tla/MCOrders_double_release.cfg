SPECIFICATION Spec
CONSTANTS
  apple = apple
  pear = pear
  Products <- TwoProducts
  Quantities <- SmallQuantities
  Orders = {o1}
  Cancels = {c1, c2}
  Updates <- NoTasks
  Carts <- MixedCarts
  MaxFaults = 0
  None = None
INVARIANTS UnitsReturnedOnce
\* Nothing happens once every request is answered.
CHECK_DEADLOCK FALSE
