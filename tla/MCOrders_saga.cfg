SPECIFICATION Spec
CONSTANTS
  apple = apple
  pear = pear
  Products <- TwoProducts
  Quantities <- SmallQuantities
  Orders = {o1}
  Cancels = {c1, c2}
  Updates = {u1}
  Carts <- MixedCarts
  MaxFaults = 1
  None = None
SYMMETRY Cancellers
INVARIANTS TypeOK PersistedIsReserved CompensatesOnlyReserved ReturnsPerCancel BooksBalance
\* Nothing happens once every request is answered.
CHECK_DEADLOCK FALSE
