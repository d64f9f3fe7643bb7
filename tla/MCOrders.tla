------------------------------ MODULE MCOrders ------------------------------
(* Small instances of Orders: two products with up to two units, carts of two
   items, one of them naming the same product twice. *)
EXTENDS Orders, TLC

CONSTANTS apple, pear

TwoProducts == {apple, pear}
SmallQuantities == 0..2
One(p) == [product |-> p, quantity |-> 1]
MixedCarts == {<<One(apple), One(pear)>>, <<One(apple), One(apple)>>}
NoTasks == {}
Cancellers == Permutations(Cancels)
=============================================================================
