---------------------------- MODULE MCInventory -----------------------------
(* Small instances of Inventory: one row, fought over by three requests. *)
EXTENDS Inventory

SmallQuantities == 0..2
=============================================================================
