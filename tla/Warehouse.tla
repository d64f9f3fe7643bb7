----------------------------- MODULE Warehouse ------------------------------
(***************************************************************************)
(* A catalog whose stock is moved by atomic operations and never goes      *)
(* below zero.                                                             *)
(***************************************************************************)
EXTENDS Naturals

CONSTANTS
  Products,    \* product ids
  Quantities   \* quantities and stock levels that requests name

ASSUME QuantitiesAssumption == Quantities \subseteq Nat

VARIABLES
  phase,   \* product -> "new" (no row yet), "active", "inactive" or "deleted"
  stock    \* product -> units that can still be reserved

warehouseVars == <<phase, stock>>

Listed(p) == phase[p] \in {"active", "inactive"}

WarehouseTypeOK ==
  /\ phase \in [Products -> {"new", "active", "inactive", "deleted"}]
  /\ stock \in [Products -> Nat]

WarehouseInit ==
  /\ phase = [p \in Products |-> "new"]
  /\ stock = [p \in Products |-> 0]

Add(p, units) ==
  /\ phase[p] = "new"
  /\ phase' = [phase EXCEPT ![p] = "active"]
  /\ stock' = [stock EXCEPT ![p] = units]

CanReserve(p, q) == phase[p] = "active" /\ stock[p] >= q

Reserve(p, q) ==
  /\ CanReserve(p, q)
  /\ stock' = [stock EXCEPT ![p] = @ - q]
  /\ UNCHANGED phase

(* A withdrawn product still takes its units back. *)
Release(p, q) ==
  /\ Listed(p)
  /\ stock' = [stock EXCEPT ![p] = @ + q]
  /\ UNCHANGED phase

(* The operations staff sets the stock level, the activity flag, or both. *)
Edit(p, units, ph) ==
  /\ Listed(p)
  /\ stock' = [stock EXCEPT ![p] = units]
  /\ phase' = [phase EXCEPT ![p] = ph]

Remove(p) ==
  /\ Listed(p)
  /\ phase' = [phase EXCEPT ![p] = "deleted"]
  /\ UNCHANGED stock
=============================================================================
