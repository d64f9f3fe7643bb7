----------------------------- MODULE Inventory ------------------------------
(***************************************************************************)
(* The product service on PostgreSQL: each request is one database         *)
(* transaction; reserve and release select the row FOR UPDATE, update and  *)
(* delete select it without a lock and write later.                        *)
(***************************************************************************)
EXTENDS Naturals

CONSTANTS
  Products, Quantities,   \* as in Warehouse
  Requests,               \* HTTP requests
  None

ASSUME InventoryAssumption ==
  /\ Quantities \subseteq Nat
  /\ None \notin Requests /\ None \notin Quantities

VARIABLES
  phase, stock,  \* the products table, as committed (see Warehouse)
  lock,          \* product -> the request that holds its row lock, or None
  pc,            \* request -> where it is suspended
  job,           \* request -> what it asks for
  seen           \* request -> the row as its SELECT returned it

tableVars == <<phase, stock>>
vars == <<tableVars, lock, pc, job, seen>>

Phases == {"new", "active", "inactive", "deleted"}
Steps == {"idle", "select", "write", "done", "refused"}
Listed(p) == phase[p] \in {"active", "inactive"}

(* StockReservationRequest, ProductUpdateRequest (a field left out is None), DELETE *)
StockJob == [op : {"reserve", "release"}, product : Products, quantity : Quantities \ {0}]
EditJob == [op : {"update"}, product : Products, units : Quantities \cup {None},
            phase : {"active", "inactive", None}]
DeleteJob == [op : {"delete"}, product : Products]
Jobs == StockJob \cup EditJob \cup DeleteJob

Row == [stock : Nat, phase : Phases]

TypeOK ==
  /\ phase \in [Products -> Phases]
  /\ stock \in [Products -> Nat]
  /\ lock \in [Products -> Requests \cup {None}]
  /\ pc \in [Requests -> Steps]
  /\ job \in [Requests -> Jobs \cup {None}]
  /\ seen \in [Requests -> Row \cup {None}]

Init ==
  /\ phase = [p \in Products |-> "new"]
  /\ stock = [p \in Products |-> 0]
  /\ lock = [p \in Products |-> None]
  /\ pc = [r \in Requests |-> "idle"]
  /\ job = [r \in Requests |-> None]
  /\ seen = [r \in Requests |-> None]

-----------------------------------------------------------------------------
Goto(r, s) == pc' = [pc EXCEPT ![r] = s]

(* create_product: INSERT, under a fresh id. *)
Create(r, p, units) ==
  /\ pc[r] = "idle" /\ phase[p] = "new"
  /\ phase' = [phase EXCEPT ![p] = "active"]
  /\ stock' = [stock EXCEPT ![p] = units]
  /\ Goto(r, "done")
  /\ UNCHANGED <<lock, job, seen>>

Arrive(r, j) ==
  /\ pc[r] = "idle"
  /\ job' = [job EXCEPT ![r] = j]
  /\ Goto(r, "select")
  /\ UNCHANGED <<tableVars, lock, seen>>

TheRow(p) == [stock |-> stock[p], phase |-> phase[p]]

(* Fault: the comparison lets one unit too many go. *)
RefusesOffByOne(j, row) ==
  \/ row.phase \notin {"active", "inactive"}
  \/ j.op = "reserve" /\ row.phase = "inactive"
  \/ j.op = "reserve" /\ row.stock + 1 < j.quantity

(* reserve_stock's and release_stock's checks of the row; a refusal is rolled back
   and leaves no lock. *)
Refuses(j, row) ==
  \/ row.phase \notin {"active", "inactive"}
  \/ j.op = "reserve" /\ row.phase = "inactive"
  \/ j.op = "reserve" /\ row.stock < j.quantity

(* Fault: plain SELECT in reserve_stock and release_stock. *)
SelectUnlocked(r) ==
  LET p == job[r].product
  IN /\ pc[r] = "select" /\ job[r].op \in {"reserve", "release"}
     /\ IF Refuses(job[r], TheRow(p))
        THEN Goto(r, "refused") /\ UNCHANGED seen
        ELSE Goto(r, "write") /\ seen' = [seen EXCEPT ![r] = TheRow(p)]
     /\ UNCHANGED <<tableVars, lock, job>>

(* Fault: a refused request keeps its transaction, and the lock, open. *)
SelectKeepsLock(r) ==
  LET p == job[r].product
  IN /\ pc[r] = "select" /\ job[r].op \in {"reserve", "release"}
     /\ lock[p] = None
     /\ lock' = [lock EXCEPT ![p] = r]
     /\ IF Refuses(job[r], TheRow(p))
        THEN Goto(r, "refused") /\ UNCHANGED seen
        ELSE Goto(r, "write") /\ seen' = [seen EXCEPT ![r] = TheRow(p)]
     /\ UNCHANGED <<tableVars, job>>

SelectForUpdate(r) ==
  LET p == job[r].product
  IN /\ pc[r] = "select" /\ job[r].op \in {"reserve", "release"}
     /\ lock[p] = None
     /\ \/ /\ Refuses(job[r], TheRow(p))
           /\ Goto(r, "refused")
           /\ UNCHANGED <<lock, seen>>
        \/ /\ ~Refuses(job[r], TheRow(p))
           /\ lock' = [lock EXCEPT ![p] = r]
           /\ seen' = [seen EXCEPT ![r] = TheRow(p)]
           /\ Goto(r, "write")
     /\ UNCHANGED <<tableVars, job>>

(* stock_quantity -= quantity or += quantity on the row as read, and COMMIT. *)
CommitStock(r) ==
  LET p == job[r].product
      moved == IF job[r].op = "reserve" THEN seen[r].stock - job[r].quantity
                                        ELSE seen[r].stock + job[r].quantity
  IN /\ pc[r] = "write" /\ job[r].op \in {"reserve", "release"}
     /\ stock' = [stock EXCEPT ![p] = moved]
     /\ lock' = [lock EXCEPT ![p] = None]
     /\ Goto(r, "done")
     /\ UNCHANGED <<phase, job, seen>>

(* update_product and delete_product: SELECT without a lock. *)
Select(r) ==
  LET p == job[r].product
  IN /\ pc[r] = "select" /\ job[r].op \in {"update", "delete"}
     /\ \/ /\ ~Listed(p)
           /\ Goto(r, "refused")
           /\ UNCHANGED seen
        \/ /\ Listed(p)
           /\ seen' = [seen EXCEPT ![r] = TheRow(p)]
           /\ Goto(r, "write")
     /\ UNCHANGED <<tableVars, lock, job>>

(* The ORM writes only the columns whose value differs from the one it read. *)
Changed(new, old) == new # None /\ new # old

(* The UPDATE waits for the row lock; if the row has gone, or nothing is left to
   refresh, the request ends with an error. *)
CommitUpdate(r) ==
  LET j == job[r]
      p == j.product
  IN /\ pc[r] = "write" /\ j.op = "update"
     /\ (Changed(j.units, seen[r].stock) \/ Changed(j.phase, seen[r].phase)) => lock[p] = None
     /\ \/ /\ ~Listed(p)
           /\ Goto(r, "refused")
           /\ UNCHANGED tableVars
        \/ /\ Listed(p)
           /\ stock' = [stock EXCEPT ![p] = IF Changed(j.units, seen[r].stock) THEN j.units ELSE @]
           /\ phase' = [phase EXCEPT ![p] = IF Changed(j.phase, seen[r].phase) THEN j.phase ELSE @]
           /\ Goto(r, "done")
     /\ UNCHANGED <<lock, job, seen>>

(* A DELETE that finds no row is a warning. *)
CommitDelete(r) ==
  LET p == job[r].product
  IN /\ pc[r] = "write" /\ job[r].op = "delete"
     /\ lock[p] = None
     /\ phase' = [phase EXCEPT ![p] = "deleted"]
     /\ Goto(r, "done")
     /\ UNCHANGED <<stock, lock, job, seen>>

(* The process or its database connection dies: PostgreSQL rolls back. *)
RollBack(r) ==
  /\ pc[r] \in {"select", "write"}
  /\ lock' = [p \in Products |-> IF lock[p] = r THEN None ELSE lock[p]]
  /\ Goto(r, "refused")
  /\ UNCHANGED <<tableVars, job, seen>>

Serve(r) ==
  SelectForUpdate(r) \/ CommitStock(r) \/ Select(r) \/ CommitUpdate(r) \/ CommitDelete(r)

Next ==
  \E r \in Requests :
    \/ \E p \in Products, units \in Quantities : Create(r, p, units)
    \/ \E j \in Jobs : Arrive(r, j)
    \/ Serve(r)
    \/ RollBack(r)

(* The event loop and the database give every waiting request its turn: a row lock
   is granted to those that keep waiting for it. *)
Spec == Init /\ [][Next]_vars /\ \A r \in Requests : SF_vars(Serve(r))

-----------------------------------------------------------------------------
(* Properties *)

(* How a request looks to its caller. *)
StateOf(r) ==
  CASE pc[r] = "idle" -> "new"
    [] pc[r] \in {"select", "write"} -> "open"
    [] pc[r] \in {"done", "refused"} -> pc[r]

(* The columns an update gives a value for and, once it has read the row, will write. *)
ToWrite(r) ==
  {c \in {"stock", "phase"} :
     LET wanted == IF c = "stock" THEN job[r].units ELSE job[r].phase
     IN /\ pc[r] \in {"select", "write"} /\ job[r].op = "update"
        /\ IF pc[r] = "select" THEN wanted # None ELSE Changed(wanted, seen[r][c])}

(* Row locking makes the product service a warehouse of atomic operations, whatever
   transactions overlap: a reservation or release answered with success has moved
   the stock, as it then was, by its units; an update has set the columns it named
   and no other, but those it found as asked; a delete has removed the row; and
   a refused request has changed nothing. *)
Atomic == INSTANCE AtomicWarehouse WITH
  asked <- job,
  state <- [r \in Requests |-> StateOf(r)],
  due <- [r \in Requests |-> ToWrite(r)]
AtomicStock == Atomic!AtomicSpec

(* Every request ends: a row lock is always given back. *)
EveryRequestEnds == \A r \in Requests : pc[r] = "select" ~> pc[r] \in {"done", "refused"}
=============================================================================
