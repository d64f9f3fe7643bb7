-------------------------- MODULE AtomicWarehouse --------------------------
(***************************************************************************)
(* What the product service promises to its callers: a request answered    *)
(* with success has had exactly the effect it asked for, once and in one   *)
(* step; a refused one has had none, and nothing else moves the catalog.   *)
(***************************************************************************)
EXTENDS Warehouse

CONSTANTS Requests, Jobs, None   \* as in Inventory

VARIABLES
  asked,   \* request -> what it asks for, or None
  state,   \* request -> "new", "open", "done" (answered with success) or "refused"
  due      \* edit -> the columns it has yet to set

atomicVars == <<warehouseVars, asked, state, due>>

AtomicInit ==
  /\ WarehouseInit
  /\ asked = [r \in Requests |-> None]
  /\ state = [r \in Requests |-> "new"]
  /\ due = [r \in Requests |-> {}]

(* What an edit gives for a column, or None; and what the column has. *)
Wanted(j, c) == IF c = "stock" THEN j.units ELSE j.phase
Current(p, c) == IF c = "stock" THEN stock[p] ELSE phase[p]

NamedColumns(j) == {c \in {"stock", "phase"} : j.op = "update" /\ Wanted(j, c) # None}

Ask(r, j) ==
  /\ state[r] = "new"
  /\ asked' = [asked EXCEPT ![r] = j]
  /\ state' = [state EXCEPT ![r] = "open"]
  /\ due' = [due EXCEPT ![r] = NamedColumns(j)]
  /\ UNCHANGED warehouseVars

(* A column that has the value asked for need not be set. *)
Spare(r, columns) ==
  /\ state[r] = "open" /\ asked[r].op = "update"
  /\ columns \subseteq due[r]
  /\ \A c \in columns : Wanted(asked[r], c) = Current(asked[r].product, c)
  /\ due' = [due EXCEPT ![r] = @ \ columns]
  /\ UNCHANGED <<warehouseVars, asked, state>>

(* What r asks for, done at once. Removing what is gone does nothing. *)
Effect(r) ==
  LET j == asked[r]
      p == j.product
      Set(c) == IF c \in due[r] THEN Wanted(j, c) ELSE Current(p, c)
  IN \/ j.op = "reserve" /\ Reserve(p, j.quantity)
     \/ j.op = "release" /\ Release(p, j.quantity)
     \/ j.op = "update" /\ Edit(p, Set("stock"), Set("phase"))
     \/ j.op = "delete" /\ Remove(p)
     \/ j.op = "delete" /\ phase[p] = "deleted" /\ UNCHANGED warehouseVars

Answer(r, s) ==
  /\ state' = [state EXCEPT ![r] = s]
  /\ due' = [due EXCEPT ![r] = {}]
  /\ UNCHANGED asked

Perform(r) == state[r] = "open" /\ Effect(r) /\ Answer(r, "done")
Refuse(r) == state[r] = "open" /\ Answer(r, "refused") /\ UNCHANGED warehouseVars
Enter(r, p, units) == state[r] = "new" /\ Add(p, units) /\ Answer(r, "done")

AtomicNext ==
  \E r \in Requests :
    \/ \E j \in Jobs : Ask(r, j)
    \/ \E columns \in SUBSET due[r] : Spare(r, columns)
    \/ Perform(r) \/ Refuse(r)
    \/ \E p \in Products, units \in Quantities : Enter(r, p, units)

AtomicSpec == AtomicInit /\ [][AtomicNext]_atomicVars
=============================================================================
